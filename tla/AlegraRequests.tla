--------------------------- MODULE AlegraRequests ---------------------------
(***************************************************************************)
(* The HTTP side of the Alegra client: coroutines of one process that take *)
(* slots of a common rate limiter, send, and retry what may be retried.    *)
(*                                                                         *)
(* Moments are relative to the present, so that time has no bound: what    *)
(* lies more than an interval back is forgotten.  A coroutine that is due  *)
(* may be late, as asyncio.sleep may, but it never runs early.  Alegra     *)
(* does what a request asks or not, and its answer may be lost or be an    *)
(* error all the same.                                                     *)
(***************************************************************************)
EXTENDS Integers, FiniteSets

CONSTANTS
    Tasks,        \* coroutines, each with one request
    Posts,        \* those that POST; the others GET
    MaxRetries,   \* attempts of a GET
    Interval,     \* 60 / requests_per_minute
    MaxDelay      \* bound on a delay that Alegra or the backoff asks for

ASSUME RequestAssumption ==
    /\ Posts \subseteq Tasks
    /\ MaxRetries \in Nat \ {0} /\ Interval \in Nat \ {0}
    /\ MaxDelay \in Nat \ {0}

VARIABLES
    nextRequestAt,  \* the limiter, counted from now
    task,           \* each coroutine
    done,           \* history: how often Alegra did what the task asks
    slots           \* history: the moments the limiter gave out, to whom

requestVars == <<nextRequestAt, task, done, slots>>

Waiting == {"slot", "asleep", "ready"}
Outcomes == {"none", "ok", "credentials", "permanent", "retryable"}

Fresh == [pc |-> "idle", attempt |-> 0, wake |-> 0, outcome |-> "none"]

RequestInit ==
    /\ nextRequestAt = 0
    /\ task = [t \in Tasks |-> Fresh]
    /\ done = [t \in Tasks |-> 0]
    /\ slots = {}

Attempts(t) == IF t \in Posts THEN 1 ELSE MaxRetries

Sooner(moment, floor) == IF moment > floor THEN moment - 1 ELSE floor

\* time.monotonic() advances.
Tick ==
    /\ nextRequestAt' = Sooner(nextRequestAt, -Interval)
    /\ task' = [t \in Tasks |-> [task[t] EXCEPT !.wake = Sooner(@, 0)]]
    /\ slots' = {<<s[1] - 1, s[2], s[3]>> : s \in {r \in slots : r[1] > -Interval}}
    /\ UNCHANGED done

\* _request_json is called: the first attempt wants a slot.
StartRequest(t) ==
    /\ task[t].pc = "idle"
    /\ task' = [task EXCEPT ![t].pc = "slot", ![t].attempt = 1]
    /\ UNCHANGED <<nextRequestAt, done, slots>>

\* Mutant of SlotAt: an idle limiter does not catch up with the clock.
SlotAtBacklog == nextRequestAt

SlotAt == IF nextRequestAt > 0 THEN nextRequestAt ELSE 0

\* _wait_for_rate_slot, under the request lock: no slot is given out twice.
TakeSlot(t) ==
    /\ task[t].pc = "slot"
    /\ nextRequestAt' = SlotAt + Interval
    /\ task' = [task EXCEPT ![t].pc = "ready",
                            ![t].wake = IF nextRequestAt > 0 THEN nextRequestAt ELSE 0]
    /\ slots' = slots \cup {<<task'[t].wake, t, task[t].attempt>>}
    /\ UNCHANGED done

\* The request leaves; Alegra may do what it asks.
Send(t) ==
    /\ task[t].pc = "ready"
    /\ task[t].wake = 0
    /\ task' = [task EXCEPT ![t].pc = "sent"]
    /\ \E n \in {0, 1} : done' = [done EXCEPT ![t] = @ + n]
    /\ UNCHANGED <<nextRequestAt, slots>>

Return(t, outcome) == task' = [task EXCEPT ![t].pc = "returned", ![t].outcome = outcome]

\* Mutant of Following: a failure does not count as an attempt.
FollowingFree(attempt) == attempt

Following(attempt) == attempt + 1

MayRetry(t) == t \notin Posts /\ task[t].attempt < Attempts(t)

\* A network error, a 429 or a 5xx: after the delay, another slot.
Failed(t) ==
    /\ task[t].pc = "sent"
    /\ IF MayRetry(t)
       THEN \E delay \in 1 .. MaxDelay :
               task' = [task EXCEPT ![t].pc = "asleep", ![t].attempt = Following(@),
                                    ![t].wake = delay]
       ELSE Return(t, "retryable")
    /\ UNCHANGED <<nextRequestAt, done, slots>>

WakeUp(t) ==
    /\ task[t].pc = "asleep"
    /\ task[t].wake = 0
    /\ task' = [task EXCEPT ![t].pc = "slot"]
    /\ UNCHANGED <<nextRequestAt, done, slots>>

\* A document, a refusal of the credentials by an Alegra that did nothing, another client
\* error, or JSON that cannot be read although the request was served.
AnswerArrives(t) ==
    /\ task[t].pc = "sent"
    /\ \/ Return(t, "ok")
       \/ done[t] = 0 /\ Return(t, "credentials")
       \/ Return(t, "permanent")
    /\ UNCHANGED <<nextRequestAt, done, slots>>

RequestNext ==
    \/ Tick
    \/ \E t \in Tasks : StartRequest(t) \/ TakeSlot(t) \/ Send(t) \/ Failed(t) \/ WakeUp(t) \/ AnswerArrives(t)

RequestSpec == RequestInit /\ [][RequestNext]_requestVars

\* A coroutine that can run is run; Alegra answers or the request times out.
Progress(t) == TakeSlot(t) \/ Send(t) \/ Failed(t) \/ WakeUp(t) \/ AnswerArrives(t)

----------------------------------------------------------------------------
\* However many coroutines share the client, and after any retry or idle time, no two
\* attempts are given moments closer than the interval (_wait_for_rate_slot).
SlotsKeepTheInterval ==
    \A a, b \in slots : a # b => a[1] - b[1] >= Interval \/ b[1] - a[1] >= Interval

\* Alegra never does a POST twice, and a POST refused for its credentials was not done; any
\* other error leaves that open (_request_json).
PostsHappenOnce ==
    \A t \in Posts : done[t] <= 1 /\ (task[t].outcome = "credentials" => done[t] = 0)

\* Every call returns in the end, even if Alegra only refuses (_request_json).
EveryCallReturns ==
    \A t \in Tasks : task[t].pc = "slot" ~> task[t].pc = "returned"

\* The client keeps to its rate and to its word about what was not done.
RequestsAreSafe == SlotsKeepTheInterval /\ PostsHappenOnce
=============================================================================

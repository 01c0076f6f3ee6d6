----------------------------- MODULE EventQueue -----------------------------
(***************************************************************************)
(* The durable webhook queue: the table inbound_events, the endpoint that  *)
(* fills it, the worker processes that drain it and the operator who       *)
(* revives what failed.                                                    *)
(*                                                                         *)
(* An event stands for one value of the unique key (tenant, subject,       *)
(* payload_hash) of inbound_events.  A row that does not exist yet has the *)
(* status "absent".  Each action is one database transaction, or the await *)
(* between two of them: that is the granularity at which two processes can *)
(* interleave, since every transaction that changes a row holds its lock.  *)
(***************************************************************************)
EXTENDS Integers

CONSTANTS Events,       \* the keys webhooks can arrive with
          Malformed,    \* those _process refuses before any request
          Workers,      \* the processes running "app.cli worker"
          MaxAttempts,  \* retry_or_fail_event(max_attempts), 8 in the code
          Lease,        \* the 15 minutes of claim_next_event, in ticks
          MaxDelay,     \* the 3600 s cap of the backoff, in ticks
          MaxCrashes,   \* bound: how often a busy worker may die
          MaxStalls,    \* bound: how often a live worker outlasts its lease
          MaxRevivals   \* bound: how often the operator retries by hand

ASSUME QueueAssumption ==
    /\ Malformed \subseteq Events
    /\ MaxAttempts \in Nat \ {0}
    /\ Lease \in Nat
    /\ MaxDelay \in Nat
    /\ {MaxCrashes, MaxStalls, MaxRevivals} \subseteq Nat

VARIABLES row,       \* the inbound_events table
          worker,    \* the local state of each worker process
          clock,     \* datetime.now(UTC), in ticks
          claims,    \* claims[e]: leases ever given for e, the source of fresh tokens
          applied,   \* history: applied[e] counts the commits of e's projection
          crashes, stalls, revivals   \* uses of the bounds

vars == <<row, worker, clock, claims, applied, crashes, stalls, revivals>>

-----------------------------------------------------------------------------
NoLease == 0     \* lease_token IS NULL
NoTime == -1     \* locked_at IS NULL

Status == {"absent", "pending", "processing", "retry_wait", "completed", "failed"}

Row == [status : Status, attempts : Nat, available : Int, created : Int,
        locked : Int, lease : Nat]

\* What run_once holds between its two transactions.
Idle == [pc |-> "idle"]
Busy == [pc : {"claimed", "done", "error"}, event : Events, token : Nat]

Absent == [status |-> "absent", attempts |-> 0, available |-> 0, created |-> 0,
           locked |-> NoTime, lease |-> NoLease]

\* min(2**attempt_count, 3600)
Backoff(n) == IF 2^n < MaxDelay THEN 2^n ELSE MaxDelay

Init ==
    /\ row = [e \in Events |-> Absent]
    /\ worker = [w \in Workers |-> Idle]
    /\ clock = 0
    /\ claims = [e \in Events |-> 0]
    /\ applied = [e \in Events |-> 0]
    /\ crashes = 0 /\ stalls = 0 /\ revivals = 0

-----------------------------------------------------------------------------
(* The webhook endpoint.                                                   *)

\* receive_alegra_webhook commits the row before it answers 202.
Enqueue(e) ==
    /\ row[e].status = "absent"
    /\ row' = [row EXCEPT ![e] = [Absent EXCEPT !.status = "pending",
                                                !.available = clock,
                                                !.created = clock]]
    /\ UNCHANGED <<worker, clock, claims, applied, crashes, stalls, revivals>>

\* Mutant of Redeliver: a repeated payload is queued anew.
RedeliverRequeues(e) ==
    /\ row[e].status # "absent"
    /\ row' = [row EXCEPT ![e] = [@ EXCEPT !.status = "pending", !.attempts = 0]]
    /\ UNCHANGED <<worker, clock, claims, applied, crashes, stalls, revivals>>

\* A payload seen before, whatever became of it, is acknowledged as a duplicate.
Redeliver(e) ==
    /\ row[e].status # "absent"
    /\ UNCHANGED vars

-----------------------------------------------------------------------------
(* The worker.                                                             *)

Waiting(e) == row[e].status \in {"pending", "retry_wait"} /\ row[e].available <= clock

Expired(e) == row[e].status = "processing" /\ row[e].locked < clock - Lease

\* Mutant of Claimable: events of dead workers are not taken over.
ClaimableWaitingOnly(e) == Waiting(e)

Claimable(e) == Waiting(e) \/ Expired(e)

\* ORDER BY available_at, created_at
NotAfter(e, f) ==
    \/ row[e].available < row[f].available
    \/ row[e].available = row[f].available /\ row[e].created <= row[f].created

\* Mutant of NewToken: an event keeps one token for all its leases.
SameToken(e) == 1

\* uuid.uuid4(): a token no other lease of e ever had.
NewToken(e) == claims[e] + 1

Leased(e) == [row[e] EXCEPT !.status = "processing",
                            !.attempts = @ + 1,
                            !.locked = clock,
                            !.lease = NewToken(e)]

ClaimNextEvent(w, e) ==
    /\ worker[w] = Idle
    /\ Claimable(e)
    /\ \A f \in Events : Claimable(f) => NotAfter(e, f)
    /\ claims' = [claims EXCEPT ![e] = @ + 1]
    /\ row' = [row EXCEPT ![e] = Leased(e)]
    /\ worker' = [worker EXCEPT ![w] = [pc |-> "claimed", event |-> e,
                                        token |-> NewToken(e)]]
    /\ UNCHANGED <<clock, applied, crashes, stalls, revivals>>

\* _process: an event without a usable resource raises at once, any other one
\* ends its GET and its upserts, or raises on the way.  The upserts stay
\* uncommitted until Complete.
Process(w) ==
    /\ worker[w].pc = "claimed"
    /\ \E outcome \in {"done", "error"} :
          /\ worker[w].event \in Malformed => outcome = "error"
          /\ worker' = [worker EXCEPT ![w] = [@ EXCEPT !.pc = outcome]]
    /\ UNCHANGED <<row, clock, claims, applied, crashes, stalls, revivals>>

\* Mutants of Owns: no fence at all, and a fence that looks at the status only.
OwnsUnchecked(w) == TRUE
OwnsByStatus(w) == row[worker[w].event].status = "processing"

\* owns_event: the row, locked, still carries the token this worker was given.
Owns(w) == row[worker[w].event].lease = worker[w].token

\* complete_event, in the transaction that holds the projection's upserts.
Complete(w) ==
    /\ worker[w].pc = "done"
    /\ Owns(w)
    /\ row' = [row EXCEPT ![worker[w].event] = [@ EXCEPT !.status = "completed"]]
    /\ applied' = [applied EXCEPT ![worker[w].event] = @ + 1]
    /\ worker' = [worker EXCEPT ![w] = Idle]
    /\ UNCHANGED <<clock, claims, crashes, stalls, revivals>>

\* Either path of run_once rolls back once the lease is someone else's.
Discard(w) ==
    /\ worker[w].pc \in {"done", "error"}
    /\ ~ Owns(w)
    /\ worker' = [worker EXCEPT ![w] = Idle]
    /\ UNCHANGED <<row, clock, claims, applied, crashes, stalls, revivals>>

\* Mutants of AfterFailure: one attempt too many, and a status nobody claims.
AfterFailureOneMore(r) ==
    IF r.attempts > MaxAttempts
    THEN [r EXCEPT !.locked = NoTime, !.status = "failed"]
    ELSE [r EXCEPT !.locked = NoTime, !.status = "retry_wait",
                   !.available = clock + Backoff(r.attempts)]
AfterFailureRenamed(r) == [r EXCEPT !.locked = NoTime, !.status = "error"]

\* retry_or_fail_event
AfterFailure(r) ==
    IF r.attempts >= MaxAttempts
    THEN [r EXCEPT !.locked = NoTime, !.status = "failed"]
    ELSE [r EXCEPT !.locked = NoTime, !.status = "retry_wait",
                   !.available = clock + Backoff(r.attempts)]

RetryOrFail(w) ==
    /\ worker[w].pc = "error"
    /\ Owns(w)
    /\ row' = [row EXCEPT ![worker[w].event] = AfterFailure(@)]
    /\ worker' = [worker EXCEPT ![w] = Idle]
    /\ UNCHANGED <<clock, claims, applied, crashes, stalls, revivals>>

\* The process dies between two transactions and is started again.
Crash(w) ==
    /\ worker[w] # Idle
    /\ crashes < MaxCrashes
    /\ crashes' = crashes + 1
    /\ worker' = [worker EXCEPT ![w] = Idle]
    /\ UNCHANGED <<row, clock, claims, applied, stalls, revivals>>

-----------------------------------------------------------------------------
(* The operator and the clock.                                             *)

\* Mutant of ManualRetry: any event can be retried by hand.
ManualRetryAny(e) ==
    /\ row[e].status # "absent"
    /\ revivals < MaxRevivals
    /\ revivals' = revivals + 1
    /\ row' = [row EXCEPT ![e] = [@ EXCEPT !.status = "retry_wait", !.attempts = 0,
                                           !.locked = NoTime, !.lease = NoLease]]
    /\ UNCHANGED <<worker, clock, claims, applied, crashes, stalls>>

\* OperationsHealthService.retry
ManualRetry(e) ==
    /\ row[e].status = "failed"
    /\ revivals < MaxRevivals
    /\ revivals' = revivals + 1
    /\ row' = [row EXCEPT ![e] = [@ EXCEPT !.status = "retry_wait",
                                           !.attempts = 0,
                                           !.available = clock,
                                           !.locked = NoTime,
                                           !.lease = NoLease]]
    /\ UNCHANGED <<worker, clock, claims, applied, crashes, stalls>>

Holds(w, e) == worker[w] # Idle /\ worker[w].event = e /\ worker[w].token = row[e].lease

Held(e) == \E w \in Workers : Holds(w, e)

\* Time matters only while a backoff or a lease is still running.
DeadlineAhead(e) ==
    \/ row[e].status \in {"pending", "retry_wait"} /\ row[e].available > clock
    \/ row[e].status = "processing" /\ ~ Expired(e)

\* The next tick takes the lease of e from a worker that is still at it.
Outlasts(e) ==
    /\ row[e].status = "processing" /\ Held(e) /\ ~ Expired(e)
    /\ row[e].locked < clock + 1 - Lease

Tick ==
    /\ \E e \in Events : DeadlineAhead(e)
    /\ clock' = clock + 1
    /\ IF \E e \in Events : Outlasts(e)
       THEN stalls < MaxStalls /\ stalls' = stalls + 1
       ELSE UNCHANGED stalls
    /\ UNCHANGED <<row, worker, claims, applied, crashes, revivals>>

-----------------------------------------------------------------------------
WorkerStep(w) ==
    \/ \E e \in Events : ClaimNextEvent(w, e)
    \/ Process(w)
    \/ Complete(w)
    \/ Discard(w)
    \/ RetryOrFail(w)

Next ==
    \/ \E e \in Events : Enqueue(e) \/ Redeliver(e) \/ ManualRetry(e)
    \/ \E w \in Workers : WorkerStep(w) \/ Crash(w)
    \/ Tick

\* process_webhooks polls for ever and its service is restarted when it dies;
\* nothing obliges Alegra to send, a worker to die or an operator to act.
Fairness == (\A w \in Workers : WF_vars(WorkerStep(w))) /\ WF_vars(Tick)

SafeSpec == Init /\ [][Next]_vars
Spec == SafeSpec /\ Fairness
-----------------------------------------------------------------------------
(* Properties.                                                             *)

\* Every variable keeps its type; a worker is idle or holds an event and a token.
TypeOK ==
    /\ row \in [Events -> Row]
    /\ worker \in [Workers -> {Idle} \cup Busy]
    /\ clock \in Int
    /\ claims \in [Events -> Nat]
    /\ applied \in [Events -> Nat]
    /\ {crashes, stalls, revivals} \subseteq Nat

\* The projection of an event is committed together with its completion and
\* never a second time, whatever leases expired and whoever died meanwhile
\* (run_once commits the upserts only behind owns_event).
ExactlyOnce ==
    \A e \in Events : applied[e] = (IF row[e].status = "completed" THEN 1 ELSE 0)

\* A worker whose token is still in the row finds the row being processed, and
\* no other worker has that token: owns_event compares nothing but the token,
\* and that is enough (event_queue.owns_event).
FenceInv ==
    \A w \in Workers : \A e \in Events :
        Holds(w, e) => /\ row[e].status = "processing"
                       /\ \A v \in Workers : Holds(v, e) => v = w

\* The limit of attempts is passed only by leases that were taken over: an
\* event is claimed at most once per allowed attempt plus once for each time a
\* worker died or outlasted its lease (retry_or_fail_event is the only check).
RetryBudget ==
    \A e \in Events : row[e].attempts <= MaxAttempts + crashes + stalls

\* A completed event is left alone for good; a failed one is touched only by
\* the operator, who gives it a fresh budget and no owner (operations_health.retry).
SettledIsStable ==
    [][\A e \in Events :
          /\ row[e].status = "completed" => row'[e] = row[e]
          /\ row[e].status = "failed" =>
                \/ row'[e] = row[e]
                \/ row'[e].attempts = 0 /\ row'[e].lease = NoLease]_vars

\* What a worker did under a lease it lost leaves no trace: only the holder of
\* the current token moves a row out of processing, and a takeover changes the
\* token in the same step (claim_next_event, owns_event).
OnlyTheHolderFinishes ==
    [][\A e \in Events :
          row[e].status = "processing" /\ row'[e] # row[e] =>
             \/ row'[e].status = "processing" /\ row'[e].lease # row[e].lease
             \/ \E w \in Workers : Holds(w, e) /\ worker'[w] = Idle]_vars

Settled(e) == row[e].status \in {"completed", "failed"}

\* Every acknowledged event is completed or failed in the end, in spite of
\* crashes, slow workers, failing requests and other events that keep failing.
EventuallySettled ==
    \A e \in Events : (row[e].status # "absent") ~> Settled(e)

\* How far an event has come, as the inbox sees it.
StageOf(e) ==
    CASE row[e].status = "absent"    -> "unseen"
      [] row[e].status = "completed" -> "applied"
      [] row[e].status = "failed"    -> "failed"
      [] OTHER                       -> "open"

Inbox == INSTANCE EventInbox WITH stage <- [e \in Events |-> StageOf(e)],
                                  effects <- applied

\* The queue with its leases, backoff and crashes implements the inbox.
ImplementsInbox == Inbox!Spec
=============================================================================

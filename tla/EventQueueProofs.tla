-------------------------- MODULE EventQueueProofs --------------------------
(***************************************************************************)
(* Theorems about the webhook queue, for any events, workers and bounds.   *)
(***************************************************************************)
EXTENDS EventQueue, TLAPS

LEMMA NoTimeType == NoTime \in Int
  BY DEF NoTime

LEMMA BackoffType == \A n \in Nat : Backoff(n) \in Int
  BY QueueAssumption DEF Backoff

LEMMA AfterFailureType ==
  ASSUME NEW r \in Row, clock \in Int
  PROVE  AfterFailure(r) \in Row
<1>1. r.attempts \in Nat
  BY DEF Row
<1>2. clock + Backoff(r.attempts) \in Int
  BY <1>1, BackoffType
<1> QED
  BY <1>2, NoTimeType DEF AfterFailure, Row, Status

\* Every variable keeps its type along every behaviour of the queue.
THEOREM TypeCorrect == SafeSpec => []TypeOK
<1>1. Init => TypeOK
  BY QueueAssumption DEF Init, TypeOK, Row, Status, Absent, NoTime, NoLease, Idle
<1>2. TypeOK /\ [Next]_vars => TypeOK'
  <2> SUFFICES ASSUME TypeOK, [Next]_vars
               PROVE  TypeOK'
    OBVIOUS
  <2>1. ASSUME NEW e \in Events, Enqueue(e)
        PROVE  TypeOK'
    BY <2>1, NoTimeType DEF TypeOK, Enqueue, Row, Status, Absent, NoLease
  <2>2. ASSUME NEW e \in Events, Redeliver(e)
        PROVE  TypeOK'
    BY <2>2 DEF TypeOK, Redeliver, vars
  <2>3. ASSUME NEW e \in Events, ManualRetry(e)
        PROVE  TypeOK'
    <3> DEFINE r == [row[e] EXCEPT !.status = "retry_wait", !.attempts = 0,
                                   !.available = clock, !.locked = NoTime,
                                   !.lease = NoLease]
    <3>1. r \in Row
      BY NoTimeType DEF TypeOK, Row, Status, NoLease
    <3>2. row' = [row EXCEPT ![e] = r]
      BY <2>3 DEF ManualRetry
    <3> QED
      BY <2>3, <3>1, <3>2 DEF TypeOK, ManualRetry
  <2>4. ASSUME NEW w \in Workers, NEW e \in Events, ClaimNextEvent(w, e)
        PROVE  TypeOK'
    <3>1. NewToken(e) \in Nat
      BY DEF TypeOK, NewToken
    <3>2. /\ row[e] \in Row
          /\ row[e].attempts + 1 \in Nat
          /\ clock \in Int
      BY DEF TypeOK, Row
    <3>3. Leased(e) \in Row
      BY <3>1, <3>2 DEF Leased, Row, Status
    <3>4. [pc |-> "claimed", event |-> e, token |-> NewToken(e)] \in Busy
      BY <3>1 DEF Busy
    <3> QED
      BY <2>4, <3>1, <3>3, <3>4 DEF TypeOK, ClaimNextEvent
  <2>5. ASSUME NEW w \in Workers, Process(w)
        PROVE  TypeOK'
    BY <2>5 DEF TypeOK, Process, Busy, Idle
  <2>6. ASSUME NEW w \in Workers, Complete(w)
        PROVE  TypeOK'
    BY <2>6 DEF TypeOK, Complete, Busy, Idle, Row, Status
  <2>7. ASSUME NEW w \in Workers, Discard(w)
        PROVE  TypeOK'
    BY <2>7 DEF TypeOK, Discard
  <2>8. ASSUME NEW w \in Workers, RetryOrFail(w)
        PROVE  TypeOK'
    BY <2>8, AfterFailureType DEF TypeOK, RetryOrFail, Busy, Idle
  <2>9. ASSUME NEW w \in Workers, Crash(w)
        PROVE  TypeOK'
    BY <2>9 DEF TypeOK, Crash
  <2>10. CASE Tick
    BY <2>10 DEF TypeOK, Tick
  <2>11. CASE UNCHANGED vars
    BY <2>11 DEF TypeOK, vars
  <2> QED
    BY <2>1, <2>2, <2>3, <2>4, <2>5, <2>6, <2>7, <2>8, <2>9, <2>10, <2>11
    DEF Next, WorkerStep
<1> QED
  BY <1>1, <1>2, PTL DEF SafeSpec
-----------------------------------------------------------------------------
(* Fencing.                                                                *)

\* Tokens are handed out in increasing order, so the one in the row is the
\* newest and no token was ever given to two workers.
TokenInv ==
    /\ \A e \in Events : row[e].lease <= claims[e]
    /\ \A w \in Workers :
          worker[w] # Idle => /\ worker[w].event \in Events
                              /\ worker[w].token \in 1..claims[worker[w].event]

OwnershipInv == TypeOK /\ TokenInv /\ FenceInv /\ ExactlyOnce

LEMMA BusyHasToken ==
  ASSUME TypeOK, NEW w \in Workers, worker[w].pc \in {"claimed", "done", "error"}
  PROVE  worker[w] \in Busy /\ worker[w] # Idle
BY DEF TypeOK, Busy, Idle

LEMMA OwnershipInit == Init => OwnershipInv
<1> SUFFICES ASSUME Init
             PROVE  OwnershipInv
  OBVIOUS
<1>1. TypeOK
  BY QueueAssumption, NoTimeType
  DEF Init, TypeOK, Row, Status, Absent, NoLease, Idle
<1>2. TokenInv /\ FenceInv /\ ExactlyOnce
  BY DEF Init, TokenInv, FenceInv, ExactlyOnce, Absent, NoLease, Holds
<1> QED
  BY <1>1, <1>2 DEF OwnershipInv

LEMMA OwnershipStep == OwnershipInv /\ TypeOK' /\ [Next]_vars => OwnershipInv'
<1> SUFFICES ASSUME OwnershipInv, TypeOK', [Next]_vars
             PROVE  TokenInv' /\ FenceInv' /\ ExactlyOnce'
  BY DEF OwnershipInv
<1> USE DEF OwnershipInv
<1>1. ASSUME NEW e \in Events, Enqueue(e)
      PROVE  TokenInv' /\ FenceInv' /\ ExactlyOnce'
  <2>1. ~ \E w \in Workers : Holds(w, e)
    BY <1>1 DEF Enqueue, FenceInv
  <2>2. \A f \in Events : /\ f # e => row'[f] = row[f]
                          /\ f = e => row'[f].lease = 0 /\ row'[f].status = "pending"
    BY <1>1 DEF Enqueue, Absent, NoLease, TypeOK
  <2>3. TokenInv'
    BY <1>1, <2>2 DEF Enqueue, TokenInv, TypeOK
  <2>4. FenceInv'
    BY <1>1, <2>2, <2>3 DEF Enqueue, TokenInv, FenceInv, Holds, TypeOK
  <2>5. ExactlyOnce'
    BY <1>1, <2>2 DEF Enqueue, ExactlyOnce, TypeOK
  <2> QED
    BY <2>3, <2>4, <2>5
<1>2. ASSUME NEW e \in Events, Redeliver(e)
      PROVE  TokenInv' /\ FenceInv' /\ ExactlyOnce'
  BY <1>2 DEF Redeliver, vars, TokenInv, FenceInv, ExactlyOnce, Holds
<1>3. ASSUME NEW e \in Events, ManualRetry(e)
      PROVE  TokenInv' /\ FenceInv' /\ ExactlyOnce'
  <2>1. \A f \in Events : /\ f # e => row'[f] = row[f]
                          /\ f = e => row'[f].lease = 0 /\ row'[f].status = "retry_wait"
    BY <1>3 DEF ManualRetry, NoLease, TypeOK, Row
  <2>2. TokenInv'
    BY <1>3, <2>1 DEF ManualRetry, TokenInv, TypeOK
  <2>3. FenceInv'
    BY <1>3, <2>1, <2>2 DEF ManualRetry, TokenInv, FenceInv, Holds, TypeOK
  <2>4. ExactlyOnce'
    BY <1>3, <2>1 DEF ManualRetry, ExactlyOnce, TypeOK
  <2> QED
    BY <2>2, <2>3, <2>4
<1>4. ASSUME NEW w \in Workers, NEW e \in Events, ClaimNextEvent(w, e)
      PROVE  TokenInv' /\ FenceInv' /\ ExactlyOnce'
  <2>1. /\ claims[e] \in Nat
        /\ claims'[e] = claims[e] + 1
        /\ \A f \in Events : f # e => claims'[f] = claims[f] /\ row'[f] = row[f]
        /\ row'[e].lease = claims[e] + 1
        /\ row'[e].status = "processing"
    BY <1>4 DEF ClaimNextEvent, Leased, NewToken, TypeOK, Row
  <2>2. /\ worker'[w] # Idle
        /\ worker'[w].event = e
        /\ worker'[w].token = claims[e] + 1
        /\ \A v \in Workers : v # w => worker'[v] = worker[v]
    BY <1>4 DEF ClaimNextEvent, NewToken, TypeOK, Idle
  <2>3. TokenInv'
    <3>1. \A f \in Events : row'[f].lease <= claims'[f]
      BY <2>1 DEF TokenInv
    <3>2. \A f \in Events : claims[f] \in Nat /\ claims[f] <= claims'[f]
      BY <2>1 DEF TypeOK
    <3>3. \A v \in Workers \ {w} : worker'[v] # Idle =>
             /\ worker'[v].event \in Events
             /\ worker'[v].token \in 1..claims'[worker'[v].event]
      BY <2>2, <3>2, TypeOK' DEF TokenInv, TypeOK
    <3>4. worker'[w].token \in 1..claims'[e]
      BY <2>1, <2>2
    <3> QED
      BY <2>2, <3>1, <3>3, <3>4 DEF TokenInv
  <2>4. FenceInv'
    BY <2>1, <2>2 DEF TokenInv, FenceInv, Holds, TypeOK
  <2>5. ExactlyOnce'
    BY <1>4, <2>1 DEF ClaimNextEvent, Claimable, Waiting, Expired, ExactlyOnce
  <2> QED
    BY <2>3, <2>4, <2>5
<1>5. ASSUME NEW w \in Workers, Process(w)
      PROVE  TokenInv' /\ FenceInv' /\ ExactlyOnce'
  <2>1. /\ worker[w] # Idle
        /\ worker'[w] # Idle
        /\ worker'[w].event = worker[w].event
        /\ worker'[w].token = worker[w].token
        /\ \A v \in Workers : v # w => worker'[v] = worker[v]
    <3>1. worker[w] \in Busy /\ worker[w] # Idle
      BY <1>5, BusyHasToken DEF Process
    <3>2. PICK outcome \in {"done", "error"} :
             worker' = [worker EXCEPT ![w] = [worker[w] EXCEPT !.pc = outcome]]
      BY <1>5 DEF Process
    <3>3. worker'[w] = [worker[w] EXCEPT !.pc = outcome]
      BY <3>2 DEF TypeOK
    <3>4. worker'[w].pc = outcome /\ Idle.pc = "idle"
      BY <3>1, <3>3 DEF Busy, Idle
    <3> QED
      BY <3>1, <3>2, <3>3, <3>4 DEF TypeOK, Busy
  <2> QED
    BY <1>5, <2>1 DEF Process, TokenInv, FenceInv, ExactlyOnce, Holds
<1>6. ASSUME NEW w \in Workers, Complete(w)
      PROVE  TokenInv' /\ FenceInv' /\ ExactlyOnce'
  <2> DEFINE e == worker[w].event
  <2>1. /\ worker[w] # Idle
        /\ e \in Events
        /\ Holds(w, e)
    BY <1>6, BusyHasToken DEF Complete, Owns, Busy, Holds
  <2>2. /\ row[e].status = "processing"
        /\ row'[e].status = "completed"
        /\ row'[e].lease = row[e].lease
        /\ applied'[e] = applied[e] + 1
        /\ \A f \in Events : f # e => row'[f] = row[f] /\ applied'[f] = applied[f]
    BY <1>6, <2>1 DEF Complete, FenceInv, TypeOK, Row
  <2>3. worker'[w] = Idle /\ \A v \in Workers : v # w => worker'[v] = worker[v]
    BY <1>6 DEF Complete, TypeOK
  <2>4. TokenInv'
    BY <1>6, <2>2, <2>3 DEF Complete, TokenInv
  <2>5. FenceInv'
    BY <2>1, <2>2, <2>3 DEF FenceInv, Holds
  <2>6. ExactlyOnce'
    BY <2>1, <2>2 DEF ExactlyOnce
  <2> QED
    BY <2>4, <2>5, <2>6
<1>7. ASSUME NEW w \in Workers, Discard(w)
      PROVE  TokenInv' /\ FenceInv' /\ ExactlyOnce'
  <2>1. worker'[w] = Idle /\ \A v \in Workers : v # w => worker'[v] = worker[v]
    BY <1>7 DEF Discard, TypeOK
  <2> QED
    BY <1>7, <2>1 DEF Discard, TokenInv, FenceInv, ExactlyOnce, Holds
<1>8. ASSUME NEW w \in Workers, RetryOrFail(w)
      PROVE  TokenInv' /\ FenceInv' /\ ExactlyOnce'
  <2> DEFINE e == worker[w].event
  <2>1. /\ worker[w] # Idle
        /\ e \in Events
        /\ Holds(w, e)
    BY <1>8, BusyHasToken DEF RetryOrFail, Owns, Busy, Holds
  <2>2. /\ row[e].status = "processing"
        /\ row'[e].status \in {"retry_wait", "failed"}
        /\ row'[e].lease = row[e].lease
        /\ \A f \in Events : f # e => row'[f] = row[f]
    BY <1>8, <2>1 DEF RetryOrFail, AfterFailure, FenceInv, TypeOK, Row
  <2>3. worker'[w] = Idle /\ \A v \in Workers : v # w => worker'[v] = worker[v]
    BY <1>8 DEF RetryOrFail, TypeOK
  <2>4. TokenInv'
    BY <1>8, <2>2, <2>3 DEF RetryOrFail, TokenInv
  <2>5. FenceInv'
    BY <2>1, <2>2, <2>3 DEF FenceInv, Holds
  <2>6. ExactlyOnce'
    BY <1>8, <2>1, <2>2 DEF RetryOrFail, ExactlyOnce
  <2> QED
    BY <2>4, <2>5, <2>6
<1>9. ASSUME NEW w \in Workers, Crash(w)
      PROVE  TokenInv' /\ FenceInv' /\ ExactlyOnce'
  <2>1. worker'[w] = Idle /\ \A v \in Workers : v # w => worker'[v] = worker[v]
    BY <1>9 DEF Crash, TypeOK
  <2> QED
    BY <1>9, <2>1 DEF Crash, TokenInv, FenceInv, ExactlyOnce, Holds
<1>10. CASE Tick
  BY <1>10 DEF Tick, TokenInv, FenceInv, ExactlyOnce, Holds
<1>11. CASE UNCHANGED vars
  BY <1>11 DEF vars, TokenInv, FenceInv, ExactlyOnce, Holds
<1> QED
  BY <1>1, <1>2, <1>3, <1>4, <1>5, <1>6, <1>7, <1>8, <1>9, <1>10, <1>11
  DEF Next, WorkerStep

\* A token found in the row names the one worker entitled to finish the event.
THEOREM Fencing == SafeSpec => []FenceInv
<1>1. OwnershipInv => FenceInv
  BY DEF OwnershipInv
<1> QED
  BY TypeCorrect, OwnershipInit, OwnershipStep, <1>1, PTL DEF SafeSpec

\* An event's projection is committed once if the event is completed, and
\* not at all otherwise, whatever leases expired and whoever crashed.
THEOREM EffectsExactlyOnce == SafeSpec => []ExactlyOnce
<1>1. OwnershipInv => ExactlyOnce
  BY DEF OwnershipInv
<1> QED
  BY TypeCorrect, OwnershipInit, OwnershipStep, <1>1, PTL DEF SafeSpec
-----------------------------------------------------------------------------
(* The budget of attempts.                                                 *)

\* Who may be taken over has an attempt left in the budget: either the limit
\* is not reached, or a crash or a stall has paid for the takeover.
BudgetInv ==
    \A e \in Events :
       /\ row[e].status \in {"absent", "pending", "retry_wait"} => row[e].attempts < MaxAttempts
       /\ row[e].attempts <= MaxAttempts + crashes + stalls
       /\ row[e].status = "processing" /\ (Expired(e) \/ ~ Held(e)) =>
             row[e].attempts < MaxAttempts + crashes + stalls

LEMMA BudgetTypes ==
  ASSUME TypeOK
  PROVE  /\ MaxAttempts \in Nat /\ MaxAttempts > 0 /\ Lease \in Nat
         /\ clock \in Int /\ crashes \in Nat /\ stalls \in Nat
         /\ \A e \in Events : row[e].attempts \in Nat /\ row[e].locked \in Int
BY QueueAssumption DEF TypeOK, Row

\* Rows, clock and holders being the same, so is what can be taken over.
LEMMA BudgetFrame ==
  ASSUME BudgetInv, UNCHANGED <<row, clock, crashes, stalls>>,
         \A e \in Events : Held(e) => Held(e)'
  PROVE  BudgetInv'
BY DEF BudgetInv, Expired

LEMMA BudgetStep == OwnershipInv /\ BudgetInv /\ TypeOK' /\ [Next]_vars => BudgetInv'
<1> SUFFICES ASSUME OwnershipInv, BudgetInv, TypeOK', [Next]_vars
             PROVE  BudgetInv'
  OBVIOUS
<1>0. TypeOK /\ TokenInv /\ FenceInv
  BY DEF OwnershipInv
<1> USE <1>0, BudgetTypes
<1>1. ASSUME NEW e \in Events, Enqueue(e)
      PROVE  BudgetInv'
  <2>1. \A f \in Events : /\ f # e => row'[f] = row[f]
                          /\ f = e => row'[f].status = "pending" /\ row'[f].attempts = 0
    BY <1>1 DEF Enqueue, Absent, TypeOK
  <2>2. \A f \in Events : f # e => (Held(f)' <=> Held(f))
    BY <1>1, <2>1 DEF Enqueue, Held, Holds
  <2> QED
    BY <1>1, <2>1, <2>2 DEF Enqueue, BudgetInv, Expired
<1>2. ASSUME NEW e \in Events, Redeliver(e)
      PROVE  BudgetInv'
  BY <1>2, BudgetFrame DEF Redeliver, vars, Held, Holds
<1>3. ASSUME NEW e \in Events, ManualRetry(e)
      PROVE  BudgetInv'
  <2>1. \A f \in Events : /\ f # e => row'[f] = row[f]
                          /\ f = e => row'[f].status = "retry_wait" /\ row'[f].attempts = 0
    BY <1>3 DEF ManualRetry, TypeOK, Row
  <2>2. \A f \in Events : f # e => (Held(f)' <=> Held(f))
    BY <1>3, <2>1 DEF ManualRetry, Held, Holds
  <2> QED
    BY <1>3, <2>1, <2>2 DEF ManualRetry, BudgetInv, Expired
<1>4. ASSUME NEW w \in Workers, NEW e \in Events, ClaimNextEvent(w, e)
      PROVE  BudgetInv'
  <2>1. /\ row'[e].status = "processing"
        /\ row'[e].attempts = row[e].attempts + 1
        /\ row'[e].locked = clock
        /\ row'[e].lease = NewToken(e)
        /\ \A f \in Events : f # e => row'[f] = row[f]
    BY <1>4 DEF ClaimNextEvent, Leased, TypeOK, Row
  <2>2. /\ worker[w] = Idle
        /\ worker'[w] = [pc |-> "claimed", event |-> e, token |-> NewToken(e)]
        /\ \A v \in Workers : v # w => worker'[v] = worker[v]
    BY <1>4 DEF ClaimNextEvent, TypeOK
  <2>3. \A f \in Events : f # e => (Held(f) => Held(f)')
    BY <2>1, <2>2 DEF Held, Holds
  <2>4. Held(e)'
    <3>1. worker'[w] # Idle
      BY <2>2 DEF Idle
    <3>2. worker'[w].event = e /\ worker'[w].token = row'[e].lease
      BY <2>1, <2>2
    <3> QED
      BY <3>1, <3>2 DEF Held, Holds
  <2>5. row[e].attempts < MaxAttempts + crashes + stalls
    BY <1>4 DEF ClaimNextEvent, Claimable, Waiting, Expired, BudgetInv
  <2>6. UNCHANGED <<clock, crashes, stalls>>
    BY <1>4 DEF ClaimNextEvent
  <2>7. ~ Expired(e)'
    BY <2>1, <2>6 DEF Expired
  <2>8. \A f \in Events : f # e => (Expired(f)' <=> Expired(f))
    BY <2>1, <2>6 DEF Expired
  <2> QED
    BY <2>1, <2>3, <2>4, <2>5, <2>6, <2>7, <2>8 DEF BudgetInv
<1>5. ASSUME NEW w \in Workers, Process(w)
      PROVE  BudgetInv'
  <2>1. /\ worker[w] \in Busy
        /\ \E outcome \in {"done", "error"} : worker'[w] = [worker[w] EXCEPT !.pc = outcome]
        /\ \A v \in Workers : v # w => worker'[v] = worker[v]
    BY <1>5, BusyHasToken DEF Process, TypeOK
  <2>2. /\ worker'[w].event = worker[w].event
        /\ worker'[w].token = worker[w].token
        /\ worker'[w].pc # "idle"
    BY <2>1 DEF Busy
  <2>3. worker'[w] # Idle
    BY <2>2 DEF Idle
  <2>4. UNCHANGED <<row, clock, crashes, stalls>>
    BY <1>5 DEF Process
  <2>5. \A f \in Events : Held(f) => Held(f)'
    BY <2>1, <2>2, <2>3, <2>4 DEF Held, Holds
  <2> QED
    BY <2>4, <2>5, BudgetFrame
<1>6. ASSUME NEW w \in Workers, Complete(w) \/ RetryOrFail(w)
      PROVE  BudgetInv'
  <2> DEFINE e == worker[w].event
  <2>1. /\ e \in Events
        /\ worker[w] # Idle
        /\ Holds(w, e)
        /\ row[e].status = "processing"
    BY <1>6, BusyHasToken DEF Complete, RetryOrFail, Owns, Busy, Holds, FenceInv
  <2>2. /\ row'[e].status \in {"completed", "failed", "retry_wait"}
        /\ row'[e].status = "retry_wait" => row[e].attempts < MaxAttempts
        /\ row'[e].attempts = row[e].attempts
        /\ \A f \in Events : f # e => row'[f] = row[f]
    <3>1. CASE Complete(w)
      BY <3>1, <2>1 DEF Complete, TypeOK, Row
    <3>2. CASE RetryOrFail(w)
      <4>1. row'[e] = AfterFailure(row[e]) /\ \A f \in Events : f # e => row'[f] = row[f]
        BY <3>2, <2>1 DEF RetryOrFail, TypeOK
      <4>2. CASE row[e].attempts >= MaxAttempts
        BY <4>1, <4>2, <2>1 DEF AfterFailure, TypeOK, Row
      <4>3. CASE ~ (row[e].attempts >= MaxAttempts)
        BY <4>1, <4>3, <2>1 DEF AfterFailure, TypeOK, Row
      <4> QED
        BY <4>2, <4>3
    <3> QED
      BY <1>6, <3>1, <3>2
  <2>3. \A v \in Workers : v # w => worker'[v] = worker[v]
    BY <1>6 DEF Complete, RetryOrFail, TypeOK
  <2>4. \A f \in Events : f # e => (Held(f) => Held(f)')
    BY <2>2, <2>3 DEF Held, Holds
  <2>5. UNCHANGED <<clock, crashes, stalls>>
    BY <1>6 DEF Complete, RetryOrFail
  <2>6. \A f \in Events : f # e => (Expired(f)' <=> Expired(f))
    BY <2>2, <2>5 DEF Expired
  <2> QED
    BY <2>2, <2>4, <2>5, <2>6 DEF BudgetInv
<1>7. ASSUME NEW w \in Workers, Discard(w)
      PROVE  BudgetInv'
  <2>1. \A v \in Workers : v # w => worker'[v] = worker[v]
    BY <1>7 DEF Discard, TypeOK
  <2>2. \A f \in Events : Held(f) => Held(f)'
    BY <1>7, <2>1 DEF Discard, Owns, Held, Holds
  <2>3. UNCHANGED <<row, clock, crashes, stalls>>
    BY <1>7 DEF Discard
  <2> QED
    BY <2>2, <2>3, BudgetFrame
<1>8. ASSUME NEW w \in Workers, Crash(w)
      PROVE  BudgetInv'
  <2>1. UNCHANGED <<row, clock, stalls>> /\ crashes' = crashes + 1
    BY <1>8 DEF Crash
  <2> QED
    BY <2>1 DEF BudgetInv
<1>9. CASE Tick
  <2>1. UNCHANGED <<row, worker, crashes>> /\ clock' = clock + 1
    BY <1>9 DEF Tick
  <2>2. \A e \in Events : Held(e)' <=> Held(e)
    BY <2>1 DEF Held, Holds
  <2>3. CASE \E e \in Events : Outlasts(e)
    <3>1. stalls' = stalls + 1
      BY <1>9, <2>3 DEF Tick
    <3> QED
      BY <2>1, <3>1 DEF BudgetInv
  <2>4. CASE ~ \E e \in Events : Outlasts(e)
    <3>1. stalls' = stalls
      BY <1>9, <2>4 DEF Tick
    <3>2. \A e \in Events : Expired(e)' => Expired(e) \/ ~ Held(e)
      BY <2>1, <2>4 DEF Expired, Outlasts
    <3> QED
      BY <2>1, <2>2, <3>1, <3>2 DEF BudgetInv
  <2> QED
    BY <2>3, <2>4
<1>10. CASE UNCHANGED vars
  BY <1>10, BudgetFrame DEF vars, Held, Holds
<1> QED
  BY <1>1, <1>2, <1>3, <1>4, <1>5, <1>6, <1>7, <1>8, <1>9, <1>10
  DEF Next, WorkerStep

\* Only crashes and outlasted leases take an event past its allowed attempts.
THEOREM AttemptsBounded == SafeSpec => []RetryBudget
<1>1. Init => BudgetInv
  <2> SUFFICES ASSUME Init
               PROVE  BudgetInv
    OBVIOUS
  <2>1. \A e \in Events : row[e].status = "absent" /\ row[e].attempts = 0
    BY DEF Init, Absent
  <2>2. MaxAttempts \in Nat /\ MaxAttempts > 0 /\ crashes = 0 /\ stalls = 0
    BY QueueAssumption DEF Init
  <2>3. \A e \in Events : /\ row[e].attempts < MaxAttempts
                          /\ row[e].attempts <= MaxAttempts + crashes + stalls
                          /\ row[e].status # "processing"
    <3>1. 0 < MaxAttempts /\ 0 <= MaxAttempts + crashes + stalls
      BY <2>2
    <3> QED
      BY <2>1, <3>1
  <2> QED
    BY <2>3 DEF BudgetInv
<1>2. BudgetInv => RetryBudget
  BY DEF BudgetInv, RetryBudget
<1> QED
  BY TypeCorrect, OwnershipInit, OwnershipStep, BudgetStep, <1>1, <1>2, PTL DEF SafeSpec
-----------------------------------------------------------------------------
(* Refinement.                                                             *)

Stages == [e \in Events |-> StageOf(e)]

\* One event's stage changes and the others keep theirs: that is a Move.
LEMMA StageMove ==
  ASSUME TypeOK, TypeOK', NEW e \in Events, NEW r, row' = [row EXCEPT ![e] = r]
  PROVE  /\ StageOf(e)' = Stages'[e]
         /\ Stages' = [Stages EXCEPT ![e] = StageOf(e)']
<1>1. \A f \in Events : f # e => StageOf(f)' = StageOf(f)
  BY DEF StageOf, TypeOK
<1> QED
  BY <1>1 DEF Stages

\* Whatever the workers do to it, the queue is a correct inbox as far as
\* safety goes: events are accepted, applied once, set aside and revived.
THEOREM ImplementsInboxSafely == SafeSpec => Inbox!SafeSpec
<1>1. Init => Inbox!Init
  <2> SUFFICES ASSUME Init
               PROVE  Inbox!Init
    OBVIOUS
  <2>1. \A e \in Events : StageOf(e) = "unseen"
    BY DEF Init, Absent, StageOf
  <2> QED
    BY <2>1 DEF Init, Inbox!Init
<1>2. OwnershipInv /\ TypeOK' /\ [Next]_vars => [Inbox!Next]_(Inbox!inbox)
  <2> SUFFICES ASSUME OwnershipInv, TypeOK', [Next]_vars
               PROVE  Inbox!Next \/ (UNCHANGED <<Stages, applied>>)
    BY DEF Inbox!inbox, Stages
  <2>0. TypeOK /\ FenceInv
    BY DEF OwnershipInv
  <2>1. ASSUME NEW e \in Events, Enqueue(e)
        PROVE  Inbox!Next
    <3>1. StageOf(e) = "unseen" /\ StageOf(e)' = "open"
      BY <2>0, <2>1 DEF Enqueue, StageOf, TypeOK, Absent
    <3>2. Stages' = [Stages EXCEPT ![e] = "open"]
      BY <2>0, <2>1, <3>1, StageMove DEF Enqueue
    <3>3. Inbox!Accept(e)
      BY <2>1, <3>1, <3>2 DEF Enqueue, Inbox!Accept, Inbox!Move, Stages
    <3> QED
      BY <3>3 DEF Inbox!Next
  <2>2. ASSUME NEW e \in Events, ManualRetry(e)
        PROVE  Inbox!Next
    <3>1. StageOf(e) = "failed" /\ StageOf(e)' = "open"
      BY <2>0, <2>2 DEF ManualRetry, StageOf, TypeOK, Row
    <3>2. Stages' = [Stages EXCEPT ![e] = "open"]
      BY <2>0, <2>2, <3>1, StageMove DEF ManualRetry
    <3>3. Inbox!Revive(e)
      BY <2>2, <3>1, <3>2 DEF ManualRetry, Inbox!Revive, Inbox!Move, Stages
    <3> QED
      BY <3>3 DEF Inbox!Next
  <2>3. ASSUME NEW w \in Workers, NEW e \in Events, ClaimNextEvent(w, e)
        PROVE  UNCHANGED <<Stages, applied>>
    <3>1. StageOf(e) = "open" /\ StageOf(e)' = "open"
      BY <2>0, <2>3 DEF ClaimNextEvent, Leased, Claimable, Waiting, Expired, StageOf, TypeOK, Row
    <3>2. Stages' = [Stages EXCEPT ![e] = "open"]
      BY <2>0, <2>3, <3>1, StageMove DEF ClaimNextEvent
    <3> QED
      BY <2>3, <3>1, <3>2 DEF ClaimNextEvent, Stages
  <2>4. ASSUME NEW w \in Workers, Complete(w)
        PROVE  Inbox!Next
    <3>1. PICK e \in Events : e = worker[w].event /\ row[e].status = "processing"
      BY <2>0, <2>4, BusyHasToken DEF Complete, Owns, Busy, Holds, FenceInv
    <3>2. StageOf(e) = "open" /\ StageOf(e)' = "applied"
      BY <2>0, <2>4, <3>1 DEF Complete, StageOf, TypeOK, Row
    <3>3. Stages' = [Stages EXCEPT ![e] = "applied"]
      BY <2>0, <2>4, <3>1, <3>2, StageMove DEF Complete
    <3>4. Inbox!Apply(e)
      BY <2>4, <3>1, <3>2, <3>3 DEF Complete, Inbox!Apply, Inbox!Move, Stages
    <3> QED
      BY <3>1, <3>4 DEF Inbox!Next
  <2>5. ASSUME NEW w \in Workers, RetryOrFail(w)
        PROVE  Inbox!Next \/ UNCHANGED <<Stages, applied>>
    <3>1. PICK e \in Events : e = worker[w].event /\ row[e].status = "processing"
      BY <2>0, <2>5, BusyHasToken DEF RetryOrFail, Owns, Busy, Holds, FenceInv
    <3>2. row' = [row EXCEPT ![e] = AfterFailure(row[e])] /\ applied' = applied
      BY <2>5, <3>1 DEF RetryOrFail
    <3>3. row'[e].status \in {"retry_wait", "failed"}
      BY <2>0, <3>1, <3>2 DEF AfterFailure, TypeOK, Row
    <3>4. StageOf(e) = "open" /\ StageOf(e)' \in {"open", "failed"}
      BY <3>1, <3>3 DEF StageOf
    <3>5. Stages' = [Stages EXCEPT ![e] = StageOf(e)']
      BY <2>0, <3>1, <3>2, StageMove
    <3>6. CASE StageOf(e)' = "failed"
      <4>1. Inbox!SetAside(e)
        BY <3>1, <3>2, <3>4, <3>5, <3>6 DEF Inbox!SetAside, Inbox!Move, Stages
      <4> QED
        BY <3>1, <4>1 DEF Inbox!Next
    <3>7. CASE StageOf(e)' = "open"
      BY <3>1, <3>2, <3>4, <3>5, <3>7 DEF Stages
    <3> QED
      BY <3>4, <3>6, <3>7
  <2>6. ASSUME UNCHANGED <<row, applied>>
        PROVE  UNCHANGED <<Stages, applied>>
    BY <2>6 DEF Stages, StageOf
  <2>7. ASSUME NEW w \in Workers, Process(w) \/ Discard(w) \/ Crash(w)
        PROVE  UNCHANGED <<row, applied>>
    BY <2>7 DEF Process, Discard, Crash
  <2>8. ASSUME NEW e \in Events, Redeliver(e)
        PROVE  UNCHANGED <<row, applied>>
    BY <2>8 DEF Redeliver, vars
  <2>9. CASE Tick \/ UNCHANGED vars
    BY <2>6, <2>9 DEF Tick, vars
  <2> QED
    BY <2>1, <2>2, <2>3, <2>4, <2>5, <2>6, <2>7, <2>8, <2>9 DEF Next, WorkerStep
<1> QED
  BY TypeCorrect, OwnershipInit, OwnershipStep, <1>1, <1>2, PTL DEF SafeSpec, Inbox!SafeSpec

\* Only the worker whose token is in the row ends the processing of an event.
THEOREM HolderFinishes == SafeSpec => OnlyTheHolderFinishes
<1> DEFINE Finish(e) == row[e].status = "processing" /\ row'[e] # row[e] =>
             \/ row'[e].status = "processing" /\ row'[e].lease # row[e].lease
             \/ \E w \in Workers : Holds(w, e) /\ worker'[w] = Idle
<1>1. OwnershipInv /\ [Next]_vars => \A e \in Events : Finish(e)
  <2> SUFFICES ASSUME OwnershipInv, [Next]_vars, NEW e \in Events
               PROVE  Finish(e)
    OBVIOUS
  <2>0. TypeOK /\ FenceInv /\ TokenInv
    BY DEF OwnershipInv
  <2>1. ASSUME NEW f \in Events, Enqueue(f) \/ ManualRetry(f) \/ Redeliver(f)
        PROVE  Finish(e)
    BY <2>0, <2>1 DEF Enqueue, ManualRetry, Redeliver, vars, TypeOK
  <2>2. ASSUME NEW w \in Workers, NEW f \in Events, ClaimNextEvent(w, f)
        PROVE  Finish(e)
    <3>1. /\ row'[f].status = "processing" /\ row'[f].lease = claims[f] + 1
          /\ \A g \in Events : g # f => row'[g] = row[g]
      BY <2>0, <2>2 DEF ClaimNextEvent, Leased, NewToken, TypeOK, Row
    <3>2. row[f].lease \in Nat /\ claims[f] \in Nat /\ row[f].lease <= claims[f]
      BY <2>0 DEF TokenInv, TypeOK, Row
    <3>3. row'[f].lease # row[f].lease
      BY <3>1, <3>2
    <3> QED
      BY <3>1, <3>3
  <2>3. ASSUME NEW w \in Workers, Complete(w) \/ RetryOrFail(w)
        PROVE  Finish(e)
    <3>1. worker[w].event \in Events /\ Holds(w, worker[w].event)
      BY <2>0, <2>3, BusyHasToken DEF Complete, RetryOrFail, Owns, Busy, Holds
    <3>2. worker'[w] = Idle /\ \A g \in Events : g # worker[w].event => row'[g] = row[g]
      BY <2>0, <2>3 DEF Complete, RetryOrFail, TypeOK
    <3> QED
      BY <3>1, <3>2
  <2>4. ASSUME UNCHANGED row
        PROVE  Finish(e)
    BY <2>4
  <2>5. ASSUME NEW w \in Workers, Process(w) \/ Discard(w) \/ Crash(w)
        PROVE  Finish(e)
    BY <2>5, <2>4 DEF Process, Discard, Crash
  <2>6. CASE Tick \/ UNCHANGED vars
    BY <2>6, <2>4 DEF Tick, vars
  <2> QED
    BY <2>1, <2>2, <2>3, <2>5, <2>6 DEF Next, WorkerStep
<1> QED
  BY TypeCorrect, OwnershipInit, OwnershipStep, <1>1, PTL DEF SafeSpec, OnlyTheHolderFinishes

\* Nobody touches a completed event again, however late a worker comes, and nobody but the
\* operator a failed one: whoever settles an event holds its token, and then it is processing.
THEOREM SettledStays == SafeSpec => SettledIsStable
<1> DEFINE Stable(e) == /\ row[e].status = "completed" => row'[e] = row[e]
                        /\ row[e].status = "failed" =>
                              \/ row'[e] = row[e]
                              \/ row'[e].attempts = 0 /\ row'[e].lease = NoLease
<1>1. OwnershipInv /\ [Next]_vars => \A e \in Events : Stable(e)
  <2> SUFFICES ASSUME OwnershipInv, [Next]_vars, NEW e \in Events
               PROVE  Stable(e)
    OBVIOUS
  <2>0. TypeOK /\ FenceInv
    BY DEF OwnershipInv
  <2>1. ASSUME NEW f \in Events, Enqueue(f) PROVE Stable(e)
    BY <2>0, <2>1 DEF Enqueue, TypeOK
  <2>2. ASSUME NEW f \in Events, ManualRetry(f) PROVE Stable(e)
    BY <2>0, <2>2 DEF ManualRetry, TypeOK, Row
  <2>3. ASSUME NEW w \in Workers, NEW f \in Events, ClaimNextEvent(w, f) PROVE Stable(e)
    <3>1. row[f].status \notin {"completed", "failed"}
      BY <2>3 DEF ClaimNextEvent, Claimable, Waiting, Expired
    <3>2. f # e => row'[e] = row[e]
      BY <2>0, <2>3 DEF ClaimNextEvent, TypeOK
    <3> QED
      BY <3>1, <3>2
  <2>4. ASSUME NEW w \in Workers, Complete(w) \/ RetryOrFail(w) PROVE Stable(e)
    <3>1. worker[w].event \in Events /\ Holds(w, worker[w].event)
      BY <2>0, <2>4, BusyHasToken DEF Complete, RetryOrFail, Owns, Busy, Holds
    <3>2. row[worker[w].event].status = "processing"
      BY <2>0, <3>1 DEF FenceInv
    <3>3. worker[w].event # e => row'[e] = row[e]
      BY <2>0, <2>4 DEF Complete, RetryOrFail, TypeOK
    <3> QED
      BY <3>2, <3>3
  <2>5. CASE UNCHANGED row
    BY <2>5
  <2> QED
    BY <2>1, <2>2, <2>3, <2>4, <2>5
       DEF Next, WorkerStep, Redeliver, Process, Discard, Crash, Tick, vars
<1> QED
  BY TypeCorrect, OwnershipInit, OwnershipStep, <1>1, PTL DEF SafeSpec, SettledIsStable
=============================================================================

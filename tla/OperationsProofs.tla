-------------------------- MODULE OperationsProofs --------------------------
(***************************************************************************)
(* Proofs about the operational desks and what feeds them: the requests of *)
(* the client, repairs, receipts, cash, the purchase plan, a first load    *)
(* and the forecast.  No desk's proof uses another's.                      *)
(***************************************************************************)
EXTENDS AlegraRequests, Repairs, Receiving, Replenishment, Treasury, Backfill, Forecasting,
        Sums

-----------------------------------------------------------------------------
(* The requests of a process, for any number of coroutines and retries,    *)
(* any interval and any delay.                                             *)

Pcs == Waiting \cup {"idle", "sent", "returned"}
Task == [pc : Pcs, attempt : Nat, wake : Nat, outcome : Outcomes]

RequestTypeOK ==
    /\ nextRequestAt \in Int
    /\ task \in [Tasks -> Task]
    /\ done \in [Tasks -> Nat]
    /\ slots \subseteq Int \X Tasks \X Nat

\* The limiter is an interval past every slot it gave out.
LimiterIsAhead == \A a \in slots : a[1] + Interval <= nextRequestAt

\* A POST is sent once, so Alegra did nothing before and at most one thing after.
SentOnce ==
    \A t \in Posts :
        /\ task[t].pc \notin {"sent", "returned"} => done[t] = 0
        /\ done[t] <= 1
        /\ task[t].outcome = "credentials" => task[t].pc = "returned" /\ done[t] = 0

RequestInv == RequestTypeOK /\ LimiterIsAhead /\ SlotsKeepTheInterval /\ SentOnce

LEMMA RequestInvInit == RequestInit => RequestInv
<1> USE RequestAssumption DEF RequestAssumption
<1> SUFFICES ASSUME RequestInit PROVE RequestInv
  OBVIOUS
<1>1. Fresh \in Task
  BY DEF Fresh, Task, Pcs, Waiting, Outcomes
<1>2. RequestTypeOK
  BY <1>1 DEF RequestInit, RequestTypeOK
<1>3. SentOnce
  BY DEF RequestInit, SentOnce, Fresh
<1> QED BY <1>2, <1>3 DEF RequestInit, RequestInv, LimiterIsAhead, SlotsKeepTheInterval

LEMMA SoonerIs ==
    ASSUME NEW moment \in Int, NEW floor \in Int
    PROVE  /\ Sooner(moment, floor) \in Int
           /\ moment > floor => Sooner(moment, floor) = moment - 1
           /\ Sooner(moment, floor) >= floor
BY DEF Sooner

\* What the passing of time leaves is moved by the same amount.
LEMMA TickKeeps == ASSUME RequestInv, Tick PROVE RequestInv'
<1> USE RequestAssumption DEF RequestAssumption
<1>1. nextRequestAt' \in Int
  BY SoonerIs DEF Tick, RequestInv, RequestTypeOK
<1>2. \A t \in Tasks :
         task'[t] \in Task /\ task'[t].pc = task[t].pc /\ task'[t].outcome = task[t].outcome
  <2> TAKE t \in Tasks
  <2>1. task[t] \in Task /\ task'[t] = [task[t] EXCEPT !.wake = Sooner(task[t].wake, 0)]
    BY DEF Tick, RequestInv, RequestTypeOK
  <2>2. Sooner(task[t].wake, 0) \in Nat
    BY <2>1, SoonerIs DEF Task
  <2> QED BY <2>1, <2>2 DEF Task
<1>3. task' \in [Tasks -> Task]
  BY <1>2 DEF Tick
<1>4. \A b \in slots' : \E a \in slots : a[1] > -Interval /\ b = <<a[1] - 1, a[2], a[3]>>
  BY DEF Tick
<1>5. slots' \subseteq Int \X Tasks \X Nat
  BY <1>4 DEF RequestInv, RequestTypeOK
<1>6. LimiterIsAhead'
  <2> SUFFICES ASSUME NEW b \in slots' PROVE b[1] + Interval <= nextRequestAt'
    BY DEF LimiterIsAhead
  <2>1. PICK a \in slots : a[1] > -Interval /\ b = <<a[1] - 1, a[2], a[3]>>
    BY <1>4
  <2>2. a[1] \in Int /\ b[1] = a[1] - 1 /\ a[1] + Interval <= nextRequestAt /\ nextRequestAt \in Int
    BY <2>1 DEF RequestInv, RequestTypeOK, LimiterIsAhead
  <2>3. nextRequestAt' = nextRequestAt - 1
    BY <2>1, <2>2, SoonerIs DEF Tick
  <2> QED BY <2>2, <2>3
<1>7. SlotsKeepTheInterval'
  <2> SUFFICES ASSUME NEW b \in slots', NEW d \in slots', b # d
               PROVE  b[1] - d[1] >= Interval \/ d[1] - b[1] >= Interval
    BY DEF SlotsKeepTheInterval
  <2>1. PICK a \in slots : b = <<a[1] - 1, a[2], a[3]>>
    BY <1>4
  <2>2. PICK c \in slots : d = <<c[1] - 1, c[2], c[3]>>
    BY <1>4
  <2>3. a # c
    BY <2>1, <2>2
  <2>4. a[1] - c[1] >= Interval \/ c[1] - a[1] >= Interval
    BY <2>3 DEF RequestInv, SlotsKeepTheInterval
  <2>5. a[1] \in Int /\ c[1] \in Int /\ b[1] = a[1] - 1 /\ d[1] = c[1] - 1
    BY <2>1, <2>2 DEF RequestInv, RequestTypeOK
  <2> QED BY <2>4, <2>5
<1>8. SentOnce'
  BY <1>2 DEF Tick, RequestInv, SentOnce
<1> QED BY <1>1, <1>3, <1>5, <1>6, <1>7, <1>8 DEF Tick, RequestInv, RequestTypeOK

\* A step of one coroutine that takes no slot and sends nothing.
LEMMA MoveKeeps ==
    ASSUME RequestInv, NEW t \in Tasks, NEW row \in Task, task' = [task EXCEPT ![t] = row],
           UNCHANGED <<nextRequestAt, done, slots>>,
           t \in Posts /\ row.pc \notin {"sent", "returned"} => done[t] = 0,
           t \in Posts /\ row.outcome = "credentials" => row.pc = "returned" /\ done[t] = 0
    PROVE  RequestInv'
<1>1. RequestTypeOK'
  BY DEF RequestInv, RequestTypeOK
<1>2. SentOnce'
  BY RequestAssumption DEF RequestAssumption, RequestInv, RequestTypeOK, SentOnce
<1> QED BY <1>1, <1>2 DEF RequestInv, LimiterIsAhead, SlotsKeepTheInterval

LEMMA TakeSlotKeeps == ASSUME RequestInv, NEW t \in Tasks, TakeSlot(t) PROVE RequestInv'
<1> USE RequestAssumption DEF RequestAssumption
<1> DEFINE moment == IF nextRequestAt > 0 THEN nextRequestAt ELSE 0
           row == [task[t] EXCEPT !.pc = "ready", !.wake = moment]
<1>1. nextRequestAt \in Int /\ task[t] \in Task
  BY DEF RequestInv, RequestTypeOK
<1>2. moment \in Nat /\ moment >= nextRequestAt /\ nextRequestAt' = moment + Interval
  BY <1>1 DEF TakeSlot, SlotAt
<1> HIDE DEF moment
<1>3. row \in Task /\ row.pc = "ready" /\ row.wake = moment /\ row.outcome = task[t].outcome
  BY <1>1, <1>2 DEF Task, Pcs, Waiting
<1>4. task' = [task EXCEPT ![t] = row]
  BY DEF TakeSlot, RequestInv, RequestTypeOK, moment
<1> HIDE DEF row
<1>5. task'[t] = row
  BY <1>4 DEF RequestInv, RequestTypeOK
<1>6. slots' = slots \cup {<<moment, t, task[t].attempt>>} /\ done' = done
  BY <1>3, <1>5 DEF TakeSlot
<1>7. RequestTypeOK'
  BY <1>1, <1>2, <1>3, <1>4, <1>6 DEF RequestInv, RequestTypeOK, Task
<1>8. \A a \in slots : a[1] \in Int /\ a[1] + Interval <= moment
  BY <1>1, <1>2 DEF RequestInv, RequestTypeOK, LimiterIsAhead
<1>9. LimiterIsAhead'
  BY <1>2, <1>6, <1>8 DEF LimiterIsAhead
<1>10. SlotsKeepTheInterval'
  BY <1>2, <1>6, <1>8 DEF RequestInv, SlotsKeepTheInterval
<1>11. SentOnce'
  BY <1>3, <1>4, <1>6 DEF TakeSlot, RequestInv, RequestTypeOK, SentOnce
<1> QED BY <1>7, <1>9, <1>10, <1>11 DEF RequestInv

LEMMA SendKeeps == ASSUME RequestInv, NEW t \in Tasks, Send(t) PROVE RequestInv'
<1> USE RequestAssumption DEF RequestAssumption
<1> DEFINE row == [task[t] EXCEPT !.pc = "sent"]
<1>1. row \in Task /\ row.pc = "sent" /\ row.outcome = task[t].outcome
  BY DEF RequestInv, RequestTypeOK, Task, Pcs
<1>2. task' = [task EXCEPT ![t] = row] /\ UNCHANGED <<nextRequestAt, slots>>
  BY DEF Send
<1> HIDE DEF row
<1>3. PICK n \in {0, 1} : done' = [done EXCEPT ![t] = @ + n]
  BY DEF Send
<1>4. RequestTypeOK'
  BY <1>1, <1>2, <1>3 DEF RequestInv, RequestTypeOK
<1>5. SentOnce'
  BY <1>1, <1>2, <1>3 DEF Send, RequestInv, RequestTypeOK, SentOnce
<1> QED BY <1>2, <1>4, <1>5 DEF RequestInv, LimiterIsAhead, SlotsKeepTheInterval

LEMMA RequestInvNext == RequestInv /\ [RequestNext]_requestVars => RequestInv'
<1> USE RequestAssumption DEF RequestAssumption
<1> SUFFICES ASSUME RequestInv, [RequestNext]_requestVars PROVE RequestInv'
  OBVIOUS
<1>1. \A t \in Tasks : task[t] \in Task /\ done[t] \in Nat
  BY DEF RequestInv, RequestTypeOK
<1>2. ASSUME NEW t \in Tasks, StartRequest(t) PROVE RequestInv'
  <2> DEFINE row == [task[t] EXCEPT !.pc = "slot", !.attempt = 1]
  <2>1. row \in Task /\ row.pc = "slot" /\ row.outcome = task[t].outcome
    BY <1>1 DEF Task, Pcs, Waiting
  <2>2. task' = [task EXCEPT ![t] = row]
    BY <1>2 DEF StartRequest, RequestInv, RequestTypeOK
  <2> HIDE DEF row
  <2>3. (t \in Posts => done[t] = 0 /\ task[t].outcome # "credentials")
    BY <1>2 DEF StartRequest, RequestInv, SentOnce
  <2> QED BY <1>2, <2>1, <2>2, <2>3, MoveKeeps DEF StartRequest
<1>3. ASSUME NEW t \in Tasks, WakeUp(t) PROVE RequestInv'
  <2> DEFINE row == [task[t] EXCEPT !.pc = "slot"]
  <2>1. row \in Task /\ row.pc = "slot" /\ row.outcome = task[t].outcome
    BY <1>1 DEF Task, Pcs, Waiting
  <2>2. task' = [task EXCEPT ![t] = row]
    BY <1>3 DEF WakeUp
  <2> HIDE DEF row
  <2>3. (t \in Posts => done[t] = 0 /\ task[t].outcome # "credentials")
    BY <1>3 DEF WakeUp, RequestInv, SentOnce
  <2> QED BY <1>3, <2>1, <2>2, <2>3, MoveKeeps DEF WakeUp
<1>4. ASSUME NEW t \in Tasks, NEW outcome \in Outcomes, Return(t, outcome),
             UNCHANGED <<nextRequestAt, done, slots>>, outcome = "credentials" => done[t] = 0
      PROVE  RequestInv'
  <2> DEFINE row == [task[t] EXCEPT !.pc = "returned", !.outcome = outcome]
  <2>1. row \in Task /\ row.pc = "returned" /\ row.outcome = outcome
    BY <1>1 DEF Task, Pcs
  <2>2. task' = [task EXCEPT ![t] = row]
    BY <1>4 DEF Return, RequestInv, RequestTypeOK
  <2> HIDE DEF row
  <2> QED BY <1>4, <2>1, <2>2, MoveKeeps
<1>5. ASSUME NEW t \in Tasks, Failed(t) PROVE RequestInv'
  <2>1. CASE MayRetry(t)
    <3>1. PICK delay \in 1 .. MaxDelay :
              task' = [task EXCEPT ![t].pc = "asleep", ![t].attempt = Following(@), ![t].wake = delay]
      BY <1>5, <2>1 DEF Failed
    <3> DEFINE row == [task[t] EXCEPT !.pc = "asleep", !.attempt = Following(task[t].attempt),
                                      !.wake = delay]
    <3>2. row \in Task /\ row.outcome = task[t].outcome
      <4>1. Following(task[t].attempt) \in Nat
        BY <1>1 DEF Following, Task
      <4>2. delay \in Nat
        OBVIOUS
      <4> QED BY <1>1, <4>1, <4>2 DEF Task, Pcs, Waiting
    <3>3. task' = [task EXCEPT ![t] = row]
      BY <3>1 DEF RequestInv, RequestTypeOK
    <3> HIDE DEF row
    <3>4. t \notin Posts
      BY <2>1 DEF MayRetry
    <3> QED BY <1>5, <3>2, <3>3, <3>4, MoveKeeps DEF Failed
  <2>2. CASE ~ MayRetry(t)
    BY <1>4, <1>5, <2>2 DEF Failed, Outcomes
  <2> QED BY <2>1, <2>2
<1>6. ASSUME NEW t \in Tasks, AnswerArrives(t) PROVE RequestInv'
  BY <1>4, <1>6 DEF AnswerArrives, Outcomes
<1>7. ASSUME UNCHANGED requestVars PROVE RequestInv'
  BY <1>7 DEF requestVars, RequestInv, RequestTypeOK, LimiterIsAhead, SlotsKeepTheInterval, SentOnce
<1> QED BY <1>2, <1>3, <1>5, <1>6, <1>7, TickKeeps, TakeSlotKeeps, SendKeeps DEF RequestNext

\* The client keeps its rate and its word (RequestsAreSafe): the limiter stays
\* ahead of its slots through idle times and retries, and what is POSTed is
\* sent once.
THEOREM RequestsStaySafe == RequestSpec => []RequestsAreSafe
<1>1. RequestInv => RequestsAreSafe
  BY DEF RequestInv, RequestsAreSafe, SentOnce, PostsHappenOnce
<1> QED BY <1>1, RequestInvInit, RequestInvNext, PTL DEF RequestSpec

-----------------------------------------------------------------------------
(* Repairs, for any jobs, parts, serials, warranty and day.                *)

\* A check in progress rests on a delivered job: nothing leaves "delivered",
\* and no correction changes a serial.
IntakeIsBacked ==
    intake # NoIntake =>
        /\ intake.job \in Jobs /\ intake.parent \in Jobs
        /\ job[intake.parent] # NoJob /\ job[intake.parent].status = "delivered"
        /\ job[intake.parent].serial = intake.serial /\ intake.serial # NoSerial

\* The certificate of any job, delivered or not, is over the parts it has.
CertificatesHold == \A j \in Jobs : job[j] # NoJob /\ job[j].complete => certified[j] = PartsOf(j)

RepairInv == RepairTypeOK /\ CertificatesHold /\ DeliveryIsDated /\ ReturnsAreBacked /\ IntakeIsBacked

LEMMA RepairInvInit == RepairInit => RepairInv
<1> USE RepairAssumption DEF RepairAssumption
<1> SUFFICES ASSUME RepairInit PROVE RepairInv
  OBVIOUS
<1>1. RepairTypeOK
  BY DEF RepairInit, RepairTypeOK, NoIntake, NoDay, Days
<1> QED BY <1>1
        DEF RepairInit, RepairInv, CertificatesHold, DeliveryIsDated, ReturnsAreBacked, IntakeIsBacked

LEMMA JobRow == ASSUME RepairTypeOK, NEW j \in Jobs, job[j] # NoJob PROVE job[j] \in Job
BY DEF RepairTypeOK

\* A delivered job stays so, and what is not delivered has no date.
LEMMA LegalStep ==
    ASSUME NEW old \in Job, NEW status \in Statuses, Legal(old, status)
    PROVE  old.status = "delivered" => status = "delivered"
BY DEF Legal, TRANSITIONS, Statuses, Job

\* A new row, of a job that comes for the first time or returns.
LEMMA NewRow ==
    ASSUME RepairInv, NEW j \in Jobs, job[j] = NoJob, NEW serial \in Serials \cup {NoSerial},
           NEW received \in Days, NEW parent \in Jobs \cup {NoJob},
           job' = [job EXCEPT ![j] = NewJob(serial, received, parent)],
           UNCHANGED <<today, part, certified>>,
           intake' = intake \/ intake' = NoIntake,
           parent # NoJob =>
              /\ job[parent] # NoJob /\ job[parent].status = "delivered"
              /\ job[parent].serial = serial /\ serial # NoSerial
    PROVE  RepairInv'
<1> USE RepairAssumption DEF RepairAssumption
<1> DEFINE row == NewJob(serial, received, parent)
<1>1. row \in Job
  BY DEF NewJob, Job, NoDay, Statuses, TRANSITIONS
<1>2. /\ row.status = "received" /\ row.delivered = NoDay /\ row.complete = FALSE
      /\ row.parent = parent /\ row.serial = serial
  BY DEF NewJob
<1>3. job' = [job EXCEPT ![j] = row]
  OBVIOUS
<1> HIDE DEF row
<1>4. \A i \in Jobs : job'[i] = IF i = j THEN row ELSE job[i]
  BY <1>3 DEF RepairInv, RepairTypeOK
<1>5. row # NoJob
  BY <1>1
<1>6. NoIntake \in [job : Jobs \cup {NoJob}, parent : Jobs \cup {NoJob}, serial : Serials \cup {NoSerial},
                    from : Days \cup {NoDay}, until : 0 .. LastDay + MaxWarranty]
  BY DEF NoIntake, NoDay
<1>7. RepairTypeOK'
  BY <1>1, <1>6, <1>3 DEF RepairInv, RepairTypeOK
<1>8. CertificatesHold'
  BY <1>2, <1>4, <1>5 DEF RepairInv, CertificatesHold, PartsOf
<1>9. DeliveryIsDated'
  BY <1>2, <1>4, <1>5 DEF RepairInv, DeliveryIsDated, NoDay
<1>10. ReturnsAreBacked'
  <2>1. \A i \in Jobs : job[i] # NoJob => job[i].parent \in Jobs \cup {NoJob}
    BY JobRow DEF RepairInv, Job
  <2> QED BY <1>2, <1>4, <1>5, <2>1 DEF RepairInv, ReturnsAreBacked
<1>11. IntakeIsBacked'
  BY <1>4 DEF RepairInv, IntakeIsBacked
<1> QED BY <1>7, <1>8, <1>9, <1>10, <1>11 DEF RepairInv

\* A changed row that keeps its serial, its parent and its delivery.
LEMMA ChangedRow ==
    ASSUME RepairInv, NEW j \in Jobs, job[j] # NoJob, NEW row \in Job,
           job' = [job EXCEPT ![j] = row], UNCHANGED <<today, intake>>,
           row.serial = job[j].serial, row.parent = job[j].parent,
           job[j].status = "delivered" => row.status = "delivered",
           row.delivered # NoDay <=> row.status = "delivered",
           row.delivered # NoDay => row.delivered \in row.received .. today,
           part' \in [Parts -> Jobs \cup {NoJob}], certified' \in [Jobs -> SUBSET Parts],
           CertificatesHold'
    PROVE  RepairInv'
<1> USE RepairAssumption DEF RepairAssumption
<1>1. \A i \in Jobs : job'[i] = IF i = j THEN row ELSE job[i]
  BY DEF RepairInv, RepairTypeOK
<1>2. row # NoJob
  OBVIOUS
<1>3. RepairTypeOK'
  BY DEF RepairInv, RepairTypeOK
<1>4. DeliveryIsDated'
  BY <1>1, <1>2 DEF RepairInv, DeliveryIsDated
<1>5. ReturnsAreBacked'
  <2>1. \A i \in Jobs : job[i] # NoJob => job[i].parent \in Jobs \cup {NoJob}
    BY JobRow DEF RepairInv, Job
  <2> QED BY <1>1, <1>2, <2>1 DEF RepairInv, ReturnsAreBacked
<1>6. IntakeIsBacked'
  BY <1>1, <1>2 DEF RepairInv, IntakeIsBacked
<1> QED BY <1>3, <1>4, <1>5, <1>6 DEF RepairInv

LEMMA UpdateKeeps ==
    ASSUME RepairInv, NEW j \in Jobs, NEW status \in Statuses, NEW given \in Days \cup {NoDay},
           NEW nulled \in BOOLEAN, NEW certify \in BOOLEAN, Update(j, status, given, nulled, certify)
    PROVE  RepairInv'
<1> USE RepairAssumption DEF RepairAssumption
<1> DEFINE old == job[j]
           read == IF nulled THEN [old EXCEPT !.delivered = NoDay] ELSE old
           day == DeliveredOn(read, status, given)
           row == [old EXCEPT !.status = status, !.delivered = day,
                              !.complete = IF certify THEN TRUE ELSE @]
<1>1. old \in Job /\ old # NoJob
  BY JobRow DEF Update, RepairInv
<1>2. old.status = "delivered" => status = "delivered"
  BY <1>1, LegalStep DEF Update
<1>3. today \in Days /\ old.received \in Days
  BY <1>1 DEF RepairInv, RepairTypeOK, Job
<1>4. status # "delivered" => day = NoDay
  <2> SUFFICES ASSUME status # "delivered" PROVE read.delivered = NoDay
    BY DEF DeliveredOn
  <2>1. old.delivered = NoDay
    BY <1>1, <1>2 DEF RepairInv, DeliveryIsDated
  <2> QED BY <1>1, <2>1 DEF Job
<1>5. status = "delivered" => day \in old.received .. today /\ day \in Days /\ day # NoDay
  <2>1. status = "delivered" => day \in old.received .. today
    BY DEF Update
  <2> HIDE DEF day
  <2> QED BY <1>3, <2>1 DEF Days, NoDay
<1>6. job' = [job EXCEPT ![j] = row]
  BY DEF Update
<1>7. day \in Days \cup {NoDay}
  BY <1>4, <1>5
<1> HIDE DEF day
<1>8. /\ row \in Job /\ row.status = status /\ row.delivered = day /\ row.received = old.received
      /\ row.serial = old.serial /\ row.parent = old.parent
      /\ row.complete = (certify \/ old.complete)
  BY <1>1, <1>7 DEF Job
<1> HIDE DEF row
<1>9. /\ UNCHANGED <<today, part, intake>>
      /\ certified' = IF certify THEN [certified EXCEPT ![j] = PartsOf(j)] ELSE certified
  BY DEF Update
<1>10. certified' \in [Jobs -> SUBSET Parts] /\ part' \in [Parts -> Jobs \cup {NoJob}]
  BY <1>9 DEF RepairInv, RepairTypeOK, PartsOf
<1>11. CertificatesHold'
  <2>1. \A i \in Jobs : PartsOf(i)' = PartsOf(i) /\ PartsOf(i) \subseteq Parts
    BY <1>9 DEF PartsOf
  <2>2. \A i \in Jobs : job'[i] = IF i = j THEN row ELSE job[i]
    BY <1>6 DEF RepairInv, RepairTypeOK
  <2>3. \A i \in Jobs : certified'[i] = IF certify /\ i = j THEN PartsOf(j) ELSE certified[i]
    BY <1>9 DEF RepairInv, RepairTypeOK
  <2> QED BY <1>1, <1>8, <2>1, <2>2, <2>3 DEF RepairInv, CertificatesHold
<1> QED BY <1>1, <1>2, <1>4, <1>5, <1>6, <1>8, <1>9, <1>10, <1>11, ChangedRow

LEMMA WithdrawKeeps ==
    ASSUME RepairInv, NEW j \in Jobs, Withdraw(j)
    PROVE  RepairInv'
<1> DEFINE row == [job[j] EXCEPT !.complete = FALSE]
<1>1. job[j] \in Job /\ job[j] # NoJob
  BY JobRow DEF Withdraw, RepairInv
<1>2. /\ row \in Job /\ row.status = job[j].status /\ row.delivered = job[j].delivered
      /\ row.received = job[j].received /\ row.serial = job[j].serial
      /\ row.parent = job[j].parent /\ row.complete = FALSE
  BY <1>1 DEF Job
<1>3. job' = [job EXCEPT ![j] = row] /\ UNCHANGED <<today, part, intake, certified>>
  BY DEF Withdraw
<1> HIDE DEF row
<1>4. CertificatesHold'
  BY <1>2, <1>3 DEF RepairInv, RepairTypeOK, CertificatesHold, PartsOf
<1>5. part' \in [Parts -> Jobs \cup {NoJob}] /\ certified' \in [Jobs -> SUBSET Parts]
  BY <1>3 DEF RepairInv, RepairTypeOK
<1> QED BY <1>1, <1>2, <1>3, <1>4, <1>5, ChangedRow DEF RepairInv, DeliveryIsDated

LEMMA AddPartKeeps ==
    ASSUME RepairInv, NEW p \in Parts, NEW j \in Jobs, AddPart(p, j)
    PROVE  RepairInv'
<1> DEFINE row == [job[j] EXCEPT !.complete = FALSE]
<1>1. job[j] \in Job /\ job[j] # NoJob
  BY JobRow DEF AddPart, RepairInv
<1>2. /\ row \in Job /\ row.status = job[j].status /\ row.delivered = job[j].delivered
      /\ row.received = job[j].received /\ row.serial = job[j].serial
      /\ row.parent = job[j].parent /\ row.complete = FALSE
  BY <1>1 DEF Job
<1>3. /\ job' = [job EXCEPT ![j] = row] /\ UNCHANGED <<today, intake, certified>>
      /\ part[p] = NoJob /\ part' = [part EXCEPT ![p] = j]
  BY DEF AddPart, Uncertified
<1> HIDE DEF row
<1>4. CertificatesHold'
  <2>1. \A i \in Jobs : i # j => PartsOf(i)' = PartsOf(i)
    BY <1>3, RepairAssumption DEF RepairAssumption, RepairInv, RepairTypeOK, PartsOf
  <2>2. \A i \in Jobs : job'[i] = IF i = j THEN row ELSE job[i]
    BY <1>3 DEF RepairInv, RepairTypeOK
  <2> QED BY <1>2, <1>3, <2>1, <2>2 DEF RepairInv, CertificatesHold
<1>5. part' \in [Parts -> Jobs \cup {NoJob}] /\ certified' \in [Jobs -> SUBSET Parts]
  BY <1>3 DEF RepairInv, RepairTypeOK
<1> QED BY <1>1, <1>2, <1>3, <1>4, <1>5, ChangedRow DEF RepairInv, DeliveryIsDated

LEMMA CheckWarrantyKeeps ==
    ASSUME RepairInv, NEW j \in Jobs, NEW parent \in Jobs, NEW serial \in Serials,
           CheckWarranty(j, parent, serial)
    PROVE  RepairInv'
<1> USE RepairAssumption DEF RepairAssumption
<1>1. PICK days \in 0 .. MaxWarranty :
          intake' = [job |-> j, parent |-> parent, serial |-> serial, from |-> job[parent].delivered,
                     until |-> job[parent].delivered + days]
  BY DEF CheckWarranty
<1>2. /\ job[parent] # NoJob /\ job[parent] \in Job /\ Guaranteed(job[parent], serial)
      /\ UNCHANGED <<today, job, part, certified>>
  BY JobRow DEF CheckWarranty, RepairInv
<1>3. job[parent].delivered \in Days /\ job[parent].status = "delivered"
  BY <1>2 DEF Guaranteed, RepairInv, DeliveryIsDated, Job
<1>4. job[parent].delivered + days \in 0 .. LastDay + MaxWarranty
  BY <1>3 DEF Days
<1>5. RepairTypeOK'
  BY <1>1, <1>2, <1>3, <1>4 DEF RepairInv, RepairTypeOK
<1>6. IntakeIsBacked'
  BY <1>1, <1>2, <1>3 DEF IntakeIsBacked, Guaranteed
<1>7. CertificatesHold' /\ DeliveryIsDated' /\ ReturnsAreBacked'
  BY <1>2 DEF RepairInv, CertificatesHold, DeliveryIsDated, ReturnsAreBacked, PartsOf
<1> QED BY <1>5, <1>6, <1>7 DEF RepairInv

LEMMA InsertReturnKeeps ==
    ASSUME RepairInv, NEW received \in Days, InsertReturn(received)
    PROVE  RepairInv'
<1> USE RepairAssumption DEF RepairAssumption
<1>1. intake # NoIntake /\ intake' = NoIntake /\ UNCHANGED <<today, part, certified>>
  BY DEF InsertReturn
<1>2. /\ intake.job \in Jobs /\ intake.parent \in Jobs /\ intake.serial \in Serials \cup {NoSerial}
      /\ job[intake.parent] # NoJob /\ job[intake.parent].status = "delivered"
      /\ job[intake.parent].serial = intake.serial /\ intake.serial # NoSerial
  BY <1>1 DEF RepairInv, IntakeIsBacked, RepairTypeOK
<1>3. CASE job' = job
  <2>1. NoIntake \in [job : Jobs \cup {NoJob}, parent : Jobs \cup {NoJob},
                      serial : Serials \cup {NoSerial}, from : Days \cup {NoDay},
                      until : 0 .. LastDay + MaxWarranty]
    BY DEF NoIntake, NoDay
  <2> QED BY <1>1, <1>3, <2>1
          DEF RepairInv, RepairTypeOK, CertificatesHold, DeliveryIsDated, ReturnsAreBacked,
              IntakeIsBacked, PartsOf
<1>4. CASE job' # job
  <2>1. /\ job[intake.job] = NoJob
        /\ job' = [job EXCEPT ![intake.job] = NewJob(intake.serial, received, intake.parent)]
    BY <1>4 DEF InsertReturn
  <2> QED BY <1>1, <1>2, <2>1, NewRow
<1> QED BY <1>3, <1>4

LEMMA RepairInvNext == RepairInv /\ [RepairNext]_repairVars => RepairInv'
<1> USE RepairAssumption DEF RepairAssumption
<1> SUFFICES ASSUME RepairInv, [RepairNext]_repairVars PROVE RepairInv'
  OBVIOUS
<1>1. CASE Tomorrow
  <2>1. today' \in Days /\ today' = today + 1 /\ UNCHANGED <<job, part, intake, certified>>
    BY <1>1 DEF Tomorrow, RepairInv, RepairTypeOK, Days
  <2>2. DeliveryIsDated'
    <3>1. \A j \in Jobs : job[j] # NoJob => job[j].delivered \in Int /\ job[j].received \in Int
      BY JobRow DEF RepairInv, Job, Days, NoDay
    <3> QED BY <2>1, <3>1 DEF RepairInv, RepairTypeOK, DeliveryIsDated, Days
  <2> QED BY <2>1, <2>2
          DEF RepairInv, RepairTypeOK, CertificatesHold, ReturnsAreBacked, IntakeIsBacked, PartsOf
<1>2. ASSUME NEW j \in Jobs, NEW serial \in Serials \cup {NoSerial}, NEW received \in Days,
             Create(j, serial, received)
      PROVE  RepairInv'
  BY <1>2, NewRow DEF Create
<1>3. ASSUME UNCHANGED repairVars PROVE RepairInv'
  BY <1>3 DEF repairVars, RepairInv, RepairTypeOK, CertificatesHold, DeliveryIsDated,
              ReturnsAreBacked, IntakeIsBacked, PartsOf
<1> QED BY <1>1, <1>2, <1>3, CheckWarrantyKeeps, InsertReturnKeeps, UpdateKeeps, WithdrawKeeps,
           AddPartKeeps DEF RepairNext

\* The repair desk keeps its promises (RepairsAreTrue): a margin over the parts
\* that were certified, a delivery between reception and today, a warranty that
\* rests on a delivered job of that serial, although the check takes no lock.
THEOREM RepairsStayTrue == RepairSpec => []RepairsAreTrue
<1>1. RepairInv => RepairsAreTrue
  BY DEF RepairInv, RepairsAreTrue, CertificatesHold, MarginIsCertified, MarginShown
<1> QED BY <1>1, RepairInvInit, RepairInvNext, PTL DEF RepairSpec

-----------------------------------------------------------------------------
(* What is received of an order, for any clients, lines, items and edits.  *)

\* What the receipts of r say was accepted, and those of an item on a line.
UnitsOf(r) == [c \in Clients |-> r[c].accepted]
ReceiptsOf(r, l, i) == {c \in Clients : r[c] # NoReceipt /\ r[c].line = l /\ r[c].item = i}

\* The line never asks for more than the most it asked for.
AskedIsRecorded ==
    \A l \in OrderLines : orderLine.rows[l] # NoOrderLine =>
        orderLine.rows[l].quantity <= most[l][orderLine.rows[l].item]

\* The parts of ReceiptsAreKept, with its sums over positions of a function.
UnitsAreAsked ==
    \A l \in OrderLines, i \in Items :
        SumOver(UnitsOf(receipt), ReceiptsOf(receipt, l, i)) <= most[l][i]

ClosedIsComplete ==
    tracking.stage = "closed" /\ ~ tracking.noted /\ ~ tracking.edited =>
        \A l \in Existing :
            SumOver(UnitsOf(receipt), ReceiptsOf(receipt, l, orderLine.rows[l].item))
                >= orderLine.rows[l].quantity

ReceivingInv ==
    ReceivingTypeOK /\ AskedIsRecorded /\ UnitsAreAsked /\ RefusedMeansNothing /\ ClosedIsComplete

\* The sum that the code takes over receipts.
LEMMA AcceptedIs ==
    ASSUME NEW S \in SUBSET Clients
    PROVE  Accepted(S) = SumOver(UnitsOf(receipt), S)
<1>1. IsFiniteSet(S)
  BY ReceivingAssumption, FS_Subset
<1>2. Accepted(S) = SumOver([c \in S |-> receipt[c].accepted], S)
  BY DEF Accepted, SumOver, MapThenSumSet, MapThenFoldSet
<1>3. \A c \in S : [d \in S |-> receipt[d].accepted][c] = UnitsOf(receipt)[c]
  BY DEF UnitsOf
<1> QED  BY <1>1, <1>2, <1>3, SumSame

LEMMA ReceivedIs ==
    ASSUME NEW l \in Existing
    PROVE  /\ Received(l) = ReceiptsOf(receipt, l, orderLine.rows[l].item)
           /\ Accepted(Received(l))
                = SumOver(UnitsOf(receipt), ReceiptsOf(receipt, l, orderLine.rows[l].item))
<1>1. Received(l) = ReceiptsOf(receipt, l, orderLine.rows[l].item)
  BY DEF Received, ReceiptsOf
<1>2. Received(l) \in SUBSET Clients
  BY DEF Received
<1> QED  BY <1>1, <1>2, AcceptedIs

LEMMA ReceivingInvIsEnough == ReceivingInv => ReceiptsAreKept
<1> SUFFICES ASSUME ReceivingInv PROVE ReceiptsAreKept
  OBVIOUS
<1>1. NeverMoreThanAsked
  <2> SUFFICES ASSUME NEW l \in OrderLines, NEW i \in Items
               PROVE  Accepted(ReceiptsOf(receipt, l, i)) <= most[l][i]
    BY DEF NeverMoreThanAsked, ReceiptsOf
  <2>1. ReceiptsOf(receipt, l, i) \in SUBSET Clients
    BY DEF ReceiptsOf
  <2> QED  BY <2>1, AcceptedIs DEF ReceivingInv, UnitsAreAsked
<1>2. NothingPendingUnexplained
  <2> SUFFICES ASSUME tracking.stage = "closed", ~ tracking.noted, ~ tracking.edited, NEW l \in Existing
               PROVE  Accepted(ReceiptsOf(receipt, l, orderLine.rows[l].item)) >= orderLine.rows[l].quantity
    BY DEF NothingPendingUnexplained, ReceiptsOf
  <2>1. ReceiptsOf(receipt, l, orderLine.rows[l].item) \in SUBSET Clients
    BY DEF ReceiptsOf
  <2> QED  BY <2>1, AcceptedIs DEF ReceivingInv, ClosedIsComplete
<1> QED  BY <1>1, <1>2 DEF ReceivingInv, ReceiptsAreKept

LEMMA ReceivingInitially == ReceivingInit => ReceivingInv
<1> USE ReceivingAssumption
<1> SUFFICES ASSUME ReceivingInit PROVE ReceivingInv
  OBVIOUS
<1>1. orderLine.rows \in [OrderLines -> OrderLine] /\ orderLine.present = TRUE
      /\ orderLine = [present |-> orderLine.present, rows |-> orderLine.rows]
  BY DEF ReceivingInit
<1>2. \A l \in OrderLines : /\ orderLine.rows[l] \in OrderLine
                            /\ orderLine.rows[l].quantity \in 0 .. MaxQuantity
                            /\ orderLine.rows[l].item \in Items
  BY <1>1 DEF OrderLine
<1>3. \A l \in OrderLines, i \in Items :
          most[l][i] = IF orderLine.rows[l].item = i THEN orderLine.rows[l].quantity ELSE 0
  BY DEF ReceivingInit
<1>4. ReceivingTypeOK
  <2>1. most \in [OrderLines -> [Items -> 0 .. MaxQuantity]]
    BY <1>2 DEF ReceivingInit
  <2>2. orderLine \in [present : BOOLEAN, rows : [OrderLines -> OrderLine \cup {NoOrderLine}]]
    BY <1>1
  <2> QED  BY <2>1, <2>2 DEF ReceivingTypeOK, ReceivingInit, Stages
<1>5. AskedIsRecorded
  BY <1>2, <1>3 DEF AskedIsRecorded
<1>6. UnitsAreAsked
  <2> SUFFICES ASSUME NEW l \in OrderLines, NEW i \in Items
               PROVE  SumOver(UnitsOf(receipt), ReceiptsOf(receipt, l, i)) <= most[l][i]
    BY DEF UnitsAreAsked
  <2>1. ReceiptsOf(receipt, l, i) = {}
    BY DEF ReceivingInit, ReceiptsOf
  <2>2. most[l][i] >= 0
    BY <1>2, <1>3
  <2> QED  BY <2>1, <2>2, SumEmpty
<1> QED  BY <1>4, <1>5, <1>6 DEF ReceivingInv, ReceivingInit, RefusedMeansNothing, ClosedIsComplete

LEMMA EditKeepsReceipts ==
    ASSUME ReceivingInv, EditOrder
    PROVE  ReceivingInv'
<1> USE ReceivingAssumption
<1>1. /\ orderLine \in [present : BOOLEAN, rows : [OrderLines -> OrderLine \cup {NoOrderLine}]]
      /\ most \in [OrderLines -> [Items -> 0 .. MaxQuantity]]
      /\ tracking \in [stage : Stages, noted : BOOLEAN, edited : BOOLEAN]
  BY DEF ReceivingInv, ReceivingTypeOK
<1>2. orderLine' \in [present : BOOLEAN, rows : [OrderLines -> OrderLine \cup {NoOrderLine}]]
  <2>1. CASE orderLine' = [orderLine EXCEPT !.present = ~ @]
    BY <1>1, <2>1
  <2>2. ASSUME NEW l \in OrderLines, NEW row \in OrderLine \cup {NoOrderLine},
               orderLine' = [orderLine EXCEPT !.rows[l] = row]
        PROVE  orderLine' \in [present : BOOLEAN, rows : [OrderLines -> OrderLine \cup {NoOrderLine}]]
    BY <1>1, <2>2
  <2> QED  BY <2>1, <2>2 DEF EditOrder
<1>3. \A l \in OrderLines, i \in Items :
          /\ most'[l][i] \in 0 .. MaxQuantity /\ most'[l][i] >= most[l][i]
          /\ orderLine'.rows[l] # NoOrderLine /\ orderLine'.rows[l].item = i =>
                orderLine'.rows[l].quantity <= most'[l][i]
  <2> SUFFICES ASSUME NEW l \in OrderLines, NEW i \in Items
               PROVE  /\ most'[l][i] \in 0 .. MaxQuantity /\ most'[l][i] >= most[l][i]
                      /\ orderLine'.rows[l] # NoOrderLine /\ orderLine'.rows[l].item = i =>
                            orderLine'.rows[l].quantity <= most'[l][i]
    OBVIOUS
  <2>1. PICK row : row = orderLine'.rows[l]
    OBVIOUS
  <2>2. row # NoOrderLine => row.quantity \in 0 .. MaxQuantity
    BY <1>2, <2>1 DEF OrderLine
  <2>3. most[l][i] \in 0 .. MaxQuantity
    BY <1>1
  <2>4. most'[l][i] = IF row # NoOrderLine /\ row.item = i /\ row.quantity > most[l][i]
                      THEN row.quantity ELSE most[l][i]
    BY <2>1 DEF EditOrder
  <2> QED  BY <2>1, <2>2, <2>3, <2>4
<1>4. ReceivingTypeOK'
  <2>1. most' \in [OrderLines -> [Items -> 0 .. MaxQuantity]]
    BY <1>3 DEF EditOrder
  <2>2. tracking' \in [stage : Stages, noted : BOOLEAN, edited : BOOLEAN]
    BY <1>1 DEF EditOrder
  <2>3. edits' \in 0 .. MaxOrderEdits
    BY DEF EditOrder, ReceivingInv, ReceivingTypeOK
  <2> QED  BY <1>2, <2>1, <2>2, <2>3 DEF EditOrder, ReceivingInv, ReceivingTypeOK
<1>5. AskedIsRecorded'
  BY <1>2, <1>3 DEF AskedIsRecorded, OrderLine
<1>6. UnitsAreAsked'
  <2> SUFFICES ASSUME NEW l \in OrderLines, NEW i \in Items
               PROVE  SumOver(UnitsOf(receipt), ReceiptsOf(receipt, l, i)) <= most'[l][i]
    BY DEF UnitsAreAsked, EditOrder
  <2>1. SumOver(UnitsOf(receipt), ReceiptsOf(receipt, l, i)) <= most[l][i]
    BY DEF ReceivingInv, UnitsAreAsked
  <2>2. SumOver(UnitsOf(receipt), ReceiptsOf(receipt, l, i)) \in Int
    <3>1. IsFiniteSet(ReceiptsOf(receipt, l, i))
      BY FS_Subset DEF ReceiptsOf
    <3>2. \A c \in ReceiptsOf(receipt, l, i) : UnitsOf(receipt)[c] \in Int
      BY DEF ReceiptsOf, UnitsOf, ReceivingInv, ReceivingTypeOK, Receipt
    <3> QED  BY <3>1, <3>2, SumTakeOut
  <2>3. most[l][i] \in Int /\ most'[l][i] \in Int /\ most[l][i] <= most'[l][i]
    BY <1>1, <1>3
  <2> QED  BY <2>1, <2>2, <2>3
<1>7. ClosedIsComplete'
  <2>1. tracking'.edited = TRUE
    BY <1>1 DEF EditOrder
  <2> QED  BY <2>1 DEF ClosedIsComplete
<1> QED  BY <1>4, <1>5, <1>6, <1>7 DEF ReceivingInv, RefusedMeansNothing, EditOrder

LEMMA TrackKeepsReceipts ==
    ASSUME ReceivingInv, NEW stage \in Stages, NEW noted \in BOOLEAN, Track(stage, noted)
    PROVE  ReceivingInv'
<1>1. /\ stage = "closed" => Complete \/ noted
      /\ tracking' = [stage |-> stage, noted |-> noted, edited |-> FALSE]
      /\ UNCHANGED <<orderLine, receipt, answer, most, edits>>
  BY DEF Track
<1>2. Existing' = Existing
  BY <1>1 DEF Existing
<1>3. ASSUME stage = "closed", ~ noted, NEW l \in Existing
      PROVE  SumOver(UnitsOf(receipt), ReceiptsOf(receipt, l, orderLine.rows[l].item))
                >= orderLine.rows[l].quantity
  <2>1. Accepted(Received(l)) >= orderLine.rows[l].quantity
    BY <1>1, <1>3 DEF Complete
  <2> QED  BY <1>3, <2>1, ReceivedIs
<1>4. ClosedIsComplete'
  BY <1>1, <1>2, <1>3 DEF ClosedIsComplete
<1> QED  BY <1>1, <1>4 DEF ReceivingInv, ReceivingTypeOK, AskedIsRecorded, UnitsAreAsked, RefusedMeansNothing

\* An answer that records nothing.
LEMMA AnswerKeepsReceipts ==
    ASSUME ReceivingInv, NEW c \in Clients, NEW text \in {"recorded", "another", "refused", "missing"},
           Answer(c, text), text = "refused" => receipt[c] = NoReceipt,
           UNCHANGED <<orderLine, tracking, receipt, most, edits>>
    PROVE  ReceivingInv'
<1>1. answer' \in [Clients -> {"none", "recorded", "another", "refused", "missing"}]
      /\ answer' = [answer EXCEPT ![c] = text] /\ answer \in [Clients -> {"none", "recorded", "another", "refused", "missing"}]
  BY DEF ReceivingInv, ReceivingTypeOK, Answer
<1>2. RefusedMeansNothing'
  BY <1>1 DEF ReceivingInv, RefusedMeansNothing
<1>3. Existing' = Existing
  BY DEF Existing
<1> QED  BY <1>1, <1>2, <1>3 DEF ReceivingInv, ReceivingTypeOK, AskedIsRecorded, UnitsAreAsked, ClosedIsComplete

\* A new receipt adds its units to those of its item on its line, and to no others.
LEMMA NewReceiptKeepsReceipts ==
    ASSUME ReceivingInv, NEW c \in Clients, NEW l \in OrderLines, NEW units \in 0 .. MaxQuantity,
           ~ Known(c), Acceptable(l, units),
           receipt' = [receipt EXCEPT ![c] =
                [line |-> l, item |-> orderLine.rows[l].item, accepted |-> units]],
           Answer(c, "recorded") \/ Answer(c, "none"),
           UNCHANGED <<orderLine, tracking, most, edits>>
    PROVE  ReceivingInv'
<1> USE ReceivingAssumption
<1>1. /\ receipt \in [Clients -> Receipt \cup {NoReceipt}] /\ receipt[c] = NoReceipt
      /\ most \in [OrderLines -> [Items -> 0 .. MaxQuantity]]
      /\ answer \in [Clients -> {"none", "recorded", "another", "refused", "missing"}]
      /\ orderLine.rows \in [OrderLines -> OrderLine \cup {NoOrderLine}]
  BY DEF ReceivingInv, ReceivingTypeOK, Known
<1>2. orderLine.rows[l] \in OrderLine
  BY <1>1 DEF Acceptable, Existing
<1>3. PICK i \in Items : i = orderLine.rows[l].item
  BY <1>2 DEF OrderLine
<1>4. PICK new : new = [line |-> l, item |-> i, accepted |-> units]
  OBVIOUS
<1>5. new \in Receipt /\ new # NoReceipt /\ new.line = l /\ new.item = i /\ new.accepted = units
  <2>1. new \in Receipt
    BY <1>4 DEF Receipt
  <2> QED  BY <1>4, <2>1
<1>6. receipt' = [receipt EXCEPT ![c] = new]
  BY <1>3, <1>4
<1>7. receipt'[c] = new /\ \A d \in Clients : d # c => receipt'[d] = receipt[d]
  BY <1>1, <1>6
<1>8. ReceivingTypeOK'
  <2>1. receipt' \in [Clients -> Receipt \cup {NoReceipt}]
    BY <1>1, <1>5, <1>6
  <2>2. answer' \in [Clients -> {"none", "recorded", "another", "refused", "missing"}]
    BY <1>1 DEF Answer
  <2> QED  BY <2>1, <2>2 DEF ReceivingInv, ReceivingTypeOK
<1>9. RefusedMeansNothing'
  <2>1. answer'[c] # "refused" /\ \A d \in Clients : d # c => answer'[d] = answer[d]
    BY <1>1 DEF Answer
  <2> QED  BY <1>7, <2>1 DEF ReceivingInv, RefusedMeansNothing
<1>10. ASSUME NEW k \in OrderLines, NEW j \in Items
       PROVE  SumOver(UnitsOf(receipt'), ReceiptsOf(receipt', k, j)) <= most[k][j]
  <2> DEFINE S == ReceiptsOf(receipt, k, j)
             T == ReceiptsOf(receipt', k, j)
             v == UnitsOf(receipt)
             w == UnitsOf(receipt')
  <2>1. IsFiniteSet(S) /\ c \notin S /\ \A d \in S : v[d] \in Int /\ w[d] = v[d]
    <3>1. IsFiniteSet(S) /\ c \notin S
      BY <1>1, FS_Subset DEF ReceiptsOf
    <3>2. \A d \in S : receipt[d] \in Receipt /\ receipt'[d] = receipt[d]
      BY <1>1, <1>7 DEF ReceiptsOf
    <3> QED  BY <3>1, <3>2 DEF ReceiptsOf, UnitsOf, Receipt
  <2>2. T = IF k = l /\ j = i THEN S \cup {c} ELSE S
    BY <1>1, <1>5, <1>7 DEF ReceiptsOf
  <2>3. SumOver(v, S) <= most[k][j]
    BY DEF ReceivingInv, UnitsAreAsked
  <2>4. w[c] = units
    BY <1>5, <1>7 DEF UnitsOf
  <2>5. k = l /\ j = i => units + SumOver(v, S) <= most[k][j]
    <3>1. SUFFICES ASSUME k = l, j = i PROVE units + SumOver(v, S) <= most[k][j]
      OBVIOUS
    <3>2. l \in Existing /\ units + Accepted(Received(l)) <= orderLine.rows[l].quantity
      BY DEF Acceptable
    <3>3. Accepted(Received(l)) = SumOver(v, S)
      BY <1>3, <3>1, <3>2, ReceivedIs
    <3>4. orderLine.rows[l].quantity <= most[l][i]
      BY <1>2, <1>3 DEF ReceivingInv, AskedIsRecorded
    <3>5. orderLine.rows[l].quantity \in Int /\ most[l][i] \in Int
      BY <1>1, <1>2 DEF OrderLine
    <3> HIDE DEF S, v
    <3>6. SumOver(v, S) \in Int
      BY <2>1, SumTakeOut
    <3> QED  BY <3>1, <3>2, <3>3, <3>4, <3>5, <3>6
  <2> HIDE DEF S, T, v, w
  <2>6. SumOver(w, S) = SumOver(v, S)
    BY <2>1, SumSame
  <2>7. SumOver(w, S \cup {c}) = units + SumOver(v, S)
    <3>1. \A x \in S \cup {c} : w[x] \in Int
      BY <2>1, <2>4
    <3>2. SumOver(w, S \cup {c}) = w[c] + SumOver(w, S)
      BY <2>1, <3>1, SumAdd
    <3> QED  BY <2>4, <2>6, <3>2
  <2>8. SumOver(w, T) <= most[k][j]
    BY <2>2, <2>3, <2>5, <2>6, <2>7
  <2> QED  BY <2>8 DEF T, w
<1>11. UnitsAreAsked'
  BY <1>10 DEF UnitsAreAsked
<1>12. ClosedIsComplete'
  BY DEF ClosedIsComplete, Acceptable
<1> QED  BY <1>8, <1>9, <1>11, <1>12 DEF ReceivingInv, AskedIsRecorded

LEMMA ReceiveKeepsReceipts ==
    ASSUME ReceivingInv, NEW c \in Clients, NEW l \in OrderLines, NEW units \in 0 .. MaxQuantity,
           Receive(c, l, units)
    PROVE  ReceivingInv'
<1>1. UNCHANGED <<orderLine, tracking, most, edits>>
  BY DEF Receive
<1>2. CASE /\ ~ Known(c) /\ Acceptable(l, units)
           /\ receipt' = [receipt EXCEPT ![c] =
                [line |-> l, item |-> orderLine.rows[l].item, accepted |-> units]]
           /\ Answer(c, "recorded") \/ Answer(c, "none")
  BY <1>1, <1>2, NewReceiptKeepsReceipts
<1>3. ASSUME NEW text \in {"recorded", "another", "refused", "missing"},
             Answer(c, text), text = "refused" => receipt[c] = NoReceipt, receipt' = receipt
      PROVE  ReceivingInv'
  BY <1>1, <1>3, AnswerKeepsReceipts
<1> QED  BY <1>2, <1>3 DEF Receive, Known

LEMMA ReceiptsStay == ReceivingInv /\ [ReceivingNext]_receivingVars => ReceivingInv'
<1> SUFFICES ASSUME ReceivingInv, [ReceivingNext]_receivingVars PROVE ReceivingInv'
  OBVIOUS
<1>1. CASE UNCHANGED receivingVars
  BY <1>1 DEF receivingVars, ReceivingInv, ReceivingTypeOK, AskedIsRecorded, UnitsAreAsked,
              RefusedMeansNothing, ClosedIsComplete, Existing
<1> QED  BY <1>1, EditKeepsReceipts, TrackKeepsReceipts, ReceiveKeepsReceipts DEF ReceivingNext

\* However receipts, retries and edits of the order interleave, the units accepted of an item
\* on a line never exceed the most it asked for, a refused client recorded nothing, and an
\* order closed without a note had everything.
THEOREM ReceiptsStayKept == ReceivingSpec => []ReceiptsAreKept
<1> QED  BY ReceivingInitially, ReceiptsStay, ReceivingInvIsEnough, PTL DEF ReceivingSpec

-----------------------------------------------------------------------------
(* The purchase plan, for any products, suppliers, policies and budget.    *)

\* Packs: a quantity rounded up is the least multiple of the pack that covers it.
LEMMA RoundedUp ==
    ASSUME NEW a \in Nat, NEW p \in Nat \ {0}
    PROVE  /\ RoundUp(a, p) \in Nat /\ RoundUp(a, p) >= a /\ RoundUp(a, p) < a + p
           /\ RoundUp(a, p) % p = 0
BY DEF RoundUp

LEMMA LeastMultiple ==
    ASSUME NEW a \in Nat, NEW p \in Nat \ {0}, NEW q \in Nat, q % p = 0, q >= a
    PROVE  q >= RoundUp(a, p)
<1> DEFINE n == (a + p - 1) \div p
           k == q \div p
<1>1. k \in Nat /\ q = p * k
  OBVIOUS
<1>2. n \in Nat /\ RoundUp(a, p) = n * p
  BY DEF RoundUp
<1>3. n * p < a + p
  BY <1>2, RoundedUp
<1> HIDE DEF n, k
<1>4. k < n => k * p + p <= n * p
  BY <1>1, <1>2
<1>5. k >= n => k * p >= n * p
  BY <1>1, <1>2
<1>6. PICK x \in Int, y \in Int : x = k * p /\ y = n * p
  BY <1>1, <1>2
<1>7. q = x /\ RoundUp(a, p) = y
  BY <1>1, <1>2, <1>6
<1> QED  BY <1>1, <1>2, <1>3, <1>4, <1>5, <1>6, <1>7

LEMMA MaxIs == ASSUME NEW a \in Int, NEW b \in Int PROVE Max({a, b}) = IF a >= b THEN a ELSE b
BY DEF Max

LEMMA MinIs ==
    ASSUME NEW S \in SUBSET Int, NEW m \in S, \A x \in S : m <= x
    PROVE  Min(S) = m
<1>1. Min(S) \in S /\ \A y \in S : Min(S) <= y
  BY DEF Min
<1>2. Min(S) \in Int /\ m \in Int /\ Min(S) <= m /\ m <= Min(S)
  BY <1>1
<1> QED  BY <1>2

LEMMA InputIs ==
    ASSUME NEW i \in Inputs
    PROVE  /\ Position(i) \in Nat /\ Position(i) = Max({i.stock, 0}) + i.transit
           /\ Base(i) \in Nat /\ Base(i) = IF i.target > Position(i) THEN i.target - Position(i) ELSE 0
           /\ Wanted(i) \in Nat
           /\ Max({Base(i), i.minimum}) \in Nat
<1>1. i.stock \in Int /\ i.transit \in Nat /\ i.target \in Nat /\ i.minimum \in Nat /\ i.pack \in Nat \ {0}
  BY ReplenishmentAssumption
<1>2. Max({i.stock, 0}) \in Nat
  BY <1>1, MaxIs
<1>3. Position(i) \in Nat
  BY <1>1, <1>2 DEF Position
<1>4. Base(i) = IF i.target > Position(i) THEN i.target - Position(i) ELSE 0
  BY <1>1, <1>3, MaxIs DEF Base
<1>5. Base(i) \in Nat
  BY <1>1, <1>3, <1>4
<1>6. Max({Base(i), i.minimum}) \in Nat
  BY <1>1, <1>5, MaxIs
<1>7. Wanted(i) \in Nat
  BY <1>1, <1>6, RoundedUp DEF Wanted
<1> QED  BY <1>3, <1>4, <1>5, <1>6, <1>7 DEF Position

\* What is wanted of a product is the least that its supplier sells and covers what is missing.
LEMMA WantedIsLeast ==
    ASSUME NEW i \in Inputs, Wanted(i) > 0
    PROVE  Wanted(i) = LeastOrder(i)
<1>1. i.stock \in Int /\ i.transit \in Nat /\ i.target \in Nat /\ i.minimum \in Nat /\ i.pack \in Nat \ {0}
  BY ReplenishmentAssumption
<1> DEFINE a == Max({Base(i), i.minimum})
           r == RoundUp(a, i.pack)
           S == {q \in 0 .. i.target + i.minimum + i.pack :
                   q % i.pack = 0 /\ q >= i.minimum /\ Max({i.stock, 0}) + i.transit + q >= i.target}
<1>2. Base(i) > 0 /\ Wanted(i) = r
  BY DEF Wanted
<1>3. Position(i) \in Nat /\ Base(i) \in Nat /\ Base(i) = i.target - Position(i) /\ Base(i) <= i.target
  <2>1. Position(i) \in Nat /\ Base(i) \in Nat
        /\ Base(i) = IF i.target > Position(i) THEN i.target - Position(i) ELSE 0
    BY InputIs
  <2> QED  BY <1>1, <1>2, <2>1
<1>4. a \in Nat /\ a = IF Base(i) >= i.minimum THEN Base(i) ELSE i.minimum
  BY <1>1, <1>3, MaxIs
<1>5. r \in Nat /\ r >= a /\ r < a + i.pack /\ r % i.pack = 0
  BY <1>1, <1>4, RoundedUp
<1>6. \A q \in Nat : (q >= i.minimum /\ Max({i.stock, 0}) + i.transit + q >= i.target) <=> q >= a
  <2>1. Max({i.stock, 0}) + i.transit = Position(i)
    BY InputIs
  <2> HIDE DEF a
  <2> QED  BY <1>1, <1>3, <1>4, <2>1
<1> HIDE DEF a
<1>7. r \in S
  <2>1. a <= i.target + i.minimum
    BY <1>1, <1>3, <1>4
  <2> HIDE DEF r
  <2>2. r \in 0 .. i.target + i.minimum + i.pack
    BY <1>1, <1>4, <1>5, <2>1
  <2>3. r >= i.minimum /\ Max({i.stock, 0}) + i.transit + r >= i.target
    BY <1>5, <1>6
  <2> QED  BY <1>5, <2>2, <2>3
<1>8. \A q \in S : r <= q
  BY <1>1, <1>4, <1>6, LeastMultiple
<1>9. S \in SUBSET Int
  BY <1>1
<1>10. Min(S) = r
  <2> HIDE DEF S, r
  <2> QED  BY <1>7, <1>8, <1>9, MinIs
<1> QED  BY <1>2, <1>10 DEF LeastOrder

Decisions == {"candidate", "no_reorder", "reconcile", "covered", "review_cost", "blocked_data",
              "review_supplier", "buy_now", "buy_weekly", "deferred_budget"}

\* What each line is worth, what each supplier's goods cost to bring.
ValueOf == [p \in Goods |-> Value(p)]
FreightOf == [s \in Sellers |-> Freight(supplied[s], s)]
BoughtFrom(s) == {p \in Bought : input[p].seller = s}

PlanTypeOK ==
    /\ input \in [Goods -> Inputs]
    /\ policy \in [Sellers -> Policies]
    /\ budget \in Nat
    /\ decision \in [Goods -> Decisions]
    /\ spent \in Int
    /\ supplied \in [Sellers -> Int]

\* Only a line that is missing something, with stock, cost and supplier certain, is bought.
DecisionsFollow ==
    \A p \in Goods :
        /\ decision[p] \in {"candidate", "buy_now", "buy_weekly"} => Verdict(input[p]) = "candidate"
        /\ p \in Bought => input[p].seller # NoSeller

\* What the loop keeps is what its lines add up to.
LoopAddsUp ==
    /\ \A s \in Sellers : supplied[s] = SumOver(ValueOf, BoughtFrom(s))
    /\ spent = SumOver(supplied, Sellers) + SumOver(FreightOf, Sellers)
    /\ spent <= budget
    /\ blocked => spent = 0

\* The plan is saved when the loop is over.
SavedAtTheEnd == saved # NotSaved => saved = spent /\ \A p \in Goods : decision[p] # "candidate"

PlanInv == PlanTypeOK /\ DecisionsFollow /\ LoopAddsUp /\ SavedAtTheEnd

LEMMA ValueIs == ASSUME PlanTypeOK, NEW p \in Goods PROVE Value(p) \in Int /\ ValueOf[p] = Value(p)
<1>1. input[p] \in Inputs
  BY DEF PlanTypeOK
<1>2. Wanted(input[p]) \in Nat /\ input[p].cost \in Int
  BY <1>1, InputIs, ReplenishmentAssumption
<1>3. Quantity(p) \in Int
  BY <1>2 DEF Quantity
<1> QED  BY <1>2, <1>3 DEF Value, ValueOf

LEMMA FreightIs ==
    ASSUME PlanTypeOK, NEW s \in Sellers, NEW g \in Int
    PROVE  Freight(g, s) \in Int
<1>1. policy[s] \in Policies
  BY DEF PlanTypeOK
<1> QED  BY <1>1, ReplenishmentAssumption DEF Freight

LEMMA OrderGoodsIs ==
    ASSUME PlanTypeOK, NEW s \in Sellers
    PROVE  OrderGoods(s) = SumOver(ValueOf, BoughtFrom(s)) /\ IsFiniteSet(BoughtFrom(s))
<1>1. IsFiniteSet(BoughtFrom(s)) /\ BoughtFrom(s) \subseteq Goods
  BY ReplenishmentAssumption, FS_Subset DEF BoughtFrom, Bought
<1> DEFINE S == BoughtFrom(s)
           w == [p \in S |-> Value(p)]
<1>2. OrderGoods(s) = SumOver(w, S)
  BY DEF OrderGoods, SumOver, MapThenSumSet, MapThenFoldSet, BoughtFrom
<1>3. \A p \in S : w[p] = ValueOf[p]
  BY <1>1 DEF ValueOf
<1> HIDE DEF S, w
<1>4. SumOver(w, S) = SumOver(ValueOf, S)
  BY <1>1, <1>3, SumSame DEF S
<1> QED  BY <1>1, <1>2, <1>4 DEF S

\* What the summary recomputes is what the loop kept.
LEMMA RecommendedIs ==
    ASSUME PlanInv
    PROVE  /\ \A s \in Sellers : supplied[s] = OrderGoods(s)
           /\ RecommendedValue = spent
<1>1. PlanTypeOK /\ LoopAddsUp /\ IsFiniteSet(Sellers)
  BY ReplenishmentAssumption DEF PlanInv
<1>2. \A s \in Sellers : supplied[s] = OrderGoods(s)
  BY <1>1, OrderGoodsIs DEF LoopAddsUp
<1>3. GoodsValue = SumOver(supplied, Sellers)
  <2> DEFINE w == [s \in Sellers |-> OrderGoods(s)]
  <2>1. GoodsValue = SumOver(w, Sellers)
    BY DEF GoodsValue, SumOver, MapThenSumSet, MapThenFoldSet
  <2>2. \A s \in Sellers : w[s] = supplied[s]
    BY <1>2
  <2> HIDE DEF w
  <2> QED  BY <1>1, <2>1, <2>2, SumSame
<1>4. FreightValue = SumOver(FreightOf, Sellers)
  <2> DEFINE w == [s \in Sellers |-> Freight(OrderGoods(s), s)]
  <2>1. FreightValue = SumOver(w, Sellers)
    BY DEF FreightValue, SumOver, MapThenSumSet, MapThenFoldSet
  <2>2. \A s \in Sellers : w[s] = FreightOf[s]
    BY <1>2 DEF FreightOf
  <2> HIDE DEF w
  <2> QED  BY <1>1, <2>1, <2>2, SumSame
<1> QED  BY <1>1, <1>2, <1>3, <1>4 DEF LoopAddsUp, RecommendedValue

LEMMA PlanInvIsEnough == PlanInv => PlanIsSound
<1> SUFFICES ASSUME PlanInv PROVE PlanIsSound
  OBVIOUS
<1>1. BudgetAddsUp
  BY RecommendedIs DEF PlanInv, LoopAddsUp, SavedAtTheEnd, BudgetAddsUp
<1>2. OrdersAreLeast
  <2> SUFFICES ASSUME NEW p \in Bought
               PROVE  /\ Quantity(p) = LeastOrder(input[p])
                      /\ input[p].stock >= 0 /\ input[p].cost > 0 /\ input[p].seller # NoSeller
    BY DEF OrdersAreLeast
  <2>1. p \in Goods /\ input[p] \in Inputs /\ Verdict(input[p]) = "candidate" /\ input[p].seller # NoSeller
    BY DEF PlanInv, PlanTypeOK, DecisionsFollow, Bought
  <2>2. PICK i \in Inputs : i = input[p]
    BY <2>1
  <2>3. i.stock \in Int /\ i.cost \in Int /\ Wanted(i) \in Nat /\ i.active \in BOOLEAN
    BY InputIs, ReplenishmentAssumption
  <2>4. i.active /\ ~ (i.stock < 0) /\ ~ (Wanted(i) <= 0) /\ ~ (i.cost <= 0)
    BY <2>1, <2>2 DEF Verdict
  <2>5. Quantity(p) = Wanted(i)
    BY <2>2, <2>4 DEF Quantity
  <2>6. Wanted(i) = LeastOrder(i)
    BY <2>3, <2>4, WantedIsLeast
  <2> QED  BY <2>1, <2>2, <2>3, <2>4, <2>5, <2>6
<1> QED  BY <1>1, <1>2 DEF PlanIsSound

LEMMA PlanInitially == PlanInit => PlanInv
<1> SUFFICES ASSUME PlanInit PROVE PlanInv
  OBVIOUS
<1>1. /\ input \in [Goods -> Inputs] /\ policy \in [Sellers -> Policies] /\ budget \in Nat
      /\ decision = [p \in Goods |-> Verdict(input[p])] /\ spent = 0
      /\ supplied = [s \in Sellers |-> 0] /\ saved = NotSaved
  BY ReplenishmentAssumption DEF PlanInit
<1>2. \A i \in Inputs : Verdict(i) \in Decisions \ {"buy_now", "buy_weekly"}
  BY DEF Verdict, Decisions
<1>3. \A p \in Goods : decision[p] = Verdict(input[p]) /\ input[p] \in Inputs
  BY <1>1
<1>4. Bought = {}
  BY <1>2, <1>3 DEF Bought
<1>5. PlanTypeOK
  BY <1>1, <1>2 DEF PlanTypeOK
<1>6. DecisionsFollow
  <2>1. \A p \in Goods : decision[p] \notin {"buy_now", "buy_weekly"}
    BY <1>2, <1>3
  <2> QED  BY <1>3, <1>4, <2>1 DEF DecisionsFollow
<1>7. LoopAddsUp
  <2>1. \A s \in Sellers : BoughtFrom(s) = {}
    BY <1>4 DEF BoughtFrom
  <2>2. \A s \in Sellers : supplied[s] = SumOver(ValueOf, BoughtFrom(s))
    BY <1>1, <2>1, SumEmpty
  <2>3. SumOver(supplied, Sellers) = 0
    BY <1>1, SumZero, ReplenishmentAssumption
  <2>4. \A s \in Sellers : FreightOf[s] = 0
    BY <1>1 DEF FreightOf, Freight
  <2>5. SumOver(FreightOf, Sellers) = 0
    BY <2>4, SumZero, ReplenishmentAssumption
  <2> QED  BY <1>1, <2>2, <2>3, <2>5 DEF LoopAddsUp
<1> QED  BY <1>1, <1>5, <1>6, <1>7 DEF PlanInv, SavedAtTheEnd

\* A line that the loop leaves unbought.
LEMMA PassKeepsPlan ==
    ASSUME PlanInv, NEW p \in Goods, NEW d \in {"blocked_data", "review_supplier", "deferred_budget"},
           decision[p] = "candidate", decision' = [decision EXCEPT ![p] = d],
           UNCHANGED <<input, policy, budget, blocked, spent, supplied, saved>>
    PROVE  PlanInv'
<1>1. /\ decision \in [Goods -> Decisions] /\ decision'[p] = d
      /\ \A g \in Goods : g # p => decision'[g] = decision[g]
  BY DEF PlanInv, PlanTypeOK
<1>2. decision' \in [Goods -> Decisions]
  BY <1>1 DEF Decisions
<1>3. Bought' = Bought
  BY <1>1 DEF Bought
<1>4. DecisionsFollow'
  BY <1>1, <1>3 DEF PlanInv, DecisionsFollow
<1>5. LoopAddsUp'
  <2>1. ValueOf' = ValueOf /\ FreightOf' = FreightOf /\ \A s \in Sellers : BoughtFrom(s)' = BoughtFrom(s)
    BY <1>3 DEF ValueOf, Value, Quantity, FreightOf, Freight, BoughtFrom
  <2> QED  BY <2>1 DEF PlanInv, LoopAddsUp
<1>6. SavedAtTheEnd'
  BY DEF PlanInv, SavedAtTheEnd
<1> QED  BY <1>2, <1>4, <1>5, <1>6 DEF PlanInv, PlanTypeOK

\* A line that is bought adds its value to its supplier, and the freight changes by as much
\* as the increment says.
LEMMA BuyKeepsPlan ==
    ASSUME PlanInv, NEW p \in Goods, NEW s, s = input[p].seller, s # NoSeller, ~ blocked,
           NEW d \in {"buy_now", "buy_weekly"},
           decision[p] = "candidate", decision' = [decision EXCEPT ![p] = d],
           spent + Increment(p, s) <= budget, spent' = spent + Increment(p, s),
           supplied' = [supplied EXCEPT ![s] = @ + Value(p)],
           UNCHANGED <<input, policy, budget, blocked, saved>>
    PROVE  PlanInv'
<1>1. /\ decision \in [Goods -> Decisions] /\ decision'[p] = d
      /\ \A g \in Goods : g # p => decision'[g] = decision[g]
      /\ supplied \in [Sellers -> Int] /\ spent \in Int /\ budget \in Nat /\ input[p] \in Inputs
      /\ IsFiniteSet(Sellers) /\ IsFiniteSet(Goods)
  BY ReplenishmentAssumption DEF PlanInv, PlanTypeOK
<1>2. s \in Sellers
  BY <1>1, ReplenishmentAssumption
<1>3. PICK v \in Int : v = Value(p) /\ v = ValueOf[p]
  BY ValueIs DEF PlanInv
<1>4. /\ supplied' = [supplied EXCEPT ![s] = supplied[s] + v]
      /\ supplied'[s] = supplied[s] + v /\ supplied' \in [Sellers -> Int]
      /\ \A t \in Sellers : t # s => supplied'[t] = supplied[t]
  BY <1>1, <1>2, <1>3
<1>5. PICK before \in Int, after \in Int :
          before = Freight(supplied[s], s) /\ after = Freight(supplied[s] + v, s)
  <2>1. supplied[s] \in Int /\ supplied[s] + v \in Int
    BY <1>1, <1>2
  <2> QED  BY <1>2, <2>1, FreightIs DEF PlanInv
<1>6. Increment(p, s) = v + after - before
  BY <1>3, <1>5 DEF Increment
<1>7. PlanTypeOK'
  <2>1. decision' \in [Goods -> Decisions]
    BY <1>1 DEF Decisions
  <2>2. spent' \in Int
    BY <1>1, <1>6
  <2> QED  BY <1>4, <2>1, <2>2 DEF PlanInv, PlanTypeOK
<1>8. DecisionsFollow'
  BY <1>1 DEF PlanInv, DecisionsFollow, Bought
<1>9. p \notin Bought /\ Bought' = Bought \cup {p}
  BY <1>1 DEF Bought
<1>10. ValueOf' = ValueOf /\ BoughtFrom(s)' = BoughtFrom(s) \cup {p} /\ p \notin BoughtFrom(s)
       /\ \A t \in Sellers : t # s => BoughtFrom(t)' = BoughtFrom(t)
  BY <1>9 DEF ValueOf, Value, Quantity, BoughtFrom, Bought
<1>11. \A t \in Sellers : supplied'[t] = SumOver(ValueOf', BoughtFrom(t)')
  <2> SUFFICES ASSUME NEW t \in Sellers PROVE supplied'[t] = SumOver(ValueOf', BoughtFrom(t)')
    OBVIOUS
  <2>1. supplied[t] = SumOver(ValueOf, BoughtFrom(t))
    BY DEF PlanInv, LoopAddsUp
  <2>2. CASE t # s
    BY <1>4, <1>10, <2>1, <2>2
  <2>3. CASE t = s
    <3>1. IsFiniteSet(BoughtFrom(s))
      BY <1>2, OrderGoodsIs DEF PlanInv
    <3>2. \A g \in BoughtFrom(s) \cup {p} : ValueOf[g] \in Int
      BY ValueIs DEF PlanInv, BoughtFrom, Bought
    <3> DEFINE S == BoughtFrom(s)
               w == ValueOf
    <3> HIDE DEF S, w
    <3>3. SumOver(w, S \cup {p}) = w[p] + SumOver(w, S)
      BY <1>10, <3>1, <3>2, SumAdd DEF S, w
    <3>4. SumOver(ValueOf, BoughtFrom(s) \cup {p}) = v + supplied[s]
      BY <1>3, <2>1, <2>3, <3>3 DEF S, w
    <3>5. v + supplied[s] = supplied[s] + v
      BY <1>1, <1>2
    <3> QED  BY <1>4, <1>10, <2>3, <3>4, <3>5
  <2> QED  BY <2>2, <2>3
<1>12. SumOver(supplied', Sellers) = SumOver(supplied, Sellers) + v
  <2>1. \A t \in Sellers : supplied[t] \in Int
    BY <1>1
  <2>2. supplied'[s] \in Int
    BY <1>2, <1>4
  <2>3. SumOver(supplied', Sellers) = SumOver(supplied, Sellers) + supplied'[s] - supplied[s]
    <3>1. PICK a \in Sellers : a = s
      BY <1>2
    <3> DEFINE x == supplied
               y == supplied'
    <3>2. /\ IsFiniteSet(Sellers) /\ a \in Sellers /\ (\A t \in Sellers : x[t] \in Int) /\ y[a] \in Int
          /\ (\A t \in Sellers : t # a => y[t] = x[t])
      BY <1>1, <1>4, <2>1, <2>2, <3>1
    <3> HIDE DEF x, y
    <3>3. SumOver(y, Sellers) = SumOver(x, Sellers) + y[a] - x[a]
      BY <3>2, SumChange
    <3> QED  BY <3>1, <3>3 DEF x, y
  <2>4. SumOver(supplied, Sellers) \in Int
    BY <1>1, <2>1, SumTakeOut
  <2> QED  BY <1>2, <1>4, <2>1, <2>3, <2>4
<1>13. SumOver(FreightOf', Sellers) = SumOver(FreightOf, Sellers) + after - before
  <2>1. \A t \in Sellers : FreightOf[t] \in Int
    BY <1>1, FreightIs DEF PlanInv, FreightOf
  <2>2. FreightOf'[s] = after /\ FreightOf[s] = before
    BY <1>2, <1>4, <1>5 DEF FreightOf, Freight
  <2>3. \A t \in Sellers : t # s => FreightOf'[t] = FreightOf[t]
    BY <1>4 DEF FreightOf, Freight
  <2>4. PICK a, x, y : a \in Sellers /\ a = s /\ x = FreightOf /\ y = FreightOf'
    BY <1>2
  <2>5. /\ IsFiniteSet(Sellers) /\ a \in Sellers /\ (\A t \in Sellers : x[t] \in Int) /\ y[a] \in Int
        /\ (\A t \in Sellers : t # a => y[t] = x[t])
    BY <1>1, <2>1, <2>2, <2>3, <2>4
  <2>6. SumOver(y, Sellers) = SumOver(x, Sellers) + y[a] - x[a]
    BY <2>5, SumChange
  <2> QED  BY <2>2, <2>4, <2>6
<1>14. LoopAddsUp'
  <2>1. SumOver(supplied, Sellers) \in Int
    BY <1>1, SumTakeOut
  <2>2. SumOver(FreightOf, Sellers) \in Int
    <3>1. \A t \in Sellers : FreightOf[t] \in Int
      BY <1>1, FreightIs DEF PlanInv, FreightOf
    <3> QED  BY <1>1, <3>1, SumTakeOut
  <2>3. spent = SumOver(supplied, Sellers) + SumOver(FreightOf, Sellers)
    BY DEF PlanInv, LoopAddsUp
  <2>4. spent' = SumOver(supplied', Sellers) + SumOver(FreightOf', Sellers)
    BY <1>6, <1>12, <1>13, <2>1, <2>2, <2>3
  <2> QED  BY <1>11, <2>4 DEF LoopAddsUp
<1>15. SavedAtTheEnd'
  BY DEF PlanInv, SavedAtTheEnd
<1> QED  BY <1>7, <1>8, <1>14, <1>15 DEF PlanInv

LEMMA PlanStays == PlanInv /\ [PlanNext]_planVars => PlanInv'
<1> SUFFICES ASSUME PlanInv, [PlanNext]_planVars PROVE PlanInv'
  OBVIOUS
<1>1. ASSUME NEW p \in Goods, Allot(p) PROVE PlanInv'
  <2>1. PICK s : s = input[p].seller
    OBVIOUS
  <2>2. /\ decision[p] = "candidate"
        /\ UNCHANGED <<input, policy, budget, blocked, saved>>
        /\ \/ /\ decision' = [decision EXCEPT ![p] = "blocked_data"]
              /\ UNCHANGED <<spent, supplied>>
           \/ /\ decision' = [decision EXCEPT ![p] = "review_supplier"]
              /\ UNCHANGED <<spent, supplied>>
           \/ /\ decision' = [decision EXCEPT ![p] = "deferred_budget"]
              /\ UNCHANGED <<spent, supplied>>
           \/ /\ ~ blocked /\ s # NoSeller /\ spent + Increment(p, s) <= budget
              /\ decision' = [decision EXCEPT ![p] = IF Critical(p) THEN "buy_now" ELSE "buy_weekly"]
              /\ spent' = spent + Increment(p, s)
              /\ supplied' = [supplied EXCEPT ![s] = @ + Value(p)]
    BY <1>1, <2>1, Zenon DEF Allot
  <2>3. CASE \E d \in {"blocked_data", "review_supplier", "deferred_budget"} :
                  decision' = [decision EXCEPT ![p] = d] /\ UNCHANGED <<spent, supplied>>
    BY <2>2, <2>3, PassKeepsPlan
  <2>4. CASE /\ ~ blocked /\ s # NoSeller /\ spent + Increment(p, s) <= budget
             /\ decision' = [decision EXCEPT ![p] = IF Critical(p) THEN "buy_now" ELSE "buy_weekly"]
             /\ spent' = spent + Increment(p, s)
             /\ supplied' = [supplied EXCEPT ![s] = @ + Value(p)]
    <3>1. PICK d \in {"buy_now", "buy_weekly"} : d = IF Critical(p) THEN "buy_now" ELSE "buy_weekly"
      OBVIOUS
    <3>2. decision' = [decision EXCEPT ![p] = d]
      BY <2>4, <3>1
    <3> QED  BY <2>1, <2>2, <2>4, <3>2, BuyKeepsPlan
  <2> QED  BY <2>2, <2>3, <2>4
<1>2. ASSUME Persist \/ UNCHANGED planVars PROVE PlanInv'
  <2>1. /\ UNCHANGED <<input, policy, budget, blocked, decision, spent, supplied>>
        /\ \/ saved' = spent /\ \A p \in Goods : decision[p] # "candidate"
           \/ saved' = saved
    BY <1>2, RecommendedIs DEF Persist, planVars
  <2>2. SavedAtTheEnd'
    BY <2>1 DEF PlanInv, SavedAtTheEnd
  <2>3. LoopAddsUp'
    BY <2>1 DEF PlanInv, LoopAddsUp, ValueOf, Value, Quantity, FreightOf, Freight, BoughtFrom, Bought
  <2> QED  BY <2>1, <2>2, <2>3 DEF PlanInv, PlanTypeOK, DecisionsFollow, Bought
<1> QED  BY <1>1, <1>2 DEF PlanNext

\* For any products, policies and budget, and whatever the order of the candidates: the
\* running total is what the summary recomputes and saves, within the budget, and what is
\* bought is the least that covers what is missing.
THEOREM PlanStaysSound == PlanSpec => []PlanIsSound
<1> QED  BY PlanInitially, PlanStays, PlanInvIsEnough, PTL DEF PlanSpec

-----------------------------------------------------------------------------
(* Cash, for any entries, documents, amounts and days.                     *)

Movements == Entries \cup Papers

TreasuryTypeOK ==
    /\ date \in Nat \ {0}
    /\ moved \in [Movements -> Nat]
    /\ balance \in [Dates -> Int \cup {NoBalance}]
    /\ late \subseteq Dates
    /\ entry \in [Entries -> [stage : {"none", "planned", "posted"}, day : Nat]]
    /\ purchase \in {"none", "open", "closed"}
    /\ paper \in [Papers -> {"none", "open", "paid"}]
    /\ payment \subseteq Papers

\* The tables say of the money what happened to it.
TablesAreTrue ==
    /\ \A m \in Movements : moved[m] <= date
    /\ \A e \in Entries : /\ entry[e].stage = "posted" => moved[e] # Never /\ entry[e].day = moved[e]
                          /\ entry[e].stage = "planned" => moved[e] = Never
    /\ \A b \in payment : moved[b] # Never
    /\ \A b \in Papers : paper[b] = "paid" => moved[b] # Never

\* A balance certified after the close of its day is the bank's, and stays it.
LateIsTrue == \A d \in late : d < date /\ balance[d] = Bank(d)

TreasuryInv == TreasuryTypeOK /\ TablesAreTrue /\ LateIsTrue

LEMMA MovementsAre ==
    /\ IsFiniteSet(Movements) /\ \A m \in Movements : Amount[m] \in Int
    /\ Movements = (Incomes \cup Outgoings) \cup (Bills \cup Invoices)
    /\ Movements = Entries \cup Papers
<1>1. IsFiniteSet(Incomes \cup Outgoings) /\ IsFiniteSet(Bills \cup Invoices)
  BY TreasuryAssumption, FS_Union
<1> QED  BY <1>1, TreasuryAssumption, FS_Union DEF Movements, Entries, Papers

LEMMA SumIsOver ==
    ASSUME NEW S \in SUBSET Movements
    PROVE  Worth(S) = SumOver(Amount, S) /\ Worth(S) \in Int /\ IsFiniteSet(S)
<1>1. IsFiniteSet(S) /\ \A m \in S : Amount[m] \in Int
  BY MovementsAre, FS_Subset
<1>2. Worth(S) = SumOver(Amount, S)
  BY DEF Worth, SumOver
<1>3. SumOver(Amount, S) \in Int
  BY <1>1, SumTakeOut
<1> QED  BY <1>1, <1>2, <1>3

\* A set of movements in two parts.
LEMMA SumInParts ==
    ASSUME NEW S \in SUBSET Movements, NEW T \in SUBSET Movements, S \cap T = {}
    PROVE  Worth(S \cup T) = Worth(S) + Worth(T)
<1>1. PICK U \in SUBSET Movements : U = S \cup T
  OBVIOUS
<1>2. IsFiniteSet(U) /\ \A m \in U : Amount[m] \in Int
  BY <1>1, SumIsOver, MovementsAre
<1>3. S \subseteq U /\ U \ S = T
  BY <1>1
<1>4. SumOver(Amount, U) = SumOver(Amount, S) + SumOver(Amount, U \ S)
  BY <1>2, <1>3, SumSplit
<1> QED  BY <1>1, <1>3, <1>4, SumIsOver

LEMMA BankIs == ASSUME NEW d PROVE Bank(d) \in Int /\ Happened(d) \in SUBSET Movements
<1>1. Happened(d) \in SUBSET Movements
  BY DEF Happened, Movements
<1>2. Worth(Happened(d) \cap Inwards) \in Int /\ Worth(Happened(d) \ Inwards) \in Int
  BY <1>1, SumIsOver
<1> QED  BY <1>1, <1>2, TreasuryAssumption DEF Bank

LEMMA CashInitially == TreasuryInit => TreasuryInv
<1> SUFFICES ASSUME TreasuryInit PROVE TreasuryInv
  OBVIOUS
<1>1. TreasuryTypeOK
  BY DEF TreasuryInit, TreasuryTypeOK, NoEntry, Never, Movements
<1>2. TablesAreTrue
  BY DEF TreasuryInit, TablesAreTrue, NoEntry, Never, Movements
<1>3. LateIsTrue
  BY DEF TreasuryInit, LateIsTrue
<1> QED  BY <1>1, <1>2, <1>3 DEF TreasuryInv

\* What moves today changes no balance of the days before.
LEMMA PastIsKept ==
    ASSUME TreasuryInv, NEW m \in Movements, moved' = [moved EXCEPT ![m] = date], moved[m] = Never,
           NEW d \in Nat, d < date
    PROVE  Bank(d)' = Bank(d)
<1>1. /\ moved \in [Movements -> Nat] /\ date \in Nat /\ moved'[m] = date
      /\ \A n \in Movements : n # m => moved'[n] = moved[n]
  BY DEF TreasuryInv, TreasuryTypeOK
<1>2. moved[m] \notin 1 .. d /\ moved'[m] \notin 1 .. d
  BY <1>1 DEF Never
<1>3. Happened(d)' = Happened(d)
  BY <1>1, <1>2 DEF Happened, Movements
<1> QED  BY <1>3 DEF Bank

LEMMA MoneyMoves ==
    ASSUME TreasuryInv, NEW m \in Movements, moved' = [moved EXCEPT ![m] = date], moved[m] = Never,
           UNCHANGED <<date, balance, late>>
    PROVE  /\ moved' \in [Movements -> Nat] /\ LateIsTrue' /\ moved'[m] = date /\ date # Never
           /\ \A n \in Movements : moved'[n] <= date /\ (n # m => moved'[n] = moved[n])
<1>1. /\ moved \in [Movements -> Nat] /\ date \in Nat \ {0} /\ \A n \in Movements : moved[n] <= date
  BY DEF TreasuryInv, TreasuryTypeOK, TablesAreTrue
<1>2. /\ moved' \in [Movements -> Nat] /\ moved'[m] = date /\ date # Never /\ date <= date
      /\ \A n \in Movements : n # m => moved'[n] = moved[n]
  BY <1>1 DEF Never
<1>3. \A n \in Movements : moved'[n] <= date
  BY <1>1, <1>2
<1>4. ASSUME NEW d \in late' PROVE d < date' /\ balance'[d] = Bank(d)'
  <2>1. d \in Nat /\ d < date /\ balance[d] = Bank(d)
    BY DEF TreasuryInv, TreasuryTypeOK, LateIsTrue, Dates
  <2>2. Bank(d)' = Bank(d)
    BY <2>1, PastIsKept
  <2> QED  BY <2>1, <2>2
<1> QED  BY <1>2, <1>3, <1>4 DEF LateIsTrue

LEMMA MoveKeepsCash == ASSUME TreasuryInv, NEW m \in Entries \cup Papers, Move(m) PROVE TreasuryInv'
<1>1. /\ m \in Movements /\ moved' = [moved EXCEPT ![m] = date] /\ moved[m] = Never
      /\ UNCHANGED <<date, balance, late, entry, purchase, paper, payment>>
      /\ m \in Entries => entry[m].stage = "none"
  BY DEF Move, Movements, NoEntry
<1>2. /\ moved' \in [Movements -> Nat] /\ LateIsTrue' /\ moved'[m] = date /\ date # Never
      /\ \A n \in Movements : moved'[n] <= date /\ (n # m => moved'[n] = moved[n])
  BY <1>1, MoneyMoves
<1>3. TreasuryTypeOK'
  BY <1>1, <1>2 DEF TreasuryInv, TreasuryTypeOK
<1>4. TablesAreTrue'
  <2>1. /\ \A e \in Entries : e \in Movements /\ (entry[e].stage = "posted" => moved[e] # Never /\ entry[e].day = moved[e])
                              /\ (entry[e].stage = "planned" => moved[e] = Never)
        /\ \A b \in payment : b \in Movements /\ moved[b] # Never
        /\ \A b \in Papers : b \in Movements /\ (paper[b] = "paid" => moved[b] # Never)
    BY DEF TreasuryInv, TreasuryTypeOK, TablesAreTrue, Movements
  <2>2. \A e \in Entries : entry[e].stage # "none" => e # m
    BY <1>1
  <2>3. \A e \in Entries : entry[e].stage \in {"posted", "planned"} => moved'[e] = moved[e]
    BY <1>2, <2>1, <2>2
  <2>4. \A b \in Papers : moved[b] # Never => moved'[b] # Never
    BY <1>2, <2>1
  <2>5. payment \subseteq Papers
    BY DEF TreasuryInv, TreasuryTypeOK
  <2> QED  BY <1>1, <1>2, <2>1, <2>3, <2>4, <2>5 DEF TablesAreTrue
<1> QED  BY <1>2, <1>3, <1>4 DEF TreasuryInv

LEMMA PostKeepsCash == ASSUME TreasuryInv, NEW m \in Entries, PostEntry(m) PROVE TreasuryInv'
<1>1. /\ m \in Movements /\ moved' = [moved EXCEPT ![m] = date] /\ moved[m] = Never
      /\ entry' = [entry EXCEPT ![m] = [stage |-> "posted", day |-> date]]
      /\ UNCHANGED <<date, balance, late, purchase, paper, payment>>
  BY DEF PostEntry, PostedOn, TreasuryInv, TablesAreTrue, Movements
<1>2. /\ moved' \in [Movements -> Nat] /\ LateIsTrue' /\ moved'[m] = date /\ date # Never
      /\ \A n \in Movements : moved'[n] <= date /\ (n # m => moved'[n] = moved[n])
  BY <1>1, MoneyMoves
<1>3. TreasuryTypeOK'
  BY <1>1, <1>2 DEF TreasuryInv, TreasuryTypeOK
<1>4. TablesAreTrue'
  <2>1. /\ \A e \in Entries : e \in Movements /\ (entry[e].stage = "posted" => moved[e] # Never /\ entry[e].day = moved[e])
                              /\ (entry[e].stage = "planned" => moved[e] = Never)
        /\ \A b \in payment : b \in Movements /\ moved[b] # Never
        /\ \A b \in Papers : b \in Movements /\ (paper[b] = "paid" => moved[b] # Never)
    BY DEF TreasuryInv, TreasuryTypeOK, TablesAreTrue, Movements
  <2>2. /\ entry'[m].stage = "posted" /\ entry'[m].day = date
        /\ \A e \in Entries : e # m => entry'[e] = entry[e]
    BY <1>1 DEF TreasuryInv, TreasuryTypeOK
  <2>3. \A e \in Entries : /\ entry'[e].stage = "posted" => moved'[e] # Never /\ entry'[e].day = moved'[e]
                           /\ entry'[e].stage = "planned" => moved'[e] = Never
    BY <1>2, <2>1, <2>2
  <2>4. \A b \in Papers : moved[b] # Never => moved'[b] # Never
    BY <1>2, <2>1
  <2>5. payment \subseteq Papers
    BY DEF TreasuryInv, TreasuryTypeOK
  <2> QED  BY <1>1, <1>2, <2>1, <2>3, <2>4, <2>5 DEF TablesAreTrue
<1> QED  BY <1>2, <1>3, <1>4 DEF TreasuryInv

LEMMA CertifyKeepsCash == ASSUME TreasuryInv, NEW d \in Dates, CertifyBalance(d) PROVE TreasuryInv'
<1>1. /\ d <= date /\ UNCHANGED <<date, moved, entry, purchase, paper, payment>>
      /\ late' = IF d < date THEN late \cup {d} ELSE late \ {d}
  BY DEF CertifyBalance
<1>2. PICK b \in Int : b = Bank(d) /\ balance' = [balance EXCEPT ![d] = b]
  BY BankIs DEF CertifyBalance
<1>3. /\ balance' \in [Dates -> Int \cup {NoBalance}] /\ balance'[d] = b
      /\ \A c \in Dates : c # d => balance'[c] = balance[c]
  BY <1>2 DEF TreasuryInv, TreasuryTypeOK
<1>4. \A c : Bank(c)' = Bank(c)
  BY <1>1 DEF Bank, Happened
<1>5. ASSUME NEW c \in late' PROVE c < date' /\ balance'[c] = Bank(c)'
  <2>1. CASE c = d
    BY <1>1, <1>2, <1>3, <1>4, <1>5, <2>1
  <2>2. CASE c # d
    <3>1. c \in late
      BY <1>1, <1>5, <2>2
    <3>2. c \in Dates /\ c < date /\ balance[c] = Bank(c)
      BY <3>1 DEF TreasuryInv, TreasuryTypeOK, LateIsTrue
    <3> QED  BY <1>1, <1>3, <1>4, <2>2, <3>2
  <2> QED  BY <2>1, <2>2
<1>6. TreasuryTypeOK'
  BY <1>1, <1>3 DEF TreasuryInv, TreasuryTypeOK
<1>7. TablesAreTrue'
  BY <1>1 DEF TreasuryInv, TablesAreTrue
<1> QED  BY <1>5, <1>6, <1>7 DEF TreasuryInv, LateIsTrue

\* The day, the order, the documents, the payments and the records of entries.
LEMMA RecordsKeepCash ==
    ASSUME TreasuryInv, date' \in {date, date + 1}, UNCHANGED <<moved, balance, late>>,
           purchase' \in {"none", "open", "closed"},
           \/ UNCHANGED <<entry, paper, payment>>
           \/ \E b \in Papers : WriteDocument(b) \/ WritePayment(b)
           \/ \E e \in Entries, stage \in {"planned", "posted"}, d \in Dates : RecordEntry(e, stage, d)
    PROVE  TreasuryInv'
<1>1. date' \in Nat \ {0} /\ date <= date' /\ date \in Nat
  BY DEF TreasuryInv, TreasuryTypeOK
<1>2. LateIsTrue'
  <2>1. \A c : Bank(c)' = Bank(c)
    BY DEF Bank, Happened
  <2>2. \A d \in late : d \in Nat /\ d < date
    BY DEF TreasuryInv, TreasuryTypeOK, LateIsTrue, Dates
  <2>3. \A d \in late : d < date'
    BY <1>1, <2>2
  <2> QED  BY <2>1, <2>3 DEF TreasuryInv, LateIsTrue
<1>3. \A m \in Movements : moved'[m] <= date'
  BY <1>1 DEF TreasuryInv, TreasuryTypeOK, TablesAreTrue
<1>4. CASE UNCHANGED <<entry, paper, payment>>
  BY <1>1, <1>2, <1>3, <1>4 DEF TreasuryInv, TreasuryTypeOK, TablesAreTrue
<1>5. ASSUME NEW b \in Papers, WriteDocument(b) \/ WritePayment(b) PROVE TreasuryInv'
  <2>1. CASE WriteDocument(b)
    <3>1. PICK s \in {"open", "paid"} :
              paper' = [paper EXCEPT ![b] = s] /\ (s = "paid" => moved[b] # Never)
      BY <2>1 DEF WriteDocument
    <3>2. UNCHANGED <<entry, payment>>
      BY <2>1 DEF WriteDocument
    <3>3. TreasuryTypeOK'
      BY <1>1, <3>1, <3>2 DEF TreasuryInv, TreasuryTypeOK
    <3>4. \A a \in Papers : paper'[a] = "paid" => moved'[a] # Never
      BY <3>1 DEF TreasuryInv, TreasuryTypeOK, TablesAreTrue
    <3> QED  BY <1>2, <1>3, <3>2, <3>3, <3>4 DEF TreasuryInv, TablesAreTrue
  <2>2. CASE WritePayment(b)
    BY <1>1, <1>2, <1>3, <2>2 DEF WritePayment, TreasuryInv, TreasuryTypeOK, TablesAreTrue
  <2> QED  BY <1>5, <2>1, <2>2
<1>6. ASSUME NEW e \in Entries, NEW stage \in {"planned", "posted"}, NEW d \in Dates, RecordEntry(e, stage, d)
      PROVE  TreasuryInv'
  <2>1. /\ entry' = [entry EXCEPT ![e] = [stage |-> stage, day |-> d]] /\ UNCHANGED <<paper, payment>>
        /\ stage = "posted" => d = moved[e] /\ d # Never
        /\ stage = "planned" => moved[e] = Never
    BY <1>6 DEF RecordEntry
  <2>2. d \in Nat
    BY DEF Dates
  <2>3. /\ entry'[e].stage = stage /\ entry'[e].day = d
        /\ \A a \in Entries : a # e => entry'[a] = entry[a]
    BY <2>1 DEF TreasuryInv, TreasuryTypeOK
  <2>4. TreasuryTypeOK'
    BY <1>1, <2>1, <2>2 DEF TreasuryInv, TreasuryTypeOK
  <2>5. \A a \in Entries : /\ entry'[a].stage = "posted" => moved'[a] # Never /\ entry'[a].day = moved'[a]
                           /\ entry'[a].stage = "planned" => moved'[a] = Never
    BY <2>1, <2>3 DEF TreasuryInv, TablesAreTrue
  <2> QED  BY <1>2, <1>3, <2>1, <2>4, <2>5 DEF TreasuryInv, TablesAreTrue
<1> QED  BY <1>4, <1>5, <1>6

LEMMA CashStays == TreasuryInv /\ [TreasuryNext]_treasuryVars => TreasuryInv'
<1> SUFFICES ASSUME TreasuryInv, [TreasuryNext]_treasuryVars PROVE TreasuryInv'
  OBVIOUS
<1>1. ASSUME NEW m \in Entries \cup Papers, Move(m) PROVE TreasuryInv'
  BY <1>1, MoveKeepsCash
<1>2. ASSUME NEW e \in Entries, PostEntry(e) PROVE TreasuryInv'
  BY <1>2, PostKeepsCash
<1>3. ASSUME NEW d \in Dates, CertifyBalance(d) PROVE TreasuryInv'
  BY <1>3, CertifyKeepsCash
<1>4. purchase \in {"none", "open", "closed"}
  BY DEF TreasuryInv, TreasuryTypeOK
<1>5. CASE NextDay \/ WriteOrder \/ UNCHANGED treasuryVars
  <2>1. /\ date' \in {date, date + 1} /\ purchase' \in {"none", "open", "closed"}
        /\ UNCHANGED <<moved, balance, late, entry, paper, payment>>
    BY <1>4, <1>5 DEF NextDay, WriteOrder, treasuryVars
  <2> QED  BY <2>1, RecordsKeepCash
<1>6. ASSUME NEW b \in Papers, WriteDocument(b) \/ WritePayment(b) PROVE TreasuryInv'
  <2>1. date' = date /\ purchase' = purchase /\ UNCHANGED <<moved, balance, late>>
    BY <1>6 DEF WriteDocument, WritePayment
  <2> QED  BY <1>4, <1>6, <2>1, RecordsKeepCash
<1>7. ASSUME NEW e \in Entries, NEW stage \in {"planned", "posted"}, NEW d \in Dates, RecordEntry(e, stage, d)
      PROVE  TreasuryInv'
  <2>1. date' = date /\ purchase' = purchase /\ UNCHANGED <<moved, balance, late>>
    BY <1>7 DEF RecordEntry
  <2> QED  BY <1>4, <1>7, <2>1, RecordsKeepCash
<1> QED  BY <1>1, <1>2, <1>3, <1>5, <1>6, <1>7 DEF TreasuryNext

LEMMA ReconstructedFollows ==
    ASSUME TreasuryInv, CaughtUp, Closed
    PROVE  Actual = Bank(date) /\ Actual \in Int
<1> DEFINE new == {m \in Movements : moved[m] > Baseline}
           posted == {e \in Entries : entry[e].stage = "posted" /\ Since(entry[e].day)}
           paid == {b \in payment : Since(moved[b])}
<1>1. Baseline \in Nat \ {0} /\ Baseline < date /\ balance[Baseline] = Bank(Baseline) /\ date \in Nat
  BY DEF Closed, TreasuryInv, TreasuryTypeOK, LateIsTrue, Dates
<1>2. \A m \in Movements : moved[m] \in Nat /\ moved[m] <= date
  BY DEF TreasuryInv, TreasuryTypeOK, TablesAreTrue
<1>3. posted = new \cap Entries
  <2>1. ASSUME NEW e \in Entries PROVE e \in posted <=> e \in new
    <3>1. e \in Movements /\ moved[e] \in Nat /\ moved[e] <= date
      BY <1>2 DEF Movements
    <3>2. entry[e].stage = "posted" <=> moved[e] # Never
      BY DEF CaughtUp, TreasuryInv, TablesAreTrue
    <3>3. entry[e].stage = "posted" => entry[e].day = moved[e]
      BY DEF TreasuryInv, TablesAreTrue
    <3> QED  BY <1>1, <3>1, <3>2, <3>3 DEF Since, Never
  <2> QED  BY <2>1
<1>4. paid = new \cap Papers
  <2>1. ASSUME NEW b \in Papers PROVE b \in paid <=> b \in new
    <3>1. b \in Movements /\ moved[b] \in Nat /\ moved[b] <= date
      BY <1>2 DEF Movements
    <3>2. b \in payment <=> moved[b] # Never
      BY DEF CaughtUp, TreasuryInv, TablesAreTrue
    <3> QED  BY <1>1, <3>1, <3>2 DEF Since, Never
  <2>2. payment \subseteq Papers
    BY DEF TreasuryInv, TreasuryTypeOK
  <2> QED  BY <2>1, <2>2
<1>5. Actual = Bank(Baseline) - Worth(new \cap Bills) + Worth(new \cap Invoices)
                             + Worth(new \cap Incomes) - Worth(new \cap Outgoings)
  <2>1. Actual = balance[Baseline] - Worth(paid \cap Bills) + Worth(paid \cap Invoices)
                                   + Worth(posted \cap Incomes) - Worth(posted \cap Outgoings)
    BY DEF Actual
  <2>2. /\ paid \cap Bills = new \cap Bills /\ paid \cap Invoices = new \cap Invoices
        /\ posted \cap Incomes = new \cap Incomes /\ posted \cap Outgoings = new \cap Outgoings
    <3> HIDE DEF new, posted, paid
    <3> QED  BY <1>3, <1>4 DEF Entries, Papers
  <2> HIDE DEF new, posted, paid
  <2> QED  BY <1>1, <2>1, <2>2
<1>6. Happened(date) = Happened(Baseline) \cup new /\ Happened(Baseline) \cap new = {}
  <2>1. ASSUME NEW m \in Movements
        PROVE  /\ m \in Happened(date) <=> moved[m] # Never
               /\ m \in Happened(Baseline) <=> moved[m] # Never /\ ~ (moved[m] > Baseline)
    BY <1>1, <1>2 DEF Happened, Movements, Never
  <2>2. \A m \in new : moved[m] # Never
    BY <1>1, <1>2 DEF Never
  <2>3. Happened(date) \subseteq Movements /\ Happened(Baseline) \subseteq Movements
    BY BankIs
  <2> QED  BY <2>1, <2>2, <2>3
<1>7. new \in SUBSET Movements
  OBVIOUS
<1> HIDE DEF new
<1>8. Worth(Happened(date) \cap Inwards) = Worth(Happened(Baseline) \cap Inwards) + Worth(new \cap Inwards)
  <2>1. Happened(date) \cap Inwards = (Happened(Baseline) \cap Inwards) \cup (new \cap Inwards)
    BY <1>6
  <2>2. (Happened(Baseline) \cap Inwards) \cap (new \cap Inwards) = {}
    BY <1>6
  <2>3. Happened(Baseline) \cap Inwards \in SUBSET Movements /\ new \cap Inwards \in SUBSET Movements
    BY <1>7, BankIs
  <2> QED  BY <2>1, <2>2, <2>3, SumInParts
<1>9. Worth(Happened(date) \ Inwards) = Worth(Happened(Baseline) \ Inwards) + Worth(new \ Inwards)
  <2>1. Happened(date) \ Inwards = (Happened(Baseline) \ Inwards) \cup (new \ Inwards)
    BY <1>6
  <2>2. (Happened(Baseline) \ Inwards) \cap (new \ Inwards) = {}
    BY <1>6
  <2>3. (Happened(Baseline) \ Inwards) \in SUBSET Movements /\ (new \ Inwards) \in SUBSET Movements
    BY <1>7, BankIs
  <2> QED  BY <2>1, <2>2, <2>3, SumInParts
<1>10. Worth(new \cap Inwards) = Worth(new \cap Incomes) + Worth(new \cap Invoices)
  <2>1. new \cap Inwards = (new \cap Incomes) \cup (new \cap Invoices)
    BY DEF Inwards
  <2>2. (new \cap Incomes) \cap (new \cap Invoices) = {}
    BY TreasuryAssumption
  <2>3. new \cap Incomes \in SUBSET Movements /\ new \cap Invoices \in SUBSET Movements
    BY <1>7
  <2> QED  BY <2>1, <2>2, <2>3, SumInParts
<1>11. Worth(new \ Inwards) = Worth(new \cap Outgoings) + Worth(new \cap Bills)
  <2>1. new \ Inwards = (new \cap Outgoings) \cup (new \cap Bills)
    <3>1. \A m \in new : m \in Incomes \/ m \in Outgoings \/ m \in Bills \/ m \in Invoices
      BY <1>7, MovementsAre
    <3>2. \A m \in Inwards : m \notin Outgoings /\ m \notin Bills
      BY TreasuryAssumption DEF Inwards
    <3> QED  BY <3>1, <3>2 DEF Inwards
  <2>2. (new \cap Outgoings) \cap (new \cap Bills) = {}
    BY TreasuryAssumption
  <2>3. new \cap Outgoings \in SUBSET Movements /\ new \cap Bills \in SUBSET Movements
    BY <1>7
  <2> QED  BY <2>1, <2>2, <2>3, SumInParts
<1>12. /\ Worth(new \cap Incomes) \in Int /\ Worth(new \cap Invoices) \in Int
       /\ Worth(new \cap Outgoings) \in Int /\ Worth(new \cap Bills) \in Int
  <2>1. /\ new \cap Incomes \in SUBSET Movements /\ new \cap Invoices \in SUBSET Movements
        /\ new \cap Outgoings \in SUBSET Movements /\ new \cap Bills \in SUBSET Movements
    BY <1>7
  <2> QED  BY <2>1, SumIsOver
<1>13. Worth(Happened(Baseline) \cap Inwards) \in Int /\ Worth(Happened(Baseline) \ Inwards) \in Int
  <2>1. Happened(Baseline) \cap Inwards \in SUBSET Movements /\ (Happened(Baseline) \ Inwards) \in SUBSET Movements
    BY BankIs
  <2> QED  BY <2>1, SumIsOver
<1>14. PICK a \in Int, b \in Int, c \in Int, d \in Int, e \in Int, f \in Int :
           /\ a = Worth(new \cap Incomes) /\ b = Worth(new \cap Invoices)
           /\ c = Worth(new \cap Outgoings) /\ d = Worth(new \cap Bills)
           /\ e = Worth(Happened(Baseline) \cap Inwards) /\ f = Worth(Happened(Baseline) \ Inwards)
  BY <1>12, <1>13
<1>15. Bank(Baseline) = Cash + e - f
  BY <1>14 DEF Bank
<1>16. Bank(date) = Cash + (e + (a + b)) - (f + (c + d))
  BY <1>8, <1>9, <1>10, <1>11, <1>14 DEF Bank
<1>17. Actual = (Cash + e - f) - d + b + a - c
  BY <1>5, <1>14, <1>15
<1> QED  BY <1>14, <1>16, <1>17, TreasuryAssumption

-----------------------------------------------------------------------------
\* The week in which something due is expected, an overdue one now.
When(due) == IF due > date THEN due ELSE date
WeekOf(due) == (When(due) - date) \div WeekDays + 1

LEMMA WeekIs ==
    ASSUME TreasuryInv, NEW due \in Int
    PROVE  /\ WeekOf(due) \in Nat \ {0}
           /\ \A w \in 1 .. Weeks : InWeek(w, due) <=> w = WeekOf(due)
           /\ due <= Horizon <=> WeekOf(due) \in 1 .. Weeks
<1>1. date \in Nat /\ WeekDays \in Nat \ {0} /\ Weeks \in Nat \ {0}
  BY TreasuryAssumption DEF TreasuryInv, TreasuryTypeOK
<1>2. PICK x \in Nat : x = When(due) - date /\ When(due) \in Int
  BY <1>1 DEF When
<1>3. PICK q \in Nat : q = x \div WeekDays
  BY <1>1, <1>2
<1>4. q * WeekDays <= x /\ x < q * WeekDays + WeekDays
  BY <1>1, <1>2, <1>3
<1>5. WeekOf(due) = q + 1
  BY <1>2, <1>3 DEF WeekOf
<1>6. ASSUME NEW n \in Nat PROVE n * WeekDays <= x <=> n <= q
  <2>1. n <= q => n * WeekDays <= q * WeekDays
    BY <1>1
  <2>2. n >= q + 1 => n * WeekDays >= q * WeekDays + WeekDays
    BY <1>1
  <2>3. PICK a \in Nat, b \in Nat : a = n * WeekDays /\ b = q * WeekDays
    BY <1>1
  <2>4. (n <= q => a <= b) /\ (n >= q + 1 => a >= b + WeekDays) /\ b <= x /\ x < b + WeekDays
    BY <1>4, <2>1, <2>2, <2>3
  <2>5. n <= q \/ n >= q + 1
    OBVIOUS
  <2>6. a <= x <=> n <= q
    BY <1>1, <1>2, <2>3, <2>4, <2>5
  <2> QED  BY <2>3, <2>6
<1>7. ASSUME NEW w \in 1 .. Weeks PROVE InWeek(w, due) <=> w = WeekOf(due)
  <2>1. PICK a \in Nat, b \in Nat : a = (w - 1) * WeekDays /\ b = w * WeekDays
    BY <1>1
  <2>2. InWeek(w, due) <=> When(due) \in date + a .. date + b - 1
    BY <2>1 DEF InWeek, When
  <2>3. InWeek(w, due) <=> a <= x /\ ~ (b <= x)
    BY <1>1, <1>2, <2>1, <2>2
  <2>4. (a <= x <=> w - 1 <= q) /\ (b <= x <=> w <= q)
    <3>1. w - 1 \in Nat /\ w \in Nat
      BY <1>1
    <3> QED  BY <1>6, <2>1, <3>1
  <2> QED  BY <1>1, <1>5, <2>3, <2>4
<1>8. due <= Horizon <=> WeekOf(due) \in 1 .. Weeks
  <2>1. PICK c \in Nat : c = Weeks * WeekDays
    BY <1>1
  <2>2. c >= 1
    BY <1>1, <2>1
  <2>3. due <= Horizon <=> ~ (c <= x)
    BY <1>1, <1>2, <2>1, <2>2 DEF Horizon, When
  <2>4. c <= x <=> Weeks <= q
    BY <1>1, <1>6, <2>1
  <2> QED  BY <1>1, <1>5, <2>3, <2>4
<1> QED  BY <1>5, <1>7, <1>8

\* What is due once is counted in one week.
OnceDue(x) == [w \in 1 .. Weeks |-> IF InWeek(w, OrderDue) THEN x ELSE 0]
PlannedIn(S) == [w \in 1 .. Weeks |-> Worth(Planned(S, w))]

LEMMA WeeksAre == IsFiniteSet(1 .. Weeks)
BY TreasuryAssumption, FS_Interval

LEMMA DueOnce ==
    ASSUME TreasuryInv, OrderDue <= Horizon, NEW x \in Int
    PROVE  SumOver(OnceDue(x), 1 .. Weeks) = x /\ \A w \in 1 .. Weeks : OnceDue(x)[w] \in Int
<1>1. PICK n : n = WeekOf(OrderDue) /\ n \in 1 .. Weeks /\ \A w \in 1 .. Weeks : InWeek(w, OrderDue) <=> w = n
  BY WeekIs, TreasuryAssumption
<1> DEFINE v == OnceDue(x)
           u == [w \in 1 .. Weeks |-> x]
           W == 1 .. Weeks
           T == {n}
<1>2. T \subseteq W /\ IsFiniteSet(W)
  BY <1>1, WeeksAre
<1>3. \A w \in W : v[w] \in Int /\ v[w] = IF w \in T THEN u[w] ELSE 0
  BY <1>1 DEF OnceDue
<1>4. u[n] = x
  BY <1>1
<1> HIDE DEF v, u, W
<1>5. SumOver(v, W) = SumOver(u, T)
  <2> HIDE DEF T
  <2> QED  BY <1>2, <1>3, SumRestrict
<1>6. SumOver(u, {n}) = u[n]
  BY <1>4, SumOne
<1> QED  BY <1>3, <1>4, <1>5, <1>6 DEF v, W

LEMMA PlannedOnce ==
    ASSUME TreasuryInv, NEW S \in SUBSET Entries
    PROVE  /\ SumOver(PlannedIn(S), 1 .. Weeks) = Worth(Promised \cap S)
           /\ \A w \in 1 .. Weeks : PlannedIn(S)[w] \in Int
           /\ Worth(Promised \cap S) \in Int
<1> DEFINE P == Promised \cap S
           W == 1 .. Weeks
           k == [e \in P |-> WeekOf(entry[e].day)]
           weekly == PlannedIn(S)
<1>1. P \in SUBSET Movements /\ IsFiniteSet(P) /\ Worth(P) = SumOver(Amount, P) /\ Worth(P) \in Int
  <2>1. P \in SUBSET Movements
    BY DEF Movements
  <2> HIDE DEF P
  <2> QED  BY <2>1, SumIsOver
<1>2. \A e \in P : Amount[e] \in Int
  BY <1>1, MovementsAre
<1>3. \A e \in Entries : entry[e].day \in Nat
  BY DEF TreasuryInv, TreasuryTypeOK
<1>4. \A e \in P : k[e] \in W
  BY <1>3, WeekIs DEF Promised
<1>5. ASSUME NEW w \in W PROVE weekly[w] = SumOver(Amount, {e \in P : k[e] = w}) /\ weekly[w] \in Int
  <2>1. Planned(S, w) = {e \in P : k[e] = w}
    <3>1. ASSUME NEW e \in S PROVE e \in Planned(S, w) <=> e \in P /\ k[e] = w
      <4>1. e \in Entries /\ entry[e].day \in Int
        BY <1>3
      <4>2. InWeek(w, entry[e].day) <=> w = WeekOf(entry[e].day)
        BY <4>1, WeekIs
      <4>3. entry[e].day <= Horizon <=> WeekOf(entry[e].day) \in W
        BY <4>1, WeekIs
      <4> QED  BY <4>1, <4>2, <4>3 DEF Planned, Promised
    <3>2. Planned(S, w) \subseteq S /\ P \subseteq S
      BY DEF Planned
    <3> HIDE DEF k, P
    <3> QED  BY <3>1, <3>2
  <2>2. Planned(S, w) \in SUBSET Movements
    BY DEF Planned, Movements
  <2>3. weekly[w] = Worth(Planned(S, w))
    BY DEF PlannedIn
  <2> HIDE DEF k, P, weekly
  <2> QED  BY <2>1, <2>2, <2>3, SumIsOver
<1>6. IsFiniteSet(W)
  BY WeeksAre
<1> HIDE DEF P, W, k, weekly
<1>7. SumOver(weekly, W) = SumOver(Amount, P)
  BY <1>1, <1>2, <1>4, <1>5, <1>6, SumClasses
<1> QED  BY <1>1, <1>5, <1>7 DEF P, W, weekly

LEMMA TwoSums ==
    ASSUME NEW u, NEW v, NEW w, \A c \in 1 .. Weeks : u[c] \in Int /\ v[c] \in Int /\ w[c] = u[c] + v[c]
    PROVE  SumOver(w, 1 .. Weeks) = SumOver(u, 1 .. Weeks) + SumOver(v, 1 .. Weeks)
BY WeeksAre, SumPlus

LEMMA MaxOfTwo == ASSUME NEW a \in Int, NEW b \in Int PROVE Max({a, b}) = IF a >= b THEN a ELSE b
BY DEF Max

LEMMA ProjectionFollows ==
    ASSUME TreasuryInv, CaughtUp, Closed, OrderDue <= Horizon
    PROVE  PromisesCountOnce
<1> DEFINE W == 1 .. Weeks
           out == [w \in W |-> Outgoing(w)]
           in == [w \in W |-> Receivables(w) + Worth(Planned(Incomes, w))]
<1>1. PICK unpaid \in Int, owing \in Int, planned \in Int, expected \in Int, left \in Int :
          /\ unpaid = Worth(Open(Bills)) /\ owing = Worth(Open(Invoices))
          /\ planned = Worth(Promised \cap Outgoings) /\ expected = Worth(Promised \cap Incomes)
          /\ left = Commitment
  <2>1. Open(Bills) \in SUBSET Movements /\ Open(Invoices) \in SUBSET Movements
    BY MovementsAre DEF Open
  <2>2. Worth(Open(Bills)) \in Int /\ Worth(Open(Invoices)) \in Int
    BY <2>1, SumIsOver
  <2>3. Outgoings \in SUBSET Entries /\ Incomes \in SUBSET Entries
    BY DEF Entries
  <2>4. Worth(Promised \cap Outgoings) \in Int /\ Worth(Promised \cap Incomes) \in Int
    BY <2>3, PlannedOnce
  <2>5. Commitment \in Int
    <3>1. {b \in Bills : paper[b] # "none"} \in SUBSET Movements
      BY MovementsAre
    <3>2. Worth({b \in Bills : paper[b] # "none"}) \in Int
      BY <3>1, SumIsOver
    <3> QED  BY <3>2, TreasuryAssumption DEF Commitment
  <2> QED  BY <2>2, <2>4, <2>5
<1>2. Actual = Bank(date) /\ Actual \in Int
  BY ReconstructedFollows
<1>3. unpaid + left \in Int
  BY <1>1
<1>4. SumOver(out, W) = unpaid + left + planned
  <2>1. \A w \in W : /\ OnceDue(unpaid + left)[w] \in Int /\ PlannedIn(Outgoings)[w] \in Int
                     /\ out[w] = OnceDue(unpaid + left)[w] + PlannedIn(Outgoings)[w]
    <3>1. Outgoings \in SUBSET Entries
      BY DEF Entries
    <3>2. \A w \in W : OnceDue(unpaid + left)[w] \in Int /\ PlannedIn(Outgoings)[w] \in Int
      BY <1>3, <3>1, DueOnce, PlannedOnce
    <3>3. ASSUME NEW w \in W PROVE out[w] = OnceDue(unpaid + left)[w] + PlannedIn(Outgoings)[w]
      <4>1. PICK p \in Int : p = Worth(Planned(Outgoings, w)) /\ p = PlannedIn(Outgoings)[w]
        BY <3>2 DEF PlannedIn
      <4>2. out[w] = (IF InWeek(w, OrderDue) THEN unpaid ELSE 0) + (IF InWeek(w, OrderDue) THEN left ELSE 0) + p
        BY <1>1, <4>1 DEF Outgoing, Payables
      <4>3. OnceDue(unpaid + left)[w] = IF InWeek(w, OrderDue) THEN unpaid + left ELSE 0
        BY DEF OnceDue
      <4> QED  BY <1>1, <4>1, <4>2, <4>3
    <3> QED  BY <3>2, <3>3
  <2>2. SumOver(out, W) = SumOver(OnceDue(unpaid + left), W) + SumOver(PlannedIn(Outgoings), W)
    <3> HIDE DEF out
    <3> QED  BY <2>1, TwoSums
  <2>3. Outgoings \in SUBSET Entries
    BY DEF Entries
  <2> QED  BY <1>1, <1>3, <2>2, <2>3, DueOnce, PlannedOnce
<1>5. SumOver(in, W) = owing + expected
  <2>1. Incomes \in SUBSET Entries
    BY DEF Entries
  <2>2. \A w \in W : OnceDue(owing)[w] \in Int /\ PlannedIn(Incomes)[w] \in Int
    BY <1>1, <2>1, DueOnce, PlannedOnce
  <2>3. \A w \in W : in[w] = OnceDue(owing)[w] + PlannedIn(Incomes)[w]
    BY <1>1 DEF OnceDue, PlannedIn, Receivables
  <2>4. SumOver(in, W) = SumOver(OnceDue(owing), W) + SumOver(PlannedIn(Incomes), W)
    <3> HIDE DEF in
    <3> QED  BY <2>2, <2>3, TwoSums
  <2> QED  BY <1>1, <2>1, <2>4, DueOnce, PlannedOnce
<1>6. Conservative = Actual - SumOver(out, W)
  <2>1. MapThenSumSet(Outgoing, W) = SumOver(out, W)
    BY DEF SumOver, MapThenSumSet, MapThenFoldSet
  <2> QED  BY <2>1 DEF Conservative
<1>7. Expected = Conservative + SumOver(in, W)
  BY DEF Expected, SumOver, MapThenSumSet, MapThenFoldSet
<1>8. Conservative = Bank(date) - (unpaid + left) - planned /\ Expected = Conservative + owing + expected
  <2>1. PICK n \in Int : n = Bank(date) /\ n = Actual
    BY <1>2
  <2>2. Conservative = n - (unpaid + left + planned)
    BY <1>4, <1>6, <2>1
  <2>3. Conservative = n - (unpaid + left) - planned /\ Conservative \in Int
    BY <1>1, <2>2
  <2>4. Expected = Conservative + (owing + expected)
    BY <1>5, <1>7
  <2> QED  BY <1>1, <2>1, <2>3, <2>4
<1>9. PICK paid \in Int : paid = Worth({b \in Bills : paper[b] = "paid"})
  <2>1. {b \in Bills : paper[b] = "paid"} \in SUBSET Movements
    BY MovementsAre
  <2> QED  BY <2>1, SumIsOver
<1>10. Worth({b \in Bills : paper[b] # "none"}) = paid + unpaid
  <2>1. Bills \subseteq Papers
    BY DEF Papers
  <2>2. {b \in Bills : paper[b] # "none"} = {b \in Bills : paper[b] = "paid"} \cup Open(Bills)
    BY <2>1 DEF Open, TreasuryInv, TreasuryTypeOK
  <2>3. {b \in Bills : paper[b] = "paid"} \cap Open(Bills) = {}
    BY DEF Open
  <2>4. {b \in Bills : paper[b] = "paid"} \in SUBSET Movements /\ Open(Bills) \in SUBSET Movements
    BY MovementsAre DEF Open
  <2> QED  BY <1>1, <1>9, <2>2, <2>3, <2>4, SumInParts
<1>11. unpaid + left = IF purchase = "open" THEN Max({OrderTotal - paid, unpaid}) ELSE unpaid
  <2>1. left = IF purchase = "open" /\ OrderTotal > paid + unpaid THEN OrderTotal - (paid + unpaid) ELSE 0
    BY <1>1, <1>10 DEF Commitment
  <2>2. PICK t \in Int, r \in Int : t = OrderTotal /\ r = t - paid
    BY TreasuryAssumption
  <2>3. Max({r, unpaid}) = IF r >= unpaid THEN r ELSE unpaid
    BY MaxOfTwo
  <2> QED  BY <1>1, <1>9, <2>1, <2>2, <2>3
<1>12. PICK open : open = Open(Bills)
  OBVIOUS
<1>13. Worth(open) = unpaid
  BY <1>1, <1>12
<1> QED  BY <1>1, <1>8, <1>9, <1>11 DEF PromisesCountOnce

LEMMA CashInvIsEnough == TreasuryInv => CashIsTrue
<1>1. TreasuryInv => ReconstructedIsTrue
  BY ReconstructedFollows DEF ReconstructedIsTrue
<1>2. TreasuryInv /\ ~ (CaughtUp /\ Closed /\ OrderDue <= Horizon) => PromisesCountOnce
  BY DEF PromisesCountOnce
<1> QED  BY <1>1, <1>2, ProjectionFollows DEF CashIsTrue

\* For any entries, documents, amounts, days and weeks: once the tables have caught up and a
\* balance was certified after the close of its day, the reconstructed balance is what the
\* bank shows, and the projection counts every promised movement once (projection).
THEOREM CashStaysTrue == TreasurySpec => []CashIsTrue
<1> QED  BY CashInitially, CashStays, CashInvIsEnough, PTL DEF TreasurySpec

-----------------------------------------------------------------------------
(* The first load of a resource, for any number of documents, any page     *)
(* size and batch, and any deletions.                                      *)

\* The place of a document among those of D: the order of Alegra's pages.
RankIn(D, d) == Cardinality({e \in D : e < d})

LEMMA RankIs ==
    ASSUME NEW D, IsFiniteSet(D), NEW d
    PROVE  RankIn(D, d) \in Nat /\ IsFiniteSet({e \in D : e < d})
<1>1. {e \in D : e < d} \in SUBSET D
  OBVIOUS
<1> QED  BY <1>1, FS_Subset, FS_CardinalityType DEF RankIn

LEMMA RankLess ==
    ASSUME NEW D, IsFiniteSet(D), D \subseteq Nat, NEW d \in D, NEW e \in D, d < e
    PROVE  RankIn(D, d) < RankIn(D, e)
<1> DEFINE A == {x \in D : x < d}
           B == {x \in D : x < e}
<1>1. A \in SUBSET B /\ d \in B /\ d \notin A
  <2>1. \A x \in D : x \in Nat
    OBVIOUS
  <2>2. \A x \in D : x < d => x < e
    BY <2>1
  <2>3. ~ (d < d)
    BY <2>1
  <2> QED  BY <2>2, <2>3
<1>2. IsFiniteSet(B) /\ Cardinality(A) \in Nat /\ Cardinality(B) \in Nat
  BY RankIs DEF RankIn
<1> HIDE DEF A, B
<1>3. Cardinality(A) <= Cardinality(B) /\ Cardinality(A) # Cardinality(B)
  BY <1>1, <1>2, FS_Subset
<1> QED  BY <1>2, <1>3 DEF RankIn, A, B

\* So no set of documents has more members than ranks.
LEMMA RanksCount ==
    ASSUME NEW D, IsFiniteSet(D), D \subseteq Nat, NEW S \in SUBSET D,
           NEW B, IsFiniteSet(B), \A d \in S : RankIn(D, d) \in B
    PROVE  IsFiniteSet(S) /\ Cardinality(S) <= Cardinality(B)
<1> DEFINE f == [d \in S |-> RankIn(D, d)]
<1>1. \A d \in S : f[d] = RankIn(D, d) /\ f[d] \in Nat /\ d \in Nat
  BY RankIs
<1>2. ASSUME NEW d \in S, NEW e \in S, f[d] = f[e] PROVE d = e
  <2>1. d \in D /\ e \in D /\ d \in Nat /\ e \in Nat
    OBVIOUS
  <2>2. CASE d < e
    <3>1. RankIn(D, d) < RankIn(D, e)
      BY <2>1, <2>2, RankLess
    <3> QED  BY <1>1, <1>2, <3>1
  <2>3. CASE e < d
    <3>1. RankIn(D, e) < RankIn(D, d)
      BY <2>1, <2>3, RankLess
    <3> QED  BY <1>1, <1>2, <3>1
  <2> QED  BY <2>1, <2>2, <2>3
<1>3. f \in Injection(S, B)
  BY <1>2 DEF Injection, IsInjective
<1> QED  BY <1>3, FS_Injection

\* A deletion moves a document at most one place.
LEMMA RankWithout ==
    ASSUME NEW D, IsFiniteSet(D), NEW x, NEW d
    PROVE  RankIn(D \ {x}, d) \in {RankIn(D, d), RankIn(D, d) - 1}
<1> DEFINE A == {e \in D : e < d}
<1>1. {e \in D \ {x} : e < d} = A \ {x}
  OBVIOUS
<1>2. IsFiniteSet(A) /\ Cardinality(A) = RankIn(D, d)
  BY RankIs DEF RankIn
<1> HIDE DEF A
<1>3. Cardinality(A \ {x}) \in {Cardinality(A), Cardinality(A) - 1}
  BY <1>2, FS_RemoveElement
<1> QED  BY <1>1, <1>2, <1>3 DEF RankIn

\* A new document moves no other.
LEMMA RankWith ==
    ASSUME NEW D, D \subseteq Nat, NEW n \in Nat, \A e \in D : e < n, NEW d \in D
    PROVE  RankIn(D \cup {n}, d) = RankIn(D, d)
<1>1. {e \in D \cup {n} : e < d} = {e \in D : e < d}
  OBVIOUS
<1> QED  BY <1>1 DEF RankIn

\* Ranks have no gaps.
LEMMA RankReached ==
    ASSUME NEW D, IsFiniteSet(D), D \subseteq Nat, NEW s \in Nat, NEW d \in D, RankIn(D, d) >= s
    PROVE  \E e \in D : RankIn(D, e) = s
<1> DEFINE T == {e \in D : RankIn(D, e) >= s}
<1>1. PICK e \in T : \A x \in T : e <= x
  BY LeastElement
<1>2. ASSUME NEW x \in {y \in D : y < e} PROVE RankIn(D, x) \in 0 .. s - 1
  <2>1. x \in Nat /\ e \in Nat /\ x < e /\ x \in D
    BY <1>1
  <2>2. ~ (RankIn(D, x) >= s)
    BY <1>1, <2>1
  <2>3. RankIn(D, x) \in Nat
    BY RankIs
  <2> QED  BY <2>2, <2>3
<1>3. IsFiniteSet(0 .. s - 1) /\ Cardinality(0 .. s - 1) = s
  <2>1. s - 1 \in Int /\ (0 > s - 1 <=> s = 0)
    OBVIOUS
  <2>2. IsFiniteSet(0 .. s - 1) /\ Cardinality(0 .. s - 1) = IF 0 > s - 1 THEN 0 ELSE s - 1 - 0 + 1
    BY <2>1, FS_Interval
  <2> QED  BY <2>1, <2>2
<1>4. Cardinality({y \in D : y < e}) <= s
  BY <1>2, <1>3, RanksCount
<1>5. RankIn(D, e) <= s /\ RankIn(D, e) >= s /\ RankIn(D, e) \in Nat
  BY <1>1, <1>4, RankIs DEF RankIn
<1> QED  BY <1>1, <1>5

\* Every rank below the number of documents is taken, once.
LEMMA RankTaken ==
    ASSUME NEW D, IsFiniteSet(D), D \subseteq Nat
    PROVE  /\ Cardinality(D) \in Nat
           /\ \A d \in D : RankIn(D, d) \in 0 .. Cardinality(D) - 1
           /\ \A r \in 0 .. Cardinality(D) - 1 : \E d \in D : RankIn(D, d) = r
           /\ \A d, e \in D : RankIn(D, d) = RankIn(D, e) => d = e
<1>1. Cardinality(D) \in Nat
  BY FS_CardinalityType
<1>2. ASSUME NEW d \in D PROVE RankIn(D, d) \in 0 .. Cardinality(D) - 1
  <2>1. {e \in D : e < d} \in SUBSET (D \ {d})
    <3>1. d \in Nat /\ ~ (d < d)
      OBVIOUS
    <3> QED  BY <3>1
  <2>2. IsFiniteSet(D \ {d}) /\ Cardinality(D \ {d}) = Cardinality(D) - 1
    BY FS_RemoveElement
  <2>3. RankIn(D, d) <= Cardinality(D) - 1
    BY <2>1, <2>2, FS_Subset DEF RankIn
  <2>4. PICK k : k = RankIn(D, d)
    OBVIOUS
  <2>5. k \in Nat
    BY <2>4, RankIs
  <2>6. k \in 0 .. Cardinality(D) - 1
    BY <1>1, <2>3, <2>4, <2>5
  <2> QED  BY <2>4, <2>6
<1>3. ASSUME NEW r \in 0 .. Cardinality(D) - 1 PROVE \E d \in D : RankIn(D, d) = r
  <2>1. r \in Nat /\ r < Cardinality(D)
    BY <1>1
  <2>2. \E d \in D : RankIn(D, d) >= r
    <3> SUFFICES ASSUME \A d \in D : ~ (RankIn(D, d) >= r) PROVE FALSE
      OBVIOUS
    <3>1. ASSUME NEW d \in D PROVE RankIn(D, d) \in 0 .. r - 1
      <4>1. PICK k : k = RankIn(D, d)
        OBVIOUS
      <4>2. k \in Nat /\ ~ (k >= r)
        BY <4>1, RankIs
      <4>3. k \in 0 .. r - 1
        BY <2>1, <4>2
      <4> QED  BY <4>1, <4>3
    <3>2. IsFiniteSet(0 .. r - 1) /\ Cardinality(0 .. r - 1) = r
      <4>1. PICK b \in Int : b = r - 1
        BY <2>1
      <4>2. IsFiniteSet(0 .. b) /\ Cardinality(0 .. b) = IF 0 > b THEN 0 ELSE b - 0 + 1
        BY FS_Interval
      <4> QED  BY <2>1, <4>1, <4>2
    <3>3. Cardinality(D) <= Cardinality(0 .. r - 1)
      BY <3>1, <3>2, RanksCount
    <3> QED  BY <1>1, <2>1, <3>2, <3>3
  <2> QED  BY <2>1, <2>2, RankReached
<1>4. ASSUME NEW d \in D, NEW e \in D, RankIn(D, d) = RankIn(D, e) PROVE d = e
  <2>1. d \in Nat /\ e \in Nat /\ RankIn(D, d) \in Nat
    BY RankIs
  <2>2. ~ (d < e) /\ ~ (e < d)
    <3>1. d < e => RankIn(D, d) < RankIn(D, e)
      BY RankLess
    <3>2. e < d => RankIn(D, e) < RankIn(D, d)
      BY RankLess
    <3> QED  BY <3>1, <3>2, <2>1, <1>4
  <2> QED  BY <2>1, <2>2
<1> QED  BY <1>1, <1>2, <1>3, <1>4

SyncPcs == Active \cup Ended \cup {"idle", "dead"}

BackfillTypeOK ==
    /\ created \in Nat /\ deletions \in Nat
    /\ docs \subseteq 1 .. created /\ atStart \subseteq 1 .. created
    /\ sync \in [pc : SyncPcs, hydrate : BOOLEAN, total : Nat \cup {NoTotal}, start : Nat,
                 unread : SUBSET Nat, records : SUBSET Nat, buffer : SUBSET Nat]

\* The offsets of a batch of pages, and the ranks of the documents on one of them.
BatchFrom(s) == {s + k * PageSize : k \in 0 .. PageConcurrency - 1}
PageFrom(o) == o .. o + PageSize - 1

\* A document is passed when no page that is still to be read can bring it.
Frontier(s) == IF s.pc = "pages" THEN s.start + PageConcurrency * PageSize ELSE s.start
IsPassed(s, r) == r < Frontier(s) /\ \A o \in s.unread : r \notin PageFrom(o)
Brought(s) == s.records \cup s.buffer

\* The documents of the beginning that the run has lost so far.
MissedBy(s, D, A, T) ==
    IF s.pc \in {"records", "pages"}
    THEN {d \in A \cap D : IsPassed(s, RankIn(D, d)) /\ d \notin T \cup Brought(s)}
    ELSE IF s.pc = "finish" THEN (A \cap D) \ (T \cup Brought(s))
    ELSE IF s.pc = "succeeded" THEN (A \cap D) \ T
    ELSE {}

Missed == MissedBy(sync, docs, atStart, stored)

\* Nothing is beyond the total of the first page: what was there only moves down.
WithinTotal ==
    sync.pc \in {"records", "pages"} /\ sync.total # NoTotal =>
        \A d \in atStart \cap docs : RankIn(docs, d) < sync.total

BatchIsRead ==
    /\ sync.unread # {} => sync.pc \in {"pages", "failed", "dead"}
    /\ sync.pc = "pages" => sync.unread \subseteq BatchFrom(sync.start)
    /\ sync.pc = "finish" => sync.records = {}

BackfillInv ==
    /\ BackfillTypeOK /\ WithinTotal /\ BatchIsRead
    /\ deletions = 0 => atStart \subseteq docs
    /\ Cardinality(Missed) <= deletions * PageConcurrency

LEMMA RankBelow ==
    ASSUME NEW D, IsFiniteSet(D), D \subseteq Nat, NEW d \in D
    PROVE  RankIn(D, d) < Cardinality(D)
<1> DEFINE A == {e \in D : e < d}
<1>1. A \in SUBSET D /\ d \notin A
  <2>1. d \in Nat /\ ~ (d < d)
    OBVIOUS
  <2> QED  BY <2>1
<1> HIDE DEF A
<1>2. IsFiniteSet(A) /\ Cardinality(A) <= Cardinality(D) /\ Cardinality(A) # Cardinality(D)
  BY <1>1, FS_Subset
<1>3. Cardinality(A) \in Nat /\ Cardinality(D) \in Nat
  BY <1>2, FS_CardinalityType
<1> QED  BY <1>2, <1>3 DEF RankIn, A

LEMMA DocumentsAre ==
    ASSUME BackfillTypeOK
    PROVE  /\ IsFiniteSet(docs) /\ docs \subseteq Nat /\ \A d \in docs : d < created + 1
           /\ IsFiniteSet(atStart) /\ atStart \subseteq Nat
<1>1. IsFiniteSet(1 .. created) /\ created \in Nat
  BY FS_Interval DEF BackfillTypeOK
<1>2. docs \in SUBSET (1 .. created) /\ atStart \in SUBSET (1 .. created)
  BY DEF BackfillTypeOK
<1>3. IsFiniteSet(docs) /\ IsFiniteSet(atStart)
  BY <1>1, <1>2, FS_Subset
<1> QED  BY <1>1, <1>2, <1>3

LEMMA PageIs ==
    ASSUME BackfillTypeOK, NEW s \in Nat
    PROVE  /\ Page(s) = {d \in docs : RankIn(docs, d) \in PageFrom(s)}
           /\ Page(s) \subseteq Nat
           /\ Cardinality(Page(s)) \in Nat /\ Cardinality(Page(s)) <= PageSize
<1>1. IsFiniteSet(docs) /\ docs \subseteq Nat
  BY DocumentsAre
<1>2. Page(s) = {d \in docs : RankIn(docs, d) \in PageFrom(s)}
  BY DEF Page, Rank, RankIn, PageFrom
<1>3. IsFiniteSet(PageFrom(s)) /\ Cardinality(PageFrom(s)) = PageSize
  <2>1. PICK b \in Int : b = s + PageSize - 1
    BY BackfillAssumption
  <2>2. s \in Int /\ ~ (s > b) /\ b - s + 1 = PageSize
    BY <2>1, BackfillAssumption
  <2>3. IsFiniteSet(s .. b) /\ Cardinality(s .. b) = IF s > b THEN 0 ELSE b - s + 1
    BY <2>2, FS_Interval
  <2> QED  BY <2>1, <2>2, <2>3 DEF PageFrom
<1>4. IsFiniteSet(Page(s)) /\ Cardinality(Page(s)) <= PageSize
  <2>1. Page(s) \in SUBSET docs /\ \A d \in Page(s) : RankIn(docs, d) \in PageFrom(s)
    BY <1>2
  <2> QED  BY <1>1, <1>3, <2>1, RanksCount
<1> QED  BY <1>1, <1>2, <1>4, FS_CardinalityType

\* The step leaves no document behind.
LEMMA NoneMissed ==
    ASSUME BackfillInv, Missed' \subseteq Missed, deletions' = deletions
    PROVE  Cardinality(Missed') <= deletions' * PageConcurrency
<1>1. IsFiniteSet(atStart) /\ Missed \in SUBSET atStart
  BY DocumentsAre DEF BackfillInv, Missed, MissedBy
<1>2. IsFiniteSet(Missed)
  BY <1>1, FS_Subset
<1>3. IsFiniteSet(Missed') /\ Cardinality(Missed') <= Cardinality(Missed)
  <2>1. PICK m : m = Missed'
    OBVIOUS
  <2>2. m \in SUBSET Missed
    BY <2>1
  <2> QED  BY <1>2, <2>1, <2>2, FS_Subset
<1>4. Cardinality(Missed) \in Nat /\ Cardinality(Missed') \in Nat
  BY <1>2, <1>3, FS_CardinalityType
<1>5. deletions * PageConcurrency \in Nat
  BY BackfillAssumption DEF BackfillInv, BackfillTypeOK
<1>6. Cardinality(Missed) <= deletions * PageConcurrency
  BY DEF BackfillInv
<1>7. PICK n \in Nat : n = deletions * PageConcurrency
  BY <1>5
<1> QED  BY <1>3, <1>4, <1>6, <1>7

LEMMA LoadInitially == BackfillInit => BackfillInv
<1> SUFFICES ASSUME BackfillInit PROVE BackfillInv
  OBVIOUS
<1>1. created \in Nat /\ docs = 1 .. created /\ atStart = {} /\ deletions = 0 /\ sync = IdleSync
  BY BackfillAssumption DEF BackfillInit
<1>2. sync.pc = "idle" /\ sync.unread = {}
  BY <1>1 DEF IdleSync
<1>3. BackfillTypeOK
  BY <1>1 DEF BackfillTypeOK, IdleSync, SyncPcs, Active, Ended
<1>4. Cardinality(Missed) <= deletions * PageConcurrency
  <2>1. Missed = {}
    BY <1>2 DEF Missed, MissedBy
  <2>2. 0 * PageConcurrency = 0
    BY BackfillAssumption
  <2> QED  BY <1>1, <2>1, <2>2, FS_EmptySet
<1> QED  BY <1>1, <1>2, <1>3, <1>4 DEF BackfillInv, WithinTotal, BatchIsRead

LEMMA BeginKeepsLoad == BackfillInv /\ BeginSync => BackfillInv'
<1> SUFFICES ASSUME BackfillInv, BeginSync PROVE BackfillInv'
  OBVIOUS
<1>1. PICK hydrate \in BOOLEAN : sync' = [IdleSync EXCEPT !.pc = "first", !.hydrate = hydrate]
  BY DEF BeginSync
<1>2. atStart' = docs /\ deletions' = 0 /\ UNCHANGED <<docs, created, stored>>
  BY DEF BeginSync
<1>3. sync'.pc = "first" /\ sync'.unread = {}
  BY <1>1 DEF IdleSync
<1>4. BackfillTypeOK'
  BY <1>1, <1>2 DEF BackfillInv, BackfillTypeOK, IdleSync, SyncPcs, Active, Ended
<1>5. Cardinality(Missed') <= deletions' * PageConcurrency
  <2>1. Missed' = {}
    BY <1>3 DEF Missed, MissedBy
  <2>2. 0 * PageConcurrency = 0
    BY BackfillAssumption
  <2> QED  BY <1>2, <2>1, <2>2, FS_EmptySet
<1> QED  BY <1>2, <1>3, <1>4, <1>5 DEF BackfillInv, WithinTotal, BatchIsRead

LEMMA FirstPageKeepsLoad == BackfillInv /\ ReadFirstPage => BackfillInv'
<1> SUFFICES ASSUME BackfillInv, ReadFirstPage PROVE BackfillInv'
  OBVIOUS
<1>0. BackfillTypeOK /\ IsFiniteSet(docs) /\ docs \subseteq Nat
  BY DocumentsAre DEF BackfillInv
<1>a. PICK total \in {Cardinality(docs), NoTotal} :
          sync' = [sync EXCEPT !.pc = "records", !.total = total, !.records = Page(0),
                               !.start = IF total = NoTotal THEN Cardinality(Page(0)) ELSE PageSize]
  BY DEF ReadFirstPage
<1>b. PICK start, page : page = Page(0) /\ start = IF total = NoTotal THEN Cardinality(page) ELSE PageSize
  OBVIOUS
<1>1. /\ total \in {Cardinality(docs), NoTotal}
      /\ page = Page(0) /\ start = IF total = NoTotal THEN Cardinality(page) ELSE PageSize
      /\ sync' = [sync EXCEPT !.pc = "records", !.total = total, !.records = page, !.start = start]
  BY <1>a, <1>b
<1>2. sync.pc = "first" /\ sync.unread = {} /\ UNCHANGED <<docs, created, stored, atStart, deletions>>
  BY DEF ReadFirstPage, BackfillInv, BatchIsRead
<1>3. /\ page = {d \in docs : RankIn(docs, d) \in PageFrom(0)} /\ page \subseteq Nat
      /\ start \in Nat /\ start <= PageSize
  BY <1>0, <1>1, PageIs, BackfillAssumption
<1>4. total \in Nat \cup {NoTotal}
  BY <1>0, <1>1, FS_CardinalityType
<1>5. BackfillTypeOK'
  BY <1>1, <1>2, <1>3, <1>4 DEF BackfillInv, BackfillTypeOK, SyncPcs, Active
<1>6. /\ sync'.pc = "records" /\ sync'.unread = {} /\ sync'.total = total
      /\ sync'.records = page /\ sync'.start = start
  BY <1>1, <1>2 DEF BackfillInv, BackfillTypeOK
<1>7. WithinTotal'
  <2>1. \A d \in docs : total # NoTotal => RankIn(docs, d) < total
    BY <1>0, <1>1, RankBelow
  <2> QED  BY <1>2, <1>6, <2>1 DEF WithinTotal
<1>8. Missed' \subseteq Missed
  <2>1. ASSUME NEW d \in docs, IsPassed(sync', RankIn(docs, d)) PROVE d \in page
    <3>1. RankIn(docs, d) < start /\ RankIn(docs, d) \in Nat
      BY <1>0, <1>6, <2>1, RankIs DEF IsPassed, Frontier
    <3>2. RankIn(docs, d) \in PageFrom(0)
      BY <1>3, <3>1, BackfillAssumption DEF PageFrom
    <3> QED  BY <1>3, <3>2
  <2>2. page \subseteq Brought(sync')
    BY <1>6 DEF Brought
  <2> QED  BY <1>2, <1>6, <2>1, <2>2 DEF Missed, MissedBy
<1> QED  BY <1>2, <1>5, <1>6, <1>7, <1>8, NoneMissed DEF BackfillInv, BatchIsRead

LEMMA RecordKeepsLoad == BackfillInv /\ TakeRecord => BackfillInv'
<1> SUFFICES ASSUME BackfillInv, TakeRecord PROVE BackfillInv'
  OBVIOUS
<1>1. sync.pc = "records" /\ sync.unread = {} /\ UNCHANGED <<docs, created, atStart, deletions>>
  BY DEF TakeRecord, BackfillInv, BatchIsRead
<1>2. PICK d, buffer : /\ d = Min(sync.records)
                       /\ sync' = [sync EXCEPT !.records = @ \ {d}, !.buffer = buffer]
                       /\ \/ buffer = sync.buffer \cup {d} /\ stored' = stored
                          \/ buffer = {} /\ stored' = stored \cup sync.buffer \cup {d}
  <2>1. PICK d : d = Min(sync.records)
    OBVIOUS
  <2>2. PICK buffer : buffer = sync.buffer \cup {d}
    OBVIOUS
  <2>3. PICK full : full = (Cardinality(buffer) >= WriteBatch)
    OBVIOUS
  <2>4. sync' = [sync EXCEPT !.records = @ \ {d}, !.buffer = IF full THEN {} ELSE buffer]
        /\ stored' = IF full THEN stored \cup buffer ELSE stored
    BY <2>1, <2>2, <2>3 DEF TakeRecord
  <2>5. CASE full
    BY <2>1, <2>2, <2>4, <2>5
  <2>6. CASE ~ full
    BY <2>1, <2>2, <2>4, <2>6
  <2> QED  BY <2>5, <2>6
<1>3. d \in sync.records /\ d \in Nat
  <2>1. sync.records # {} /\ sync.records \subseteq Nat
    BY DEF TakeRecord, BackfillInv, BackfillTypeOK
  <2>2. \E n \in sync.records : \A m \in sync.records : n <= m
    BY <2>1, LeastElement
  <2> QED  BY <1>2, <2>1, <2>2 DEF Min
<1>4. BackfillTypeOK'
  BY <1>1, <1>2, <1>3 DEF BackfillInv, BackfillTypeOK, SyncPcs, Active
<1>5. /\ sync'.pc = "records" /\ sync'.unread = {} /\ sync'.total = sync.total /\ sync'.start = sync.start
      /\ sync'.records = sync.records \ {d} /\ sync'.buffer = buffer
  BY <1>1, <1>2 DEF BackfillInv, BackfillTypeOK
<1>6. stored' \cup Brought(sync') = stored \cup Brought(sync)
  BY <1>2, <1>3, <1>5 DEF Brought
<1>7. Missed' = Missed
  BY <1>1, <1>5, <1>6 DEF Missed, MissedBy, IsPassed, Frontier
<1>8. WithinTotal'
  BY <1>1, <1>5 DEF BackfillInv, WithinTotal
<1> QED  BY <1>1, <1>4, <1>5, <1>7, <1>8, NoneMissed DEF BackfillInv, BatchIsRead

LEMMA NextPageKeepsLoad == BackfillInv /\ ReadNextPage => BackfillInv'
<1> SUFFICES ASSUME BackfillInv, ReadNextPage PROVE BackfillInv'
  OBVIOUS
<1>0. BackfillTypeOK /\ IsFiniteSet(docs) /\ docs \subseteq Nat /\ sync.start \in Nat
  BY DocumentsAre DEF BackfillInv, BackfillTypeOK
<1>1. /\ sync.pc = "records" /\ sync.unread = {} /\ sync.total = NoTotal /\ sync.records = {}
      /\ UNCHANGED <<docs, created, stored, atStart, deletions>>
  BY DEF ReadNextPage, BackfillInv, BatchIsRead
<1>2. PICK page, start, pc :
          /\ page = Page(sync.start) /\ start = sync.start + Cardinality(page)
          /\ pc = IF page = {} THEN "finish" ELSE "records"
          /\ sync' = [sync EXCEPT !.records = page, !.start = start, !.pc = pc]
  BY DEF ReadNextPage, After
<1>3. /\ page = {d \in docs : RankIn(docs, d) \in PageFrom(sync.start)} /\ page \subseteq Nat
      /\ start \in Nat /\ start <= sync.start + PageSize
  BY <1>0, <1>2, PageIs, BackfillAssumption
<1>4. BackfillTypeOK'
  BY <1>1, <1>2, <1>3 DEF BackfillInv, BackfillTypeOK, SyncPcs, Active
<1>5. /\ sync'.pc = pc /\ sync'.unread = {} /\ sync'.total = NoTotal /\ sync'.start = start
      /\ sync'.records = page /\ sync'.buffer = sync.buffer
  BY <1>1, <1>2 DEF BackfillInv, BackfillTypeOK
<1>6. ASSUME NEW d \in docs, d \notin page, RankIn(docs, d) < start \/ page = {}
      PROVE  IsPassed(sync, RankIn(docs, d))
  <2>1. RankIn(docs, d) \in Nat
    BY <1>0, RankIs
  <2>2. ~ (RankIn(docs, d) >= sync.start /\ RankIn(docs, d) < sync.start + PageSize)
    BY <1>0, <1>3, <1>6, <2>1, BackfillAssumption DEF PageFrom
  <2>3. ~ (page = {} /\ RankIn(docs, d) >= sync.start)
    <3> SUFFICES ASSUME page = {}, RankIn(docs, d) >= sync.start PROVE FALSE
      OBVIOUS
    <3>1. PICK e \in docs : RankIn(docs, e) = sync.start
      BY <1>0, RankReached
    <3>2. sync.start \in PageFrom(sync.start)
      BY <1>0, BackfillAssumption DEF PageFrom
    <3> QED  BY <1>3, <3>1, <3>2
  <2>4. RankIn(docs, d) < sync.start
    <3>1. PICK r \in Nat, b \in Nat : r = RankIn(docs, d) /\ b = sync.start
      BY <1>0, <2>1
    <3>2. PageSize \in Nat /\ start \in Nat /\ start <= b + PageSize
      BY <1>3, <3>1, BackfillAssumption
    <3>3. ~ (r >= b /\ r < b + PageSize) /\ (r < start \/ ~ (r >= b))
      BY <1>6, <2>2, <2>3, <3>1
    <3> QED  BY <3>1, <3>2, <3>3
  <2> QED  BY <1>1, <2>4 DEF IsPassed, Frontier
<1>7. Missed' \subseteq Missed
  <2>1. ASSUME NEW d \in Missed' PROVE d \in Missed
    <3>1. d \in docs /\ d \in atStart /\ d \notin stored /\ d \notin page /\ d \notin sync.buffer
      BY <1>1, <1>2, <1>5, <2>1 DEF Missed, MissedBy, Brought
    <3>2. RankIn(docs, d) < start \/ page = {}
      BY <1>1, <1>2, <1>5, <2>1 DEF Missed, MissedBy, IsPassed, Frontier
    <3> QED  BY <1>1, <1>6, <3>1, <3>2 DEF Missed, MissedBy, Brought
  <2> QED  BY <2>1
<1>8. BatchIsRead'
  BY <1>2, <1>5 DEF BatchIsRead
<1> QED  BY <1>1, <1>4, <1>5, <1>7, <1>8, NoneMissed DEF BackfillInv, WithinTotal

\* The offset of the page of a rank that the batch reaches.
LEMMA OffsetOf ==
    ASSUME NEW s \in Nat, NEW r \in Nat, s <= r, r < s + PageConcurrency * PageSize
    PROVE  \E o \in BatchFrom(s) : r \in PageFrom(o) /\ o \in Nat /\ o <= r
<1> DEFINE k == (r - s) \div PageSize
           n == k * PageSize
           N == PageConcurrency * PageSize
<1>1. k \in Nat /\ n \in Nat /\ n <= r - s /\ r - s < n + PageSize
  BY BackfillAssumption
<1>2. PageConcurrency \in Nat /\ PageSize \in Nat /\ N \in Nat /\ r < s + N
  BY BackfillAssumption
<1> HIDE DEF k
<1>3. k >= PageConcurrency => n >= N
  BY <1>1, <1>2
<1> HIDE DEF n, N
<1>4. k \in 0 .. PageConcurrency - 1
  BY <1>1, <1>2, <1>3
<1>5. s + n \in BatchFrom(s)
  BY <1>4 DEF BatchFrom, n
<1>6. r \in PageFrom(s + n) /\ s + n \in Nat /\ s + n <= r
  BY <1>1, <1>2 DEF PageFrom
<1> QED  BY <1>5, <1>6

LEMMA OffsetsAre ==
    ASSUME BackfillTypeOK, sync.total # NoTotal
    PROVE  Offsets = {o \in BatchFrom(sync.start) : o <= sync.total - 1} /\ Offsets \subseteq Nat
<1>1. sync.start \in Nat /\ sync.total \in Nat
  BY DEF BackfillTypeOK
<1>2. \A o \in BatchFrom(sync.start) : o \in Nat
  BY <1>1, BackfillAssumption DEF BatchFrom
<1>3. Offsets = BatchFrom(sync.start) \cap 0 .. sync.total - 1
  BY DEF Offsets, BatchFrom
<1> QED  BY <1>1, <1>2, <1>3

LEMMA BatchKeepsLoad == BackfillInv /\ StartPages => BackfillInv'
<1> SUFFICES ASSUME BackfillInv, StartPages PROVE BackfillInv'
  OBVIOUS
<1>0. BackfillTypeOK /\ IsFiniteSet(docs) /\ docs \subseteq Nat /\ sync.start \in Nat
  BY DocumentsAre DEF BackfillInv, BackfillTypeOK
<1>1. /\ sync.pc = "records" /\ sync.unread = {} /\ sync.total # NoTotal /\ sync.records = {}
      /\ sync' = [sync EXCEPT !.pc = "pages", !.unread = Offsets]
      /\ UNCHANGED <<docs, created, stored, atStart, deletions>>
  BY DEF StartPages, BackfillInv, BatchIsRead
<1>2. /\ Offsets = {o \in BatchFrom(sync.start) : o <= sync.total - 1} /\ Offsets \subseteq Nat
      /\ sync.total \in Nat
  BY <1>0, <1>1, OffsetsAre DEF BackfillTypeOK
<1>3. BackfillTypeOK'
  <2>1. PICK offsets \in SUBSET Nat : offsets = Offsets
    BY <1>2
  <2>2. sync' = [sync EXCEPT !.pc = "pages", !.unread = offsets]
    BY <1>1, <2>1
  <2> QED  BY <1>1, <2>2 DEF BackfillInv, BackfillTypeOK, SyncPcs, Active
<1>4. /\ sync'.pc = "pages" /\ sync'.unread = Offsets /\ sync'.total = sync.total
      /\ sync'.start = sync.start /\ sync'.records = {} /\ sync'.buffer = sync.buffer
  BY <1>1 DEF BackfillInv, BackfillTypeOK
<1>5. ASSUME NEW d \in docs, d \in atStart, IsPassed(sync', RankIn(docs, d))
      PROVE  IsPassed(sync, RankIn(docs, d))
  <2>1. PICK r \in Nat : r = RankIn(docs, d)
    BY <1>0, RankIs
  <2>2. r < sync.total
    BY <1>1, <1>5, <2>1 DEF BackfillInv, WithinTotal
  <2>3. r < sync.start + PageConcurrency * PageSize /\ \A o \in Offsets : r \notin PageFrom(o)
    BY <1>4, <1>5, <2>1 DEF IsPassed, Frontier
  <2>4. ~ (r >= sync.start)
    <3> SUFFICES ASSUME r >= sync.start PROVE FALSE
      OBVIOUS
    <3>1. PICK o \in BatchFrom(sync.start) : r \in PageFrom(o) /\ o \in Nat /\ o <= r
      BY <1>0, <2>3, OffsetOf
    <3>2. o \in Offsets
      BY <1>2, <2>2, <3>1
    <3> QED  BY <2>3, <3>1, <3>2
  <2>5. r < sync.start
    BY <1>0, <2>4
  <2> QED  BY <1>1, <2>1, <2>5 DEF IsPassed, Frontier
<1>6. Missed' \subseteq Missed
  BY <1>1, <1>4, <1>5 DEF Missed, MissedBy, Brought
<1>7. WithinTotal'
  BY <1>1, <1>4 DEF BackfillInv, WithinTotal
<1>8. BatchIsRead'
  BY <1>2, <1>4 DEF BatchIsRead
<1> QED  BY <1>1, <1>3, <1>6, <1>7, <1>8, NoneMissed DEF BackfillInv

LEMMA PageKeepsLoad == BackfillInv /\ ReadPage => BackfillInv'
<1> SUFFICES ASSUME BackfillInv, ReadPage PROVE BackfillInv'
  OBVIOUS
<1>0. /\ BackfillTypeOK /\ sync.start \in Nat /\ sync.unread \subseteq Nat
      /\ sync.unread \subseteq BatchFrom(sync.start)
      /\ PageConcurrency * PageSize \in Nat
  BY BackfillAssumption DEF BackfillInv, BackfillTypeOK, BatchIsRead, ReadPage
<1>1. PICK offset, left, page, start, pc :
          /\ offset \in sync.unread
          /\ left = sync.unread \ {offset} /\ page = Page(offset)
          /\ start = IF left = {} THEN sync.start + PageConcurrency * PageSize ELSE sync.start
          /\ pc = IF left = {} THEN "records" ELSE "pages"
          /\ sync' = [sync EXCEPT !.unread = left, !.records = @ \cup page, !.start = start, !.pc = pc]
  <2>1. PICK offset \in sync.unread : LET left == sync.unread \ {offset} IN
            sync' = [sync EXCEPT !.unread = left,
                                 !.records = @ \cup Page(offset),
                                 !.start = IF left = {} THEN @ + PageConcurrency * PageSize ELSE @,
                                 !.pc = IF left = {} THEN "records" ELSE "pages"]
    BY DEF ReadPage
  <2>2. PICK left, page : left = sync.unread \ {offset} /\ page = Page(offset)
    OBVIOUS
  <2>3. PICK start, pc : /\ start = IF left = {} THEN sync.start + PageConcurrency * PageSize ELSE sync.start
                         /\ pc = IF left = {} THEN "records" ELSE "pages"
    OBVIOUS
  <2>4. sync' = [sync EXCEPT !.unread = left, !.records = @ \cup page, !.start = start, !.pc = pc]
    BY <2>1, <2>2, <2>3
  <2> QED  BY <2>2, <2>3, <2>4
<1>2. sync.pc = "pages" /\ UNCHANGED <<docs, created, stored, atStart, deletions>>
  BY DEF ReadPage
<1>3. page = {d \in docs : RankIn(docs, d) \in PageFrom(offset)} /\ page \subseteq Nat
  BY <1>0, <1>1, PageIs
<1>4. start \in Nat /\ left \subseteq sync.unread /\ left \subseteq Nat
  BY <1>0, <1>1
<1>5. BackfillTypeOK'
  BY <1>1, <1>2, <1>3, <1>4 DEF BackfillInv, BackfillTypeOK, SyncPcs, Active
<1>6. /\ sync'.pc = pc /\ sync'.unread = left /\ sync'.total = sync.total /\ sync'.start = start
      /\ sync'.records = sync.records \cup page /\ sync'.buffer = sync.buffer
  BY <1>1 DEF BackfillInv, BackfillTypeOK
<1>7. pc = "pages" => start = sync.start
  BY <1>1
<1>8. Frontier(sync') = Frontier(sync)
  BY <1>1, <1>2, <1>6 DEF Frontier
<1>9. ASSUME NEW d \in docs, d \notin page, IsPassed(sync', RankIn(docs, d))
      PROVE  IsPassed(sync, RankIn(docs, d))
  <2>1. RankIn(docs, d) \notin PageFrom(offset)
    BY <1>3, <1>9
  <2>2. \A o \in sync.unread : o # offset => RankIn(docs, d) \notin PageFrom(o)
    BY <1>1, <1>6, <1>9 DEF IsPassed
  <2> QED  BY <1>8, <1>9, <2>1, <2>2 DEF IsPassed
<1>10. Missed' \subseteq Missed
  <2>1. pc \in {"records", "pages"}
    BY <1>1
  <2>2. page \subseteq Brought(sync') /\ Brought(sync) \subseteq Brought(sync')
    BY <1>6 DEF Brought
  <2> QED  BY <1>2, <1>6, <1>9, <2>1, <2>2 DEF Missed, MissedBy
<1>11. WithinTotal'
  BY <1>2, <1>6 DEF BackfillInv, WithinTotal
<1>12. BatchIsRead'
  BY <1>0, <1>1, <1>4, <1>6, <1>7 DEF BatchIsRead
<1> QED  BY <1>2, <1>5, <1>10, <1>11, <1>12, NoneMissed DEF BackfillInv

LEMMA EndKeepsLoad == BackfillInv /\ EndPages => BackfillInv'
<1> SUFFICES ASSUME BackfillInv, EndPages PROVE BackfillInv'
  OBVIOUS
<1>0. BackfillTypeOK /\ IsFiniteSet(docs) /\ docs \subseteq Nat /\ sync.start \in Nat
  BY DocumentsAre DEF BackfillInv, BackfillTypeOK
<1>1. /\ sync.pc = "records" /\ sync.unread = {} /\ sync.total # NoTotal /\ sync.records = {}
      /\ Offsets = {} /\ sync' = [sync EXCEPT !.pc = "finish"]
      /\ UNCHANGED <<docs, created, stored, atStart, deletions>>
  BY DEF EndPages, BackfillInv, BatchIsRead
<1>2. sync.start >= sync.total /\ sync.total \in Nat
  <2>1. Offsets = {o \in BatchFrom(sync.start) : o <= sync.total - 1} /\ sync.total \in Nat
    BY <1>0, <1>1, OffsetsAre DEF BackfillTypeOK
  <2>2. sync.start = sync.start + 0 * PageSize /\ 0 \in 0 .. PageConcurrency - 1
    BY <1>0, BackfillAssumption
  <2>3. sync.start \in BatchFrom(sync.start)
    BY <2>2 DEF BatchFrom
  <2>4. ~ (sync.start <= sync.total - 1)
    BY <1>1, <2>1, <2>3
  <2> QED  BY <1>0, <2>1, <2>4
<1>3. BackfillTypeOK'
  BY <1>1 DEF BackfillInv, BackfillTypeOK, SyncPcs, Active
<1>4. sync'.pc = "finish" /\ sync'.unread = {} /\ sync'.records = {} /\ sync'.buffer = sync.buffer
  BY <1>1 DEF BackfillInv, BackfillTypeOK
<1>5. ASSUME NEW d \in docs, d \in atStart PROVE IsPassed(sync, RankIn(docs, d))
  <2>1. RankIn(docs, d) < sync.total
    BY <1>1, <1>5 DEF BackfillInv, WithinTotal
  <2>2. RankIn(docs, d) \in Nat
    BY <1>0, RankIs
  <2>3. RankIn(docs, d) < sync.start
    BY <1>0, <1>2, <2>1, <2>2
  <2> QED  BY <1>1, <2>3 DEF IsPassed, Frontier
<1>6. Missed' \subseteq Missed
  BY <1>1, <1>4, <1>5 DEF Missed, MissedBy, Brought
<1> QED  BY <1>1, <1>3, <1>4, <1>6, NoneMissed DEF BackfillInv, WithinTotal, BatchIsRead

LEMMA StopKeepsLoad == BackfillInv /\ (FinishSync \/ FailSync \/ DieInSync) => BackfillInv'
<1> SUFFICES ASSUME BackfillInv, FinishSync \/ FailSync \/ DieInSync PROVE BackfillInv'
  OBVIOUS
<1>1. PICK pc \in {"succeeded", "failed", "dead"} :
          /\ sync' = [sync EXCEPT !.pc = pc, !.buffer = {}]
          /\ pc = "succeeded" => sync.pc = "finish" /\ stored' = stored \cup sync.buffer
  BY DEF FinishSync, FailSync, DieInSync, Flushed
<1>2. UNCHANGED <<docs, created, atStart, deletions>>
  BY DEF FinishSync, FailSync, DieInSync
<1>3. BackfillTypeOK'
  BY <1>1, <1>2 DEF BackfillInv, BackfillTypeOK, SyncPcs, Ended
<1>4. sync'.pc = pc /\ sync'.unread = sync.unread
  BY <1>1 DEF BackfillInv, BackfillTypeOK
<1>5. Missed' \subseteq Missed
  <2>1. CASE pc = "succeeded"
    <3>1. sync.records = {}
      BY <1>1, <2>1 DEF BackfillInv, BatchIsRead
    <3> QED  BY <1>1, <1>2, <1>4, <2>1, <3>1 DEF Missed, MissedBy, Brought
  <2>2. CASE pc # "succeeded"
    BY <1>4, <2>2 DEF Missed, MissedBy
  <2> QED  BY <2>1, <2>2
<1>6. pc = "succeeded" => sync.unread = {}
  BY <1>1 DEF BackfillInv, BatchIsRead
<1> QED  BY <1>2, <1>3, <1>4, <1>5, <1>6, NoneMissed DEF BackfillInv, WithinTotal, BatchIsRead

LEMMA CreateKeepsLoad ==
    ASSUME BackfillInv, created' = created + 1, docs' = docs \cup {created + 1},
           UNCHANGED <<stored, sync, atStart, deletions>>
    PROVE  BackfillInv'
<1>0. /\ BackfillTypeOK /\ IsFiniteSet(docs) /\ docs \subseteq Nat /\ \A e \in docs : e < created + 1
      /\ created + 1 \in Nat
  BY DocumentsAre DEF BackfillInv, BackfillTypeOK
<1>1. BackfillTypeOK'
  <2>1. 1 .. created \cup {created + 1} = 1 .. created + 1
    BY DEF BackfillInv, BackfillTypeOK
  <2> QED  BY <2>1 DEF BackfillInv, BackfillTypeOK
<1>2. \A d \in docs : RankIn(docs', d) = RankIn(docs, d)
  BY <1>0, RankWith
<1>3. created + 1 \notin atStart
  BY DEF BackfillInv, BackfillTypeOK
<1>4. atStart \cap docs' = atStart \cap docs
  BY <1>3
<1>5. Missed' = Missed
  BY <1>2, <1>4 DEF Missed, MissedBy
<1>6. WithinTotal'
  BY <1>2, <1>4 DEF BackfillInv, WithinTotal
<1> QED  BY <1>1, <1>4, <1>5, <1>6, NoneMissed DEF BackfillInv, BatchIsRead

\* A deletion moves past the run at most the document at the head of each page it will read.
LEMMA DeleteKeepsLoad ==
    ASSUME BackfillInv, NEW x \in docs, docs' = docs \ {x}, deletions' = deletions + 1,
           UNCHANGED <<created, stored, sync, atStart>>
    PROVE  BackfillInv'
<1> DEFINE heads == IF sync.pc # "pages" THEN {sync.start}
                    ELSE IF sync.unread = BatchFrom(sync.start) THEN sync.unread
                    ELSE sync.unread \cup {Frontier(sync)}
           New == {d \in docs : RankIn(docs, d) \in heads}
<1>0. /\ BackfillTypeOK /\ IsFiniteSet(docs) /\ docs \subseteq Nat /\ sync.start \in Nat
      /\ sync.unread \subseteq Nat /\ PageConcurrency \in Nat \ {0}
  BY DocumentsAre, BackfillAssumption DEF BackfillInv, BackfillTypeOK
<1>1. IsFiniteSet(heads) /\ Cardinality(heads) <= PageConcurrency
  <2>1. IsFiniteSet(BatchFrom(sync.start)) /\ Cardinality(BatchFrom(sync.start)) <= PageConcurrency
    <3> DEFINE K == 0 .. PageConcurrency - 1
               B == BatchFrom(sync.start)
               f == [k \in K |-> sync.start + k * PageSize]
    <3>1. PICK m \in Int : m = PageConcurrency - 1
      BY <1>0
    <3>2. IsFiniteSet(0 .. m) /\ Cardinality(0 .. m) = IF 0 > m THEN 0 ELSE m - 0 + 1
      BY FS_Interval
    <3>3. IsFiniteSet(K) /\ Cardinality(K) = PageConcurrency
      BY <1>0, <3>1, <3>2
    <3>4. f \in Surjection(K, B)
      BY DEF Surjection, BatchFrom
    <3> HIDE DEF K, B, f
    <3>5. IsFiniteSet(B) /\ Cardinality(B) <= Cardinality(K)
      BY <3>3, <3>4, FS_Surjection
    <3> QED  BY <3>3, <3>5 DEF B
  <2>2. CASE sync.pc # "pages"
    <3>1. heads = {sync.start}
      BY <2>2
    <3>2. IsFiniteSet({sync.start}) /\ Cardinality({sync.start}) = 1
      BY FS_Singleton
    <3> HIDE DEF heads
    <3> QED  BY <1>0, <3>1, <3>2
  <2>3. CASE sync.pc = "pages" /\ sync.unread = BatchFrom(sync.start)
    BY <2>1, <2>3
  <2>4. CASE sync.pc = "pages" /\ sync.unread # BatchFrom(sync.start)
    <3>1. sync.unread \in SUBSET BatchFrom(sync.start)
      BY <2>4 DEF BackfillInv, BatchIsRead
    <3>2. /\ IsFiniteSet(sync.unread)
          /\ Cardinality(sync.unread) <= Cardinality(BatchFrom(sync.start))
          /\ Cardinality(sync.unread) # Cardinality(BatchFrom(sync.start))
      BY <2>1, <2>4, <3>1, FS_Subset
    <3>3. Cardinality(sync.unread) \in Nat /\ Cardinality(BatchFrom(sync.start)) \in Nat
      BY <2>1, <3>2, FS_CardinalityType
    <3>4. PICK h, g, b : h = g \cup {b} /\ g = sync.unread /\ b = Frontier(sync)
      OBVIOUS
    <3>5. IsFiniteSet(h) /\ Cardinality(h) <= Cardinality(sync.unread) + 1
      <4>1. IsFiniteSet(g) /\ Cardinality(g) \in Nat
        BY <3>2, <3>3, <3>4
      <4>2. IsFiniteSet(g \cup {b}) /\ Cardinality(g \cup {b}) = IF b \in g THEN Cardinality(g) ELSE Cardinality(g) + 1
        BY <4>1, FS_AddElement
      <4>3. Cardinality(h) = Cardinality(g) \/ Cardinality(h) = Cardinality(g) + 1
        BY <3>4, <4>2
      <4> QED  BY <3>4, <4>1, <4>2, <4>3
    <3>6. Cardinality(h) \in Nat
      BY <3>5, FS_CardinalityType
    <3>7. Cardinality(h) <= PageConcurrency
      BY <1>0, <2>1, <3>2, <3>3, <3>5, <3>6
    <3> QED  BY <2>4, <3>4, <3>5, <3>7
  <2> QED  BY <2>2, <2>3, <2>4
<1>2. IsFiniteSet(New) /\ Cardinality(New) <= PageConcurrency
  <2> HIDE DEF heads
  <2>1. IsFiniteSet(New) /\ Cardinality(New) <= Cardinality(heads)
    BY <1>0, <1>1, RanksCount
  <2>2. Cardinality(New) \in Nat /\ Cardinality(heads) \in Nat
    BY <1>1, <2>1, FS_CardinalityType
  <2> QED  BY <1>0, <1>1, <2>1, <2>2
<1>3. ASSUME NEW d \in docs', sync.pc \in {"records", "pages"},
             IsPassed(sync, RankIn(docs', d)), ~ IsPassed(sync, RankIn(docs, d))
      PROVE  d \in New
  <2>1. PICK r \in Nat, q \in Nat : r = RankIn(docs, d) /\ q = RankIn(docs', d) /\ q \in {r, r - 1}
    <3>1. IsFiniteSet(docs \ {x})
      BY <1>0, FS_RemoveElement
    <3> QED  BY <1>0, <3>1, RankIs, RankWithout
  <2>2. q = r - 1
    BY <1>3, <2>1
  <2>3. PICK b \in Nat : b = Frontier(sync)
    BY <1>0, BackfillAssumption DEF Frontier
  <2>4. q < b /\ \A o \in sync.unread : q \notin PageFrom(o)
    BY <1>3, <2>1, <2>3 DEF IsPassed
  <2>5. r = b \/ r \in sync.unread
    <3>1. CASE \E o \in sync.unread : r \in PageFrom(o)
      <4>1. PICK o \in sync.unread : r \in PageFrom(o)
        BY <3>1
      <4>2. q \notin PageFrom(o) /\ o \in Nat
        BY <1>0, <2>4
      <4>3. r = o
        BY <2>1, <2>2, <4>1, <4>2, BackfillAssumption DEF PageFrom
      <4> QED  BY <4>3
    <3>2. CASE ~ (r < b)
      BY <2>1, <2>2, <2>3, <2>4, <3>2
    <3> QED  BY <1>3, <2>1, <2>3, <3>1, <3>2 DEF IsPassed
  <2>6. r \in heads
    <3>1. CASE sync.pc = "records"
      BY <2>3, <2>5, <3>1 DEF BackfillInv, BatchIsRead, Frontier
    <3>2. CASE sync.pc = "pages" /\ sync.unread # BatchFrom(sync.start)
      BY <2>3, <2>5, <3>2
    <3>3. CASE sync.pc = "pages" /\ sync.unread = BatchFrom(sync.start)
      <4>1. q + 1 = b => FALSE
        <5> SUFFICES ASSUME q + 1 = b PROVE FALSE
          OBVIOUS
        <5> DEFINE n == (PageConcurrency - 1) * PageSize
                   N == PageConcurrency * PageSize
        <5>1. N = n + PageSize /\ n \in Nat /\ PageSize \in Nat \ {0}
          BY BackfillAssumption
        <5>2. b = sync.start + N
          BY <2>3, <3>3 DEF Frontier
        <5>3. sync.start + n \in BatchFrom(sync.start)
          BY <1>0 DEF BatchFrom
        <5> HIDE DEF n, N
        <5>4. q \in PageFrom(sync.start + n)
          BY <1>0, <2>1, <5>1, <5>2 DEF PageFrom
        <5> QED  BY <2>4, <3>3, <5>3, <5>4
      <4>2. r # b
        BY <2>1, <2>2, <2>3, <4>1
      <4> QED  BY <2>5, <3>3, <4>2
    <3> QED  BY <1>3, <3>1, <3>2, <3>3
  <2> QED  BY <1>3, <2>1, <2>6
<1>4. Missed' \subseteq Missed \cup New
  <2> HIDE DEF New
  <2> QED  BY <1>3 DEF Missed, MissedBy
<1>5. Cardinality(Missed') <= deletions' * PageConcurrency
  <2> HIDE DEF New
  <2>1. IsFiniteSet(Missed)
    <3>1. IsFiniteSet(atStart) /\ Missed \in SUBSET atStart
      BY <1>0, DocumentsAre DEF Missed, MissedBy
    <3> QED  BY <3>1, FS_Subset
  <2>2. PICK U : U = Missed \cup New
    OBVIOUS
  <2>3. IsFiniteSet(U) /\ Cardinality(U) = Cardinality(Missed) + Cardinality(New) - Cardinality(Missed \cap New)
    BY <1>2, <2>1, <2>2, FS_Union
  <2>4. IsFiniteSet(Missed \cap New)
    BY <2>1, FS_Intersection
  <2>5. PICK m : m = Missed'
    OBVIOUS
  <2>6. IsFiniteSet(m) /\ Cardinality(m) <= Cardinality(U)
    <3>1. m \in SUBSET U
      BY <1>4, <2>2, <2>5
    <3> QED  BY <2>3, <3>1, FS_Subset
  <2>7. PICK a \in Nat, b \in Nat, c \in Nat, e \in Nat, u \in Nat :
            /\ a = Cardinality(Missed) /\ b = Cardinality(New) /\ c = Cardinality(Missed \cap New)
            /\ e = Cardinality(m) /\ u = Cardinality(U)
    BY <1>2, <2>1, <2>3, <2>4, <2>6, FS_CardinalityType
  <2>8. PICK n \in Nat : n = deletions * PageConcurrency /\ n + PageConcurrency = (deletions + 1) * PageConcurrency
    BY BackfillAssumption DEF BackfillInv, BackfillTypeOK
  <2>9. a <= n
    BY <2>7, <2>8 DEF BackfillInv
  <2>10. e <= u /\ u = a + b - c /\ b <= PageConcurrency
    BY <1>2, <2>3, <2>6, <2>7
  <2>11. e <= n + PageConcurrency
    BY <1>0, <2>7, <2>8, <2>9, <2>10
  <2> QED  BY <2>5, <2>7, <2>8, <2>11
<1>6. BackfillTypeOK' /\ deletions' # 0
  BY DEF BackfillInv, BackfillTypeOK
<1>7. WithinTotal'
  <2>1. ASSUME sync.pc \in {"records", "pages"}, sync.total # NoTotal, NEW d \in atStart \cap docs'
        PROVE  RankIn(docs', d) < sync.total
    <3>1. RankIn(docs, d) < sync.total
      BY <2>1 DEF BackfillInv, WithinTotal
    <3>2. RankIn(docs', d) \in {RankIn(docs, d), RankIn(docs, d) - 1} /\ RankIn(docs, d) \in Nat
      BY <1>0, RankIs, RankWithout
    <3>3. sync.total \in Nat
      BY <1>0, <2>1 DEF BackfillTypeOK
    <3> QED  BY <3>1, <3>2, <3>3
  <2> QED  BY <2>1 DEF WithinTotal
<1>8. BatchIsRead'
  BY DEF BackfillInv, BatchIsRead
<1> QED  BY <1>5, <1>6, <1>7, <1>8 DEF BackfillInv

LEMMA LoadStays == BackfillInv /\ [BackfillNext]_backfillVars => BackfillInv'
<1> SUFFICES ASSUME BackfillInv, [BackfillNext]_backfillVars PROVE BackfillInv'
  OBVIOUS
<1>1. CASE EditDocuments
  <2>1. UNCHANGED <<stored, sync, stateRow, atStart>>
    BY <1>1 DEF EditDocuments
  <2>2. CASE created' = created + 1 /\ docs' = docs \cup {created + 1} /\ UNCHANGED deletions
    BY <2>1, <2>2, CreateKeepsLoad
  <2>3. ASSUME NEW x \in docs, docs' = docs \ {x}, deletions' = deletions + 1, UNCHANGED created
        PROVE  BackfillInv'
    BY <2>1, <2>3, DeleteKeepsLoad
  <2> QED  BY <1>1, <2>2, <2>3 DEF EditDocuments
<1>2. CASE BeginSync
  BY <1>2, BeginKeepsLoad
<1>3. CASE SyncStep \/ DieInSync
  BY <1>3, FirstPageKeepsLoad, RecordKeepsLoad, BatchKeepsLoad, PageKeepsLoad, NextPageKeepsLoad,
     EndKeepsLoad, StopKeepsLoad DEF SyncStep
<1>4. CASE UNCHANGED backfillVars
  BY <1>4 DEF backfillVars, BackfillInv, BackfillTypeOK, WithinTotal, BatchIsRead, Missed
<1> QED  BY <1>1, <1>2, <1>3, <1>4 DEF BackfillNext

LEMMA LoadInvIsEnough == BackfillInv => LoadIsComplete
<1> SUFFICES ASSUME BackfillInv PROVE LoadIsComplete
  OBVIOUS
<1>1. IsFiniteSet(Missed)
  <2>1. IsFiniteSet(atStart) /\ Missed \in SUBSET atStart
    BY DocumentsAre DEF BackfillInv, Missed, MissedBy
  <2> QED  BY <2>1, FS_Subset
<1>2. Cardinality(Missed) <= deletions * PageConcurrency
  BY DEF BackfillInv
<1>3. sync.pc = "succeeded" => Missed = (atStart \cap docs) \ stored
  BY DEF Missed, MissedBy
<1>4. FullSyncIsFull
  <2> SUFFICES ASSUME sync.pc = "succeeded", deletions = 0 PROVE atStart \subseteq stored
    BY DEF FullSyncIsFull
  <2>1. 0 * PageConcurrency = 0
    BY BackfillAssumption
  <2>2. Cardinality(Missed) <= 0 /\ Cardinality(Missed) \in Nat
    BY <1>1, <1>2, <2>1, FS_CardinalityType
  <2>3. Missed = {}
    BY <1>1, <2>2, FS_EmptySet
  <2>4. atStart \subseteq docs
    BY DEF BackfillInv
  <2> QED  BY <1>3, <2>3, <2>4
<1> QED  BY <1>2, <1>3, <1>4 DEF LoadIsComplete, SkipsAreBounded

\* For any documents, page size and number of pages read together: a load during which nothing
\* was deleted has every document there was at its start, and otherwise it lacks at most
\* one for each deletion and page of a batch (iter_all_resource).
THEOREM LoadStaysComplete == BackfillSpec => []LoadIsComplete
<1> QED  BY LoadInitially, LoadStays, LoadInvIsEnough, PTL DEF BackfillSpec

-----------------------------------------------------------------------------
(* The forecast of a product, for any history: the days it is trained on,  *)
(* and the range of every model.                                           *)

\* There is something to train on, and what is left out did not sell.
LEMMA TrainingSetIs ==
    ASSUME HistoryInit
    PROVE  /\ IsFiniteSet(CalendarDates) /\ CalendarDates \subseteq Nat
           /\ CalendarDates \subseteq Window
           /\ TrainingSet \subseteq CalendarDates /\ TrainingSet # {} /\ IsFiniteSet(TrainingSet)
           /\ \A d \in CalendarDates \ TrainingSet : sold[d] = 0
           /\ \A d \in CalendarDates : sold[d] \in Nat
<1>1. HistoryDays \in Nat /\ introduced \in Nat \ {0} /\ introduced <= HistoryDays /\ MaxSold \in Nat
  BY ForecastAssumption DEF HistoryInit, Window
<1>2. IsFiniteSet(CalendarDates)
  <2>1. PICK a \in Int, b \in Int : a = introduced /\ b = HistoryDays
    BY <1>1
  <2> QED  BY <2>1, FS_Interval DEF CalendarDates
<1>3. CalendarDates \subseteq Nat /\ CalendarDates \subseteq Window /\ introduced \in CalendarDates
  BY <1>1 DEF CalendarDates, Window
<1>4. \A d \in CalendarDates : sold[d] \in Nat
  BY <1>1, <1>3 DEF HistoryInit
<1>5. TrainingSet \subseteq CalendarDates /\ TrainingSet # {}
  BY <1>3 DEF TrainingSet
<1>6. \A d \in CalendarDates \ TrainingSet : sold[d] = 0
  BY <1>4 DEF TrainingSet, Trained
<1>7. IsFiniteSet(TrainingSet)
  BY <1>2, <1>5, FS_Subset
<1> QED  BY <1>2, <1>3, <1>4, <1>5, <1>6, <1>7

\* The training days are the set in order, one position for each.
LEMMA TrainingDaysAre ==
    ASSUME HistoryInit
    PROVE  /\ Cardinality(TrainingSet) \in Nat \ {0}
           /\ DOMAIN TrainingDays = 1 .. Cardinality(TrainingSet)
           /\ TrainingDays \in [1 .. Cardinality(TrainingSet) -> TrainingSet]
           /\ \A i \in 1 .. Cardinality(TrainingSet) : RankIn(TrainingSet, TrainingDays[i]) = i - 1
<1>1. /\ IsFiniteSet(TrainingSet) /\ TrainingSet \subseteq Nat /\ TrainingSet # {}
  BY TrainingSetIs
<1>2. PICK n : n = Cardinality(TrainingSet)
  OBVIOUS
<1>3. n \in Nat \ {0}
  BY <1>1, <1>2, FS_CardinalityType, FS_EmptySet
<1>4. \A r \in 0 .. n - 1 : \E d \in TrainingSet : RankIn(TrainingSet, d) = r
  BY <1>1, <1>2, RankTaken
<1>5. TrainingDays = [i \in 1 .. n |-> CHOOSE d \in TrainingSet : RankIn(TrainingSet, d) = i - 1]
  BY <1>2 DEF TrainingDays, RankIn
<1>6. ASSUME NEW i \in 1 .. n
      PROVE  TrainingDays[i] \in TrainingSet /\ RankIn(TrainingSet, TrainingDays[i]) = i - 1
  <2>1. i - 1 \in 0 .. n - 1
    BY <1>3
  <2>2. \E d \in TrainingSet : RankIn(TrainingSet, d) = i - 1
    BY <1>4, <2>1
  <2>3. TrainingDays[i] = CHOOSE d \in TrainingSet : RankIn(TrainingSet, d) = i - 1
    BY <1>5
  <2> QED  BY <2>2, <2>3
<1>7. DOMAIN TrainingDays = 1 .. n /\ TrainingDays \in [1 .. n -> TrainingSet]
  BY <1>5, <1>6
<1> QED  BY <1>2, <1>3, <1>6, <1>7

LEMMA SeriesIs ==
    ASSUME HistoryInit
    PROVE  /\ Series \in [1 .. Cardinality(TrainingSet) -> 0 .. MaxSold]
           /\ Cardinality(TrainingSet) \in Nat \ {0}
           /\ \A i \in 1 .. Cardinality(TrainingSet) : Series[i] = sold[TrainingDays[i]]
<1>1. PICK n : n = Cardinality(TrainingSet)
  OBVIOUS
<1>2. n \in Nat \ {0} /\ DOMAIN TrainingDays = 1 .. n /\ TrainingDays \in [1 .. n -> TrainingSet]
  BY <1>1, TrainingDaysAre
<1>3. Series = [i \in 1 .. n |-> sold[TrainingDays[i]]]
  BY <1>2 DEF Series
<1>4. TrainingSet \subseteq Window
  BY TrainingSetIs
<1>5. \A i \in 1 .. n : sold[TrainingDays[i]] \in 0 .. MaxSold
  BY <1>2, <1>4 DEF HistoryInit
<1> QED  BY <1>1, <1>2, <1>3, <1>5

\* The sums of a series are those of Sums.
LEMMA TotalIs ==
    ASSUME NEW series
    PROVE  SeriesTotal(series) = SumOver(series, DOMAIN series)
BY DEF SeriesTotal, SumOver, MapThenSumSet, MapThenFoldSet

\* What is trained on sums to what the calendar sums to.
LEMMA TrainingAddsUp ==
    ASSUME HistoryInit
    PROVE  SalesAreTrained
<1>1. /\ IsFiniteSet(CalendarDates) /\ CalendarDates \subseteq Nat
      /\ TrainingSet \subseteq CalendarDates /\ IsFiniteSet(TrainingSet) /\ TrainingSet \subseteq Nat
      /\ \A d \in CalendarDates \ TrainingSet : sold[d] = 0
      /\ \A d \in CalendarDates : sold[d] \in Int
  BY TrainingSetIs
<1>2. PICK n : n = Cardinality(TrainingSet)
  OBVIOUS
<1>3. /\ n \in Nat \ {0} /\ TrainingDays \in [1 .. n -> TrainingSet]
      /\ \A i \in 1 .. n : RankIn(TrainingSet, TrainingDays[i]) = i - 1
  BY <1>2, TrainingDaysAre
<1>4. Series \in [1 .. n -> 0 .. MaxSold] /\ \A i \in 1 .. n : Series[i] = sold[TrainingDays[i]]
  BY <1>2, SeriesIs
<1>5. SumOver(Series, 1 .. n) = SumOver(sold, TrainingSet)
  <2>1. PICK k : k = [d \in TrainingSet |-> RankIn(TrainingSet, d) + 1]
    OBVIOUS
  <2>2. ASSUME NEW d \in TrainingSet PROVE k[d] \in 1 .. n /\ TrainingDays[k[d]] = d
    <3>1. PICK r : r = RankIn(TrainingSet, d)
      OBVIOUS
    <3>2. r \in 0 .. n - 1
      BY <1>1, <1>2, <3>1, RankTaken
    <3>3. k[d] = r + 1 /\ r + 1 \in 1 .. n /\ (r + 1) - 1 = r
      BY <1>3, <2>1, <3>1, <3>2
    <3>4. TrainingDays[r + 1] \in TrainingSet /\ RankIn(TrainingSet, TrainingDays[r + 1]) = r
      BY <1>3, <3>3
    <3>5. TrainingDays[r + 1] = d
      BY <1>1, <3>1, <3>4, RankTaken
    <3> QED  BY <3>3, <3>5
  <2>3. ASSUME NEW i \in 1 .. n PROVE TrainingDays[i] \in TrainingSet /\ k[TrainingDays[i]] = i
    <3>1. TrainingDays[i] \in TrainingSet
      BY <1>3
    <3>2. k[TrainingDays[i]] = (i - 1) + 1
      BY <1>3, <2>1, <3>1
    <3>3. (i - 1) + 1 = i
      BY <1>3
    <3> QED  BY <3>1, <3>2, <3>3
  <2>4. IsFiniteSet(1 .. n)
    BY <1>3, FS_Interval
  <2>5. PICK T : T = TrainingSet
    OBVIOUS
  <2>6. PICK v : v = Series
    OBVIOUS
  <2>7. PICK h : h = TrainingDays
    OBVIOUS
  <2>8. PICK w : w = sold
    OBVIOUS
  <2>9. PICK K : K = 1 .. n
    OBVIOUS
  <2>10. /\ IsFiniteSet(T) /\ IsFiniteSet(K) /\ \A d \in T : w[d] \in Int
         /\ \A d \in T : k[d] \in K /\ h[k[d]] = d
         /\ \A i \in K : h[i] \in T /\ k[h[i]] = i
         /\ \A i \in K : v[i] = w[h[i]]
    BY <1>1, <1>4, <2>2, <2>3, <2>4, <2>5, <2>6, <2>7, <2>8, <2>9
  <2>11. SumOver(v, K) = SumOver(w, T)
    BY <2>10, SumImage
  <2> QED  BY <2>5, <2>6, <2>8, <2>9, <2>11
<1>6. SumOver(sold, CalendarDates) = SumOver(sold, TrainingSet)
  <2>1. SumOver(sold, CalendarDates) = SumOver(sold, TrainingSet) + SumOver(sold, CalendarDates \ TrainingSet)
    BY <1>1, SumSplit
  <2>2. IsFiniteSet(CalendarDates \ TrainingSet)
    BY <1>1, FS_Subset
  <2>3. SumOver(sold, CalendarDates \ TrainingSet) = 0
    BY <1>1, <2>2, SumZero
  <2>4. SumOver(sold, TrainingSet) \in Int
    BY <1>1, SumTakeOut
  <2> QED  BY <2>1, <2>3, <2>4
<1>7. PICK m : m = Cardinality(CalendarDates)
  OBVIOUS
<1>8. PICK v : v = [i \in 1 .. m |-> sold[introduced + i - 1]]
  OBVIOUS
<1>9. SumOver(v, 1 .. m) = SumOver(sold, CalendarDates)
  <2>1. introduced \in Nat \ {0} /\ HistoryDays \in Nat /\ introduced <= HistoryDays
    BY ForecastAssumption DEF HistoryInit, Window
  <2>2. m = HistoryDays - introduced + 1
    <3>1. PICK a \in Int, b \in Int : a = introduced /\ b = HistoryDays
      BY <2>1
    <3>2. Cardinality(a .. b) = IF a > b THEN 0 ELSE b - a + 1
      BY FS_Interval
    <3> QED  BY <1>7, <2>1, <3>1, <3>2 DEF CalendarDates
  <2>3. PICK k : k = [d \in CalendarDates |-> d - introduced + 1]
    OBVIOUS
  <2>4. PICK h : h = [i \in 1 .. m |-> introduced + i - 1]
    OBVIOUS
  <2>5. \A d \in CalendarDates : k[d] \in 1 .. m /\ h[k[d]] = d
    BY <2>1, <2>2, <2>3, <2>4 DEF CalendarDates
  <2>6. \A i \in 1 .. m : h[i] \in CalendarDates /\ k[h[i]] = i
    BY <2>1, <2>2, <2>3, <2>4 DEF CalendarDates
  <2>7. \A i \in 1 .. m : v[i] = sold[h[i]]
    BY <1>8, <2>4
  <2>8. m \in Int /\ IsFiniteSet(1 .. m)
    BY <2>1, <2>2, FS_Interval
  <2>9. PICK C : C = CalendarDates
    OBVIOUS
  <2>10. PICK w : w = sold
    OBVIOUS
  <2>11. PICK K : K = 1 .. m
    OBVIOUS
  <2>12. /\ IsFiniteSet(C) /\ IsFiniteSet(K) /\ \A d \in C : w[d] \in Int
         /\ \A d \in C : k[d] \in K /\ h[k[d]] = d
         /\ \A i \in K : h[i] \in C /\ k[h[i]] = i
         /\ \A i \in K : v[i] = w[h[i]]
    BY <1>1, <2>5, <2>6, <2>7, <2>8, <2>9, <2>10, <2>11
  <2>13. SumOver(v, K) = SumOver(w, C)
    BY <2>12, SumImage
  <2> QED  BY <2>9, <2>10, <2>11, <2>13
<1>10. SeriesTotal(Series) = SumOver(Series, 1 .. n)
  BY <1>4, TotalIs
<1>11. SeriesTotal(v) = SumOver(v, 1 .. m)
  BY <1>8, TotalIs
<1>12. Series # <<>>
  BY <1>3, <1>4
<1> QED  BY <1>5, <1>6, <1>7, <1>8, <1>9, <1>10, <1>11, <1>12 DEF SalesAreTrained

-----------------------------------------------------------------------------
(* The models are means: fractions between nothing and the best day.       *)

\* The fractions from 0 to M, and those from 1 on.
Shares(M) == {f \in Nat \X (Nat \ {0}) : f[1] <= M * f[2]}
Intervals == {f \in Nat \X (Nat \ {0}) : f[2] <= f[1]}

LEMMA ShareIs ==
    ASSUME NEW M \in Nat, NEW f \in Shares(M)
    PROVE  AtMost(Zero, f) /\ AtMost(f, <<M, 1>>)
<1>1. PICK p \in Nat, q \in Nat \ {0} : f = <<p, q>> /\ p <= M * q
  BY DEF Shares
<1>2. PICK m \in Nat : m = M * q
  OBVIOUS
<1> QED  BY <1>1, <1>2 DEF AtMost, Zero

LEMMA WholeIsShare ==
    ASSUME NEW M \in Nat, NEW x \in 0 .. M
    PROVE  <<x, 1>> \in Shares(M)
<1>1. x <= M * 1
  OBVIOUS
<1> QED  BY <1>1 DEF Shares

\* Smoothing stays where its arguments are.
LEMMA SmoothIs ==
    ASSUME NEW p \in Nat, NEW q \in Nat, NEW x \in Nat
    PROVE  /\ Smooth(3, 10, <<x, 1>>, <<p, q>>) = <<3 * x * (10 * q) + 7 * p * 10, 10 * (10 * q)>>
           /\ Smooth(1, 5, <<x, 1>>, <<p, q>>) = <<x * (5 * q) + 4 * p * 5, 5 * (5 * q)>>
BY DEF Smooth, Plus, Times

LEMMA SmoothStays ==
    ASSUME NEW M \in Nat, NEW x \in 0 .. M, NEW level \in Shares(M)
    PROVE  /\ Smooth(3, 10, <<x, 1>>, level) \in Shares(M)
           /\ Smooth(1, 5, <<x, 1>>, level) \in Shares(M)
<1>1. PICK p \in Nat, q \in Nat \ {0} : level = <<p, q>> /\ p <= M * q
  BY DEF Shares
<1>2. PICK a \in Nat : a = x * q
  OBVIOUS
<1>3. PICK m \in Nat : m = M * q
  OBVIOUS
<1>4. a <= m
  <2>1. PICK r \in Nat : M = x + r
    <3>1. M - x \in Nat /\ M = x + (M - x)
      OBVIOUS
    <3> QED  BY <3>1
  <2>2. M * q = x * q + r * q /\ r * q \in Nat
    BY <2>1
  <2> QED  BY <1>2, <1>3, <2>2
<1>5. 3 * x * (10 * q) = 30 * a /\ x * (5 * q) = 5 * a
  BY <1>2
<1>6. M * (10 * (10 * q)) = 100 * m /\ M * (5 * (5 * q)) = 25 * m
  BY <1>3
<1>7. 30 * a + 70 * p <= 100 * m /\ 5 * a + 20 * p <= 25 * m
  BY <1>1, <1>3, <1>4
<1>8. /\ Smooth(3, 10, <<x, 1>>, <<p, q>>) = <<30 * a + 70 * p, 100 * q>>
      /\ Smooth(1, 5, <<x, 1>>, <<p, q>>) = <<5 * a + 20 * p, 25 * q>>
  <2>1. 7 * p * 10 = 70 * p /\ 4 * p * 5 = 20 * p /\ 10 * (10 * q) = 100 * q /\ 5 * (5 * q) = 25 * q
    OBVIOUS
  <2> QED  BY <1>5, <2>1, SmoothIs
<1>9. M * (100 * q) = 100 * m /\ M * (25 * q) = 25 * m
  BY <1>3
<1>10. /\ 30 * a + 70 * p \in Nat /\ 100 * q \in Nat \ {0}
      /\ 5 * a + 20 * p \in Nat /\ 25 * q \in Nat \ {0}
  OBVIOUS
<1>11. PICK b \in Nat, c \in Nat, d \in Nat \ {0}, e \in Nat \ {0} :
          b = 30 * a + 70 * p /\ c = 5 * a + 20 * p /\ d = 100 * q /\ e = 25 * q
  BY <1>10
<1>12. <<b, d>> \in Shares(M) /\ <<c, e>> \in Shares(M)
  <2>1. b <= M * d /\ c <= M * e
    BY <1>7, <1>9, <1>11
  <2> QED  BY <2>1 DEF Shares
<1> QED  BY <1>1, <1>8, <1>11, <1>12

LEMMA IntervalStays ==
    ASSUME NEW x \in Nat \ {0}, NEW level \in Intervals
    PROVE  /\ Smooth(1, 5, <<x, 1>>, level) \in Intervals
           /\ <<x, 1>> \in Intervals
<1>1. PICK p \in Nat, q \in Nat \ {0} : level = <<p, q>> /\ q <= p
  BY DEF Intervals
<1>2. PICK a \in Nat : a = x * q
  OBVIOUS
<1>3. q <= a
  <2>1. PICK r \in Nat : x = r + 1
    <3>1. x - 1 \in Nat /\ x = (x - 1) + 1
      OBVIOUS
    <3> QED  BY <3>1
  <2>2. x * q = r * q + q /\ r * q \in Nat
    BY <2>1
  <2> QED  BY <1>2, <2>2
<1>4. x * (5 * q) = 5 * a /\ 4 * p * 5 = 20 * p /\ 5 * (5 * q) = 25 * q
  BY <1>2
<1>5. Smooth(1, 5, <<x, 1>>, <<p, q>>) = <<5 * a + 20 * p, 25 * q>>
  BY <1>4, SmoothIs
<1>6. PICK c \in Nat, e \in Nat \ {0} : c = 5 * a + 20 * p /\ e = 25 * q /\ e <= c
  <2>1. 5 * a + 20 * p \in Nat /\ 25 * q \in Nat \ {0} /\ 25 * q <= 5 * a + 20 * p
    BY <1>1, <1>3
  <2> QED  BY <2>1
<1>7. <<c, e>> \in Intervals
  BY <1>6 DEF Intervals
<1>8. <<x, 1>> \in Intervals
  BY DEF Intervals
<1> QED  BY <1>1, <1>5, <1>6, <1>7, <1>8

LEMMA GreatestOf ==
    ASSUME NEW n \in Nat
    PROVE  /\ IsFiniteSet(1 .. n)
           /\ \A s \in SUBSET (1 .. n) : s # {} => Greatest(s) \in s
<1>1. IsFiniteSet(1 .. n)
  BY FS_Interval
<1>2. ASSUME NEW s \in SUBSET (1 .. n), s # {} PROVE Greatest(s) \in s
  BY <1>2, GreatestIn
<1> QED  BY <1>1, <1>2

LEMMA TailIs ==
    ASSUME NEW M, NEW n \in Nat \ {0}, NEW series \in [1 .. n -> M]
    PROVE  /\ series \in Seq(M) /\ Len(series) = n
           /\ Head(series) = series[1]
           /\ n - 1 \in Nat
           /\ DOMAIN Tail(series) = 1 .. n - 1
           /\ \A i \in 1 .. n - 1 : Tail(series)[i] \in M
<1>1. series \in Seq(M) /\ Len(series) = n
  OBVIOUS
<1>2. series # <<>> /\ Head(series) = series[1] /\ n - 1 \in Nat
  BY <1>1
<1>3. Tail(series) \in Seq(M) /\ Len(Tail(series)) = n - 1
  BY <1>1, <1>2
<1> QED  BY <1>1, <1>2, <1>3

LEMMA EwmaStays ==
    ASSUME NEW M \in Nat, NEW n \in Nat \ {0}, NEW series \in [1 .. n -> 0 .. M]
    PROVE  Ewma(series) \in Shares(M)
<1>1. PICK base : base = <<Head(series), 1>>
  OBVIOUS
<1>2. PICK t : t = Tail(series)
  OBVIOUS
<1>3. PICK m \in Nat : m = n - 1
  BY TailIs
<1>4. PICK State : State = Shares(M)
  OBVIOUS
<1>5. base \in State
  BY <1>1, <1>4, TailIs, WholeIsShare
<1>6. DOMAIN t = 1 .. m /\ \A i \in 1 .. m : t[i] \in 0 .. M
  BY <1>2, <1>3, TailIs
<1>7. PICK D : D = 1 .. m
  OBVIOUS
<1>8. IsFiniteSet(D) /\ \A s \in SUBSET D : s # {} => Greatest(s) \in s
  BY <1>7, GreatestOf
<1>9. PICK step : step = [x \in D |-> [a \in State |-> Smooth(3, 10, <<t[x], 1>>, a)]]
  OBVIOUS
<1>10. ASSUME NEW x \in D, NEW a \in State
      PROVE  step[x][a] = Smooth(3, 10, <<t[x], 1>>, a) /\ step[x][a] \in State
  <2>1. Smooth(3, 10, <<t[x], 1>>, a) \in State
    BY <1>4, <1>6, <1>7, SmoothStays
  <2> QED  BY <1>9, <2>1
<1>11. PICK f \in [SUBSET D -> State] : FoldTable(f, step, base, D)
  BY <1>5, <1>8, <1>10, FoldsExist
<1> DEFINE Table(g) ==
      g = [s \in SUBSET D |->
            IF s = {} THEN base ELSE Smooth(3, 10, <<t[Max(s)], 1>>, g[s \ {Max(s)}])]
<1>12. Table(f)
  <2>1. ASSUME NEW s \in SUBSET D, s # {}
        PROVE  f[s] = Smooth(3, 10, <<t[Max(s)], 1>>, f[s \ {Max(s)}])
    <3>1. Max(s) = Greatest(s) /\ Max(s) \in D
      BY <1>8, <2>1 DEF Max, Greatest
    <3>2. f[s \ {Max(s)}] \in State
      BY <1>11
    <3>3. step[Max(s)][f[s \ {Max(s)}]] = Smooth(3, 10, <<t[Max(s)], 1>>, f[s \ {Max(s)}])
      BY <1>10, <3>1, <3>2
    <3> QED  BY <1>11, <2>1, <3>1, <3>3 DEF FoldTable
  <2>2. f = [s \in SUBSET D |-> f[s]] /\ f[{}] = base
    BY <1>11 DEF FoldTable
  <2> QED  BY <2>1, <2>2
<1>13. PICK g : g = CHOOSE h : Table(h)
  OBVIOUS
<1>14. Table(g)
  <2> HIDE DEF Table
  <2> QED  BY <1>12, <1>13
<1>15. Ewma(series) = g[D]
  BY <1>1, <1>2, <1>6, <1>7, <1>13 DEF Ewma, FoldLeft, MapThenFoldSet
<1>16. g[{}] \in State
  BY <1>5, <1>14
<1>17. ASSUME NEW s \in SUBSET D, s # {} /\ g[s \ {Greatest(s)}] \in State
       PROVE  g[s] \in State
  <2>1. Max(s) = Greatest(s) /\ Greatest(s) \in D
    BY <1>8, <1>17 DEF Max, Greatest
  <2>2. g[s] = Smooth(3, 10, <<t[Greatest(s)], 1>>, g[s \ {Greatest(s)}])
    BY <1>14, <1>17, <2>1
  <2>3. t[Greatest(s)] \in 0 .. M
    BY <1>6, <1>7, <2>1
  <2> QED  BY <1>17, <2>2, <2>3, <1>4, SmoothStays
<1>18. g[D] \in State
  BY <1>8, <1>16, <1>17, FoldStays
<1> QED  BY <1>4, <1>15, <1>18

CrostonStates(M) ==
    [demand : Shares(M), interval : Intervals, gap : Nat, started : BOOLEAN]

LEMMA CrostonStepStays ==
    ASSUME NEW M \in Nat, NEW x \in 0 .. M, NEW a \in CrostonStates(M)
    PROVE  CrostonStep(a, x) \in CrostonStates(M)
<1>1. PICK gap \in Nat \ {0} : gap = a.gap + 1
  BY DEF CrostonStates
<1>2. a.demand \in Shares(M) /\ a.interval \in Intervals /\ a.started \in BOOLEAN
  BY DEF CrostonStates
<1>3. <<x, 1>> \in Shares(M) /\ Smooth(1, 5, <<x, 1>>, a.demand) \in Shares(M)
  BY <1>2, WholeIsShare, SmoothStays
<1>4. <<gap, 1>> \in Intervals /\ Smooth(1, 5, <<gap, 1>>, a.interval) \in Intervals
  BY <1>2, IntervalStays
<1>5. CASE x = 0
  <2>1. CrostonStep(a, x) = [a EXCEPT !.gap = gap]
    BY <1>1, <1>5 DEF CrostonStep
  <2> QED  BY <2>1 DEF CrostonStates
<1>6. CASE x # 0 /\ ~ a.started
  <2>1. CrostonStep(a, x) = [demand |-> <<x, 1>>, interval |-> <<gap, 1>>, gap |-> 0, started |-> TRUE]
    BY <1>1, <1>6 DEF CrostonStep
  <2> QED  BY <1>3, <1>4, <2>1 DEF CrostonStates
<1>7. CASE x # 0 /\ a.started
  <2>1. CrostonStep(a, x) =
          [demand |-> Smooth(1, 5, <<x, 1>>, a.demand),
           interval |-> Smooth(1, 5, <<gap, 1>>, a.interval), gap |-> 0, started |-> TRUE]
    BY <1>1, <1>7 DEF CrostonStep
  <2> QED  BY <1>3, <1>4, <2>1 DEF CrostonStates
<1> QED  BY <1>2, <1>5, <1>6, <1>7

LEMMA CrostonFolds ==
    ASSUME NEW M \in Nat, NEW n \in Nat \ {0}, NEW series \in [1 .. n -> 0 .. M]
    PROVE  FoldLeft(CrostonStep, [demand |-> Zero, interval |-> Unit, gap |-> 0, started |-> FALSE],
                    series) \in CrostonStates(M)
<1>1. PICK base : base = [demand |-> Zero, interval |-> Unit, gap |-> 0, started |-> FALSE]
  OBVIOUS
<1>2. PICK t : t = series
  OBVIOUS
<1>3. PICK m \in Nat : m = n
  OBVIOUS
<1>4. PICK State : State = CrostonStates(M)
  OBVIOUS
<1>5. base \in State
  <2>1. Zero \in Shares(M) /\ Unit \in Intervals
    BY DEF Zero, Unit, Shares, Intervals
  <2> QED  BY <1>1, <1>4, <2>1 DEF CrostonStates
<1>6. DOMAIN t = 1 .. m /\ \A i \in 1 .. m : t[i] \in 0 .. M
  BY <1>2, <1>3
<1>7. PICK D : D = 1 .. m
  OBVIOUS
<1>8. IsFiniteSet(D) /\ \A s \in SUBSET D : s # {} => Greatest(s) \in s
  BY <1>7, GreatestOf
<1>9. PICK step : step = [x \in D |-> [a \in State |-> CrostonStep(a, t[x])]]
  OBVIOUS
<1>10. ASSUME NEW x \in D, NEW a \in State
      PROVE  step[x][a] = CrostonStep(a, t[x]) /\ step[x][a] \in State
  <2>1. CrostonStep(a, t[x]) \in State
    BY <1>4, <1>6, <1>7, CrostonStepStays
  <2> QED  BY <1>9, <2>1
<1>11. PICK f \in [SUBSET D -> State] : FoldTable(f, step, base, D)
  BY <1>5, <1>8, <1>10, FoldsExist
<1> DEFINE Table(g) ==
      g = [s \in SUBSET D |->
            IF s = {} THEN base ELSE CrostonStep(g[s \ {Max(s)}], t[Max(s)])]
<1>12. Table(f)
  <2>1. ASSUME NEW s \in SUBSET D, s # {}
        PROVE  f[s] = CrostonStep(f[s \ {Max(s)}], t[Max(s)])
    <3>1. Max(s) = Greatest(s) /\ Max(s) \in D
      BY <1>8, <2>1 DEF Max, Greatest
    <3>2. f[s \ {Max(s)}] \in State
      BY <1>11
    <3>3. step[Max(s)][f[s \ {Max(s)}]] = CrostonStep(f[s \ {Max(s)}], t[Max(s)])
      BY <1>10, <3>1, <3>2
    <3> QED  BY <1>11, <2>1, <3>1, <3>3 DEF FoldTable
  <2>2. f = [s \in SUBSET D |-> f[s]] /\ f[{}] = base
    BY <1>11 DEF FoldTable
  <2> QED  BY <2>1, <2>2
<1>13. PICK g : g = CHOOSE h : Table(h)
  OBVIOUS
<1>14. Table(g)
  <2> HIDE DEF Table
  <2> QED  BY <1>12, <1>13
<1>15. FoldLeft(CrostonStep, base, series) = g[D]
  BY <1>2, <1>3, <1>6, <1>7, <1>13 DEF FoldLeft, MapThenFoldSet
<1>16. g[{}] \in State
  BY <1>5, <1>14
<1>17. ASSUME NEW s \in SUBSET D, s # {} /\ g[s \ {Greatest(s)}] \in State
       PROVE  g[s] \in State
  <2>1. Max(s) = Greatest(s) /\ Greatest(s) \in D
    BY <1>8, <1>17 DEF Max, Greatest
  <2>2. g[s] = CrostonStep(g[s \ {Greatest(s)}], t[Greatest(s)])
    BY <1>14, <1>17, <2>1
  <2>3. t[Greatest(s)] \in 0 .. M
    BY <1>6, <1>7, <2>1
  <2> QED  BY <1>17, <2>2, <2>3, <1>4, CrostonStepStays
<1>18. g[D] \in State
  BY <1>8, <1>16, <1>17, FoldStays
<1> QED  BY <1>1, <1>4, <1>15, <1>18

TsbStates(M) == [probability : Shares(1), demand : Shares(M)]

LEMMA TsbStepStays ==
    ASSUME NEW M \in Nat, NEW x \in 0 .. M, NEW a \in TsbStates(M)
    PROVE  TsbStep(a, x) \in TsbStates(M)
<1>1. a.probability \in Shares(1) /\ a.demand \in Shares(M)
  BY DEF TsbStates
<1>2. Smooth(1, 5, <<x, 1>>, a.demand) \in Shares(M)
  BY <1>1, SmoothStays
<1>3. /\ Smooth(1, 5, Unit, a.probability) \in Shares(1)
      /\ Smooth(1, 5, Zero, a.probability) \in Shares(1)
  BY <1>1, SmoothStays DEF Unit, Zero
<1>4. Smooth(1, 5, IF x > 0 THEN Unit ELSE Zero, a.probability) \in Shares(1)
  BY <1>3
<1> QED  BY <1>1, <1>2, <1>4 DEF TsbStep, TsbStates

LEMMA TsbFolds ==
    ASSUME NEW M \in Nat, NEW n \in Nat \ {0}, NEW series \in [1 .. n -> 0 .. M]
    PROVE  FoldLeft(TsbStep,
                    [probability |-> IF Head(series) > 0 THEN Unit ELSE Zero,
                     demand |-> <<Head(series), 1>>], Tail(series)) \in TsbStates(M)
<1>1. PICK base : base = [probability |-> IF Head(series) > 0 THEN Unit ELSE Zero,
                          demand |-> <<Head(series), 1>>]
  OBVIOUS
<1>2. PICK t : t = Tail(series)
  OBVIOUS
<1>3. PICK m \in Nat : m = n - 1
  BY TailIs
<1>4. PICK State : State = TsbStates(M)
  OBVIOUS
<1>5. base \in State
  <2>1. Zero \in Shares(1) /\ Unit \in Shares(1)
    BY DEF Zero, Unit, Shares
  <2>2. <<Head(series), 1>> \in Shares(M)
    BY TailIs, WholeIsShare
  <2> QED  BY <1>1, <1>4, <2>1, <2>2 DEF TsbStates
<1>6. DOMAIN t = 1 .. m /\ \A i \in 1 .. m : t[i] \in 0 .. M
  BY <1>2, <1>3, TailIs
<1>7. PICK D : D = 1 .. m
  OBVIOUS
<1>8. IsFiniteSet(D) /\ \A s \in SUBSET D : s # {} => Greatest(s) \in s
  BY <1>7, GreatestOf
<1>9. PICK step : step = [x \in D |-> [a \in State |-> TsbStep(a, t[x])]]
  OBVIOUS
<1>10. ASSUME NEW x \in D, NEW a \in State
      PROVE  step[x][a] = TsbStep(a, t[x]) /\ step[x][a] \in State
  <2>1. TsbStep(a, t[x]) \in State
    BY <1>4, <1>6, <1>7, TsbStepStays
  <2> QED  BY <1>9, <2>1
<1>11. PICK f \in [SUBSET D -> State] : FoldTable(f, step, base, D)
  BY <1>5, <1>8, <1>10, FoldsExist
<1> DEFINE Table(g) ==
      g = [s \in SUBSET D |->
            IF s = {} THEN base ELSE TsbStep(g[s \ {Max(s)}], t[Max(s)])]
<1>12. Table(f)
  <2>1. ASSUME NEW s \in SUBSET D, s # {}
        PROVE  f[s] = TsbStep(f[s \ {Max(s)}], t[Max(s)])
    <3>1. Max(s) = Greatest(s) /\ Max(s) \in D
      BY <1>8, <2>1 DEF Max, Greatest
    <3>2. f[s \ {Max(s)}] \in State
      BY <1>11
    <3>3. step[Max(s)][f[s \ {Max(s)}]] = TsbStep(f[s \ {Max(s)}], t[Max(s)])
      BY <1>10, <3>1, <3>2
    <3> QED  BY <1>11, <2>1, <3>1, <3>3 DEF FoldTable
  <2>2. f = [s \in SUBSET D |-> f[s]] /\ f[{}] = base
    BY <1>11 DEF FoldTable
  <2> QED  BY <2>1, <2>2
<1>13. PICK g : g = CHOOSE h : Table(h)
  OBVIOUS
<1>14. Table(g)
  <2> HIDE DEF Table
  <2> QED  BY <1>12, <1>13
<1>15. FoldLeft(TsbStep, base, t) = g[D]
  BY <1>6, <1>7, <1>13 DEF FoldLeft, MapThenFoldSet
<1>16. g[{}] \in State
  BY <1>5, <1>14
<1>17. ASSUME NEW s \in SUBSET D, s # {} /\ g[s \ {Greatest(s)}] \in State
       PROVE  g[s] \in State
  <2>1. Max(s) = Greatest(s) /\ Greatest(s) \in D
    BY <1>8, <1>17 DEF Max, Greatest
  <2>2. g[s] = TsbStep(g[s \ {Greatest(s)}], t[Greatest(s)])
    BY <1>14, <1>17, <2>1
  <2>3. t[Greatest(s)] \in 0 .. M
    BY <1>6, <1>7, <2>1
  <2> QED  BY <1>17, <2>2, <2>3, <1>4, TsbStepStays
<1>18. g[D] \in State
  BY <1>8, <1>16, <1>17, FoldStays
<1> QED  BY <1>1, <1>2, <1>4, <1>15, <1>18

\* Dividing by an interval of a day or more leaves a share of the best day.
LEMMA CrostonStays ==
    ASSUME NEW M \in Nat, NEW n \in Nat \ {0}, NEW series \in [1 .. n -> 0 .. M]
    PROVE  Croston(series) \in Shares(M)
<1>1. PICK end : end = FoldLeft(CrostonStep, [demand |-> Zero, interval |-> Unit, gap |-> 0,
                                             started |-> FALSE], series)
  OBVIOUS
<1>2. end.demand \in Shares(M) /\ end.interval \in Intervals
  BY <1>1, CrostonFolds DEF CrostonStates
<1>3. PICK p \in Nat, q \in Nat \ {0} : end.demand = <<p, q>> /\ p <= M * q
  BY <1>2 DEF Shares
<1>4. PICK a \in Nat, b \in Nat \ {0} : end.interval = <<a, b>> /\ b <= a
  BY <1>2 DEF Intervals
<1>5. Zero \in Shares(M)
  BY DEF Zero, Shares
<1>6. Times(<<9, 10>>, Times(end.demand, <<end.interval[2], end.interval[1]>>))
        = <<9 * (p * b), 10 * (q * a)>>
  BY <1>3, <1>4 DEF Times
<1>7. <<9 * (p * b), 10 * (q * a)>> \in Shares(M)
  <2>1. PICK m \in Nat : m = M * q
    OBVIOUS
  <2>2. PICK r \in Nat : m = p + r
    <3>1. m - p \in Nat /\ m = p + (m - p)
      BY <1>3, <2>1
    <3> QED  BY <3>1
  <2>3. PICK s \in Nat : a = b + s
    <3>1. a - b \in Nat /\ a = b + (a - b)
      BY <1>4
    <3> QED  BY <3>1
  <2>4. m * a = p * b + p * s + r * b + r * s
    BY <2>2, <2>3
  <2>5. PICK u \in Nat, v \in Nat : u = p * b /\ v = m * a
    OBVIOUS
  <2>6. p * s \in Nat /\ r * b \in Nat /\ r * s \in Nat
    OBVIOUS
  <2>7. u <= v
    BY <2>4, <2>5, <2>6
  <2>8. q * a \in Nat \ {0}
    <3>1. a \in Nat \ {0}
      BY <1>4
    <3> QED  BY <3>1
  <2>9. M * (10 * (q * a)) = 10 * v
    <3>1. M * (q * a) = (M * q) * a
      OBVIOUS
    <3>2. PICK w \in Nat \ {0} : w = q * a
      BY <2>8
    <3>3. M * w = v
      BY <2>1, <2>5, <3>1, <3>2
    <3>4. M * (10 * w) = 10 * (M * w)
      OBVIOUS
    <3> QED  BY <3>2, <3>3, <3>4
  <2>10. PICK x \in Nat, y \in Nat \ {0} : x = 9 * (p * b) /\ y = 10 * (q * a)
    <3>1. 9 * (p * b) \in Nat /\ 10 * (q * a) \in Nat \ {0}
      BY <2>8
    <3> QED  BY <3>1
  <2>11. x <= M * y
    BY <2>5, <2>7, <2>9, <2>10
  <2> QED  BY <2>10, <2>11 DEF Shares
<1> QED  BY <1>1, <1>5, <1>6, <1>7 DEF Croston

\* So does the product of a probability and a demand.
LEMMA TsbStays ==
    ASSUME NEW M \in Nat, NEW n \in Nat \ {0}, NEW series \in [1 .. n -> 0 .. M]
    PROVE  Tsb(series) \in Shares(M)
<1>1. PICK end : end = FoldLeft(TsbStep,
                                [probability |-> IF Head(series) > 0 THEN Unit ELSE Zero,
                                 demand |-> <<Head(series), 1>>], Tail(series))
  OBVIOUS
<1>2. end.probability \in Shares(1) /\ end.demand \in Shares(M)
  BY <1>1, TsbFolds DEF TsbStates
<1>3. PICK p \in Nat, q \in Nat \ {0} : end.demand = <<p, q>> /\ p <= M * q
  BY <1>2 DEF Shares
<1>4. PICK a \in Nat, b \in Nat \ {0} : end.probability = <<a, b>> /\ a <= b
  <2>1. PICK a \in Nat, b \in Nat \ {0} : end.probability = <<a, b>> /\ a <= 1 * b
    BY <1>2 DEF Shares
  <2> QED  BY <2>1
<1>5. Times(end.probability, end.demand) = <<a * p, b * q>>
  BY <1>3, <1>4 DEF Times
<1>6. PICK m \in Nat : m = M * q
  OBVIOUS
<1>7. PICK r \in Nat, s \in Nat : m = p + r /\ b = a + s
  <2>1. m - p \in Nat /\ m = p + (m - p) /\ b - a \in Nat /\ b = a + (b - a)
    BY <1>3, <1>4, <1>6
  <2> QED  BY <2>1
<1>8. b * m = a * p + s * p + a * r + s * r
  BY <1>7
<1>9. PICK x \in Nat, y \in Nat \ {0} : x = a * p /\ y = b * q
  <2>1. a * p \in Nat /\ b * q \in Nat \ {0}
    OBVIOUS
  <2> QED  BY <2>1
<1>10. M * y = b * m
  <2>1. M * (b * q) = b * (M * q)
    OBVIOUS
  <2> QED  BY <1>6, <1>9, <2>1
<1>11. s * p \in Nat /\ a * r \in Nat /\ s * r \in Nat
  OBVIOUS
<1>12. x <= M * y
  BY <1>8, <1>9, <1>10, <1>11
<1> QED  BY <1>1, <1>5, <1>9, <1>12 DEF Tsb, Shares

\* And a mean over any of the days.
LEMMA MeanStays ==
    ASSUME NEW M \in Nat, NEW n \in Nat \ {0}, NEW series \in [1 .. n -> 0 .. M],
           NEW I \in SUBSET (1 .. n)
    PROVE  Mean(series, I) \in Shares(M)
<1>1. CASE I = {}
  <2>1. Zero \in Shares(M)
    BY DEF Zero, Shares
  <2> QED  BY <1>1, <2>1 DEF Mean
<1>2. CASE I # {}
  <2>1. IsFiniteSet(I)
    <3>1. IsFiniteSet(1 .. n)
      BY FS_Interval
    <3> QED  BY <3>1, FS_Subset
  <2>2. Mean(series, I) = <<SumOver(series, I), Cardinality(I)>>
    BY <1>2 DEF Mean, SumOver, MapThenSumSet, MapThenFoldSet
  <2>3. \A i \in I : series[i] \in 0 .. M
    OBVIOUS
  <2>4. /\ SumOver(series, I) \in Nat /\ SumOver(series, I) <= M * Cardinality(I)
        /\ Cardinality(I) \in Nat \ {0}
    BY <1>2, <2>1, <2>3, SumBounded, FS_EmptySet
  <2> QED  BY <2>2, <2>4 DEF Shares
<1> QED  BY <1>1, <1>2

LEMMA ForecastStays ==
    ASSUME NEW M \in Nat, NEW n \in Nat \ {0}, NEW series \in [1 .. n -> 0 .. M],
           NEW name \in {"mean30", "mean90", "ewma", "weekday", "croston_sba", "tsb"}
    PROVE  ForecastValue(name, series) \in Shares(M)
<1>1. \A k : Recent(series, k) \in SUBSET (1 .. n)
  BY DEF Recent
<1>2. Weekday(series) \in Shares(M)
  <2>1. {i \in Recent(series, 12 * CycleDays) :
            TrainingDays[i] % CycleDays = (Last(TrainingDays) + 1) % CycleDays} \in SUBSET (1 .. n)
    BY <1>1
  <2> QED  BY <2>1, MeanStays DEF Weekday
<1>3. CASE name = "mean30"
  BY <1>1, <1>3, MeanStays DEF ForecastValue
<1>4. CASE name = "mean90"
  BY <1>1, <1>4, MeanStays DEF ForecastValue
<1>5. CASE name = "ewma"
  BY <1>5, EwmaStays DEF ForecastValue
<1>6. CASE name = "weekday"
  BY <1>2, <1>6 DEF ForecastValue
<1>7. CASE name = "croston_sba"
  BY <1>7, CrostonStays DEF ForecastValue
<1>8. CASE name = "tsb"
  BY <1>8, TsbStays DEF ForecastValue
<1> QED  BY <1>3, <1>4, <1>5, <1>6, <1>7, <1>8

\* Some day is the best one.
LEMMA BestDay ==
    ASSUME NEW M \in Nat, NEW n \in Nat \ {0}, NEW series \in [1 .. n -> 0 .. M]
    PROVE  \E b \in 1 .. n : series[b] \in Nat /\ series \in [1 .. n -> 0 .. series[b]]
<1> DEFINE T == {M - series[i] : i \in 1 .. n}
<1>1. T \subseteq Nat /\ T # {}
  <2>1. \A i \in 1 .. n : M - series[i] \in Nat
    OBVIOUS
  <2>2. 1 \in 1 .. n
    OBVIOUS
  <2> QED  BY <2>1, <2>2
<1>2. PICK t \in T : \A u \in T : t <= u
  BY <1>1, LeastElement
<1>3. PICK b \in 1 .. n : t = M - series[b]
  BY <1>2
<1>4. ASSUME NEW i \in 1 .. n PROVE series[i] \in 0 .. series[b]
  <2>1. M - series[b] <= M - series[i]
    BY <1>2, <1>3
  <2>2. series[i] \in 0 .. M /\ series[b] \in 0 .. M
    OBVIOUS
  <2> QED  BY <2>1, <2>2
<1>5. series[b] \in Nat
  OBVIOUS
<1> QED  BY <1>4, <1>5

LEMMA ForecastsInRange ==
    ASSUME HistoryInit
    PROVE  ForecastIsInRange
<1>1. PICK series : series = Series
  OBVIOUS
<1>2. PICK n \in Nat \ {0} : series \in [1 .. n -> 0 .. MaxSold]
  BY <1>1, SeriesIs
<1>3. MaxSold \in Nat
  BY ForecastAssumption
<1>4. PICK b \in 1 .. n : series[b] \in Nat /\ series \in [1 .. n -> 0 .. series[b]]
  BY <1>2, <1>3, BestDay
<1>5. PICK M \in Nat : M = series[b]
  BY <1>4
<1>6. ASSUME NEW name \in Candidates(series)
      PROVE  /\ AtMost(Zero, ForecastValue(name, series))
             /\ \E i \in DOMAIN series : AtMost(ForecastValue(name, series), <<series[i], 1>>)
  <2>1. name \in {"mean30", "mean90", "ewma", "weekday", "croston_sba", "tsb"}
    BY DEF Candidates
  <2>2. PICK value : value = ForecastValue(name, series)
    OBVIOUS
  <2>3. value \in Shares(M)
    BY <1>4, <1>5, <2>1, <2>2, ForecastStays
  <2>4. AtMost(Zero, value) /\ AtMost(value, <<M, 1>>)
    BY <2>3, ShareIs
  <2>5. b \in DOMAIN series
    BY <1>2
  <2> QED  BY <1>5, <2>2, <2>4, <2>5
<1> QED  BY <1>1, <1>6 DEF ForecastIsInRange

\* A forecast sees every sale of its history, censored days or not, and whichever model is
\* chosen stays between nothing and its best day (_forecast_products, _forecast_value).
THEOREM ForecastsStaySound == ForecastSpec => []ForecastIsSound
<1>1. HistoryInit /\ [FALSE]_historyVars => HistoryInit'
  BY DEF HistoryInit, historyVars
<1>2. HistoryInit => ForecastIsSound
  BY TrainingAddsUp, ForecastsInRange DEF ForecastIsSound
<1> QED  BY <1>1, <1>2, PTL DEF ForecastSpec
=============================================================================

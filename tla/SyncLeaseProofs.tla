-------------------------- MODULE SyncLeaseProofs ---------------------------
(***************************************************************************)
(* Proofs about SyncLease for any resource, any calendar and any number of *)
(* processes, runs, tokens, edits, errors, crashes and slow hours.         *)
(***************************************************************************)
EXTENDS SyncLease, TLAPS

-----------------------------------------------------------------------------
(* Types.                                                                  *)

\* Windows start at the first day of the calendar or later, and a day at work
\* lies in its window.
WindowsFit ==
    /\ \A r \in Runs : run[r].status # "none" => run[r].last >= Lookback
    /\ \A p \in Processes : proc[p].pc # "idle" => proc[p].last >= Lookback
    /\ \A p \in Processes :
          proc[p].pc \in {"read", "locked", "written"} => proc[p].day <= proc[p].last

TypeInv == TypeOK /\ WindowsFit /\ \A d \in Parts : source[d] <= edits

LEMMA TypeInit == Init => TypeInv
<1> SUFFICES ASSUME Init PROVE TypeInv
  OBVIOUS
<1> USE SyncAssumption DEF SyncAssumption
<1>1. NoRun \in Run
  BY DEF NoRun, Run, NoToken, NoDay
<1>2. source \in [Parts -> 0..MaxEdits] /\ base \in [Runs -> [Parts -> 0..MaxEdits]]
  BY DEF Init
<1>3. TypeOK
  BY <1>1, <1>2 DEF Init, TypeOK
<1>4. WindowsFit
  BY DEF Init, WindowsFit, NoRun, Idle
<1> QED BY <1>3, <1>4 DEF Init, TypeInv

\* A process at work has a run, a token, a window, a day and a version.
LEMMA AtWorkType ==
    ASSUME TypeOK, NEW p \in Processes, AtWork(p)
    PROVE  proc[p] \in Working
BY DEF TypeOK, AtWork, Idle, Starting

LEMMA PcTypes ==
    ASSUME TypeOK, NEW p \in Processes
    PROVE  /\ proc[p].pc = "idle" <=> proc[p] = Idle
           /\ proc[p].pc \in {"launched", "taking"} => proc[p] \in Starting
           /\ proc[p].pc \notin {"idle", "launched", "taking"} => proc[p] \in Working
BY DEF TypeOK, Idle, Starting, Working

LEMMA RunType ==
    ASSUME TypeOK, NEW r \in Runs
    PROVE  /\ run[r] \in Run
           /\ Expire(r) \in Run
           /\ Expire(r).last = run[r].last
           /\ Expire(r).checkpoint = run[r].checkpoint
           /\ Expire(r).status # "running"
           /\ Expire(r).status = "none" <=> run[r].status = "none"
           /\ Expire(r).status = "succeeded" <=> run[r].status = "succeeded"
BY DEF TypeOK, Run, Expire, NoToken

LEMMA NewTokenIsFresh ==
    ASSUME NEW k \in Tokens, Fresh(k)
    PROVE  NewToken \in Tokens /\ Fresh(NewToken)
BY DEF NewToken

\* What a step of a process does to it: it is idle, starts, or works on.
LEMMA ProcType ==
    ASSUME TypeOK, NEW p \in Processes, NEW row \in {Idle} \cup Starting \cup Working,
           proc' = [proc EXCEPT ![p] = row]
    PROVE  proc' \in [Processes -> {Idle} \cup Starting \cup Working]
BY DEF TypeOK


\* The steps of a process that leave its run alone, apart from a failure.
LEMMA GotoType ==
    ASSUME TypeInv, NEW p \in Processes, proc[p] \in Working,
           NEW pc \in {"next", "read", "locked", "written", "open", "openread", "failing"},
           NEW version \in 0..MaxEdits,
           pc \in {"read", "locked", "written"} => proc[p].day <= proc[p].last,
           proc' = [proc EXCEPT ![p].pc = pc, ![p].version = version]
    PROVE  /\ proc' \in [Processes -> {Idle} \cup Starting \cup Working]
           /\ \A q \in Processes : proc'[q].pc # "idle" => proc'[q].last >= Lookback
           /\ \A q \in Processes :
                 proc'[q].pc \in {"read", "locked", "written"} => proc'[q].day <= proc'[q].last
<1> DEFINE row == [proc[p] EXCEPT !.pc = pc, !.version = version]
<1>1. row \in Working /\ row.last = proc[p].last /\ row.day = proc[p].day /\ row.pc = pc
  BY DEF Working
<1>2. proc' = [proc EXCEPT ![p] = row]
  BY DEF TypeInv, TypeOK
<1>3. proc' \in [Processes -> {Idle} \cup Starting \cup Working]
  BY <1>1, <1>2, ProcType DEF TypeInv
<1>4. proc[p].last >= Lookback
  BY DEF TypeInv, WindowsFit, Working
<1> HIDE DEF row
<1>5. \A q \in Processes : proc'[q] = IF q = p THEN row ELSE proc[q]
  BY <1>2 DEF TypeInv, TypeOK
<1> QED BY <1>1, <1>3, <1>4, <1>5 DEF TypeInv, WindowsFit

\* The steps of a process that commit a row of the run it works on.
LEMMA BeatType ==
    ASSUME TypeInv, NEW p \in Processes, proc[p] \in Working, NEW row \in Run,
           row.last = run[proc[p].run].last, row.status # "none", Guard(p), Beat(p, row)
    PROVE  /\ run' \in [Runs -> Run]
           /\ \A r \in Runs : run'[r].status # "none" => run'[r].last >= Lookback
<1>1. proc[p].run \in Runs
  BY DEF Working
<1>2. [row EXCEPT !.stale = FALSE] \in Run /\ [row EXCEPT !.stale = FALSE].last = row.last
  BY DEF Run
<1>3. \A r \in Runs : run'[r] = IF r = proc[p].run THEN [row EXCEPT !.stale = FALSE] ELSE run[r]
  BY <1>1 DEF Beat, TypeInv, TypeOK
<1>4. run[proc[p].run].last >= Lookback
  BY <1>1 DEF Guard, TypeInv, WindowsFit
<1>5. run' \in [Runs -> Run]
  BY <1>1, <1>2 DEF Beat, TypeInv, TypeOK
<1> QED BY <1>2, <1>3, <1>4, <1>5 DEF TypeInv, WindowsFit

LEMMA IdleType ==
    ASSUME TypeInv, NEW p \in Processes, proc' = [proc EXCEPT ![p] = Idle]
    PROVE  /\ proc' \in [Processes -> {Idle} \cup Starting \cup Working]
           /\ \A q \in Processes : proc'[q].pc # "idle" => proc'[q].last >= Lookback
           /\ \A q \in Processes :
                 proc'[q].pc \in {"read", "locked", "written"} => proc'[q].day <= proc'[q].last
<1>1. \A q \in Processes : proc'[q] = IF q = p THEN Idle ELSE proc[q]
  BY DEF TypeInv, TypeOK
<1>2. proc' \in [Processes -> {Idle} \cup Starting \cup Working]
  BY ProcType DEF TypeInv
<1> QED BY <1>1, <1>2 DEF TypeInv, WindowsFit, Idle

LEMMA TakeType == ASSUME TypeInv, NEW p \in Processes, Take(p) PROVE TypeInv'
<1> USE SyncAssumption DEF SyncAssumption
<1> PICK r \in Runs :
        LET t == proc[p].last  k == NewToken IN
        /\ IF \E s \in Runs : Resumable(s, t) THEN Resumable(r, t) ELSE Reusable(r)
        /\ run' = [s \in Runs |-> IF s = r THEN Leased(r, t, k) ELSE Expire(s)]
        /\ base' = IF Resumable(r, t) THEN base ELSE [base EXCEPT ![r] = source]
        /\ proc' = [proc EXCEPT ![p] = [pc |-> "next", run |-> r, token |-> k, last |-> t,
                                        day |-> NextDay(r, t), version |-> 0]]
  BY DEF Take
<1> DEFINE t == proc[p].last
           work == [pc |-> "next", run |-> r, token |-> NewToken, last |-> t,
                    day |-> NextDay(r, t), version |-> 0]
<1>1. t \in Days /\ t >= Lookback
  BY PcTypes DEF Take, TypeInv, WindowsFit, Starting
<1>2. NewToken \in Tokens
  BY NewTokenIsFresh DEF Take
<1>3. run[r] \in Run /\ Expire(r) \in Run
  BY RunType DEF TypeInv
<1>4. First(t) \in 1..LastToday
  BY <1>1 DEF First, Days
<1>5. NextDay(r, t) \in 1..(LastToday + 1)
  <2>1. run[r].checkpoint \in 0..LastToday
    BY <1>3 DEF Run
  <2> QED BY <1>4, <2>1 DEF NextDay, NoDay
<1>6. Leased(r, t, NewToken) \in Run /\ Leased(r, t, NewToken).last = t
  <2>1. CASE Resumable(r, t)
    <3>1. Leased(r, t, NewToken) = [run[r] EXCEPT !.status = "running", !.lease = NewToken, !.stale = FALSE]
      BY <2>1 DEF Leased
    <3>2. run[r].last = t
      BY <2>1 DEF Resumable
    <3> QED BY <1>2, <1>3, <3>1, <3>2 DEF Run
  <2>2. CASE ~ Resumable(r, t)
    <3>1. Leased(r, t, NewToken) = [status |-> "running", last |-> t, checkpoint |-> NoDay,
                                    lease |-> NewToken, stale |-> FALSE]
      BY <2>2 DEF Leased
    <3>2. t \in 0..LastToday /\ NoDay \in 0..LastToday
      BY <1>1 DEF NoDay, Days
    <3> HIDE DEF t
    <3> QED BY <1>2, <3>1, <3>2 DEF Run
  <2> QED BY <2>1, <2>2
<1>7. run' \in [Runs -> Run]
  BY <1>6, RunType DEF TypeInv
<1>8. base' \in [Runs -> [Parts -> 0..MaxEdits]]
  BY DEF TypeInv, TypeOK
<1>9. work \in Working
  BY <1>1, <1>2, <1>5 DEF Working
<1>10. proc' \in [Processes -> {Idle} \cup Starting \cup Working]
  BY <1>9, ProcType DEF TypeInv
<1>11. TypeOK'
  BY <1>7, <1>8, <1>10 DEF TypeInv, TypeOK, Take, bounds
<1>12. \A s \in Runs : run'[s].status # "none" => run'[s].last >= Lookback
  <2>1. \A s \in Runs : s # r => run'[s] = Expire(s)
    OBVIOUS
  <2>2. run'[r].last = t
    BY <1>6
  <2> QED BY <1>1, <2>1, <2>2, RunType DEF TypeInv, WindowsFit
<1>13. \A q \in Processes : proc'[q] = IF q = p THEN work ELSE proc[q]
  BY DEF TypeInv, TypeOK
<1>14. work.pc = "next" /\ work.last = t
  OBVIOUS
<1> HIDE DEF work
<1>15. WindowsFit'
  BY <1>1, <1>12, <1>13, <1>14 DEF TypeInv, WindowsFit
<1> QED BY <1>11, <1>15 DEF TypeInv, Take, bounds

LEMMA TypeNext == TypeInv /\ [Next]_vars => TypeInv'
<1> SUFFICES ASSUME TypeInv, [Next]_vars PROVE TypeInv'
  OBVIOUS
<1> USE SyncAssumption DEF SyncAssumption
<1>1. ASSUME NEW p \in Processes, Launch(p) PROVE TypeInv'
  <2>1. [pc |-> "launched", last |-> today] \in Starting
    BY DEF Starting, TypeInv, TypeOK, Days
  <2>2. proc' \in [Processes -> {Idle} \cup Starting \cup Working]
    BY <1>1, <2>1, ProcType DEF Launch, TypeInv
  <2>3. TypeOK'
    BY <1>1, <2>2 DEF Launch, TypeInv, TypeOK, bounds
  <2>4. WindowsFit'
    BY <1>1 DEF Launch, TypeInv, TypeOK, WindowsFit, bounds
  <2> QED BY <1>1, <2>3, <2>4 DEF Launch, TypeInv, bounds
<1>2. ASSUME NEW p \in Processes, Begin(p) PROVE TypeInv'
  <2>1. proc[p] \in Starting
    BY <1>2, PcTypes DEF Begin, TypeInv
  <2>2. [proc[p] EXCEPT !.pc = "taking"] \in Starting
        /\ [proc[p] EXCEPT !.pc = "taking"].last = proc[p].last
        /\ [proc[p] EXCEPT !.pc = "taking"].pc = "taking"
    BY <2>1 DEF Starting
  <2>3. proc' = [proc EXCEPT ![p] = [proc[p] EXCEPT !.pc = "taking"]]
    BY <1>2 DEF Begin
  <2>4. proc' \in [Processes -> {Idle} \cup Starting \cup Working]
    BY <2>2, <2>3, ProcType DEF TypeInv
  <2>5. TypeOK'
    BY <1>2, <2>4 DEF Begin, TypeInv, TypeOK, bounds
  <2>6. proc[p].last >= Lookback
    BY <1>2 DEF Begin, TypeInv, WindowsFit
  <2>7. WindowsFit'
    BY <1>2, <2>2, <2>3, <2>6 DEF Begin, TypeInv, TypeOK, WindowsFit, bounds
  <2> QED BY <1>2, <2>5, <2>7 DEF Begin, TypeInv, bounds
<1>3. ASSUME NEW p \in Processes, Take(p) PROVE TypeInv'
  BY <1>3, TakeType
<1>4. ASSUME NEW p \in Processes, Refused(p) \/ Lose(p) \/ Crash(p) PROVE TypeInv'
  <2>1. proc' = [proc EXCEPT ![p] = Idle]
    BY <1>4 DEF Refused, Lose, Crash
  <2>2. UNCHANGED <<run, today, source, stored, base, healthy, edits, errors, stalls>>
        /\ crashes' \in 0..MaxCrashes
    BY <1>4 DEF Refused, Lose, Crash, TypeInv, TypeOK, bounds
  <2> QED BY <2>1, <2>2, IdleType DEF TypeInv, TypeOK, WindowsFit
<1>5. ASSUME NEW p \in Processes, ReadDay(p) \/ ReadOpen(p) \/ LockDay(p) \/ Raise(p)
      PROVE TypeInv'
  <2>1. proc[p] \in Working
    BY <1>5, PcTypes DEF ReadDay, ReadOpen, LockDay, Raise, TypeInv
  <2>2. proc[p].version \in 0..MaxEdits /\ proc[p].day \in 1..(LastToday + 1)
        /\ proc[p].last \in Days
    BY <2>1 DEF Working
  <2>3. UNCHANGED <<run, today, source, stored, base, healthy, edits, crashes, stalls>>
        /\ errors' \in 0..MaxErrors
    BY <1>5 DEF ReadDay, ReadOpen, LockDay, Raise, TypeInv, TypeOK, bounds
  <2>4. \E pc \in {"next", "read", "locked", "written", "open", "openread", "failing"},
           version \in 0..MaxEdits :
           /\ pc \in {"read", "locked", "written"} => proc[p].day <= proc[p].last
           /\ proc' = [proc EXCEPT ![p].pc = pc, ![p].version = version]
    <3>1. CASE ReadDay(p)
      <4>1. proc[p].day \in Parts
        BY <2>2, <3>1 DEF ReadDay, Parts, Days
      <4>2. source[proc[p].day] \in 0..MaxEdits
        BY <4>1 DEF TypeInv, TypeOK
      <4> QED BY <3>1, <4>2 DEF ReadDay
    <3>2. CASE ReadOpen(p)
      BY <2>2, <3>2 DEF ReadOpen, TypeInv, TypeOK, Parts, Days
    <3>3. CASE LockDay(p) \/ Raise(p)
      <4>1. ASSUME NEW pc PROVE [proc EXCEPT ![p].pc = pc, ![p].version = proc[p].version]
                                = [proc EXCEPT ![p].pc = pc]
        BY <2>1 DEF TypeInv, TypeOK, Working
      <4> QED BY <2>2, <3>3, <4>1 DEF LockDay, Raise, Goto, TypeInv, WindowsFit
    <3> QED BY <1>5, <3>1, <3>2, <3>3
  <2> QED BY <2>1, <2>3, <2>4, GotoType DEF TypeInv, TypeOK, WindowsFit
<1>6. ASSUME NEW p \in Processes, WriteBatch(p) \/ WriteOpen(p) PROVE TypeInv'
  <2>1. proc[p] \in Working /\ Guard(p)
    BY <1>6, PcTypes DEF WriteBatch, WriteOpen, TypeInv
  <2>2. run[proc[p].run] \in Run /\ run[proc[p].run].status # "none"
    BY <2>1, RunType DEF Working, Guard, TypeInv
  <2>3. Beat(p, run[proc[p].run])
    BY <1>6 DEF WriteBatch, WriteOpen
  <2>4. stored' \in [Parts -> 0..MaxEdits]
    BY <1>6, <2>1 DEF WriteBatch, WriteOpen, TypeInv, TypeOK, Working
  <2>5. \E pc \in {"written", "open"} :
           /\ pc = "written" => proc[p].day <= proc[p].last
           /\ proc' = [proc EXCEPT ![p].pc = pc, ![p].version = proc[p].version]
    <3>1. ASSUME NEW pc PROVE [proc EXCEPT ![p].pc = pc, ![p].version = proc[p].version]
                              = [proc EXCEPT ![p].pc = pc]
      BY <2>1 DEF TypeInv, TypeOK, Working
    <3> QED BY <1>6, <3>1 DEF WriteBatch, WriteOpen, Goto, TypeInv, WindowsFit
  <2>6. UNCHANGED <<today, source, base, healthy, bounds>>
    BY <1>6 DEF WriteBatch, WriteOpen
  <2>7. /\ proc' \in [Processes -> {Idle} \cup Starting \cup Working]
        /\ \A q \in Processes : proc'[q].pc # "idle" => proc'[q].last >= Lookback
        /\ \A q \in Processes :
                 proc'[q].pc \in {"read", "locked", "written"} => proc'[q].day <= proc'[q].last
    BY <2>1, <2>5, GotoType DEF Working
  <2>8. /\ run' \in [Runs -> Run]
        /\ \A r \in Runs : run'[r].status # "none" => run'[r].last >= Lookback
    BY <2>1, <2>2, <2>3, BeatType
  <2> QED BY <2>4, <2>6, <2>7, <2>8 DEF TypeInv, TypeOK, WindowsFit, bounds
<1>7. ASSUME NEW p \in Processes, Checkpoint(p) PROVE TypeInv'
  <2>1. proc[p] \in Working /\ Guard(p)
    BY <1>7, PcTypes DEF Checkpoint, TypeInv
  <2>2. run[proc[p].run] \in Run /\ run[proc[p].run].status # "none"
    BY <2>1, RunType DEF Working, Guard, TypeInv
  <2>3. proc[p].day \in 1..LastToday
    BY <1>7, <2>1 DEF Checkpoint, TypeInv, WindowsFit, Working, Days
  <2>4. At(run[proc[p].run], proc[p].day) \in Run
        /\ At(run[proc[p].run], proc[p].day).last = run[proc[p].run].last
        /\ At(run[proc[p].run], proc[p].day).status # "none"
    BY <2>2, <2>3 DEF At, Run
  <2>5. stored' \in [Parts -> 0..MaxEdits]
    BY <1>7, <2>1 DEF Checkpoint, TypeInv, TypeOK, Working
  <2> DEFINE row == [proc[p] EXCEPT !.pc = "next", !.day = proc[p].day + 1]
  <2>6. row \in Working /\ row.pc = "next" /\ row.last = proc[p].last
    <3>1. proc[p].day + 1 \in 1..(LastToday + 1)
      BY <2>3
    <3> QED BY <2>1, <3>1 DEF Working
  <2>7. proc' = [proc EXCEPT ![p] = row]
    BY <1>7 DEF Checkpoint, TypeInv, TypeOK
  <2> HIDE DEF row
  <2>8. proc' \in [Processes -> {Idle} \cup Starting \cup Working]
    BY <2>6, <2>7, ProcType DEF TypeInv
  <2>9. /\ run' \in [Runs -> Run]
        /\ \A r \in Runs : run'[r].status # "none" => run'[r].last >= Lookback
    BY <1>7, <2>1, <2>4, BeatType DEF Checkpoint
  <2>10. \A q \in Processes : proc'[q] = IF q = p THEN row ELSE proc[q]
    BY <2>7 DEF TypeInv, TypeOK
  <2>11. proc[p].last >= Lookback
    BY <1>7 DEF Checkpoint, TypeInv, WindowsFit
  <2>12. WindowsFit'
    BY <2>6, <2>9, <2>10, <2>11 DEF TypeInv, WindowsFit
  <2> QED BY <1>7, <2>5, <2>8, <2>9, <2>12 DEF Checkpoint, TypeInv, TypeOK, bounds
<1>8. ASSUME NEW p \in Processes, Succeed(p) \/ MarkFailed(p) PROVE TypeInv'
  <2>1. proc[p] \in Working /\ Guard(p)
    BY <1>8, PcTypes DEF Succeed, AllRead, MarkFailed, TypeInv
  <2>2. run[proc[p].run] \in Run
    BY <2>1, RunType DEF Working, TypeInv
  <2>3. \E status \in {"succeeded", "failed"} : Beat(p, [run[proc[p].run] EXCEPT !.status = status])
    BY <1>8 DEF Succeed, MarkFailed
  <2>4. \A status \in {"succeeded", "failed"} :
           /\ [run[proc[p].run] EXCEPT !.status = status] \in Run
           /\ [run[proc[p].run] EXCEPT !.status = status].last = run[proc[p].run].last
           /\ [run[proc[p].run] EXCEPT !.status = status].status # "none"
    BY <2>2 DEF Run
  <2>5. /\ run' \in [Runs -> Run]
        /\ \A r \in Runs : run'[r].status # "none" => run'[r].last >= Lookback
    BY <2>1, <2>3, <2>4, BeatType
  <2>6. proc' = [proc EXCEPT ![p] = Idle]
    BY <1>8 DEF Succeed, MarkFailed
  <2>7. UNCHANGED <<today, source, stored, base, bounds>> /\ healthy' \in BOOLEAN
    BY <1>8 DEF Succeed, MarkFailed
  <2> QED BY <2>5, <2>6, <2>7, IdleType DEF TypeInv, TypeOK, WindowsFit, bounds
<1>9. ASSUME NEW d \in Parts, Edit(d) PROVE TypeInv'
  BY <1>9 DEF Edit, TypeInv, TypeOK, WindowsFit
<1>10. ASSUME NEW r \in Runs, HourPasses(r) PROVE TypeInv'
  <2>1. run' \in [Runs -> Run]
    BY <1>10 DEF HourPasses, TypeInv, TypeOK, Run
  <2>2. \A s \in Runs : run'[s].status = run[s].status /\ run'[s].last = run[s].last
    BY <1>10 DEF HourPasses, TypeInv, TypeOK, Run
  <2>3. stalls' \in 0..MaxStalls
    BY <1>10 DEF HourPasses, TypeInv, TypeOK
  <2> QED BY <1>10, <2>1, <2>2, <2>3 DEF HourPasses, TypeInv, TypeOK, WindowsFit
<1>11. CASE Midnight
  BY <1>11 DEF Midnight, TypeInv, TypeOK, WindowsFit, bounds
<1>12. CASE UNCHANGED vars
  BY <1>12 DEF vars, TypeInv, TypeOK, WindowsFit
<1> QED BY <1>1, <1>2, <1>3, <1>4, <1>5, <1>6, <1>7, <1>8, <1>9, <1>10, <1>11, <1>12 DEF Next, Step

\* Every variable keeps its type (TypeOK), and windows and days fit the calendar.
THEOREM SyncTypeCorrect == SafeSpec => []TypeInv
BY TypeInit, TypeNext, PTL DEF SafeSpec

-----------------------------------------------------------------------------
(* One owner at a time.                                                    *)

OneRunning == \A r, s \in Runs : run[r].status = "running" /\ run[s].status = "running" => r = s

TokensDiffer ==
    \A p, q \in Processes : AtWork(p) /\ AtWork(q) /\ proc[p].token = proc[q].token => p = q

\* Of a window at most one run is running or waits to be resumed.
OneOpen ==
    \A r, s \in Runs :
        /\ run[r].status \in {"running", "failed"} /\ run[s].status \in {"running", "failed"}
        /\ run[r].last = run[s].last
        => r = s

LeaseInv == OneRunning /\ TokensDiffer /\ OneOpen

LEMMA LeaseInit == Init => LeaseInv
BY DEF Init, LeaseInv, OneRunning, TokensDiffer, OneOpen, AtWork, NoRun, Idle

LEMMA LeaseIsUnique ==
    ASSUME TypeInv, LeaseInv
    PROVE  SingleOwner /\ OneResumable
<1>1. \A p \in Processes : AtWork(p) => proc[p].run \in Runs
  BY AtWorkType DEF TypeInv, Working
<1> QED BY <1>1 DEF LeaseInv, OneRunning, TokensDiffer, OneOpen, SingleOwner, OneResumable, Guard

\* But for Take, a run keeps its window and lease and may only end, and a
\* process keeps its run and token.
RunsOnlyEnd ==
    \A r \in Runs :
        /\ run'[r].last = run[r].last /\ run'[r].lease = run[r].lease
        /\ \/ run'[r].status = run[r].status
           \/ run[r].status = "running" /\ run'[r].status \in {"failed", "succeeded"}

OwnersStay ==
    \A q \in Processes : AtWork(q)' =>
        /\ AtWork(q)
        /\ proc'[q].run = proc[q].run /\ proc'[q].token = proc[q].token

LEMMA ProcessFrame ==
    ASSUME TypeInv, NEW p \in Processes, Step(p) \/ Raise(p) \/ Crash(p), ~ Take(p)
    PROVE  RunsOnlyEnd /\ OwnersStay
<1>1. ASSUME Launch(p) \/ Begin(p) \/ Refused(p) \/ Lose(p) \/ Crash(p) \/ ReadDay(p)
                \/ ReadOpen(p) \/ LockDay(p) \/ Raise(p)
      PROVE  RunsOnlyEnd /\ OwnersStay
  <2>1. run' = run
    BY <1>1 DEF Launch, Begin, Refused, Lose, Crash, ReadDay, ReadOpen, LockDay, Raise
  <2>2. CASE Launch(p) \/ Begin(p) \/ Refused(p) \/ Lose(p) \/ Crash(p)
    <3>1. \A q \in Processes : q # p => proc'[q] = proc[q]
      BY <2>2 DEF Launch, Begin, Refused, Lose, Crash, TypeInv, TypeOK
    <3>2. ~ AtWork(p)'
      <4>1. CASE Launch(p)
        BY <4>1 DEF Launch, AtWork, TypeInv, TypeOK
      <4>2. CASE Begin(p)
        <5>1. proc[p] \in Starting
          BY <4>2, PcTypes DEF Begin, TypeInv
        <5>2. proc'[p].pc = "taking"
          BY <4>2, <5>1 DEF Begin, TypeInv, TypeOK, Starting
        <5> QED BY <5>2 DEF AtWork
      <4>3. CASE Refused(p) \/ Lose(p) \/ Crash(p)
        BY <4>3 DEF Refused, Lose, Crash, AtWork, Idle, TypeInv, TypeOK
      <4> QED BY <2>2, <4>1, <4>2, <4>3
    <3> QED BY <2>1, <3>1, <3>2 DEF RunsOnlyEnd, OwnersStay, AtWork
  <2>3. CASE ReadDay(p) \/ ReadOpen(p) \/ LockDay(p) \/ Raise(p)
    <3>1. proc[p] \in Working /\ AtWork(p)
      BY <2>3, PcTypes DEF ReadDay, ReadOpen, LockDay, Raise, TypeInv, AtWork
    <3>2. \A q \in Processes : proc'[q].run = proc[q].run /\ proc'[q].token = proc[q].token
                               /\ (q # p => proc'[q] = proc[q])
      BY <2>3, <3>1 DEF ReadDay, ReadOpen, LockDay, Raise, Goto, TypeInv, TypeOK, Working
    <3> QED BY <2>1, <3>1, <3>2 DEF RunsOnlyEnd, OwnersStay, AtWork
  <2> QED BY <1>1, <2>2, <2>3
<1>2. ASSUME WriteBatch(p) \/ WriteOpen(p) \/ Checkpoint(p) \/ Succeed(p) \/ MarkFailed(p)
      PROVE  RunsOnlyEnd /\ OwnersStay
  <2>1. proc[p] \in Working /\ AtWork(p) /\ Guard(p)
    BY <1>2, PcTypes
       DEF WriteBatch, WriteOpen, Checkpoint, Succeed, AllRead, MarkFailed, TypeInv, AtWork
  <2>2. proc[p].run \in Runs /\ run[proc[p].run] \in Run
    BY <2>1, RunType DEF Working, TypeInv
  <2>3. \E row \in Run :
           /\ Beat(p, row)
           /\ row.last = run[proc[p].run].last /\ row.lease = run[proc[p].run].lease
           /\ row.status \in {"running", "failed", "succeeded"}
    <3>1. CASE WriteBatch(p) \/ WriteOpen(p)
      BY <2>1, <2>2, <3>1 DEF WriteBatch, WriteOpen, Guard
    <3>2. CASE Checkpoint(p)
      <4>1. proc[p].day \in 0..LastToday
        BY <2>1, <3>2, SyncAssumption
           DEF SyncAssumption, Checkpoint, TypeInv, WindowsFit, Working, Days
      <4>2. At(run[proc[p].run], proc[p].day) \in Run
            /\ At(run[proc[p].run], proc[p].day).last = run[proc[p].run].last
            /\ At(run[proc[p].run], proc[p].day).lease = run[proc[p].run].lease
            /\ At(run[proc[p].run], proc[p].day).status = run[proc[p].run].status
        BY <2>2, <4>1 DEF At, Run
      <4> QED BY <2>1, <3>2, <4>2 DEF Checkpoint, Guard
    <3>3. CASE Succeed(p) \/ MarkFailed(p)
      <4>1. \A status \in {"succeeded", "failed"} :
               LET row == [run[proc[p].run] EXCEPT !.status = status] IN
               /\ row \in Run /\ row.status = status
               /\ row.last = run[proc[p].run].last /\ row.lease = run[proc[p].run].lease
        BY <2>2 DEF Run
      <4> QED BY <3>3, <4>1 DEF Succeed, MarkFailed
    <3> QED BY <1>2, <3>1, <3>2, <3>3
  <2>4. PICK row \in Run :
           /\ Beat(p, row)
           /\ row.last = run[proc[p].run].last /\ row.lease = run[proc[p].run].lease
           /\ row.status \in {"running", "failed", "succeeded"}
    BY <2>3
  <2>5. \A r \in Runs : run'[r] = IF r = proc[p].run THEN [row EXCEPT !.stale = FALSE] ELSE run[r]
    BY <2>2, <2>4 DEF Beat, TypeInv, TypeOK
  <2>6. RunsOnlyEnd
    BY <2>1, <2>4, <2>5 DEF RunsOnlyEnd, Guard, Run
  <2>7. OwnersStay
    <3>1. CASE WriteBatch(p) \/ WriteOpen(p) \/ Checkpoint(p)
      <4>1. \A q \in Processes : q # p => proc'[q] = proc[q]
        BY <3>1 DEF WriteBatch, WriteOpen, Checkpoint, Goto, TypeInv, TypeOK
      <4>2. proc'[p].run = proc[p].run /\ proc'[p].token = proc[p].token
        <5>1. CASE WriteBatch(p) \/ WriteOpen(p)
          BY <2>1, <5>1 DEF WriteBatch, WriteOpen, Goto, TypeInv, TypeOK, Working
        <5>2. CASE Checkpoint(p)
          BY <2>1, <5>2 DEF Checkpoint, TypeInv, TypeOK, Working
        <5> QED BY <3>1, <5>1, <5>2
      <4> QED BY <2>1, <4>1, <4>2 DEF OwnersStay, AtWork
    <3>2. CASE Succeed(p) \/ MarkFailed(p)
      BY <3>2 DEF Succeed, MarkFailed, OwnersStay, AtWork, TypeInv, TypeOK, Idle
    <3> QED BY <1>2, <3>1, <3>2
  <2> QED BY <2>6, <2>7
<1> QED BY <1>1, <1>2 DEF Step

LEMMA StepFrame ==
    ASSUME TypeInv, [Next]_vars
    PROVE  \/ \E p \in Processes : Take(p)
           \/ RunsOnlyEnd /\ OwnersStay
<1>1. ASSUME NEW r \in Runs, HourPasses(r) PROVE RunsOnlyEnd /\ OwnersStay
  BY <1>1 DEF HourPasses, RunsOnlyEnd, OwnersStay, AtWork, TypeInv, TypeOK, Run
<1>2. ASSUME UNCHANGED vars \/ Midnight \/ (\E d \in Parts : Edit(d)) PROVE RunsOnlyEnd /\ OwnersStay
  BY <1>2 DEF vars, Midnight, Edit, RunsOnlyEnd, OwnersStay, AtWork
<1> QED BY <1>1, <1>2, ProcessFrame DEF Next, Step

LEMMA TakeLease == ASSUME TypeInv, LeaseInv, NEW p \in Processes, Take(p) PROVE LeaseInv'
<1> PICK r \in Runs :
        LET t == proc[p].last  k == NewToken IN
        /\ IF \E s \in Runs : Resumable(s, t) THEN Resumable(r, t) ELSE Reusable(r)
        /\ run' = [s \in Runs |-> IF s = r THEN Leased(r, t, k) ELSE Expire(s)]
        /\ base' = IF Resumable(r, t) THEN base ELSE [base EXCEPT ![r] = source]
        /\ proc' = [proc EXCEPT ![p] = [pc |-> "next", run |-> r, token |-> k, last |-> t,
                                        day |-> NextDay(r, t), version |-> 0]]
  BY DEF Take
<1> DEFINE t == proc[p].last
<1>1. NewToken \in Tokens /\ Fresh(NewToken)
  BY NewTokenIsFresh DEF Take
<1>2. run'[r].status = "running" /\ run'[r].last = t
  <2>1. run[r] \in Run
    BY RunType DEF TypeInv
  <2> QED BY <2>1 DEF Leased, Resumable, Run
<1>3. \A s \in Runs : s # r =>
         /\ run'[s].status # "running" /\ run'[s].last = run[s].last
         /\ run'[s].status = "failed" => Expire(s).status = "failed"
  BY RunType DEF TypeInv
<1>4. OneRunning'
  BY <1>3 DEF OneRunning
<1>5. \A q \in Processes : q # p => proc'[q] = proc[q]
  BY DEF TypeInv, TypeOK
<1>6. proc'[p].token = NewToken
  BY DEF TypeInv, TypeOK
<1>7. TokensDiffer'
  BY <1>1, <1>5, <1>6 DEF LeaseInv, TokensDiffer, Fresh, AtWork
<1>8. \A s \in Runs : Expire(s).status = "failed" => run[s].status \in {"running", "failed"}
  BY DEF Expire
<1>9. \A s \in Runs : s # r /\ run'[s].status = "failed" => run[s].last # t
  <2>1. CASE \E u \in Runs : Resumable(u, t)
    BY <1>3, <1>8, <2>1 DEF Resumable, LeaseInv, OneOpen
  <2>2. CASE ~ \E u \in Runs : Resumable(u, t)
    BY <1>3, <2>2 DEF Resumable
  <2> QED BY <2>1, <2>2
<1>10. OneOpen'
  BY <1>2, <1>3, <1>8, <1>9 DEF LeaseInv, OneOpen
<1> QED BY <1>4, <1>7, <1>10 DEF LeaseInv

LEMMA LeaseNext == TypeInv /\ LeaseInv /\ [Next]_vars => LeaseInv'
<1> SUFFICES ASSUME TypeInv, LeaseInv, [Next]_vars PROVE LeaseInv'
  OBVIOUS
<1>1. CASE \E p \in Processes : Take(p)
  BY <1>1, TakeLease
<1>2. CASE RunsOnlyEnd /\ OwnersStay
  BY <1>2 DEF RunsOnlyEnd, OwnersStay, LeaseInv, OneRunning, TokensDiffer, OneOpen
<1> QED BY <1>1, <1>2, StepFrame

\* Executions exclude each other: one running row, one process past guard, one
\* run to resume for a window (LeaseIsExclusive), which rests on fresh tokens
\* and on the expiry of every other running row by resume_or_start.
THEOREM LeasesExclude == SafeSpec => []LeaseIsExclusive
<1>1. TypeInv /\ LeaseInv => LeaseIsExclusive
  BY LeaseIsUnique DEF TypeInv, LeaseIsExclusive
<1> QED BY <1>1, TypeInit, TypeNext, LeaseInit, LeaseNext, PTL DEF SafeSpec

-----------------------------------------------------------------------------
(* Nothing is stored that Alegra did not have, and nothing a run has passed *)
(* is older than what Alegra had when the run was created.                 *)

SourceAhead ==
    /\ \A d \in Parts : stored[d] <= source[d]
    /\ \A r \in Runs, d \in Parts : base[r][d] <= source[d]
    /\ \A p \in Processes :
          /\ proc[p].pc \in {"read", "locked"} => proc[p].version <= source[proc[p].day]
          /\ proc[p].pc = "openread" => proc[p].version <= source[Open]

\* The version that a process is about to store for a part of the calendar.
Current(p, d) == stored[d] <= proc[p].version /\ base[proc[p].run][d] <= proc[p].version

\* The day a run has to read next.
Due(r) == IF run[r].checkpoint = NoDay THEN First(run[r].last) ELSE run[r].checkpoint + 1

\* What the process that holds the lease relies on.
Progressed(p) ==
    LET r == proc[p].run IN
    /\ run[r].last = proc[p].last
    /\ proc[p].day = Due(r)
    /\ proc[p].pc \in {"read", "locked"} => Current(p, proc[p].day)
    /\ proc[p].pc = "locked" => ~ CommitsBatches
    /\ proc[p].pc = "written" => CommitsBatches /\ stored[proc[p].day] >= base[r][proc[p].day]
    /\ proc[p].pc \in {"openread", "open"} => proc[p].day > proc[p].last /\ HasOpenPass
    /\ proc[p].pc = "openread" => Current(p, Open)
    /\ proc[p].pc = "open" => stored[Open] >= base[r][Open]

OwnersProgress == \A p \in Processes : AtWork(p) /\ Guard(p) => Progressed(p)

CoverInv == SourceAhead /\ OwnersProgress /\ CheckpointIsCovered /\ SucceededIsComplete

SyncInv == TypeInv /\ LeaseInv /\ CoverInv

LEMMA CoverInit == Init => CoverInv
<1> SUFFICES ASSUME Init PROVE CoverInv
  OBVIOUS
<1>1. SourceAhead
  BY DEF Init, SourceAhead, Idle
<1>2. OwnersProgress
  BY DEF Init, OwnersProgress, AtWork, Idle
<1>3. CheckpointIsCovered /\ SucceededIsComplete
  BY DEF Init, CheckpointIsCovered, SucceededIsComplete, NoRun
<1> QED BY <1>1, <1>2, <1>3 DEF CoverInv

\* While a process holds a lease, nobody else changes its run or the documents.
LEMMA OthersLeaveAlone ==
    ASSUME SyncInv, NEW p \in Processes, NEW q \in Processes, q # p,
           Step(p) \/ Raise(p) \/ Crash(p), AtWork(q)', Guard(q)'
    PROVE  /\ proc'[q] = proc[q] /\ AtWork(q) /\ Guard(q) /\ proc[q].run \in Runs
           /\ UNCHANGED <<stored, source, base>>
           /\ run'[proc[q].run] = run[proc[q].run]
<1>1. proc'[q] = proc[q] /\ UNCHANGED source
  BY DEF Step, Launch, Begin, Refused, Take, ReadDay, LockDay, WriteBatch, Checkpoint, ReadOpen,
         WriteOpen, Succeed, MarkFailed, Lose, Raise, Crash, Goto, SyncInv, TypeInv, TypeOK
<1>2. AtWork(q) /\ proc[q].run \in Runs
  BY <1>1, AtWorkType DEF AtWork, SyncInv, TypeInv, Working
<1>3. ~ Take(p)
  <2> SUFFICES ASSUME Take(p) PROVE FALSE
    OBVIOUS
  <2>1. Fresh(NewToken)
    BY NewTokenIsFresh DEF Take
  <2>2. proc[q].token # NewToken
    BY <1>2, <2>1 DEF Fresh
  <2>3. run'[proc[q].run].status = "running" /\ run'[proc[q].run].lease # NewToken
    BY <1>1, <2>2 DEF Guard
  <2>4. PICK r \in Runs :
            run' = [s \in Runs |-> IF s = r THEN Leased(r, proc[p].last, NewToken) ELSE Expire(s)]
    BY DEF Take
  <2>5. proc[q].run = r
    BY <1>2, <2>3, <2>4, RunType DEF SyncInv, TypeInv
  <2>6. run[r] \in Run
    BY RunType DEF SyncInv, TypeInv
  <2>7. Leased(r, proc[p].last, NewToken).lease = NewToken
    BY <2>6 DEF Leased, Run
  <2> QED BY <2>3, <2>4, <2>5, <2>7
<1>4. Guard(q)
  BY <1>1, <1>2, <1>3, ProcessFrame DEF SyncInv, RunsOnlyEnd, Guard
<1>5. ~ (AtWork(p) /\ Guard(p))
  BY <1>2, <1>4, LeaseIsUnique DEF SyncInv, SingleOwner
<1>6. ~ (WriteBatch(p) \/ WriteOpen(p) \/ Checkpoint(p) \/ Succeed(p) \/ MarkFailed(p))
  BY <1>5 DEF WriteBatch, WriteOpen, Checkpoint, Succeed, AllRead, MarkFailed, AtWork
<1>7. UNCHANGED <<stored, base, run>>
  BY <1>3, <1>6
     DEF Step, Launch, Begin, Refused, Lose, Crash, ReadDay, ReadOpen, LockDay, Raise
<1> QED BY <1>1, <1>2, <1>4, <1>7

LEMMA OthersProgress ==
    ASSUME SyncInv, NEW p \in Processes, NEW q \in Processes, q # p,
           Step(p) \/ Raise(p) \/ Crash(p), AtWork(q)', Guard(q)'
    PROVE  Progressed(q)'
<1>1. /\ proc'[q] = proc[q] /\ AtWork(q) /\ Guard(q) /\ proc[q].run \in Runs
      /\ UNCHANGED <<stored, source, base>>
      /\ run'[proc[q].run] = run[proc[q].run]
  BY OthersLeaveAlone
<1>2. Progressed(q)
  BY <1>1 DEF SyncInv, CoverInv, OwnersProgress
<1> QED BY <1>1, <1>2 DEF Progressed, Current, Due

-----------------------------------------------------------------------------
(* One lemma per step that stores documents or moves a run.                *)

LEMMA SourceGrows ==
    ASSUME TypeInv, [Next]_vars
    PROVE  \A d \in Parts : source[d] \in Nat /\ source'[d] \in Nat /\ source[d] <= source'[d]
<1>1. \A d \in Parts : source[d] \in Nat
  BY SyncAssumption DEF TypeInv, TypeOK, SyncAssumption
<1>2. CASE \E d \in Parts : Edit(d)
  BY <1>1, <1>2 DEF Edit, TypeInv, TypeOK
<1>3. CASE ~ \E d \in Parts : Edit(d)
  <2>1. UNCHANGED source
    BY <1>3 DEF Next, vars, Step, Launch, Begin, Refused, Take, ReadDay, LockDay, WriteBatch,
           Checkpoint, ReadOpen, WriteOpen, Succeed, MarkFailed, Lose, Raise, Crash, HourPasses,
           Midnight
  <2> QED BY <1>1, <2>1
<1> QED BY <1>2, <1>3

\* The part of the calendar a process writes, and that it writes nothing older.
LEMMA StoredStep ==
    ASSUME SyncInv, [Next]_vars
    PROVE  /\ \A d \in Parts : stored'[d] >= stored[d]
           /\ \A d \in Parts : stored'[d] <= source'[d]
<1>1. \A d \in Parts : stored[d] \in Nat /\ source[d] \in Nat
  BY SyncAssumption DEF SyncInv, TypeInv, TypeOK, SyncAssumption
<1>2. \A d \in Parts : source[d] <= source'[d]
  BY SourceGrows DEF SyncInv
<1>3. ASSUME NEW p \in Processes, WriteBatch(p) \/ WriteOpen(p) \/ Checkpoint(p)
      PROVE  \A d \in Parts : stored'[d] >= stored[d] /\ stored'[d] <= source[d]
  <2>1. AtWork(p) /\ Guard(p)
    BY <1>3 DEF WriteBatch, WriteOpen, Checkpoint, AtWork
  <2>2. Progressed(p) /\ proc[p] \in Working
    BY <2>1, AtWorkType DEF SyncInv, CoverInv, OwnersProgress, TypeInv
  <2>3. proc[p].version \in Nat
    BY <2>2, SyncAssumption DEF Working, SyncAssumption
  <2>4. CASE WriteBatch(p) \/ (Checkpoint(p) /\ ~ CommitsBatches)
    <3>1. proc[p].pc \in {"read", "locked"}
      BY <2>2, <2>4 DEF WriteBatch, Checkpoint, Progressed
    <3>2. proc[p].day \in Parts
      BY <2>2, <3>1, SyncAssumption
         DEF SyncAssumption, SyncInv, TypeInv, WindowsFit, Working, Days, Parts
    <3>3. stored[proc[p].day] <= proc[p].version /\ proc[p].version <= source[proc[p].day]
      BY <2>2, <3>1 DEF Progressed, Current, SyncInv, CoverInv, SourceAhead
    <3>4. stored' = [stored EXCEPT ![proc[p].day] = proc[p].version]
      BY <2>4 DEF WriteBatch, Checkpoint
    <3> QED BY <1>1, <2>3, <3>2, <3>3, <3>4 DEF SyncInv, TypeInv, TypeOK, CoverInv, SourceAhead
  <2>5. CASE WriteOpen(p)
    <3>1. stored[Open] <= proc[p].version /\ proc[p].version <= source[Open]
      BY <2>2, <2>5 DEF WriteOpen, Progressed, Current, SyncInv, CoverInv, SourceAhead
    <3>2. stored' = [stored EXCEPT ![Open] = proc[p].version]
      BY <2>5 DEF WriteOpen
    <3> QED BY <1>1, <2>3, <3>1, <3>2 DEF SyncInv, TypeInv, TypeOK, CoverInv, SourceAhead, Parts
  <2>6. CASE Checkpoint(p) /\ CommitsBatches
    BY <1>1, <2>6 DEF Checkpoint, SyncInv, CoverInv, SourceAhead
  <2> QED BY <1>3, <2>4, <2>5, <2>6
<1>4. CASE \E p \in Processes : WriteBatch(p) \/ WriteOpen(p) \/ Checkpoint(p)
  <2>1. \A d \in Parts : stored'[d] >= stored[d] /\ stored'[d] <= source[d]
    BY <1>3, <1>4
  <2>2. UNCHANGED source
    BY <1>4 DEF WriteBatch, WriteOpen, Checkpoint
  <2> QED BY <2>1, <2>2
<1>5. CASE ~ \E p \in Processes : WriteBatch(p) \/ WriteOpen(p) \/ Checkpoint(p)
  <2>1. UNCHANGED stored
    BY <1>5 DEF Next, vars, Step, Launch, Begin, Refused, Take, ReadDay, LockDay,
           ReadOpen, Succeed, MarkFailed, Lose, Raise, Crash, HourPasses, Midnight, Edit
  <2>2. \A d \in Parts : source'[d] \in Nat
    BY TypeNext, SyncAssumption DEF SyncInv, TypeInv, TypeOK, SyncAssumption
  <2> QED BY <1>1, <1>2, <2>1, <2>2 DEF SyncInv, CoverInv, SourceAhead
<1> QED BY <1>4, <1>5

LEMMA BaseStep ==
    ASSUME SyncInv, [Next]_vars
    PROVE  \/ base' = base
           \/ \E p \in Processes, r \in Runs :
                 Take(p) /\ ~ Resumable(r, proc[p].last) /\ base' = [base EXCEPT ![r] = source]
BY DEF Next, vars, Step, Launch, Begin, Refused, Take, ReadDay, LockDay, WriteBatch,
       Checkpoint, ReadOpen, WriteOpen, Succeed, MarkFailed, Lose, Raise, Crash, HourPasses,
       Midnight, Edit

LEMMA SourceAheadNext == ASSUME SyncInv, [Next]_vars PROVE SourceAhead'
<1>1. \A d \in Parts : source[d] \in Nat /\ source'[d] \in Nat /\ source[d] <= source'[d]
  BY SourceGrows DEF SyncInv
<1>2. \A r \in Runs, d \in Parts : base'[r][d] <= source'[d]
  <2>1. \A r \in Runs, d \in Parts : base[r][d] \in Nat /\ base[r][d] <= source[d]
    BY SyncAssumption DEF SyncAssumption, SyncInv, TypeInv, TypeOK, CoverInv, SourceAhead
  <2>2. \A r \in Runs : base'[r] = base[r] \/ base'[r] = source
    BY BaseStep DEF SyncInv, TypeInv, TypeOK
  <2> QED BY <1>1, <2>1, <2>2
<1>3. ASSUME NEW p \in Processes, proc'[p].pc \in {"read", "locked", "openread"}
      PROVE  /\ proc'[p].pc \in {"read", "locked"} => proc'[p].version <= source'[proc'[p].day]
             /\ proc'[p].pc = "openread" => proc'[p].version <= source'[Open]
  <2>1. CASE proc'[p] = proc[p]
    <3>1. proc[p] \in Working
      BY <1>3, <2>1, PcTypes DEF SyncInv, TypeInv
    <3>2. proc[p].version \in Nat
      BY <3>1, SyncAssumption DEF Working, SyncAssumption
    <3>3. proc[p].pc # "openread" => proc[p].day \in Parts
      BY <1>3, <2>1, <3>1, SyncAssumption
         DEF SyncAssumption, SyncInv, TypeInv, WindowsFit, Working, Days, Parts
    <3> QED BY <1>1, <1>3, <2>1, <3>2, <3>3 DEF SyncInv, CoverInv, SourceAhead, Parts
  <2>2. CASE proc'[p] # proc[p]
    <3>1. ReadDay(p) \/ ReadOpen(p) \/ LockDay(p)
      <4>1. ASSUME NEW q \in Processes, Step(q) \/ Raise(q) \/ Crash(q) PROVE q = p
        BY <2>2, <4>1 DEF Step, Launch, Begin, Refused, Take, ReadDay, LockDay, WriteBatch, Checkpoint,
           ReadOpen, WriteOpen, Succeed, MarkFailed, Lose, Raise, Crash, Goto, SyncInv, TypeInv, TypeOK
      <4>2. Step(p) \/ Raise(p) \/ Crash(p)
        BY <2>2, <4>1 DEF Next, vars, Edit, HourPasses, Midnight
      <4>3. ~ (Launch(p) \/ Refused(p) \/ Lose(p) \/ Crash(p) \/ Succeed(p) \/ MarkFailed(p) \/ Take(p))
        BY <1>3 DEF Launch, Refused, Lose, Crash, Succeed, MarkFailed, Take, Idle,
           SyncInv, TypeInv, TypeOK
      <4>4. ~ Begin(p)
        <5> SUFFICES ASSUME Begin(p) PROVE FALSE
          OBVIOUS
        <5>1. proc[p] \in Starting
          BY PcTypes DEF Begin, SyncInv, TypeInv
        <5>2. proc'[p].pc = "taking"
          BY <5>1 DEF Begin, SyncInv, TypeInv, TypeOK, Starting
        <5> QED BY <1>3, <5>2
      <4>5. ~ (WriteBatch(p) \/ Checkpoint(p) \/ WriteOpen(p) \/ Raise(p))
        <5> SUFFICES ASSUME WriteBatch(p) \/ Checkpoint(p) \/ WriteOpen(p) \/ Raise(p) PROVE FALSE
          OBVIOUS
        <5>1. proc[p] \in Working
          BY PcTypes DEF WriteBatch, Checkpoint, WriteOpen, Raise, SyncInv, TypeInv
        <5>2. proc'[p].pc \in {"written", "next", "open", "failing"}
          <6>1. CASE Checkpoint(p)
            BY <5>1, <6>1 DEF Checkpoint, SyncInv, TypeInv, TypeOK, Working
          <6>2. CASE WriteBatch(p) \/ WriteOpen(p) \/ Raise(p)
            BY <5>1, <6>2 DEF WriteBatch, WriteOpen, Raise, Goto, SyncInv, TypeInv, TypeOK, Working
          <6> QED BY <6>1, <6>2
        <5> QED BY <1>3, <5>2
      <4> QED BY <4>2, <4>3, <4>4, <4>5 DEF Step
    <3>2. proc[p] \in Working /\ UNCHANGED source
      BY <3>1, PcTypes DEF ReadDay, ReadOpen, LockDay, SyncInv, TypeInv
    <3>3. proc[p].pc # "next" \/ proc[p].day > proc[p].last \/ proc[p].day \in Parts
      BY <3>2, SyncAssumption DEF SyncAssumption, Working, Days, Parts
    <3>4. CASE ReadDay(p)
      <4>1. /\ proc'[p].pc = "read" /\ proc'[p].day = proc[p].day
            /\ proc'[p].version = source[proc[p].day] /\ proc[p].day \in Parts
        BY <3>2, <3>3, <3>4, SyncAssumption
           DEF ReadDay, SyncInv, TypeInv, TypeOK, Working, SyncAssumption, Days, Parts
      <4> QED BY <1>1, <3>2, <4>1
    <3>5. CASE ReadOpen(p)
      <4>1. proc'[p].pc = "openread" /\ proc'[p].version = source[Open]
        BY <3>2, <3>5 DEF ReadOpen, SyncInv, TypeInv, TypeOK, Working
      <4> QED BY <1>1, <3>2, <4>1 DEF Parts
    <3>6. CASE LockDay(p)
      <4>1. /\ proc'[p].pc = "locked" /\ proc'[p].day = proc[p].day
            /\ proc'[p].version = proc[p].version /\ proc[p].pc = "read"
        BY <3>2, <3>6 DEF LockDay, Goto, SyncInv, TypeInv, TypeOK, Working
      <4> QED BY <3>2, <4>1 DEF SyncInv, CoverInv, SourceAhead
    <3> QED BY <3>1, <3>4, <3>5, <3>6
  <2> QED BY <2>1, <2>2
<1>4. \A d \in Parts : stored'[d] <= source'[d]
  BY StoredStep
<1> QED BY <1>2, <1>3, <1>4 DEF SourceAhead

\* A run that keeps its row and its base stays covered, since documents only get newer.
LEMMA CoverageKept ==
    ASSUME SyncInv, [Next]_vars, NEW r \in Runs, base'[r] = base[r],
           run'[r].last = run[r].last, run'[r].checkpoint = run[r].checkpoint
    PROVE  /\ run'[r].status # "none" /\ run[r].status # "none" /\ run'[r].checkpoint # NoDay =>
                 \A d \in First(run'[r].last)..run'[r].checkpoint : stored'[d] >= base'[r][d]
           /\ run'[r].status = "succeeded" /\ run[r].status = "succeeded" =>
                 \A d \in Window(run'[r].last) : stored'[d] >= base'[r][d]
<1> USE SyncAssumption DEF SyncAssumption
<1>1. run[r] \in Run
  BY RunType DEF SyncInv, TypeInv
<1>2. \A d \in Parts : stored'[d] >= stored[d]
  BY StoredStep
<1>3. \A d \in Parts : stored[d] \in Nat /\ stored'[d] \in Nat /\ base[r][d] \in Nat
  BY TypeNext DEF SyncInv, TypeInv, TypeOK
<1>4. ASSUME run[r].status # "none"
      PROVE  /\ Window(run[r].last) \subseteq Parts
             /\ \A d \in First(run[r].last)..run[r].checkpoint : d \in Parts
  <2>1. run[r].last >= Lookback /\ run[r].last \in 0..LastToday /\ run[r].checkpoint \in 0..LastToday
    BY <1>1, <1>4 DEF SyncInv, TypeInv, WindowsFit, Run
  <2>2. First(run[r].last) \in 1..LastToday
    BY <2>1 DEF First
  <2>3. First(run[r].last)..run[r].last \subseteq Parts
    BY <2>1, <2>2 DEF Parts, Days
  <2>4. Window(run[r].last) \subseteq Parts
    BY <2>3 DEF Window, Parts
  <2> QED BY <2>1, <2>2, <2>4 DEF Parts, Days
<1> QED BY <1>2, <1>3, <1>4 DEF SyncInv, CoverInv, CheckpointIsCovered, SucceededIsComplete

LEMMA TakeCovers ==
    ASSUME SyncInv, [Next]_vars, NEW p \in Processes, Take(p)
    PROVE  CheckpointIsCovered' /\ SucceededIsComplete' /\ Progressed(p)'
<1> PICK r \in Runs :
        LET t == proc[p].last  k == NewToken IN
        /\ IF \E s \in Runs : Resumable(s, t) THEN Resumable(r, t) ELSE Reusable(r)
        /\ run' = [s \in Runs |-> IF s = r THEN Leased(r, t, k) ELSE Expire(s)]
        /\ base' = IF Resumable(r, t) THEN base ELSE [base EXCEPT ![r] = source]
        /\ proc' = [proc EXCEPT ![p] = [pc |-> "next", run |-> r, token |-> k, last |-> t,
                                        day |-> NextDay(r, t), version |-> 0]]
  BY DEF Take
<1> DEFINE t == proc[p].last
<1>1. run[r] \in Run
  BY RunType DEF SyncInv, TypeInv
<1>2. run'[r].status = "running" /\ run'[r].last = t
      /\ run'[r].checkpoint = IF Resumable(r, t) THEN run[r].checkpoint ELSE NoDay
  BY <1>1 DEF Leased, Resumable, Run
<1>3. /\ proc'[p].pc = "next" /\ proc'[p].run = r /\ proc'[p].last = t
      /\ proc'[p].day = NextDay(r, t)
  BY DEF SyncInv, TypeInv, TypeOK
<1>4. Progressed(p)'
  BY <1>2, <1>3 DEF Progressed, Due, NextDay, Resumable
<1>5. \A s \in Runs : s # r =>
         /\ base'[s] = base[s] /\ run'[s].last = run[s].last /\ run'[s].checkpoint = run[s].checkpoint
         /\ run'[s].status # "none" => run[s].status # "none"
         /\ run'[s].status = "succeeded" => run[s].status = "succeeded"
  BY RunType DEF SyncInv, TypeInv, TypeOK
<1>6. ASSUME run'[r].checkpoint # NoDay
      PROVE  \A d \in First(run'[r].last)..run'[r].checkpoint : stored'[d] >= base'[r][d]
  <2>1. Resumable(r, t)
    BY <1>2, <1>6
  <2>2. /\ base'[r] = base[r] /\ run'[r].last = run[r].last /\ run'[r].checkpoint = run[r].checkpoint
        /\ run[r].status # "none" /\ run'[r].status # "none"
    BY <1>2, <2>1 DEF Resumable, Expire
  <2> QED BY <1>6, <2>2, CoverageKept
<1>7. CheckpointIsCovered'
  BY <1>5, <1>6, CoverageKept DEF CheckpointIsCovered
<1>8. SucceededIsComplete'
  BY <1>2, <1>5, CoverageKept DEF SucceededIsComplete
<1> QED BY <1>4, <1>7, <1>8

\* The owner's commits: the run it works on gets a new row, which is covered if
\* the row has what the documents justify; every other run stays as it is.
LEMMA OwnerCommits ==
    ASSUME SyncInv, [Next]_vars, NEW p \in Processes, AtWork(p), Guard(p), NEW row \in Run,
           Beat(p, row), base' = base, row.last = run[proc[p].run].last, row.status # "none",
           \/ row.checkpoint = run[proc[p].run].checkpoint
           \/ \A d \in First(row.last)..row.checkpoint : stored'[d] >= base[proc[p].run][d],
           row.status = "succeeded" =>
              \A d \in Window(row.last) : stored'[d] >= base[proc[p].run][d]
    PROVE  CheckpointIsCovered' /\ SucceededIsComplete'
<1>1. proc[p].run \in Runs
  BY AtWorkType DEF SyncInv, TypeInv, Working
<1>2. \A r \in Runs : r # proc[p].run => run'[r] = run[r]
  BY <1>1 DEF Beat, SyncInv, TypeInv, TypeOK
<1>3. run'[proc[p].run].last = row.last /\ run'[proc[p].run].checkpoint = row.checkpoint
      /\ run'[proc[p].run].status = row.status
  BY <1>1 DEF Beat, SyncInv, TypeInv, TypeOK, Run
<1>4. run[proc[p].run].status = "running"
  BY DEF Guard
<1>5. CheckpointIsCovered'
  BY <1>1, <1>2, <1>3, <1>4, CoverageKept DEF CheckpointIsCovered
<1>6. SucceededIsComplete'
  BY <1>1, <1>2, <1>3, <1>4, CoverageKept DEF SucceededIsComplete
<1> QED BY <1>5, <1>6

\* The days a run has passed are those up to the one before its next.
LEMMA DueDay ==
    ASSUME SyncInv, NEW p \in Processes, AtWork(p), Guard(p)
    PROVE  /\ Progressed(p) /\ proc[p] \in Working /\ run[proc[p].run] \in Run
           /\ proc[p].last >= Lookback /\ First(proc[p].last) \in 1..proc[p].last
           /\ \A d \in First(proc[p].last)..(proc[p].day - 1) :
                 stored[d] >= base[proc[p].run][d]
<1> USE SyncAssumption DEF SyncAssumption
<1>1. proc[p] \in Working /\ Progressed(p)
  BY AtWorkType DEF SyncInv, TypeInv, CoverInv, OwnersProgress
<1>2. proc[p].run \in Runs /\ proc[p].last \in Days
  BY <1>1 DEF Working
<1>3. run[proc[p].run] \in Run
  BY <1>2, RunType DEF SyncInv, TypeInv
<1>4. proc[p].last >= Lookback
  BY DEF AtWork, SyncInv, TypeInv, WindowsFit
<1>5. First(proc[p].last) \in 1..proc[p].last
  BY <1>2, <1>4 DEF First, Days
<1>6. run[proc[p].run].last = proc[p].last /\ proc[p].day = Due(proc[p].run)
  BY <1>1 DEF Progressed
<1>7. run[proc[p].run].checkpoint \in Nat /\ run[proc[p].run].status = "running"
  BY <1>3 DEF Run, Guard
<1>8. \A d \in First(proc[p].last)..(proc[p].day - 1) : stored[d] >= base[proc[p].run][d]
  <2>1. CASE run[proc[p].run].checkpoint = NoDay
    <3>1. proc[p].day = First(proc[p].last)
      BY <1>6, <2>1 DEF Due
    <3> QED BY <1>5, <3>1
  <2>2. CASE run[proc[p].run].checkpoint # NoDay
    <3>1. proc[p].day - 1 = run[proc[p].run].checkpoint
      BY <1>6, <1>7, <2>2 DEF Due
    <3> QED BY <1>2, <1>6, <1>7, <2>2, <3>1 DEF SyncInv, CoverInv, CheckpointIsCovered
  <2> QED BY <2>1, <2>2
<1> QED BY <1>1, <1>3, <1>4, <1>5, <1>8

LEMMA WriteCovers ==
    ASSUME SyncInv, [Next]_vars, NEW p \in Processes, WriteBatch(p) \/ WriteOpen(p)
    PROVE  CheckpointIsCovered' /\ SucceededIsComplete' /\ Progressed(p)'
<1> DEFINE r == proc[p].run
<1>1. AtWork(p) /\ Guard(p)
  BY DEF WriteBatch, WriteOpen, AtWork
<1>2. proc[p] \in Working /\ Progressed(p) /\ r \in Runs /\ run[r] \in Run
  BY <1>1, DueDay DEF Working
<1>3. Beat(p, run[r]) /\ base' = base
  BY DEF WriteBatch, WriteOpen
<1>4. run[r].status = "running"
  BY <1>1 DEF Guard
<1>5. CheckpointIsCovered' /\ SucceededIsComplete'
  BY <1>1, <1>2, <1>3, <1>4, OwnerCommits
<1>6. run'[r].last = run[r].last /\ run'[r].checkpoint = run[r].checkpoint
  BY <1>2, <1>3 DEF Beat, SyncInv, TypeInv, TypeOK, Run
<1>7. /\ proc'[p].run = r /\ proc'[p].last = proc[p].last /\ proc'[p].day = proc[p].day
      /\ proc'[p].pc = IF WriteBatch(p) THEN "written" ELSE "open"
  BY <1>2 DEF WriteBatch, WriteOpen, Goto, SyncInv, TypeInv, TypeOK, Working
<1>8. CASE WriteBatch(p)
  <2>1. proc[p].day \in Parts
    BY <1>2, <1>8, SyncAssumption
       DEF WriteBatch, SyncAssumption, SyncInv, TypeInv, WindowsFit, Working, Days, Parts
  <2>2. stored'[proc[p].day] = proc[p].version /\ CommitsBatches
    BY <1>8, <2>1 DEF WriteBatch, SyncInv, TypeInv, TypeOK
  <2>3. base[r][proc[p].day] <= proc[p].version
    BY <1>2, <1>8 DEF WriteBatch, Progressed, Current
  <2>4. proc[p].version \in Int /\ base[r][proc[p].day] \in Int
    BY <1>2, <2>1 DEF Working, SyncInv, TypeInv, TypeOK
  <2> QED BY <1>2, <1>3, <1>5, <1>6, <1>7, <1>8, <2>2, <2>3, <2>4 DEF Progressed, Due
<1>9. CASE ~ WriteBatch(p)
  <2>1. WriteOpen(p)
    BY <1>9
  <2>2. stored'[Open] = proc[p].version
    BY <2>1 DEF WriteOpen, SyncInv, TypeInv, TypeOK, Parts
  <2>3. base[r][Open] <= proc[p].version /\ proc[p].day > proc[p].last /\ HasOpenPass
    BY <1>2, <2>1 DEF WriteOpen, Progressed, Current
  <2>4. proc[p].version \in Int /\ base[r][Open] \in Int
    BY <1>2 DEF Working, SyncInv, TypeInv, TypeOK, Parts
  <2> QED BY <1>2, <1>3, <1>5, <1>6, <1>7, <1>9, <2>2, <2>3, <2>4 DEF Progressed, Due
<1> QED BY <1>8, <1>9

LEMMA CheckpointCovers ==
    ASSUME SyncInv, [Next]_vars, NEW p \in Processes, Checkpoint(p)
    PROVE  CheckpointIsCovered' /\ SucceededIsComplete' /\ Progressed(p)'
<1> USE SyncAssumption DEF SyncAssumption
<1> DEFINE r == proc[p].run
           row == At(run[r], proc[p].day)
<1>1. AtWork(p) /\ Guard(p) /\ Beat(p, row) /\ base' = base
  BY DEF Checkpoint, AtWork
<1>2. proc[p] \in Working /\ Progressed(p) /\ r \in Runs /\ run[r] \in Run
  BY <1>1, DueDay DEF Working
<1>3. run[r].status = "running" /\ run[r].last = proc[p].last
  BY <1>1, <1>2 DEF Guard, Progressed
<1>4. proc[p].day \in Days /\ proc[p].day \in Parts
  BY <1>2 DEF Checkpoint, SyncInv, TypeInv, WindowsFit, Working, Days, Parts
<1>5. row \in Run /\ row.last = run[r].last /\ row.status = "running"
      /\ row.checkpoint = proc[p].day
  BY <1>2, <1>3, <1>4 DEF At, Run, Days
<1>6. stored'[proc[p].day] >= base[r][proc[p].day]
  <2>1. CASE proc[p].pc = "locked"
    <3>1. stored'[proc[p].day] = proc[p].version
      BY <1>2, <1>4, <2>1 DEF Checkpoint, Progressed, SyncInv, TypeInv, TypeOK
    <3>2. base[r][proc[p].day] <= proc[p].version
      BY <1>2, <2>1 DEF Progressed, Current
    <3>3. proc[p].version \in Int /\ base[r][proc[p].day] \in Int
      BY <1>2, <1>4 DEF Working, SyncInv, TypeInv, TypeOK
    <3> QED BY <3>1, <3>2, <3>3
  <2>2. CASE proc[p].pc = "written"
    BY <1>2, <2>2 DEF Checkpoint, Progressed
  <2> QED BY <2>1, <2>2 DEF Checkpoint
<1>7. \A d \in First(row.last)..row.checkpoint : stored'[d] >= base[r][d]
  <2> SUFFICES ASSUME NEW d \in First(row.last)..row.checkpoint PROVE stored'[d] >= base[r][d]
    OBVIOUS
  <2>1. First(proc[p].last) \in 1..proc[p].last
        /\ \A e \in First(proc[p].last)..(proc[p].day - 1) : stored[e] >= base[r][e]
    BY <1>1, DueDay
  <2>2. CASE d = proc[p].day
    BY <1>6, <2>2
  <2>3. CASE d # proc[p].day
    <3>1. d \in First(proc[p].last)..(proc[p].day - 1)
      BY <1>3, <1>4, <1>5, <2>1, <2>3 DEF Days
    <3>2. d \in Parts
      BY <1>4, <2>1, <3>1 DEF Days, Parts
    <3>3. stored[d] >= base[r][d] /\ stored'[d] >= stored[d]
      BY <2>1, <3>1, <3>2, StoredStep
    <3>4. stored[d] \in Int /\ stored'[d] \in Int /\ base[r][d] \in Int
      BY <1>2, <3>2, TypeNext DEF SyncInv, TypeInv, TypeOK
    <3> QED BY <3>3, <3>4
  <2> QED BY <2>2, <2>3
<1> HIDE DEF row
<1>8. CheckpointIsCovered' /\ SucceededIsComplete'
  BY <1>1, <1>3, <1>5, <1>7, OwnerCommits
<1>9. run'[r].last = run[r].last /\ run'[r].checkpoint = proc[p].day
  BY <1>1, <1>2, <1>5 DEF Beat, SyncInv, TypeInv, TypeOK, Run
<1>10. /\ proc'[p].run = r /\ proc'[p].last = proc[p].last /\ proc'[p].day = proc[p].day + 1
       /\ proc'[p].pc = "next"
  BY <1>2 DEF Checkpoint, SyncInv, TypeInv, TypeOK, Working
<1>11. proc[p].day # NoDay
  BY <1>4 DEF Days, NoDay
<1> QED BY <1>3, <1>8, <1>9, <1>10, <1>11 DEF Progressed, Due

LEMMA EndCovers ==
    ASSUME SyncInv, [Next]_vars, NEW p \in Processes, Succeed(p) \/ MarkFailed(p)
    PROVE  CheckpointIsCovered' /\ SucceededIsComplete' /\ ~ AtWork(p)'
<1> USE SyncAssumption DEF SyncAssumption
<1> DEFINE r == proc[p].run
<1>1. AtWork(p) /\ Guard(p) /\ base' = base /\ stored' = stored
  BY DEF Succeed, AllRead, MarkFailed, AtWork
<1>2. proc[p] \in Working /\ Progressed(p) /\ r \in Runs /\ run[r] \in Run
  BY <1>1, DueDay DEF Working
<1>3. ~ AtWork(p)'
  BY DEF Succeed, MarkFailed, AtWork, Idle, SyncInv, TypeInv, TypeOK
<1>4. \A status \in {"succeeded", "failed"} :
         LET row == [run[r] EXCEPT !.status = status] IN
         /\ row \in Run /\ row.status = status
         /\ row.last = run[r].last /\ row.checkpoint = run[r].checkpoint
  BY <1>2 DEF Run
<1>5. CASE MarkFailed(p)
  <2>1. Beat(p, [run[r] EXCEPT !.status = "failed"])
    BY <1>5 DEF MarkFailed
  <2> QED BY <1>1, <1>2, <1>3, <1>4, <2>1, OwnerCommits
<1>6. CASE Succeed(p)
  <2>1. Beat(p, [run[r] EXCEPT !.status = "succeeded"]) /\ proc[p].day > proc[p].last
        /\ (HasOpenPass => proc[p].pc = "open")
    BY <1>2, <1>6 DEF Succeed, AllRead, Progressed
  <2>2. run[r].last = proc[p].last /\ proc[p].last \in Days /\ proc[p].day \in Int
    BY <1>2 DEF Progressed, Working
  <2>3. First(proc[p].last) \in Int
        /\ \A d \in First(proc[p].last)..(proc[p].day - 1) : stored[d] >= base[r][d]
    BY <1>1, DueDay
  <2>4. \A d \in First(proc[p].last)..proc[p].last : stored[d] >= base[r][d]
    BY <2>1, <2>2, <2>3 DEF Days
  <2>5. HasOpenPass => stored[Open] >= base[r][Open]
    BY <1>2, <2>1 DEF Progressed
  <2>6. \A d \in Window(run[r].last) : stored'[d] >= base[r][d]
    BY <1>1, <2>2, <2>4, <2>5 DEF Window
  <2> QED BY <1>1, <1>2, <1>3, <1>4, <2>1, <2>6, OwnerCommits
<1> QED BY <1>5, <1>6

\* The steps between commits: a process reads what Alegra has now.
LEMMA ReadProgress ==
    ASSUME SyncInv, NEW p \in Processes, ReadDay(p) \/ ReadOpen(p) \/ LockDay(p) \/ Raise(p),
           Guard(p)'
    PROVE  Progressed(p)'
<1> DEFINE r == proc[p].run
<1>1. AtWork(p) /\ UNCHANGED <<run, stored, base, source>> /\ proc[p] \in Working
  BY AtWorkType DEF ReadDay, ReadOpen, LockDay, Raise, AtWork, SyncInv, TypeInv
<1>2. proc'[p].run = r /\ proc'[p].last = proc[p].last /\ proc'[p].day = proc[p].day
      /\ proc'[p].token = proc[p].token
  BY <1>1 DEF ReadDay, ReadOpen, LockDay, Raise, Goto, SyncInv, TypeInv, TypeOK, Working
<1>3. Progressed(p) /\ r \in Runs
  BY <1>1, <1>2 DEF Guard, SyncInv, CoverInv, OwnersProgress, Working
<1>4. \A d \in Parts : stored[d] <= source[d] /\ base[r][d] <= source[d]
  BY <1>3 DEF SyncInv, CoverInv, SourceAhead
<1>5. CASE ReadDay(p)
  <2>1. proc[p].day \in Parts
    BY <1>1, <1>5, SyncAssumption DEF ReadDay, SyncAssumption, Working, Days, Parts
  <2>2. proc'[p].pc = "read" /\ proc'[p].version = source[proc[p].day]
    BY <1>1, <1>5 DEF ReadDay, SyncInv, TypeInv, TypeOK, Working
  <2> QED BY <1>1, <1>2, <1>3, <1>4, <2>1, <2>2 DEF Progressed, Due, Current
<1>6. CASE ReadOpen(p)
  <2>1. proc'[p].pc = "openread" /\ proc'[p].version = source[Open]
    BY <1>1, <1>6 DEF ReadOpen, SyncInv, TypeInv, TypeOK, Working
  <2> QED BY <1>1, <1>2, <1>3, <1>4, <1>6, <2>1 DEF ReadOpen, Progressed, Due, Current, Parts
<1>7. CASE LockDay(p)
  <2>1. proc'[p].pc = "locked" /\ proc'[p].version = proc[p].version
    BY <1>1, <1>7 DEF LockDay, Goto, SyncInv, TypeInv, TypeOK, Working
  <2> QED BY <1>1, <1>2, <1>3, <1>7, <2>1 DEF LockDay, Progressed, Due, Current
<1>8. CASE Raise(p)
  <2>1. proc'[p].pc = "failing"
    BY <1>1, <1>8 DEF Raise, Goto, SyncInv, TypeInv, TypeOK, Working
  <2> QED BY <1>1, <1>2, <1>3, <2>1 DEF Progressed, Due
<1> QED BY <1>5, <1>6, <1>7, <1>8

\* What changes no run, no base and no process, but for the heartbeat.
LEMMA RestCovers ==
    ASSUME SyncInv, [Next]_vars,
           \A r \in Runs : /\ run'[r].status = run[r].status /\ run'[r].last = run[r].last
                           /\ run'[r].checkpoint = run[r].checkpoint,
           base' = base
    PROVE  CheckpointIsCovered' /\ SucceededIsComplete'
BY CoverageKept DEF CheckpointIsCovered, SucceededIsComplete

LEMMA CoverNext == SyncInv /\ [Next]_vars => CoverInv'
<1> SUFFICES ASSUME SyncInv, [Next]_vars PROVE CoverInv'
  OBVIOUS
<1>1. SourceAhead'
  BY SourceAheadNext
<1>2. ASSUME NEW p \in Processes, Step(p) \/ Raise(p) \/ Crash(p)
      PROVE  OwnersProgress' /\ CheckpointIsCovered' /\ SucceededIsComplete'
  <2>1. ASSUME CheckpointIsCovered' /\ SucceededIsComplete', AtWork(p)' /\ Guard(p)' => Progressed(p)'
        PROVE  OwnersProgress' /\ CheckpointIsCovered' /\ SucceededIsComplete'
    BY <1>2, <2>1, OthersProgress DEF OwnersProgress
  <2>2. CASE Take(p)
    BY <2>1, <2>2, TakeCovers
  <2>3. CASE WriteBatch(p) \/ WriteOpen(p)
    BY <2>1, <2>3, WriteCovers
  <2>4. CASE Checkpoint(p)
    BY <2>1, <2>4, CheckpointCovers
  <2>5. CASE Succeed(p) \/ MarkFailed(p)
    BY <2>1, <2>5, EndCovers
  <2>6. CASE ReadDay(p) \/ ReadOpen(p) \/ LockDay(p) \/ Raise(p)
    <3>1. run' = run /\ base' = base
      BY <2>6 DEF ReadDay, ReadOpen, LockDay, Raise
    <3>2. CheckpointIsCovered' /\ SucceededIsComplete'
      BY <3>1, RestCovers
    <3> QED BY <2>1, <2>6, <3>2, ReadProgress
  <2>7. CASE Launch(p) \/ Begin(p) \/ Refused(p) \/ Lose(p) \/ Crash(p)
    <3>1. run' = run /\ base' = base
      BY <2>7 DEF Launch, Begin, Refused, Lose, Crash
    <3>2. CheckpointIsCovered' /\ SucceededIsComplete'
      BY <3>1, RestCovers
    <3>3. ~ AtWork(p)'
      <4>1. CASE Begin(p)
        <5>1. proc[p] \in Starting
          BY <4>1, PcTypes DEF Begin, SyncInv, TypeInv
        <5>2. proc'[p].pc = "taking"
          BY <4>1, <5>1 DEF Begin, SyncInv, TypeInv, TypeOK, Starting
        <5> QED BY <5>2 DEF AtWork
      <4>2. CASE Launch(p)
        BY <4>2 DEF Launch, AtWork, SyncInv, TypeInv, TypeOK
      <4>3. CASE Refused(p) \/ Lose(p) \/ Crash(p)
        BY <4>3 DEF Refused, Lose, Crash, AtWork, Idle, SyncInv, TypeInv, TypeOK
      <4> QED BY <2>7, <4>1, <4>2, <4>3
    <3> QED BY <2>1, <3>2, <3>3
  <2> QED BY <1>2, <2>2, <2>3, <2>4, <2>5, <2>6, <2>7 DEF Step
<1>3. ASSUME UNCHANGED vars \/ Midnight \/ (\E d \in Parts : Edit(d)) \/ (\E r \in Runs : HourPasses(r))
      PROVE  OwnersProgress' /\ CheckpointIsCovered' /\ SucceededIsComplete'
  <2>1. UNCHANGED <<proc, base, stored>>
    BY <1>3 DEF vars, Midnight, Edit, HourPasses, bounds
  <2>2. \A r \in Runs : /\ run'[r].status = run[r].status /\ run'[r].last = run[r].last
                        /\ run'[r].checkpoint = run[r].checkpoint /\ run'[r].lease = run[r].lease
    <3>1. CASE run' = run
      BY <3>1
    <3>2. ASSUME NEW s \in Runs, run' = [run EXCEPT ![s].stale = TRUE], NEW r \in Runs
          PROVE  /\ run'[r].status = run[r].status /\ run'[r].last = run[r].last
                 /\ run'[r].checkpoint = run[r].checkpoint /\ run'[r].lease = run[r].lease
      <4>1. run[r] \in Run /\ run \in [Runs -> Run]
        BY DEF SyncInv, TypeInv, TypeOK
      <4>2. run'[r] = IF r = s THEN [run[s] EXCEPT !.stale = TRUE] ELSE run[r]
        BY <3>2, <4>1
      <4> QED BY <4>1, <4>2 DEF Run
    <3> QED BY <1>3, <3>1, <3>2 DEF vars, Midnight, Edit, HourPasses
  <2>3. \A p \in Processes : AtWork(p) => proc[p].run \in Runs
    BY AtWorkType DEF SyncInv, TypeInv, Working
  <2>4. OwnersProgress'
    BY <2>1, <2>2, <2>3
       DEF SyncInv, CoverInv, OwnersProgress, AtWork, Guard, Progressed, Due, Current
  <2> QED BY <2>1, <2>2, <2>4, RestCovers
<1> QED BY <1>1, <1>2, <1>3 DEF Next, CoverInv

LEMMA SyncInvariant == SafeSpec => []SyncInv
<1>1. Init => SyncInv
  BY TypeInit, LeaseInit, CoverInit DEF SyncInv
<1>2. SyncInv /\ [Next]_vars => SyncInv'
  BY TypeNext, LeaseNext, CoverNext DEF SyncInv
<1> QED BY <1>1, <1>2, PTL DEF SafeSpec

\* What a checkpoint or a status says is stored is stored (CheckpointIsHonest),
\* whoever wrote it and however often the run changed hands: the guard before a
\* commit leaves its holder alone with the run, so nothing it has read is overtaken.
THEOREM CheckpointsAreHonest == SafeSpec => []CheckpointIsHonest
<1>1. SyncInv => CheckpointIsHonest
  BY DEF SyncInv, CoverInv, CheckpointIsHonest
<1> QED BY <1>1, SyncInvariant, PTL

LEMMA CheckpointStep ==
    ASSUME SyncInv, [Next]_vars, NEW r \in Runs,
           run[r].status = "running", run'[r].checkpoint # run[r].checkpoint
    PROVE  run'[r].checkpoint = (IF run[r].checkpoint = NoDay THEN First(run[r].last)
                                 ELSE run[r].checkpoint + 1)
<1>1. ASSUME NEW p \in Processes, Take(p) PROVE FALSE
  <2>1. PICK s \in Runs :
            /\ IF \E u \in Runs : Resumable(u, proc[p].last) THEN Resumable(s, proc[p].last)
               ELSE Reusable(s)
            /\ run' = [u \in Runs |-> IF u = s THEN Leased(s, proc[p].last, NewToken) ELSE Expire(u)]
    BY <1>1 DEF Take
  <2>2. r = s
    BY <2>1, RunType DEF SyncInv, TypeInv
  <2>3. run[r] \in Run
    BY RunType DEF SyncInv, TypeInv
  <2>4. Resumable(r, proc[p].last)
    BY <2>1, <2>2 DEF Reusable
  <2> QED BY <2>1, <2>2, <2>3, <2>4 DEF Leased, Run
<1>2. ASSUME NEW p \in Processes,
             WriteBatch(p) \/ WriteOpen(p) \/ Succeed(p) \/ MarkFailed(p)
      PROVE  FALSE
  <2>1. AtWork(p) /\ Guard(p)
    BY <1>2 DEF WriteBatch, WriteOpen, Succeed, AllRead, MarkFailed, AtWork
  <2>2. proc[p].run \in Runs /\ run[proc[p].run] \in Run
    BY <2>1, DueDay DEF Working
  <2> DEFINE q == proc[p].run
  <2>3. \A row \in Run : [row EXCEPT !.stale = FALSE].checkpoint = row.checkpoint
    BY DEF Run
  <2>4. \A status \in {"failed", "succeeded"} :
          /\ [run[q] EXCEPT !.status = status] \in Run
          /\ [run[q] EXCEPT !.status = status].checkpoint = run[q].checkpoint
    BY <2>2 DEF Run
  <2>5. PICK row \in Run : Beat(p, row) /\ row.checkpoint = run[q].checkpoint
    BY <1>2, <2>2, <2>4 DEF WriteBatch, WriteOpen, Succeed, MarkFailed
  <2>6. run'[r].checkpoint = run[r].checkpoint
    BY <2>2, <2>3, <2>5 DEF Beat, SyncInv, TypeInv, TypeOK
  <2> QED BY <2>6
<1>3. ASSUME NEW p \in Processes, Checkpoint(p)
      PROVE  run'[r].checkpoint = Due(r)
  <2>1. AtWork(p) /\ Guard(p)
    BY <1>3 DEF Checkpoint, AtWork
  <2>2. proc[p].run \in Runs /\ run[proc[p].run] \in Run /\ proc[p].day = Due(proc[p].run)
    BY <2>1, DueDay DEF Working, Progressed
  <2> QED BY <1>3, <2>2 DEF Checkpoint, Beat, At, SyncInv, TypeInv, TypeOK, Run
<1>4. ASSUME NEW s \in Runs, HourPasses(s) PROVE FALSE
  BY <1>4 DEF HourPasses, SyncInv, TypeInv, TypeOK, Run
<1>5. run' # run
  OBVIOUS
<1> QED BY <1>1, <1>2, <1>3, <1>4, <1>5
        DEF Next, Step, vars, Launch, Begin, Refused, Lose, Crash, ReadDay, ReadOpen, LockDay, Raise,
            Midnight, Edit, Due

\* Neither documents nor checkpoints go back (NothingGoesBack): a process that
\* lost its lease finds that out before it commits.
THEOREM LateWritersAreHarmless == SafeSpec => NothingGoesBack
<1>1. SyncInv /\ [Next]_vars => [\A d \in Parts : stored'[d] >= stored[d]]_vars
  BY StoredStep
<1>2. SyncInv /\ [Next]_vars =>
         [\A r \in Runs : run[r].status = "running" /\ run'[r].checkpoint # run[r].checkpoint =>
             run'[r].checkpoint = (IF run[r].checkpoint = NoDay THEN First(run[r].last)
                                   ELSE run[r].checkpoint + 1)]_vars
  BY CheckpointStep
<1>3. SafeSpec => [][Next]_vars
  BY DEF SafeSpec
<1>4. SafeSpec => StoredNeverGoesBack
  BY <1>1, <1>3, SyncInvariant, PTL DEF StoredNeverGoesBack
<1>5. SafeSpec => CheckpointAdvances
  BY <1>2, <1>3, SyncInvariant, PTL DEF CheckpointAdvances
<1> QED BY <1>4, <1>5 DEF NothingGoesBack
=============================================================================

------------------------------ MODULE SyncLease ------------------------------
(***************************************************************************)
(* Reconciliation by date with durable checkpoints: the rows of sync_runs  *)
(* of one tenant and resource (mode "reconcile"), and the processes that a *)
(* scheduler starts to work on them.  sync_checkpoint.py gives a run to    *)
(* one process at a time; the invoice and procurement reconcilers read     *)
(* Alegra day by day under that lease.                                     *)
(*                                                                         *)
(* The documents of a day are abstracted to a version number that grows    *)
(* with every edit in Alegra; the pseudo-day Open stands for the purchase  *)
(* orders dated before the window that are still open.  A step is one      *)
(* transaction or one await.  Whether an hour passed since the heartbeat   *)
(* is a flag of the run, raised by HourPasses.                             *)
(***************************************************************************)
EXTENDS Integers

CONSTANTS Processes,   \* invocations of the reconcile commands
          Runs,        \* ids of sync_runs rows
          Tokens,      \* lease tokens, more than are ever held at once
          Resource,    \* "invoice", "bill" or "purchase_order"
          Lookback,    \* lookback_days
          FirstToday,  \* business_today() at the start
          LastToday,   \* bound: the last date of the calendar
          MaxEdits,    \* bound: edits in Alegra
          MaxErrors,   \* bound: reads that fail
          MaxCrashes,  \* bound: processes that die
          MaxStalls    \* bound: hours a live process spends without a commit

ASSUME SyncAssumption ==
    /\ Tokens \subseteq Nat \ {0}
    /\ Resource \in {"invoice", "bill", "purchase_order"}
    /\ Lookback \in Nat \ {0}
    /\ FirstToday \in Nat /\ LastToday \in Nat
    /\ Lookback <= FirstToday /\ FirstToday <= LastToday
    /\ {MaxEdits, MaxErrors, MaxCrashes, MaxStalls} \subseteq Nat

VARIABLES run,      \* the sync_runs rows
          proc,     \* the local state of each process
          today,    \* business_today()
          source,   \* Alegra's version of each day's documents
          stored,   \* the version PostgreSQL holds
          base,     \* history: base[r], the source when r was created
          healthy,  \* resource_sync_state has no last_error
          edits, errors, crashes, stalls   \* uses of the bounds

vars == <<run, proc, today, source, stored, base, healthy,
          edits, errors, crashes, stalls>>
bounds == <<edits, errors, crashes, stalls>>

-----------------------------------------------------------------------------
Open == 0
Days == 1..LastToday
Parts == Days \cup {Open}
First(t) == t - Lookback + 1

\* invoice_reconciliation commits once a day, procurement_sync every batch.
CommitsBatches == Resource # "invoice"
HasOpenPass == Resource = "purchase_order"

\* What a run of the window that ends at t has to read.
Window(t) == First(t)..t \cup (IF HasOpenPass THEN {Open} ELSE {})

NoToken == 0
NoDay == 0

Run == [status : {"none", "running", "failed", "succeeded"},
        last : 0..LastToday,            \* window_to, which fixes window_from
        checkpoint : 0..LastToday,      \* checkpoint_date, NoDay when NULL
        lease : Tokens \cup {NoToken},
        stale : BOOLEAN]                \* the heartbeat is over an hour old

NoRun == [status |-> "none", last |-> 0, checkpoint |-> NoDay,
          lease |-> NoToken, stale |-> FALSE]

Idle == [pc |-> "idle"]
Starting == [pc : {"launched", "taking"}, last : Days]
Working == [pc : {"next", "read", "locked", "written", "open", "openread", "failing"},
            run : Runs, token : Tokens, last : Days, day : 1..(LastToday + 1),
            version : 0..MaxEdits]

Init ==
    /\ run = [r \in Runs |-> NoRun]
    /\ proc = [p \in Processes |-> Idle]
    /\ today = FirstToday
    /\ source = [d \in Parts |-> 0]
    /\ stored = [d \in Parts |-> 0]
    /\ base = [r \in Runs |-> source]
    /\ healthy = TRUE
    /\ edits = 0 /\ errors = 0 /\ crashes = 0 /\ stalls = 0

-----------------------------------------------------------------------------
(* Taking a run: resume_or_start.                                          *)

\* The command starts and looks at the calendar.
Launch(p) ==
    /\ proc[p] = Idle
    /\ proc' = [proc EXCEPT ![p] = [pc |-> "launched", last |-> today]]
    /\ UNCHANGED <<run, today, source, stored, base, healthy, bounds>>

\* The advisory lock lets one process at a time past this point.
Unlocked == \A q \in Processes : proc[q].pc # "taking"

\* Mutant of Live: the cutoff of one hour is forgotten.
LiveForever(r) == run[r].status = "running"

Live(r) == run[r].status = "running" /\ ~ run[r].stale

Begin(p) ==
    /\ proc[p].pc = "launched"
    /\ Unlocked
    /\ \A r \in Runs : ~ Live(r)
    /\ proc' = [proc EXCEPT ![p].pc = "taking"]
    /\ UNCHANGED <<run, today, source, stored, base, healthy, bounds>>

\* A live run makes resume_or_start raise, and the process ends.
Refused(p) ==
    /\ proc[p].pc = "launched"
    /\ Unlocked
    /\ \E r \in Runs : Live(r)
    /\ proc' = [proc EXCEPT ![p] = Idle]
    /\ UNCHANGED <<run, today, source, stored, base, healthy, bounds>>

\* guard of the invoice reconciler keeps the row locked until the day is committed.
RowLocked(r) == \E q \in Processes : proc[q].pc = "locked" /\ proc[q].run = r

AtWork(p) == proc[p].pc \notin {"idle", "launched", "taking"}

Fresh(k) == /\ \A r \in Runs : run[r].lease # k
            /\ \A q \in Processes : AtWork(q) => proc[q].token # k

\* uuid.uuid4(): a token nobody holds.
NewToken == CHOOSE k \in Tokens : Fresh(k)

\* Mutant of Expire: the run of a dead process is left running.
ExpireNothing(r) == run[r]

\* UPDATE ... SET status='failed', lease_token=NULL WHERE status='running'
Expire(r) == IF run[r].status = "running"
             THEN [run[r] EXCEPT !.status = "failed", !.lease = NoToken]
             ELSE run[r]

Resumable(r, t) == Expire(r).status = "failed" /\ run[r].last = t

\* INSERT: nothing looks at a succeeded row again, so it may stand for a new one.
Reusable(r) == run[r].status \in {"none", "succeeded"}

Leased(r, t, k) ==
    IF Resumable(r, t)
    THEN [run[r] EXCEPT !.status = "running", !.lease = k, !.stale = FALSE]
    ELSE [status |-> "running", last |-> t, checkpoint |-> NoDay, lease |-> k, stale |-> FALSE]

\* The day after the checkpoint, or the first one.
NextDay(r, t) == IF Resumable(r, t) /\ run[r].checkpoint # NoDay
                 THEN run[r].checkpoint + 1
                 ELSE First(t)

Take(p) ==
    /\ proc[p].pc = "taking"
    /\ \E k \in Tokens : Fresh(k)   \* bound: a token is left
    /\ \A r \in Runs : run[r].status = "running" => ~ RowLocked(r)
    /\ \E r \in Runs :
          LET t == proc[p].last  k == NewToken IN
          /\ IF \E s \in Runs : Resumable(s, t) THEN Resumable(r, t) ELSE Reusable(r)
          /\ run' = [s \in Runs |-> IF s = r THEN Leased(r, t, k) ELSE Expire(s)]
          /\ base' = IF Resumable(r, t) THEN base ELSE [base EXCEPT ![r] = source]
          /\ proc' = [proc EXCEPT ![p] = [pc |-> "next", run |-> r, token |-> k, last |-> t,
                                          day |-> NextDay(r, t), version |-> 0]]
    /\ UNCHANGED <<today, source, stored, healthy, bounds>>

-----------------------------------------------------------------------------
(* Working on a run.                                                       *)

\* Mutant of Guard: any process may go on while the row is running.
GuardByStatus(p) == run[proc[p].run].status = "running"

\* guard: the row is still running under this process's token.
Guard(p) == /\ run[proc[p].run].status = "running"
            /\ run[proc[p].run].lease = proc[p].token

Goto(p, pc) == proc' = [proc EXCEPT ![p].pc = pc]

\* A commit after guard also stores the new heartbeat.
Beat(p, row) == run' = [run EXCEPT ![proc[p].run] = [row EXCEPT !.stale = FALSE]]

\* The pages of one day arrive; no transaction depends on them yet.
ReadDay(p) ==
    /\ proc[p].pc = "next"
    /\ proc[p].day <= proc[p].last
    /\ proc' = [proc EXCEPT ![p].pc = "read", ![p].version = source[proc[p].day]]
    /\ UNCHANGED <<run, today, source, stored, base, healthy, bounds>>

\* upsert_invoice behind guard, left uncommitted until the checkpoint.
LockDay(p) ==
    /\ ~ CommitsBatches
    /\ proc[p].pc = "read"
    /\ Guard(p)
    /\ Goto(p, "locked")
    /\ UNCHANGED <<run, today, source, stored, base, healthy, bounds>>

\* Mutant of WriteBatch: the last batch stays in the buffer.
WriteBatchBuffered(p) ==
    /\ CommitsBatches
    /\ proc[p].pc = "read"
    /\ Guard(p)
    /\ Goto(p, "written")
    /\ UNCHANGED <<run, today, source, stored, base, healthy, bounds>>

\* _write: guard, persist_resource_batch, commit.
WriteBatch(p) ==
    /\ CommitsBatches
    /\ proc[p].pc = "read"
    /\ Guard(p)
    /\ stored' = [stored EXCEPT ![proc[p].day] = proc[p].version]
    /\ Beat(p, run[proc[p].run])
    /\ Goto(p, "written")
    /\ UNCHANGED <<today, source, base, healthy, bounds>>

\* Mutant of At: the checkpoint names the next day to read.
AtNextDay(row, day) == [row EXCEPT !.checkpoint = day + 1]

At(row, day) == [row EXCEPT !.checkpoint = day]

\* checkpoint: guard, checkpoint_date, commit (of the day's upserts too, for invoices).
Checkpoint(p) ==
    /\ proc[p].pc \in {"locked", "written"}
    /\ Guard(p)
    /\ stored' = IF CommitsBatches THEN stored
                 ELSE [stored EXCEPT ![proc[p].day] = proc[p].version]
    /\ Beat(p, At(run[proc[p].run], proc[p].day))
    /\ proc' = [proc EXCEPT ![p].pc = "next", ![p].day = @ + 1]
    /\ UNCHANGED <<today, source, base, healthy, bounds>>

\* Only purchase orders: one more pass over everything that is still open.
ReadOpen(p) ==
    /\ HasOpenPass
    /\ proc[p].pc = "next"
    /\ proc[p].day > proc[p].last
    /\ proc' = [proc EXCEPT ![p].pc = "openread", ![p].version = source[Open]]
    /\ UNCHANGED <<run, today, source, stored, base, healthy, bounds>>

WriteOpen(p) ==
    /\ proc[p].pc = "openread"
    /\ Guard(p)
    /\ stored' = [stored EXCEPT ![Open] = proc[p].version]
    /\ Beat(p, run[proc[p].run])
    /\ Goto(p, "open")
    /\ UNCHANGED <<today, source, base, healthy, bounds>>

\* Mutant of AllRead: the last day, or the open pass, is forgotten.
AllReadEarly(p) == IF HasOpenPass THEN proc[p].pc = "next" /\ proc[p].day > proc[p].last
                   ELSE proc[p].pc = "next" /\ proc[p].day >= proc[p].last

AllRead(p) == IF HasOpenPass THEN proc[p].pc = "open"
              ELSE proc[p].pc = "next" /\ proc[p].day > proc[p].last

Succeed(p) ==
    /\ AllRead(p)
    /\ Guard(p)
    /\ Beat(p, [run[proc[p].run] EXCEPT !.status = "succeeded"])
    /\ healthy' = (CommitsBatches \/ healthy)
    /\ proc' = [proc EXCEPT ![p] = Idle]
    /\ UNCHANGED <<today, source, stored, base, bounds>>

\* A request raises while the process is reading or iterating over pages.
Raise(p) ==
    /\ proc[p].pc \in {"next", "read", "locked", "written", "openread", "open"}
    /\ errors < MaxErrors
    /\ errors' = errors + 1
    /\ Goto(p, "failing")
    /\ UNCHANGED <<run, today, source, stored, base, healthy, edits, crashes, stalls>>

\* The handler rolled back; it marks the run failed if guard still passes.
MarkFailed(p) ==
    /\ proc[p].pc = "failing"
    /\ Guard(p)
    /\ Beat(p, [run[proc[p].run] EXCEPT !.status = "failed"])
    /\ healthy' = (~ CommitsBatches /\ healthy)
    /\ proc' = [proc EXCEPT ![p] = Idle]
    /\ UNCHANGED <<today, source, stored, base, bounds>>

\* LostSyncLease: whatever the process was about to commit is rolled back.
Lose(p) ==
    /\ \/ proc[p].pc \in {"read", "locked", "written", "openread", "failing"}
       \/ proc[p].pc \in {"next", "open"} /\ AllRead(p)
    /\ ~ Guard(p)
    /\ proc' = [proc EXCEPT ![p] = Idle]
    /\ UNCHANGED <<run, today, source, stored, base, healthy, bounds>>

Crash(p) ==
    /\ proc[p] # Idle
    /\ crashes < MaxCrashes
    /\ crashes' = crashes + 1
    /\ proc' = [proc EXCEPT ![p] = Idle]
    /\ UNCHANGED <<run, today, source, stored, base, healthy, edits, errors, stalls>>

-----------------------------------------------------------------------------
(* Alegra and the calendar.                                                *)

Edit(d) ==
    /\ edits < MaxEdits
    /\ edits' = edits + 1
    /\ source' = [source EXCEPT ![d] = @ + 1]
    /\ UNCHANGED <<run, proc, today, stored, base, healthy, errors, crashes, stalls>>

Midnight ==
    /\ today < LastToday
    /\ today' = today + 1
    /\ UNCHANGED <<run, proc, source, stored, base, healthy, bounds>>

Owned(r) == \E p \in Processes :
    AtWork(p) /\ proc[p].run = r /\ proc[p].token = run[r].lease

\* An hour without a commit: what is bound to happen once the owner is dead.
HourPasses(r) ==
    /\ run[r].status = "running"
    /\ ~ run[r].stale
    /\ IF Owned(r) THEN stalls < MaxStalls /\ stalls' = stalls + 1 ELSE UNCHANGED stalls
    /\ run' = [run EXCEPT ![r].stale = TRUE]
    /\ UNCHANGED <<proc, today, source, stored, base, healthy, edits, errors, crashes>>

-----------------------------------------------------------------------------
Step(p) ==
    \/ Launch(p) \/ Begin(p) \/ Refused(p) \/ Take(p)
    \/ ReadDay(p) \/ LockDay(p) \/ WriteBatch(p) \/ Checkpoint(p)
    \/ ReadOpen(p) \/ WriteOpen(p)
    \/ Succeed(p) \/ MarkFailed(p) \/ Lose(p)

Next ==
    \/ \E p \in Processes : Step(p) \/ Raise(p) \/ Crash(p)
    \/ \E d \in Parts : Edit(d)
    \/ \E r \in Runs : HourPasses(r)
    \/ Midnight

\* The scheduler starts the command again and again, and hours pass.
Fairness ==
    /\ \A p \in Processes : WF_vars(Step(p))
    /\ \A r \in Runs : WF_vars(HourPasses(r) /\ ~ Owned(r))

SafeSpec == Init /\ [][Next]_vars
Spec == SafeSpec /\ Fairness
-----------------------------------------------------------------------------
(* Properties.                                                             *)

\* Every variable keeps its type.
TypeOK ==
    /\ run \in [Runs -> Run]
    /\ proc \in [Processes -> {Idle} \cup Starting \cup Working]
    /\ today \in FirstToday..LastToday
    /\ source \in [Parts -> 0..MaxEdits]
    /\ stored \in [Parts -> 0..MaxEdits]
    /\ base \in [Runs -> [Parts -> 0..MaxEdits]]
    /\ healthy \in BOOLEAN
    /\ edits \in 0..MaxEdits /\ errors \in 0..MaxErrors
    /\ crashes \in 0..MaxCrashes /\ stalls \in 0..MaxStalls

\* Executions of one resource do not overlap: there is one running row, and
\* one process that can still get past guard (phase-9-operational-workspace.md:121).
SingleOwner ==
    /\ \A r, s \in Runs :
          run[r].status = "running" /\ run[s].status = "running" => r = s
    /\ \A p, q \in Processes :
          AtWork(p) /\ AtWork(q) /\ Guard(p) /\ Guard(q) => p = q

\* A checkpoint is never ahead of the data: whoever resumes from it skips only
\* days whose documents, as they were when the run was created or later, are
\* in the database (checkpoint, next_day of resume_or_start).
CheckpointIsCovered ==
    \A r \in Runs : run[r].status # "none" /\ run[r].checkpoint # NoDay =>
        \A d \in First(run[r].last)..run[r].checkpoint : stored[d] >= base[r][d]

\* A succeeded run has brought in the whole window and, for purchase orders,
\* everything open, however many processes it took to finish it.
SucceededIsComplete ==
    \A r \in Runs : run[r].status = "succeeded" =>
        \A d \in Window(run[r].last) : stored[d] >= base[r][d]

\* At most one failed run waits to be resumed for a window, so the choice of
\* the latest one never leaves another behind with an older checkpoint.
OneResumable ==
    \A r, s \in Runs :
        /\ run[r].status = "failed" /\ run[s].status = "failed"
        /\ run[r].last = run[s].last
        => r = s

\* Executions exclude each other, also over time: one owner now, and one run to resume.
LeaseIsExclusive == TypeOK /\ SingleOwner /\ OneResumable

\* What a checkpoint or a status says is in the database is there, however many processes,
\* errors and crashes it took (checkpoint, resume_or_start, _run_resource).
CheckpointIsHonest == CheckpointIsCovered /\ SucceededIsComplete

\* A process that lost its lease cannot put older documents over the ones its
\* replacement has written (guard before every commit).
StoredNeverGoesBack == [][\A d \in Parts : stored'[d] >= stored[d]]_vars

\* The checkpoint of a run moves one day at a time and never back.
CheckpointAdvances ==
    [][\A r \in Runs : run[r].status = "running" /\ run'[r].checkpoint # run[r].checkpoint =>
          run'[r].checkpoint = (IF run[r].checkpoint = NoDay THEN First(run[r].last)
                                ELSE run[r].checkpoint + 1)]_vars

\* Neither documents nor checkpoints go back, whoever comes late.
NothingGoesBack == StoredNeverGoesBack /\ CheckpointAdvances

\* No run stays "running" for ever: a dead owner is found out by the next launch.
RunsEnd == \A r \in Runs : (run[r].status = "running") ~> (run[r].status # "running")

\* Reconciliation repairs whatever the webhooks missed: once Alegra is quiet,
\* the whole window ends up as Alegra has it, and stays so.
EventuallyFresh == <>[](\A d \in Window(today) : stored[d] = source[d])
=============================================================================

# Verification of the retail intelligence platform

TLA+ models of the platform's ingestion, analytics, purchasing and operational
desks, the TLC runs that check them, and proofs of their main safety properties. Paths are relative to
the repository; `services/` stands for `src/app/services/`, `domain/` for
`src/app/domain/`.

The platform copies the documents of Alegra, a cloud accounting system, into
PostgreSQL, computes from them, and writes one thing back: purchase orders.
Money and stock decisions rest on three promises: *the copy follows Alegra*,
*what is computed from the copy adds up*, and *an order is sent once*.

## 1. Inventory

### Parts that keep state

| Part | State | Operations | Works with |
| --- | --- | --- | --- |
| Webhook receiver and queue (`api/webhooks.py`, `services/event_queue.py`) | `inbound_events`: status, attempts, `available_at`, `locked_at`, `lease_token` | enqueue, claim, owns, complete, retry or fail | Alegra (webhooks, repeated), worker, operator |
| Webhook worker (`services/webhook_worker.py`) | the event it holds | claim → commit → GET → upsert → owns → complete → commit | queue, Alegra client, projections |
| Operations health (`services/operations_health.py`) | – | retry of a failed event | queue |
| Reconciliation by date (`services/sync_checkpoint.py`, `invoice_reconciliation.py`, `procurement_sync.py`) | `sync_runs`: status, checkpoint, heartbeat, lease; `resource_sync_states` | resume or start, guard, checkpoint, day by day reading | scheduler, Alegra client, projections |
| Copy of a document (`domain/batch_repository.py`, `invoice_repository.py`) | `raw_alegra_documents`, `alegra_entities`, typed tables with their lines | `persist_resource_batch`, `upsert_invoice`, `mark_resource_projection_deleted` | worker, reconcilers, backfill |
| Purchase plan (`services/procurement_planning.py`, `api/procurement.py`) | `purchase_plan_runs`, `_lines`, `_orders` | prepare, update line, approve, submit | Alegra (POST), people, inventory snapshots |
| Receiving (`services/receiving.py`) | transit rows, receipts | track, receive, resolve an uncertain order | plan orders, purchase orders |
| Alegra client (`integrations/alegra/client.py`) | rate slot, HTTP connection | GET with retries, POST without, pagination by offset | everything that reads Alegra |
| Historical backfill (`services/resource_sync.py`, `invoice_sync.py`) | `sync_runs` of mode `initial`, `resource_sync_states` | all resources at once, in batches | client, projections |
| Inventory snapshots (`services/inventory_snapshot.py`) | runs, snapshots, daily availability | capture | client, mart, planning |
| Analytics mart (`services/analytics_mart.py`, `mart_incremental.py`) | dimensions, facts, applied snapshot runs | full and incremental refresh | typed tables, snapshots |
| Sales cost allocation (`services/sales_cost_allocation.py`) | cost layers, allocations, runs | FIFO allocation of a cut-off date | mart |
| Opening inventory (`services/inventory_cost_opening.py`) | opening layers | import of a report | catalogue, allocation |
| Treasury (`services/treasury.py`) | entries, opening balances | record, post, project | – |
| Repairs (`services/repairs.py`) | orders, parts, stages | create, move, add part | invoices |

Without state of their own: read models (`analytics_queries.py`,
`product_workspace.py`), the AI copilot (`ai_agent.py`), the dashboard's session
cookies, the command line, backups, the web interface. `PROJECT.json` lists
every part with its sources and whether it is modelled.

### How they interact

```
 Alegra ──webhook──▶ receiver ─▶ inbound_events ─▶ worker ──┐
   ▲  ▲                                                     ▼
   │  └───── GET, by date ───── reconcilers (sync_runs) ─▶ raw / entities / typed rows
   │                                                         │
   │                                  mart ◀─────────────────┤
   └── POST purchase-orders ◀── plan submission ◀── planning ┘
```

All parts are processes on one PostgreSQL database (READ COMMITTED). They
exchange nothing but rows, row locks, unique constraints and lease tokens. The
API is one asyncio event loop with *synchronous* database calls: coroutines
interleave only where they await Alegra.

### What is hard

* **A lease that expires while its owner is alive.** Worker and reconciler
  await Alegra under a lease; the next claimer does not ask whether they live.
* **A crash between two commits**: after a claim, after a batch, after
  `submitting` is committed and before the answer to the POST.
* **Doubt about a POST** that timed out: the order may exist, or may yet appear.
* **Two writers of one document** that read Alegra at different times, take
  row locks in different orders and, for invoices, write different columns.
* **Lost, repeated and late webhooks**, deletions among them.
* **Counters and windows**: attempts, days of a window, midnight during a run.

* **Many statements in one READ COMMITTED transaction** (the mart): each sees
  what was committed until it starts.
* **Order of arrival**: payments before bills, certificates after their day,
  pages that shift while they are read, receipts that are sent again.

The list with source lines is `hazards` in `PROJECT.json`.

### What makes each part correct

| Part | Properties |
| --- | --- |
| Queue and worker | an acknowledged event takes effect exactly once; only the holder of the current lease ends it; it is settled in the end; a settled one is left alone |
| Reconciliation | one owner at a time; no checkpoint ahead of the data; a succeeded run is complete; old data never overwrites new; runs end; the window becomes fresh |
| Copy of a document | it ends up as Alegra has it; typed and canonical rows agree; nothing alive is hidden; a deletion that is lost, or followed by an older payload, is not repaired (finding 2) |
| Plan submission | one order per supplier; no order forgotten; what is uncertain is not sent again; the budget holds; the loop does not wait for itself |
| Snapshots and mart | what a reader sees is consistent whatever statement failed; no capture waits for a key in vain; it ends up as its sources, also when refreshes are incremental |
| Cost allocation | layers are consumed in order; cost is conserved and rows explain lines, up to the rounding of the columns (and no better: section 5); the ledger belongs to a succeeded run |
| Opening inventory | what is on record of a cutoff date is so, from certain rows; a second file opens it only through imports that overlap (finding 4) |
| Replenishment | no sale is lost to censoring; forecasts stay within what was sold; the budget adds up although freight may fall; orders are the least that do |
| Receiving | never more accepted than asked; a refused receipt was not recorded; a closed order lacks nothing unexplained |
| Client and first load | the request rate holds under concurrency; a POST is sent once; every call returns; a load that succeeded skipped no more than deletions explain |
| Treasury, repairs | money is counted once on its way from order to payment; a margin is shown over certified parts only; returns rest on delivered jobs |

## 2. Modules

| Module | Models | Proofs |
| --- | --- | --- |
| `EventInbox` | abstract specification of the queue: unseen, open, applied or failed, with a count of effects | – |
| `EventQueue` | `inbound_events`, workers, operator | `EventQueueProofs` |
| `SyncLease` | `sync_runs` and the reconcilers | `SyncLeaseProofs` |
| `Ingestion` | the copy of one document, its writers and the locks they take | `IngestionProofs` |
| `PlanSubmission` | a plan from draft to orders | `PlanSubmissionProofs` |
| `AlegraRequests` | attempts, rate slot and retries of the client | `OperationsProofs` |
| `Backfill` | the first load over shifting pages | `OperationsProofs` |
| `Mart` | captures, availability, refreshes of the mart | `MartProofs` |
| `CostLedger` | FIFO layers, allocation runs | `CostProofs` |
| `OpeningImport` | import of the opening inventory | `CostProofs` |
| `Forecasting` | training days, patterns, models of one product | `OperationsProofs` |
| `Replenishment` | lines, freight and budget of a plan | `OperationsProofs` |
| `Receiving` | receipts and tracking of one order | `OperationsProofs` |
| `Repairs` | jobs, parts, warranty returns | `OperationsProofs` |
| `Treasury` | balances, entries, projection | `OperationsProofs` |
| `Sums` | – (facts about sums and folds, for the proofs) | `Sums` |
| `MC*` | small instances for TLC; `MCAnalytics` and `MCOperations` hold several components | – |

Mutants: some modules hold operators named after a plausible mistake
(`OwnsUnchecked`, `AtNextDay`, ...). No specification uses them; put in place of
the operator they stand next to they make a property fail, which shows that the
property depends on that line of the code. `PROJECT.json` says which breaks which.

### EventQueue

`row` is the table, `worker` what each process remembers, `clock` the time that
`available_at` and `locked_at` are compared with. Actions: `Enqueue` and
`Redeliver` (`enqueue_event`, whose unique key turns a repeated payload away),
`ClaimNextEvent` (the SELECT with its order and SKIP LOCKED, and the commit),
`Process` (GET and upsert, which may raise), `Complete` and `RetryOrFail` behind
`Owns`, `Discard` for a worker that finds its token gone, `ManualRetry`,
`Crash`, `Tick`. `applied` counts how often an event's projection was committed;
`claims` numbers lease tokens. Time moves only up to the next deadline.

`StageOf` maps a row to the stage `EventInbox` sees; leases, backoff, crashes and
takeovers are stuttering. `ImplementsInbox` is checked with the fairness of the
abstract specification included.

### SyncLease

`run` is the table of one tenant and resource, `proc` each invocation of a
reconcile command. One step is one transaction or one await: `Begin`/`Refused`
(the live check), `Take` (expiry, resumption or a new row, lease),
`ReadDay`, `LockDay`/`WriteBatch` (invoices keep a row lock until the day's
commit, bills and orders commit batches), `Checkpoint`, `ReadOpen`/`WriteOpen`
(all open purchase orders, before `Succeed`), `Raise`/`MarkFailed`, `Lose`,
`Crash`. A day's documents are one version number, increased by `Edit`. `base`
remembers what Alegra had when the run was created, which is what a run
promises to bring in. An hour without a heartbeat is a flag (`HourPasses`).

### Ingestion

One document, its webhooks and its copy. EventQueue and SyncLease show that an
event or a window has one holder; here a claim is exclusive and the question is
what two *different* holders do to the same rows. A worker's transaction is
`LockEntity`, `LockHead`, `Commit`, in the order of the statements of
`persist_resource_batch`; an UPDATE that marks a deletion passes by a row that
is not committed yet, an INSERT ... ON CONFLICT waits for it (`Writes`). For
bills and purchase orders the reconciler goes the same way. For invoices it is
`upsert_invoice`: `RecSelect` loads row and raw version without a lock,
`RecClearLines` deletes the lines, and `RecUpdate` flushes the columns that
differ from what was *loaded* (`Merged`: the session is created with
`autoflush=False`, so the row is written after the lines are gone). A worker
that wants the lines while the reconciler wants the row is a deadlock that
PostgreSQL resolves against either (`WorkerIsVictim`, `RecIsVictim`).

A document is a function from columns to flags, an edit flips one: enough to
tell a row with columns of two versions from a whole one, and an edit that is
undone from one that is not. The deadline and order of the queue are left out
(EventQueue has them), and so is the backoff.

### PlanSubmission

`UpdateLine`, `Approve`, `DataMoves` (the day ends, or a newer snapshot arrives:
approval is refused then) and, per call, `Enter`, `Lock` (`SELECT ... FOR
UPDATE` of the plan), `Look` (the row of the next supplier), `Claim` (write
`submitting`, commit, send), then the POST's outcome: `OrderCreated`,
`CredentialsRejected`, `OutcomeUncertain`; `Abort` ends a call anywhere.
`wire` holds requests Alegra has not answered: it may take one (`TakeOrder`)
after its sender gave up, refuse it or lose it. `Resolve` is the operator's
answer to an uncertain order. `SameLoop` says whether all calls share one
process; if so a step of one call runs only while the others await Alegra.

### AlegraRequests and Backfill

A coroutine takes a slot of the limiter (`TakeSlot`, under the request lock),
sleeps, sends (`Send`) and gets an answer (`AnswerArrives`) or an error after which it
may retry (`Failed`, `WakeUp`). Moments are relative to now, so `Tick` needs no
bound. `done` counts what Alegra did, which an error does not tell.

`Backfill` is `run_initial_sync` over `iter_all_resource`: `ReadFirstPage`, then
`StartPages`/`ReadPage` in batches read together when the total is known, or
`ReadNextPage` until one is empty; `TakeRecord` fills a buffer that is committed
when full; `FinishSync` flushes, and inserts the state row. `EditDocuments`
creates and deletes in between, so a page is what Alegra has at that offset *now*.

### Mart

A refresh is one transaction; `mart` is what is committed, `work` what the
transaction sees. Its statements, in order, are `BeginRefresh` (advisory lock and
the test for missing dimensions), `ProjectDimensions` (two statements),
`PrepareSnapshotRuns`, `ProjectSales`, `ProjectBills`, `ProjectSnapshots`,
`ProjectDerived` and `CommitRefresh`; `FailRefresh` ends it anywhere. Each reads
`known`, `line` and `capture` as they are when it starts. A capture is
`BeginCapture`, `ReadCapture`, `CommitCapture` or `FailCapture`. `AllocateCosts`
stands for a whole allocation, which has the same lock; `CostLedger` opens it up.

### CostLedger and OpeningImport

`CostLedger` is one product: `StartRun` (the row, which supersedes others),
`BeginLedger` (the lock; layers sorted by `Fifo`), then line by line `TakeSale`,
`ConsumeLayer`, `FinishSale` (the line's cost to cents, the difference on the last
row), `TakeCreditNote` (a return reopens cost as a new layer), `CommitRun`,
`FailRun`, `DieInRun`. The lines a run meets are any sequence up to a bound,
because their order is that of dates which anyone may write.

A run computes with decimals, the tables hold `Numeric(18,2)` amounts and
`Numeric(18,4)` unit costs. Both are modelled: amounts are thousandths of a cent,
`layers` and `lines` are what the run has in memory, and `CommitRun` stores them
through `StoredLayer`, `StoredLine` and `StoredRow`, which round **every row on its
own**, as PostgreSQL does, half away from zero (`Nearest`).

`OpeningImport` is `import_xlsx`: `Look` (match and classify; refuse or answer),
`Register` (first transaction), `WriteOpening` (second), `FailImport`,
`DieImporting`. Matching is exact: `Candidates` prefers the reference. An import
carries the products it read in `Look` to `WriteOpening`, while `RefreshProducts`
may change them. Two histories serve the properties: `basis` (the products a file
was matched with) and `together` (the files of imports that were under way at once).

### Forecasting and Replenishment

Pure algorithms. `Forecasting` builds the training series (`Trained` censors days
without stock), its XYZ pattern and the six models with exact fractions. Every
history of the bound is an initial state. `Replenishment` computes a line per
product (`Verdict`, `Wanted`) and steps through the greedy loop (`Allot`, in any
order of candidates), then `Persist`; the reference definitions are
`RecommendedValue` (what the summary recomputes) and `LeastOrder`.

### Receiving, Repairs, Treasury

Handlers that lock a row for their whole transaction are one step: `Track`,
`Receive`, `Update`, `AddPart`, `CertifyBalance`, `RecordEntry`, `PostEntry`. The
warranty check of `create` reads without a lock, so it is two: `CheckWarranty`,
`InsertReturn`. Histories hold what tables do not: the most an order ever asked
for (`most`), the parts a certificate was given for (`certified`), the day money
really moved (`moved`); the properties compare the tables with them.

## 3. Runs

| Run | Question | Verdict |
| --- | --- | --- |
| `queue_safety` | Do leases fence every write, with a crash, an outlasted lease and an operator? | holds |
| `queue_refinement` | Is every acknowledged event settled, also one that always fails, and is the queue an implementation of the inbox? | holds |
| `sync_invoice` | One owner and no checkpoint ahead, one commit per day, a midnight in between? | holds |
| `sync_purchase_orders` | No checkpoint ahead with a commit per batch and the pass over open orders; do runs end and does the window become fresh? | holds |
| `plan_resend` | ... in two with refused ones? | violated (finding 1) |
| `ingestion_bill` | Do typed and canonical row agree, and is nothing alive hidden? | holds |
| `ingestion_mirror` | Does an invoice end up as Alegra has it, columns and lines? | holds |
| `ingestion_lost` | Does reconciliation repair a lost deletion? | violated (finding 2) |
| `analytics` | Is every committed state of mart, cost ledger and opening consistent, and does the mart end up as its sources? | holds |
| `mart_late_dimension` | Does every new key reach the captures that wait for it? | violated (finding 3) |
| `opening_race` | Is a second successful load of a cutoff date refused? | violated (finding 4) |
| `operations` | Do receipts, repairs, cash, forecast, plan, client and first load keep their promises? Does a plan become one order per supplier, within budget, in one API process under lost, late and refused answers, and in two with accepted credentials? | holds |

`analytics` and `operations` hold several components that share no row, or not at
the same time (a plan is prepared before it is approved and submitted). A behaviour
is about one of them, chosen in its first state (`subject`, `desk`), so that the state
space is a sum and not a product.

Properties that belong together are one conjunction with named parts, each with
its own comment: `LeaseIsExclusive` (`SingleOwner`, `OneResumable`),
`CheckpointIsHonest` (`CheckpointIsCovered`, `SucceededIsComplete`),
`NothingGoesBack` (`StoredNeverGoesBack`, `CheckpointAdvances`), `MartAgrees`
(`LedgerIsHonest`, `StatsFollowPurchases`, `CapturesAreCounted`),
`RefreshLosesNothing` (`NewKeysReachCaptures`, `RefreshKeepsCosts`),
`LayersAreConsumed` (`LayersBalance`, `FirstInFirstOut`), `CostsAddUp`
(`CostIsConserved`, `RowsExplainLines`, `LedgerHasItsRun`), `OpeningIsCertain`
(`FileOpensOnce`, `RecordIsTrue`, `SecondOpeningIsARace`, `BalancesAreCertain`), `ReceiptsAreKept`
(`NeverMoreThanAsked`, `RefusedMeansNothing`, `NothingPendingUnexplained`),
`RepairsAreTrue` (`MarginIsCertified`, `DeliveryIsDated`, `ReturnsAreBacked`),
`CashIsTrue` (`ReconstructedIsTrue`, `PromisesCountOnce`), `PlanIsSound`
(`BudgetAddsUp`, `OrdersAreLeast`), `RequestsAreSafe` (`SlotsKeepTheInterval`,
`PostsHappenOnce`), `LoadIsComplete` (`FullSyncIsFull`, `SkipsAreBounded`).

### Bounds, and why they are enough

* *Queue*: two workers and two events, one malformed, two attempts, lease and
  backoff of one tick. A violation of fencing needs two holders of one
  event; a third repeats one of them. The second event is there for the order of
  the queue. Each of crash, outlasted lease and revival happens once:
  together they are enough for a takeover of a takeover. `queue_refinement` has
  no outlasted lease: a crash leaves the same row to take over. The proofs,
  the safety part of the refinement among them, lift all these bounds.
* *Reconciliation*: two processes and two rows (a process that finds both in use
  cannot create one, so a third run is out of sight), a window of two days that
  moves by one, one edit, error, crash and, in `sync_invoice`, slow hour: a live
  owner that loses its run is the question of that run, a dead one of both. A
  lease takes a token that no row and no process holds (`Fresh`), as a UUID is; four
  are more than are ever held, so `Take` never lacks one. A window of two is the least in which a checkpoint can be
  inside; one midnight gives two windows that overlap.
* *Ingestion*: three changes, since the hardest case needs an edit of each of two
  columns and one undone; one or two workers beside the reconciler; one lost
  webhook, one crash. `ingestion_mirror` has one worker and one attempt per
  event (so that any failed request loses the event); `ingestion_bill` has two
  workers and retries. Symmetry is used in the safety runs only.
* *Plan*: three suppliers of which the budget admits two, two calls, one death,
  two refusals. Two calls on two suppliers are what check-then-act needs; with
  three the loop over suppliers releases its lock twice.
* *Mart*: one product, warehouse, sale and bill, edited twice; two captures, which
  is what an overlap needs; every member may arrive late; one failure. Behaviours
  are about documents or about captures, whose tables share only dimension keys.
* *Cost*: three layers of 1.4, 2.3 and 0.7 cents a unit (opening and purchase of one
  day, a later purchase of two units), sales of three units and returns of one,
  three lines: a sale spans three layers, so that two rows are rounded by their column
  and one is corrected, and its costs are on either side of half a cent; a layer
  ends inside a sale; a return comes back. Two runs, for supersession.
* *Opening*: two files and two processes, which is what a race of files needs; two
  products that share a reference, any subset of which may be there, and may
  change while an import is under way.
* *Receiving*: one line whose item may change, two clients, two edits.
* *Repairs*: two jobs (a job and its return), one part, two days.
* *Treasury*: an entry each way, a bill, an invoice, one order, three days and two
  weeks of one day, so that things fall due inside and outside the horizon.
* *Forecast and plan*: every history of four days with up to two units; three
  products from nine inputs chosen so that each verdict and each freight case occurs.
* *Client*: a GET and a POST, three attempts, a slot interval of two ticks.
* *First load*: at most five documents, two deletions, pages and batches of two.

### Fairness

* Queue: each worker's next step, because `process_webhooks` polls for ever and
  its service is restarted; and time. Alegra need not send, nobody need act.
* Reconciliation: each process's next step, where launching again is a step
  (the scheduler starts the command every few hours); and an hour passes over a
  run whose owner is gone. The hour of a live owner is not forced.
* Ingestion: a webhook arrives or is lost; workers and reconcilers go on. An
  event that fails for good and a webhook that is lost are allowed, so only the
  reconciler makes `Mirrors` true.
* Mart (`MirroredInTheEnd`): statements of a refresh go on and refreshes are begun
  again, as cron does every four hours (weak fairness); the allocation, which is
  started after them and finds the lock free again and again, strongly.
  Failures are bounded, so that some refresh commits in the end.
* Client (`EveryCallReturns`): time passes, and a coroutine that can run is run;
  Alegra answers or the request times out. First load (`SyncEnds`): the
  coroutine goes on; it need not die nor survive.

No liveness is claimed for plans and desks: a person acts.

## 4. Proofs

`tlapm` proves the following for every value of the constants that meets the
module's ASSUME.

**EventQueueProofs.** `TypeCorrect`, `Fencing`, `EffectsExactlyOnce`,
`AttemptsBounded`, `HolderFinishes`, and `ImplementsInboxSafely`: every behaviour
is a behaviour of `EventInbox` without its fairness. `FenceInv` is not
inductive alone: that tokens are fresh has to be known, hence `TokenInv` (no row
and no worker has a token above the number of claims of the event) and
`OwnershipInv`, which joins it with types, fencing and the count of effects. The
bound of attempts needs its own invariant, `BudgetInv`: attempts in progress and
those taken over are counted separately.

**PlanSubmissionProofs.** `PlanTypeCorrect`, and for `SameLoop`
`OneOrderPerSupplier`, `NoOrderIsOrphan`, `UncertainStaysUnsent`,
`LinksAreStable`. The inductive invariant `SubmissionInv` follows a request
from the row to the wire and back. A call between its lock and its POST is alone
(`OneRuns`), so what it saw still holds (`SeenHolds`); a POST under way or a
request on the wire keeps the row in `submitting` or `unknown`, or linked
(`PostBlocks`, `WireBlocks`), and there is one of each (`OnePost`,
`OneRequest`); a row that may be sent again has no order in Alegra
(`ResendableIsNew`), because a refusal is final (`RefusalIsFinal`). Each was
needed by the step of `Claim`: without one of them two requests for a supplier
cannot be ruled out. The assumption `SameLoop` is necessary: finding 1.

**IngestionProofs.** `IngestionTypeCorrect` and `OnlyTheGoneIsHidden` for both
kinds of documents, `TypedRowFollows` where every writer is
`persist_resource_batch`. `IngestionInv` adds to the property that a worker
holds an event that was sent, that an event of deletion is of a deletion that
took place, and that rows a deletion found are there; `BatchInv` adds that a
deletion that found the canonical row finds the typed one, which holds because
both are committed together and neither is ever removed.

**SyncLeaseProofs.** `SyncTypeCorrect`, `LeasesExclude`, `CheckpointsAreHonest`,
`LateWritersAreHarmless`, for the three kinds of reconcilers at once. `SyncInv`
joins `LeaseInv` (one running row; the tokens of processes at work differ; at
most one row of a window is running or resumable) with `CoverInv`. That a
checkpoint is covered is not inductive: one has to know that neither the database
nor a run's promise is ahead of Alegra (`SourceAhead`), so that what is read is
current, and that it stays so for the process whose guard still passes
(`OwnersProgress`): anyone else who read earlier cannot commit.

**MartProofs.** `MartStaysConsistent` and `RefreshesLoseNothing`. `MartInv` says
what the statements of a refresh have done so far, as a function of where it is
(`WorkFollows`); that the ledger is honest also before the commit
(`LedgersAreHonest`); and that a refresh which found a dimension missing leaves
no unresolved capture aside (`Waiters`). `CapturesSample` says whom an availability
statement could see, `LinesExist` that a line which is there has a version.

**CostProofs.** `LayersAlwaysConsumed`: while a sale is open, the layers before the
one it is at have nothing left, or it asks for nothing more (`SaleTakesInOrder`);
that and types give the order. `LedgerAlwaysAddsUp` is about the stored rows, and so
has tolerances. In memory everything is exact (`LedgerInv`): cost is conserved
(`Conserved`), where the open sale has cost in neither layers nor lines yet
(`OpenCogs`), and what a sale took and still asks for is its quantity
(`SaleAddsUp`), so that the rows of a line add up to its cost in cents
(`Explained`). A commit rounds each row, which moves it by at most half a cent;
the sum of rows then moves by at most half a cent for each (lemma `SumClose`),
which gives `Kept` (cost is conserved) and `Shown` (rows explain lines) of the
ledger. The run whose ledger is in force is over (`RunIsOver`), so that
no later failure or death changes what its row says.
`OpeningStaysCertain`: `WriteOpening` does not look again, so its guard says nothing of
what was loaded since `Look`. Hence `OverlapInv`: if a file was loaded while an
import of another is under way, the two files, or one of them with itself, were
imported together (`Raced`), since otherwise `Look` would have refused. `RowsInv`: balances are
the rows of the file matched with the products its import read (`basis`), whatever
the catalogue is by now.

**OperationsProofs.** One section for each desk; none uses another's.

* `RequestsStaySafe`: the limiter is an interval ahead of every slot it gave out
  (`LimiterIsAhead`), and a POST has one attempt (`SentOnce`).
* `RepairsStayTrue`: the job read by a warranty check is still delivered, with its
  serial, when the return is inserted (`IntakeIsBacked`), since neither can be
  undone; and `CertificatesHold`, also before delivery.
* `ReceiptsStayKept`: what a line asks for now is at most the most it ever asked for
  (`AskedIsRecorded`); what is received of it is bounded by that (`UnitsAreAsked`); a
  receipt is checked and added in one transaction under the lock of the order's
  row in `purchase_orders`, so the sum it was checked against is the sum it adds to.
* `PlanStaysSound`: the loop's running totals, per supplier and overall, are what
  the bought lines add up to with the freight of their suppliers (`LoopAddsUp`). A
  line adds its value and the *change* of its supplier's freight, which may be
  negative; that the sum over suppliers moves by just that is the lemma needed.
* `CashStaysTrue`: tables say of each movement what happened (`TablesAreTrue`), and a
  balance certified after its day is the bank's of that day for good, whatever is
  posted later (`LateIsTrue`). What moved from that day on is then a sum over sets that
  do not meet. Each promised movement is due in exactly one week, so the weekly sums of
  the projection are the sum over classes (`SumClasses`).
* `LoadStaysComplete`: `Missed` are the documents of the beginning that Alegra still
  has and no page still to be read can bring. A deletion moves every later document
  one place down, so for each page of the batch under way at most the one at its
  head slips past: `Missed` is at most deletions times concurrency, and the total
  of the first page stays an upper bound of ranks (`WithinTotal`).
* `ForecastsStaySound`: training days are numbered by how many come before, which is
  a bijection, so the series sums to the calendar, censored days adding nothing.
  Every model is a fraction between 0 and the best day: means by the sum, ewma,
  Croston and TSB because smoothing does not leave such a set (`SmoothStays`), Croston
  also because its interval never gets below a day (`Intervals`).

**PlanSubmissionProofs**, further: `SpendingStaysWithinBudget`, since every order under
way or in Alegra is of a line approved together within the budget (`BudgetInv`);
and `TheLoopNeverWaits`, `OneLoopNeverWaits`: a call that has the row lock is past its
SELECT and before its commit (`LockHeld`), so with `OneRuns` none can wait for it in
the same loop. Across processes, where the lock of the
plan is gone after the first commit, one order each still holds as long as Alegra
refuses nothing: `ProcessesSendOnce` and `ProcessesLeaveUncertain`. What a call saw
may be old there, but then it saw no row (`SeenWasNew`), so it inserts, and the unique
constraint on plan and supplier lets one insert through (`UnrefusedInv`). A refusal is
what makes a row resendable: with one, the run `plan_resend` finds the second order
(finding 1).

**EventQueueProofs**, further: `SettledStays`, since whoever settles an event holds its
token, and then the event is in progress.

**Sums.** What `MapThenSumSet`, `FoldLeft` and a recursive function compute is
chosen for an equation; that there is a solution, and what it gives, is
induction. The library's theorem of induction takes an operator, which the provers
cannot instantiate; `Induction` and `SubsetInduction` take a *set* of numbers or of
subsets instead, and come from the least element of a set of numbers
(`LeastElement`, from the library's well-foundedness of Nat). From them: a sum can be
split, changed at a point, compared, bounded by how close its members are to those
of another, counted by classes and renumbered, and a fold stays in a set that its step does not leave (`FoldsExist`, `FoldStays`).

The assumptions on constants are those of the modules' ASSUMEs: tables are finite,
amounts and quantities are integers, names of different kinds differ, bounds are
naturals, a page, a pack and a week are not empty. TLC evaluates them in the runs.

**Only model-checked**: liveness (`EventuallySettled`, `RunsEnd`,
`EventuallyFresh`, `Mirrors`, `MirroredInTheEnd`, `EveryCallReturns`, `SyncEnds`)
and the fairness in `ImplementsInbox`, which are out of the prover's reach. Every safety invariant and action property of the runs is
proved.

## 5. Findings

1. **A second order from two processes** (`plan_resend`). The README says each
   POST carries an idempotency key; `request_hash` is stored but not sent. When
   two API processes resubmit a plan whose orders were refused (401/403), the
   UPDATE of the rejected row looks at nothing but its id, and both POST.
2. **Lost deletions stay lost** (`ingestion_lost`). Reconciliation upserts what
   is listed and never looks for what is not, so the document stays active. The
   same happens when no webhook is lost: every upsert clears `is_deleted`
   whatever the age of the payload, so a reconciler that read its page before the
   deletion brings the document back after it was processed.

3. **A late dimension leaves captures behind** (`mart_late_dimension`). Whether
   dimensions changed is computed before the statements that insert them. A
   product committed in between gets its key in this refresh, which takes
   the dimensions for unchanged, and is missing in no later one; the captures that
   wait for it stay unresolved until another key appears or a full refresh. The
   phase 4 document says they are reviewed when new keys appear.
4. **Two files open one cutoff date** (`opening_race`). The phase 6 document says
   another successful load is refused so that there are never two opening balances.
   An import looks for one before it registers its own run, nothing locks the date,
   and the transaction that writes does not look again, so two different files
   imported at once both succeed. Overlap is the only way
   (`SecondOpeningIsARace`, proved). The same overlap of two retries of one failed
   file can leave its layers under a run that is marked failed.

Things to know that no run is spent on: the docstring of the allocation
(`sales_cost_allocation.py:71-74`) says that a margin can be explained back by the
retained segments, but they **do not always add up to their line**: the last
segment is given the rounded cost of the line less the *unrounded* amounts of the others
(`:551-556`), and the column then rounds each on its own, so that 1.4, 2.3 and 0.7
cents are kept as 1 + 2 + 0 under a line of 4 (the layers and the sale of the run
`analytics`). What holds, and is proved, is half a cent for each row
(`RowsExplainLines`); `analytics_queries.py` sums rows at line 361 and lines at
line 228. Only `retry_or_fail_event` compares
`attempt_count` with the limit, so an attempt that ends with the death of its
worker is followed by another, and an event can be attempted more than the eight
times of the phase 2 document (`RetryBudget` is the bound that holds);
`upsert_invoice` never writes `alegra_entities`, so for invoices that table is
not the canonical state the phase 4 document calls it, and `ProjectionFollows`
holds for the documents of `persist_resource_batch` only.

Observations that contradict no documentation: between an overlapping worker and
`upsert_invoice` an invoice can have columns, hash and lines of different
versions until the next reconciliation (`Mirrors` shows that it is repaired, and
the mutant `MergedUnlessSame` that a shortcut on an unchanged hash would end
that); for bills too `alegra_entities` can miss a deletion that the typed row
has, when the document is inserted between the two UPDATEs; an answer that
fails late can put `unknown` on a row an operator has linked already (the link is
kept, `LinkIsStable`); and `resolve` may close a plan before a supplier whose
POST was not tried yet, which a further submission still sends.

Mart and costs:
* overlapping captures lose each other's availability sample until the next
  capture of the day (`CapturesAreCounted` is what holds);
* a date committed between the dimension and the fact statements fails the
  refresh by a foreign key; the next one succeeds (`FailRefresh`);
* between a refresh and the next allocation a changed sale keeps its old cost;
* an opening import whose process died stays `running` and its file is answered with it
  for ever;
* products that change between the matching and the writing of an import are not
  looked at again (`BalancesAreCertain` is about the products that were read);
* a sale may consume a layer opened after it, if layers run out.

Purchases and client:
* each process has a rate limiter of its own, so the budget of a credential is
  that of one process;
* unreadable JSON after a POST raises a permanent error although Alegra may have done it;
* orders submitted with unknown result are not in transit, so the next plan may
  propose them again; units accepted but not billed are in neither transit nor stock;
* one deletion can hide as many documents from a first load as pages are read
  together (`SkipsAreBounded`); the insert of its state row can collide and mark a
  complete run failed; a dead one stays `running`;
* the greedy loop looks at a line once: freight that becomes free later brings
  no deferred line back.

Desks:
* `post_entry` dates by today, so an entry posted late may count twice with a
  balance certified in between; posting a planned entry on the day of a balance
  that already has it drops it (`Treasury` takes people to post on the day and a
  baseline to be certified after its day: `Closed`);
* between the webhooks of a payment and of its bill the bill counts twice
  (`CaughtUp`);
* correcting a delivered job may move its date so that a return lies outside the warranty;
* `add_part` refuses a replay after the job is closed, while `receive` answers it;
* check-then-insert of entries, repairs and receipts can end in a primary key
  error: a failed request, no harm to the state.

## 6. Not modelled

* Read models (`analytics_queries.py`, `product_workspace.py`, reports): SQL that
  changes no state and whose meaning is its text. The AI copilot asks them on
  behalf of an external model. Dashboard, cookies, configuration, web interface,
  backups: plumbing or I/O.
* Parsing of payloads and spreadsheets, the mapping of fields to columns: data.
* In `procurement_planning.py`: the backtest that picks a model, the quantiles
  behind safety stock, the data quality test and the SQL that collects inputs; they
  are inputs of `Forecasting` and `Replenishment`.
* `resource_sync_states` beyond what `Backfill` and `SyncLease` need.
* Commands of `cli.py` that call one service once; repair tools among them.
* Several tenants: every statement is filtered by tenant, one is modelled.
* Documents in groups: locks of two documents taken in opposite orders by two
  batches are not in `Ingestion`, which has one document.

Every hazard in `PROJECT.json` has a property. Four smaller ones are known and
not listed, since no property covers them: the race of two first runs for a state row (`procurement_sync.py:181`), the
status that `resolve` gives a plan (`receiving.py:215`), a dead first load that
nothing ends (`resource_sync.py:55`), and a freshness test that may pass
while a sync is under way (`procurement_planning.py:217`).

## 7. Plan

1. Documents in groups in `Ingestion`: two batches with two documents, lock order.
2. `PlanSubmission` with `Receiving`: transit computed from orders of uncertain
   result, and the next plan that sees it.
3. An abstract specification of a refresh (the whole mart replaced in one step)
   with `Mart` as its implementation; the one place where it differs is finding 3.
4. Proofs: `SlotsKeepTheInterval` with
   the limiter of several processes.

------------------------------- MODULE Mart --------------------------------
(***************************************************************************)
(* The analytics mart: what inventory captures, the incremental refresh    *)
(* and the cost allocation do to the tables the dashboard reads.           *)
(*                                                                         *)
(* A refresh is one transaction of many statements at READ COMMITTED, so   *)
(* every statement sees what captures and the ingestion have committed in  *)
(* the meantime; only its own writes wait for the commit.  The advisory    *)
(* lock of the tenant keeps refreshes and allocations apart: a run that    *)
(* waits for it has read nothing yet.  A document line is its version, a   *)
(* capture the pairs of product and warehouse it found; contacts, sellers  *)
(* and dates are dimensions that no shortcut depends on.                   *)
(***************************************************************************)
EXTENDS Integers, FiniteSets

CONSTANTS
    Products, Warehouses,   \* Alegra ids of catalogue items and warehouses
    SaleLines, BillLines,   \* lines of sales documents and of purchase bills
    Captures,               \* runs of snapshot-inventory within one day
    NoRow, NoKey,           \* no row in a table; a NULL dimension key
    MaxVersion,             \* bound on the edits of one line
    MaxArrivals,            \* bound on catalogue rows that arrive later
    MaxFailures             \* bound on refreshes that fail or die

Members == Products \cup Warehouses
Lines == SaleLines \cup BillLines
Source == [present : BOOLEAN, product : Products \cup {NoKey}, version : 0 .. MaxVersion]
NoLine == [present |-> FALSE, product |-> NoKey, version |-> 0]
Fact == [product : Products, version : 1 .. MaxVersion, key : Products \cup {NoKey}]

ASSUME MartAssumption ==
    /\ NoRow \notin Fact /\ SaleLines \cap BillLines = {}
    /\ MaxVersion \in Nat /\ MaxFailures \in Nat

VARIABLES
    known,          \* catalog_items and warehouses that the ingestion committed
    line,           \* the operational tables of documents
    capture,        \* inventory_snapshot_runs with their inventory_snapshots
    availability,   \* the captures product_daily_availability counts
    mart,           \* the committed mart
    work,           \* the mart as the refresh in progress sees it
    refresh,        \* that refresh: where it is and what it remembers
    failures

martVars == <<known, line, capture, availability, mart, work, refresh, failures>>

EmptyMart ==
    [keys |-> {}, fact |-> [l \in Lines |-> NoRow], cost |-> [l \in SaleLines |-> 0],
     shot |-> [c \in Captures |-> {}], ledger |-> [c \in Captures |-> "none"], stats |-> {}]

Resting == [pc |-> "idle", full |-> FALSE, changed |-> FALSE, pending |-> {}, purchases |-> FALSE]

NoCapture == [status |-> "none", rows |-> {}, sampled |-> {}]

MartInit ==
    /\ known \in SUBSET Members
    /\ Cardinality(Members \ known) <= MaxArrivals
    /\ line = [l \in Lines |-> NoLine]
    /\ capture = [c \in Captures |-> NoCapture]
    /\ availability = {}
    /\ mart = EmptyMart
    /\ work = EmptyMart
    /\ refresh = Resting
    /\ failures = 0

----------------------------------------------------------------------------
(* Ingestion, as far as the mart can tell: rows appear and lines change.   *)

Arrive(m) ==
    /\ m \notin known
    /\ known' = known \cup {m}
    /\ UNCHANGED <<line, capture, availability, mart, work, refresh, failures>>

\* A webhook or a reconciler writes, repairs or removes a line.
EditLine(l) ==
    /\ line[l].version < MaxVersion
    /\ \/ \E p \in Products :
             line' = [line EXCEPT ![l] = [present |-> TRUE, product |-> p, version |-> @.version + 1]]
       \/ /\ line[l].present
          /\ line' = [line EXCEPT ![l].present = FALSE, ![l].version = @ + 1]
    /\ UNCHANGED <<known, capture, availability, mart, work, refresh, failures>>

----------------------------------------------------------------------------
(* InventorySnapshotService.capture                                        *)

Succeeded == {c \in Captures : capture[c].status = "succeeded"}

\* The row of the run is committed before anything is read.
BeginCapture(c) ==
    /\ capture[c].status = "none"
    /\ capture' = [capture EXCEPT ![c].status = "running"]
    /\ UNCHANGED <<known, line, availability, mart, work, refresh, failures>>

\* The statement counts the captures that are committed and its own.
Sampled(c) == Succeeded \cup {c}

\* What Alegra may answer: the items of each warehouse that have a stock there, once each.
Answers(warehouses) == SUBSET (Products \X warehouses)

\* The pages of each active warehouse, and the availability statement.
ReadCapture(c) ==
    /\ capture[c].status = "running"
    /\ known \cap Warehouses # {}
    /\ \E rows \in Answers(known \cap Warehouses) :
          capture' = [capture EXCEPT ![c].status = "written", ![c].rows = rows,
                                     ![c].sampled = Sampled(c)]
    /\ UNCHANGED <<known, line, availability, mart, work, refresh, failures>>

CommitCapture(c) ==
    /\ capture[c].status = "written"
    /\ capture' = [capture EXCEPT ![c].status = "succeeded"]
    /\ availability' = capture[c].sampled
    /\ UNCHANGED <<known, line, mart, work, refresh, failures>>

\* No active warehouse, an error of Alegra or of the database: nothing is kept.
FailCapture(c) ==
    /\ capture[c].status \in {"running", "written"}
    /\ failures < MaxFailures
    /\ failures' = failures + 1
    /\ capture' = [capture EXCEPT ![c] = [NoCapture EXCEPT !.status = "failed"]]
    /\ UNCHANGED <<known, line, availability, mart, work, refresh>>

----------------------------------------------------------------------------
(* AnalyticsMartService.refresh                                            *)

Goto(pc) == refresh' = [refresh EXCEPT !.pc = pc]

\* Rows of the operational tables that no dimension has yet.
Missing(keys) == known \ keys

BeginRefresh ==
    /\ refresh.pc = "idle"
    /\ \E full \in BOOLEAN :
          refresh' = [Resting EXCEPT !.pc = "dimensions", !.full = full,
                                     !.changed = Missing(mart.keys) # {}]
    /\ UNCHANGED <<known, line, capture, availability, mart, work, failures>>

\* The statements over dim_product, dim_contact, dim_seller and dim_warehouse.
ProjectDimensions ==
    /\ \/ refresh.pc = "dimensions" /\ Goto("warehouses")
          /\ work' = [work EXCEPT !.keys = @ \cup (known \cap Products)]
       \/ refresh.pc = "warehouses" /\ Goto("pending")
          /\ work' = [work EXCEPT !.keys = @ \cup (known \cap Warehouses)]
    /\ UNCHANGED <<known, line, capture, availability, mart, failures>>

Pending ==
    {c \in Succeeded : \/ work.ledger[c] = "none"
                       \/ refresh.full
                       \/ refresh.changed /\ work.ledger[c] = "unresolved"}

PrepareSnapshotRuns ==
    /\ refresh.pc = "pending"
    /\ refresh' = [refresh EXCEPT !.pc = "sales", !.pending = Pending]
    /\ UNCHANGED <<known, line, capture, availability, mart, work, failures>>

\* The typed projection of a line, with the key of its product or NULL.
Projected(l, keys) ==
    IF ~line[l].present THEN NoRow
    ELSE [product |-> line[l].product, version |-> line[l].version,
          key |-> IF line[l].product \in keys THEN line[l].product ELSE NoKey]

\* Mutant of ProjectLines: rows without a source line are not deleted.
ProjectLinesKept(rows) ==
    [l \in Lines |-> IF l \in rows /\ line[l].present THEN Projected(l, work.keys)
                                                      ELSE work.fact[l]]

\* DELETE what has no source line, INSERT or UPDATE what differs.
ProjectLines(rows) ==
    [l \in Lines |-> IF l \in rows THEN Projected(l, work.keys) ELSE work.fact[l]]

\* Mutant of Enriched: the projection writes its NULL costs over changed rows too.
EnrichedReset(fact) ==
    [l \in SaleLines |-> IF fact[l] # work.fact[l] THEN 0 ELSE work.cost[l]]

\* The costs stay with a row through an update and go with it when it is deleted.
Enriched(fact) ==
    [l \in SaleLines |-> IF fact[l] = NoRow \/ work.fact[l] = NoRow THEN 0 ELSE work.cost[l]]

ProjectSales ==
    /\ refresh.pc = "sales"
    /\ LET fact == ProjectLines(SaleLines) IN
          work' = [work EXCEPT !.fact = fact, !.cost = Enriched(fact)]
    /\ Goto("bills")
    /\ UNCHANGED <<known, line, capture, availability, mart, failures>>

ProjectBills ==
    /\ refresh.pc = "bills"
    /\ LET fact == ProjectLines(BillLines) IN
          /\ work' = [work EXCEPT !.fact = fact]
          /\ refresh' = [refresh EXCEPT !.pc = "snapshots", !.purchases = fact # work.fact]
    /\ UNCHANGED <<known, line, capture, availability, mart, failures>>

Referenced(c) == UNION {{row[1], row[2]} : row \in capture[c].rows}

\* Mutant of Unresolved: a capture counts as resolved once all its products are.
UnresolvedProducts(c) == (Referenced(c) \cap Products) \ work.keys # {}

Unresolved(c) == Referenced(c) \ work.keys # {}

\* Pending captures whose rows differ are written again, and the ledger with them.
ProjectSnapshots ==
    /\ refresh.pc = "snapshots"
    /\ work' = [work EXCEPT
          !.shot = [c \in Captures |-> IF c \in refresh.pending THEN Referenced(c) \cap work.keys
                                                                ELSE @[c]],
          !.ledger = [c \in Captures |->
                         IF c \notin refresh.pending THEN @[c]
                         ELSE IF Unresolved(c) THEN "unresolved" ELSE "complete"]]
    /\ Goto("derived")
    /\ UNCHANGED <<known, line, capture, availability, mart, failures>>

\* Purchase lines that count for product_supplier_modes and supplier_product_stats.
Ranked(fact) == {<<l, fact[l]>> : l \in {b \in BillLines : fact[b] # NoRow /\ fact[b].key # NoKey}}

Stale == refresh.purchases \/ refresh.full

ProjectDerived ==
    /\ refresh.pc = "derived"
    /\ work' = IF Stale THEN [work EXCEPT !.stats = Ranked(work.fact)] ELSE work
    /\ Goto("commit")
    /\ UNCHANGED <<known, line, capture, availability, mart, failures>>

CommitRefresh ==
    /\ refresh.pc = "commit"
    /\ mart' = work
    /\ refresh' = Resting
    /\ UNCHANGED <<known, line, capture, availability, work, failures>>

\* An exception, or the death of the cron process: PostgreSQL rolls all of it back.
FailRefresh ==
    /\ refresh.pc # "idle"
    /\ failures < MaxFailures
    /\ failures' = failures + 1
    /\ work' = mart
    /\ refresh' = Resting
    /\ UNCHANGED <<known, line, capture, availability, mart>>

----------------------------------------------------------------------------
(* HistoricalSalesCostService.allocate at the grain of the mart: costs are *)
(* reset and written again from the lines of the facts, under the same     *)
(* advisory lock.  CostLedger has the allocation itself.                   *)

AllocateCosts ==
    /\ refresh.pc = "idle"
    /\ mart' = [mart EXCEPT !.cost = [l \in SaleLines |->
                   IF mart.fact[l] = NoRow THEN 0 ELSE mart.fact[l].version]]
    /\ work' = mart'
    /\ UNCHANGED <<known, line, capture, availability, refresh, failures>>

RefreshStep ==
    ProjectDimensions \/ PrepareSnapshotRuns \/ ProjectSales \/ ProjectBills
        \/ ProjectSnapshots \/ ProjectDerived \/ CommitRefresh

MartNext ==
    \/ \E m \in Members : Arrive(m)
    \/ \E l \in Lines : EditLine(l)
    \/ \E c \in Captures : BeginCapture(c) \/ ReadCapture(c) \/ CommitCapture(c) \/ FailCapture(c)
    \/ BeginRefresh \/ RefreshStep \/ FailRefresh \/ AllocateCosts

MartSpec == MartInit /\ [][MartNext]_martVars

\* Cron starts a refresh every four hours, and the allocation after it.
MartFairness ==
    /\ WF_martVars(RefreshStep)
    /\ WF_martVars(BeginRefresh)
    /\ SF_martVars(AllocateCosts)

FairMartSpec == MartSpec /\ MartFairness

----------------------------------------------------------------------------
(* Type correctness: every table holds rows of its own shape.              *)

MartRecord == [keys : SUBSET Members, fact : [Lines -> Fact \cup {NoRow}],
               cost : [SaleLines -> 0 .. MaxVersion], shot : [Captures -> SUBSET Members],
               ledger : [Captures -> {"none", "unresolved", "complete"}],
               stats : SUBSET (BillLines \X Fact)]

MartTypeOK ==
    /\ known \in SUBSET Members
    /\ line \in [Lines -> Source]
    /\ capture \in [Captures -> [status : {"none", "running", "written", "succeeded", "failed"},
                                 rows : SUBSET (Products \X Warehouses),
                                 sampled : SUBSET Captures]]
    /\ availability \in SUBSET Captures
    /\ mart \in MartRecord
    /\ work \in MartRecord
    /\ refresh \in [pc : {"idle", "dimensions", "warehouses", "pending", "sales", "bills",
                          "snapshots", "derived", "commit"},
                    full : BOOLEAN, changed : BOOLEAN, pending : SUBSET Captures,
                    purchases : BOOLEAN]
    /\ failures \in 0 .. MaxFailures

\* The completion ledger tells the truth about committed facts: a capture that is listed as
\* complete has all its keys, one listed as unresolved lacks some, and one that is not listed
\* has no facts, whatever failed in between (mart_inventory_snapshot_runs).
LedgerIsHonest ==
    \A c \in Captures :
        /\ mart.ledger[c] = "none" => mart.shot[c] = {}
        /\ mart.ledger[c] = "complete" => mart.shot[c] = Referenced(c)
        /\ mart.ledger[c] = "unresolved" => mart.shot[c] # Referenced(c)

\* A reader of the mart never sees supplier statistics of other purchase facts than the
\* committed ones, although they are rebuilt only when purchases changed.
StatsFollowPurchases == mart.stats = Ranked(mart.fact)

\* A capture that availability does not count lost its place to one that was written at the
\* same time, so that neither saw the other; without such a race every capture is counted.
CapturesAreCounted ==
    /\ availability \subseteq Succeeded
    /\ \A c \in Succeeded \ availability :
          \E d \in Succeeded \ {c} : c \notin capture[d].sampled /\ d \notin capture[c].sampled

\* A refresh that finds a dimension missing before it starts gives every capture that waited
\* for a key that key, in the commit that makes the key visible.
NewKeysReachCaptures ==
    [][(refresh.pc = "commit" /\ refresh.changed)
         => \A c \in Captures : mart'.ledger[c] # "none"
                => Referenced(c) \cap (mart'.keys \ mart.keys) \subseteq mart'.shot[c]]_martVars

\* Captures with products or warehouses still unknown are reviewed when their keys appear
\* (docs/architecture/phase-4-analytics-mart.md), whenever the catalogue row was committed.
EveryNewKeyReachesCaptures ==
    [][\A c \in Captures : (mart.ledger[c] = "unresolved" /\ mart'.keys # mart.keys)
           => Referenced(c) \cap (mart'.keys \ mart.keys) \subseteq mart'.shot[c]]_martVars

\* The unchanged rows of the mart keep their enriched costs through a refresh; only the
\* allocation, or the loss of the row, changes a cost.
RefreshKeepsCosts ==
    [][refresh.pc # "idle" =>
         \A l \in SaleLines : mart'.cost[l] # mart.cost[l] => mart'.cost[l] = 0 /\
              (mart.fact[l] = NoRow \/ mart'.fact[l] = NoRow)]_martVars

\* Once the sources rest, the mart holds exactly their lines with the keys they have, every
\* capture that succeeded is projected, and sales carry the cost of their present version.
EventuallyMirrored ==
    <>[]( /\ \A l \in Lines : mart.fact[l] = Projected(l, known)
          /\ \A c \in Succeeded : mart.ledger[c] # "none"
          /\ \A l \in SaleLines : line[l].present => mart.cost[l] = line[l].version )

\* The tables that a refresh and the captures share agree with each other in every state
\* that a reader of the dashboard can see.
MartAgrees == MartTypeOK /\ LedgerIsHonest /\ StatsFollowPurchases /\ CapturesAreCounted

\* A refresh forgets neither a capture that waited for it nor a cost that was there.
RefreshLosesNothing == NewKeysReachCaptures /\ RefreshKeepsCosts
=============================================================================

----------------------------- MODULE MartProofs -----------------------------
(***************************************************************************)
(* Proofs about Mart for any catalogue, documents and captures, and any    *)
(* number of edits, arrivals and failed refreshes.                         *)
(***************************************************************************)
EXTENDS Mart, TLAPS

\* A line that is there has a product and was written at least once.
LinesExist ==
    \A l \in Lines : line[l].present => line[l].version >= 1 /\ line[l].product \in Products

\* A capture counts those that were committed when it was written, and itself.
CapturesSample ==
    /\ availability \subseteq Succeeded
    /\ \A c \in Captures : capture[c].sampled \subseteq Succeeded \cup {c}
    /\ \A c \in Captures : capture[c].status \in {"written", "succeeded"} => c \in capture[c].sampled

\* The ledger of a mart, committed or in progress, against the captures.
Honest(m) ==
    \A c \in Captures :
        /\ m.ledger[c] = "none" => m.shot[c] = {}
        /\ m.ledger[c] = "complete" => m.shot[c] = Referenced(c)
        /\ m.ledger[c] = "unresolved" => m.shot[c] # Referenced(c)
        /\ m.ledger[c] # "none" => c \in Succeeded

LedgersAreHonest == Honest(mart) /\ Honest(work) /\ refresh.pending \subseteq Succeeded

\* Where a refresh stands: what it has not touched yet, and what it owes.
Untouched == refresh.pc \in {"idle", "dimensions", "warehouses", "pending", "sales"}
StatsDue == refresh.pc \in {"snapshots", "derived"} /\ Stale

WorkFollows ==
    /\ refresh.pc = "idle" => work = mart
    /\ Untouched => work.fact = mart.fact /\ work.cost = mart.cost
    /\ ~ StatsDue => work.stats = Ranked(work.fact)
    /\ StatsFollowPurchases
    /\ \A l \in SaleLines : work.cost[l] # mart.cost[l] =>
          work.cost[l] = 0 /\ (mart.fact[l] = NoRow \/ work.fact[l] = NoRow)

\* A refresh that started with a missing dimension leaves no capture aside that
\* may have waited for it.
Waiters ==
    refresh.changed =>
        /\ refresh.pc \in {"sales", "bills", "snapshots", "derived", "commit"} =>
              \A c \in Captures \ refresh.pending : work.ledger[c] \in {"none", "complete"}
        /\ refresh.pc \in {"derived", "commit"} =>
              \A c \in refresh.pending : work.shot[c] = Referenced(c) \cap work.keys

MartInv ==
    /\ MartTypeOK /\ LinesExist /\ CapturesSample
    /\ LedgersAreHonest /\ WorkFollows /\ Waiters

-----------------------------------------------------------------------------
LEMMA EmptyMartType == EmptyMart \in MartRecord
<1>1. MaxVersion \in Nat
  BY MartAssumption DEF MartAssumption
<1> QED BY <1>1 DEF EmptyMart, MartRecord

LEMMA MartInvInit == MartInit => MartInv
<1> USE MartAssumption DEF MartAssumption
<1> SUFFICES ASSUME MartInit PROVE MartInv
  OBVIOUS
<1>1. NoLine \in Source
  BY DEF NoLine, Source
<1>2. Resting \in [pc : {"idle", "dimensions", "warehouses", "pending", "sales", "bills",
                         "snapshots", "derived", "commit"},
                   full : BOOLEAN, changed : BOOLEAN, pending : SUBSET Captures,
                   purchases : BOOLEAN]
  BY DEF Resting
<1>3. MartTypeOK
  BY <1>1, <1>2, EmptyMartType DEF MartInit, MartTypeOK, NoCapture
<1>4. LinesExist /\ CapturesSample
  BY DEF MartInit, LinesExist, CapturesSample, NoLine, NoCapture, Succeeded
<1>5. Ranked(EmptyMart.fact) = {} /\ EmptyMart.stats = {}
  BY DEF Ranked, EmptyMart, Lines
<1>6. WorkFollows
  BY <1>5 DEF MartInit, WorkFollows, StatsFollowPurchases
<1>7. LedgersAreHonest /\ Waiters
  BY DEF MartInit, LedgersAreHonest, Honest, Waiters, EmptyMart, Resting
<1> QED BY <1>3, <1>4, <1>6, <1>7 DEF MartInv

-----------------------------------------------------------------------------
(* Ingestion and captures.                                                 *)

LEMMA ArriveKeeps == ASSUME MartInv, NEW m \in Members, Arrive(m) PROVE MartInv'
BY DEF Arrive, MartInv, MartTypeOK, LinesExist, CapturesSample, Succeeded, LedgersAreHonest, Honest,
       Referenced, WorkFollows, StatsFollowPurchases, Untouched, StatsDue, Stale, Waiters

LEMMA EditLineKeeps == ASSUME MartInv, NEW l \in Lines, EditLine(l) PROVE MartInv'
<1> USE MartAssumption DEF MartAssumption
<1>1. line[l] \in Source
  BY DEF MartInv, MartTypeOK
<1>2. PICK row \in Source :
         /\ line' = [line EXCEPT ![l] = row]
         /\ row.present => row.version >= 1 /\ row.product \in Products
  <2>1. ASSUME NEW p \in Products,
               line' = [line EXCEPT ![l] = [present |-> TRUE, product |-> p, version |-> @.version + 1]]
        PROVE  \E row \in Source :
                  /\ line' = [line EXCEPT ![l] = row]
                  /\ row.present => row.version >= 1 /\ row.product \in Products
    <3> DEFINE new == [present |-> TRUE, product |-> p, version |-> line[l].version + 1]
    <3>1. line[l].version + 1 \in 0 .. MaxVersion /\ line[l].version + 1 >= 1
      BY <1>1 DEF EditLine, Source
    <3>2. new \in Source
      BY <3>1 DEF Source
    <3>3. line' = [line EXCEPT ![l] = new]
      BY <2>1
    <3> QED BY <3>1, <3>2, <3>3
  <2>2. ASSUME line' = [line EXCEPT ![l].present = FALSE, ![l].version = @ + 1]
        PROVE  \E row \in Source :
                  /\ line' = [line EXCEPT ![l] = row]
                  /\ row.present => row.version >= 1 /\ row.product \in Products
    <3> DEFINE old == [line[l] EXCEPT !.present = FALSE, !.version = line[l].version + 1]
    <3>1. line[l].version + 1 \in 0 .. MaxVersion
      BY <1>1 DEF EditLine, Source
    <3>2. old \in Source /\ old.present = FALSE
      BY <1>1, <3>1 DEF Source
    <3>3. line' = [line EXCEPT ![l] = old]
      BY <2>2 DEF MartInv, MartTypeOK
    <3> HIDE DEF old
    <3> QED BY <3>2, <3>3
  <2> QED BY <2>1, <2>2 DEF EditLine
<1>3. MartTypeOK' /\ LinesExist'
  BY <1>2 DEF EditLine, MartInv, MartTypeOK, LinesExist
<1> QED BY <1>3
        DEF EditLine, MartInv, CapturesSample, Succeeded, LedgersAreHonest, Honest,
            Referenced, WorkFollows, StatsFollowPurchases, Untouched, StatsDue, Stale, Waiters

\* The tables of the mart do not look at a capture that has not succeeded.
LEMMA CaptureKeeps ==
    ASSUME MartInv, NEW c \in Captures, c \notin Succeeded,
           NEW row \in [status : {"none", "running", "written", "succeeded", "failed"},
                        rows : SUBSET (Products \X Warehouses), sampled : SUBSET Captures],
           capture' = [capture EXCEPT ![c] = row],
           row.status = "succeeded" => row.rows = capture[c].rows,
           UNCHANGED <<known, line, mart, work, refresh>>,
           failures' \in 0 .. MaxFailures, availability' \subseteq Captures,
           CapturesSample'
    PROVE  MartInv'
<1>1. \A d \in Captures : capture'[d] = IF d = c THEN row ELSE capture[d]
  BY DEF MartInv, MartTypeOK
<1>2. MartTypeOK'
  BY DEF MartInv, MartTypeOK
<1>3. \A d \in Succeeded : d \in Succeeded' /\ Referenced(d)' = Referenced(d)
  BY <1>1 DEF Succeeded, Referenced
<1>4. LedgersAreHonest'
  BY <1>1, <1>3 DEF MartInv, LedgersAreHonest, Honest
<1>5. Waiters'
  BY <1>3 DEF MartInv, Waiters, LedgersAreHonest
<1> QED BY <1>2, <1>4, <1>5
        DEF MartInv, LinesExist, WorkFollows, StatsFollowPurchases, Untouched, StatsDue, Stale

\* A step of one capture that commits nothing.
LEMMA SamplesKept ==
    ASSUME MartInv, NEW c \in Captures, c \notin Succeeded, availability' = availability, NEW row,
           capture' = [capture EXCEPT ![c] = row], row.status # "succeeded",
           row.sampled \subseteq Succeeded \cup {c},
           row.status = "written" => c \in row.sampled
    PROVE  CapturesSample'
<1>1. \A d \in Captures : capture'[d] = IF d = c THEN row ELSE capture[d]
  BY DEF MartInv, MartTypeOK
<1>2. Succeeded' = Succeeded
  BY <1>1 DEF Succeeded
<1> QED BY <1>1, <1>2 DEF MartInv, CapturesSample

LEMMA CaptureStepKeeps ==
    ASSUME MartInv, NEW c \in Captures,
           BeginCapture(c) \/ ReadCapture(c) \/ CommitCapture(c) \/ FailCapture(c)
    PROVE  MartInv'
<1> USE MartAssumption DEF MartAssumption
<1> DEFINE Row == [status : {"none", "running", "written", "succeeded", "failed"},
                   rows : SUBSET (Products \X Warehouses), sampled : SUBSET Captures]
           old == capture[c]
<1>1. old \in Row /\ failures \in 0 .. MaxFailures /\ availability \subseteq Captures
      /\ Succeeded \subseteq Captures
  BY DEF MartInv, MartTypeOK, Succeeded
<1>2. c \notin Succeeded
  BY DEF BeginCapture, ReadCapture, CommitCapture, FailCapture, Succeeded
<1>3. old.sampled \subseteq Succeeded \cup {c}
      /\ (old.status = "written" => c \in old.sampled)
  BY DEF MartInv, CapturesSample
<1>4. CASE BeginCapture(c)
  <2> DEFINE row == [old EXCEPT !.status = "running"]
  <2>1. row \in Row /\ row.status = "running" /\ row.sampled = old.sampled
    BY <1>1
  <2>2. capture' = [capture EXCEPT ![c] = row]
    BY <1>4 DEF BeginCapture
  <2>3. UNCHANGED <<known, line, availability, mart, work, refresh, failures>>
    BY <1>4 DEF BeginCapture
  <2> HIDE DEF row
  <2>4. CapturesSample'
    BY <1>2, <1>3, <2>1, <2>2, <2>3, SamplesKept
  <2> QED BY <1>1, <1>2, <2>1, <2>2, <2>3, <2>4, CaptureKeeps
<1>5. CASE ReadCapture(c)
  <2>1. PICK rows \in Answers(known \cap Warehouses) :
            capture' = [capture EXCEPT ![c].status = "written", ![c].rows = rows,
                                       ![c].sampled = Sampled(c)]
    BY <1>5 DEF ReadCapture
  <2> DEFINE row == [old EXCEPT !.status = "written", !.rows = rows, !.sampled = Sampled(c)]
  <2>2. rows \subseteq Products \X Warehouses /\ Sampled(c) \subseteq Captures
    BY <1>1 DEF Answers, Sampled
  <2>3. row \in Row /\ row.status = "written" /\ row.sampled = Sampled(c)
    BY <1>1, <2>2
  <2>4. capture' = [capture EXCEPT ![c] = row]
    BY <2>1 DEF MartInv, MartTypeOK
  <2>5. UNCHANGED <<known, line, availability, mart, work, refresh, failures>>
    BY <1>5 DEF ReadCapture
  <2> HIDE DEF row
  <2>6. CapturesSample'
    BY <1>2, <2>3, <2>4, <2>5, SamplesKept DEF Sampled
  <2> QED BY <1>1, <1>2, <2>3, <2>4, <2>5, <2>6, CaptureKeeps
<1>6. CASE CommitCapture(c)
  <2> DEFINE row == [old EXCEPT !.status = "succeeded"]
  <2>1. row \in Row /\ row.status = "succeeded" /\ row.rows = old.rows /\ row.sampled = old.sampled
    BY <1>1
  <2>2. /\ capture' = [capture EXCEPT ![c] = row] /\ availability' = old.sampled
        /\ old.status = "written" /\ UNCHANGED <<known, line, mart, work, refresh, failures>>
    BY <1>6 DEF CommitCapture
  <2> HIDE DEF row
  <2>3. \A d \in Captures : capture'[d] = IF d = c THEN row ELSE capture[d]
    BY <2>2 DEF MartInv, MartTypeOK
  <2>4. Succeeded' = Succeeded \cup {c}
    BY <2>1, <2>3 DEF Succeeded
  <2>5. CapturesSample'
    BY <1>3, <2>1, <2>2, <2>3, <2>4 DEF MartInv, CapturesSample
  <2>6. availability' \subseteq Captures
    BY <1>1, <2>2
  <2> QED BY <1>1, <1>2, <2>1, <2>2, <2>5, <2>6, CaptureKeeps
<1>7. CASE FailCapture(c)
  <2> DEFINE row == [NoCapture EXCEPT !.status = "failed"]
  <2>1. row \in Row /\ row.status = "failed" /\ row.sampled = {}
    BY <1>1 DEF NoCapture
  <2>2. capture' = [capture EXCEPT ![c] = row]
    BY <1>7 DEF FailCapture, NoCapture
  <2>3. UNCHANGED <<known, line, availability, mart, work, refresh>> /\ failures' \in 0 .. MaxFailures
    BY <1>1, <1>7 DEF FailCapture
  <2> HIDE DEF row
  <2>4. CapturesSample'
    BY <1>2, <2>1, <2>2, <2>3, SamplesKept
  <2> QED BY <1>1, <1>2, <2>1, <2>2, <2>3, <2>4, CaptureKeeps
<1> QED BY <1>4, <1>5, <1>6, <1>7

-----------------------------------------------------------------------------
(* The refresh and the allocation.                                         *)

Pcs == {"idle", "dimensions", "warehouses", "pending", "sales", "bills", "snapshots", "derived",
        "commit"}
Refresh == [pc : Pcs, full : BOOLEAN, changed : BOOLEAN, pending : SUBSET Captures,
            purchases : BOOLEAN]

LEMMA Types ==
    ASSUME MartTypeOK
    PROVE  /\ mart \in MartRecord /\ work \in MartRecord /\ refresh \in Refresh
           /\ known \subseteq Members /\ line \in [Lines -> Source]
BY DEF MartTypeOK, Refresh, Pcs

LEMMA RankedType ==
    ASSUME NEW fact \in [Lines -> Fact \cup {NoRow}]
    PROVE  Ranked(fact) \subseteq BillLines \X Fact
BY DEF Ranked, Lines

\* Only the lines of bills count.
LEMMA RankedSame ==
    ASSUME NEW fact, NEW other, \A b \in BillLines : other[b] = fact[b]
    PROVE  Ranked(other) = Ranked(fact)
BY DEF Ranked

LEMMA ProjectedType ==
    ASSUME MartInv, NEW l \in Lines, NEW keys
    PROVE  Projected(l, keys) \in Fact \cup {NoRow}
<1>1. line[l] \in Source
  BY Types DEF MartInv
<1>2. CASE ~ line[l].present
  BY <1>2 DEF Projected
<1>3. CASE line[l].present
  <2>1. line[l].product \in Products /\ line[l].version \in 1 .. MaxVersion
    BY <1>1, <1>3, MartAssumption DEF MartInv, LinesExist, Source, MartAssumption
  <2> QED BY <1>3, <2>1 DEF Projected, Fact
<1> QED BY <1>2, <1>3

LEMMA LinesType ==
    ASSUME MartInv, NEW rows
    PROVE  ProjectLines(rows) \in [Lines -> Fact \cup {NoRow}]
BY ProjectedType, Types DEF ProjectLines, MartInv, MartRecord

\* What a step of the refresh leaves alone.
LEMMA RestKept ==
    ASSUME MartInv, UNCHANGED <<line, capture, availability>>
    PROVE  /\ LinesExist' /\ CapturesSample' /\ Succeeded' = Succeeded
           /\ \A c \in Captures : Referenced(c)' = Referenced(c)
BY DEF MartInv, LinesExist, CapturesSample, Succeeded, Referenced

LEMMA BeginRefreshKeeps == ASSUME MartInv, BeginRefresh PROVE MartInv'
<1>1. PICK full \in BOOLEAN :
          refresh' = [Resting EXCEPT !.pc = "dimensions", !.full = full,
                                     !.changed = Missing(mart.keys) # {}]
  BY DEF BeginRefresh
<1>2. /\ refresh' \in Refresh /\ refresh'.pc = "dimensions" /\ refresh'.pending = {}
  BY <1>1 DEF Refresh, Pcs, Resting
<1>3. refresh.pc = "idle" /\ UNCHANGED <<known, line, capture, availability, mart, work, failures>>
  BY DEF BeginRefresh
<1>4. MartTypeOK'
  BY <1>2, <1>3 DEF MartInv, MartTypeOK, Refresh, Pcs
<1>5. LedgersAreHonest'
  BY <1>2, <1>3, RestKept DEF MartInv, LedgersAreHonest, Honest
<1>6. WorkFollows'
  BY <1>2, <1>3 DEF MartInv, WorkFollows, Untouched, StatsDue, StatsFollowPurchases
<1>7. Waiters'
  BY <1>2 DEF Waiters
<1> QED BY <1>3, <1>4, <1>5, <1>6, <1>7, RestKept DEF MartInv

LEMMA ProjectDimensionsKeeps == ASSUME MartInv, ProjectDimensions PROVE MartInv'
<1>1. PICK members \in {Products, Warehouses} : work' = [work EXCEPT !.keys = @ \cup (known \cap members)]
  BY DEF ProjectDimensions
<1>2. /\ refresh.pc \in {"dimensions", "warehouses"} /\ refresh'.pc \in {"warehouses", "pending"}
      /\ refresh' \in Refresh /\ refresh'.pending = refresh.pending
      /\ UNCHANGED <<known, line, capture, availability, mart, failures>>
  BY Types DEF MartInv, ProjectDimensions, Goto, Refresh, Pcs
<1>3. work \in MartRecord /\ known \subseteq Members
  BY Types DEF MartInv
<1>4. /\ work' \in MartRecord /\ work'.fact = work.fact /\ work'.cost = work.cost
      /\ work'.stats = work.stats /\ work'.shot = work.shot /\ work'.ledger = work.ledger
  BY <1>1, <1>3 DEF MartRecord
<1>5. MartTypeOK'
  BY <1>2, <1>4 DEF MartInv, MartTypeOK, Refresh, Pcs
<1>6. LedgersAreHonest'
  BY <1>2, <1>4, RestKept DEF MartInv, LedgersAreHonest, Honest
<1>7. WorkFollows'
  BY <1>2, <1>4 DEF MartInv, WorkFollows, Untouched, StatsDue, StatsFollowPurchases
<1>8. Waiters'
  BY <1>2 DEF Waiters
<1> QED BY <1>2, <1>5, <1>6, <1>7, <1>8, RestKept DEF MartInv

LEMMA PrepareSnapshotRunsKeeps == ASSUME MartInv, PrepareSnapshotRuns PROVE MartInv'
<1>1. /\ refresh.pc = "pending" /\ refresh'.pc = "sales" /\ refresh'.pending = Pending
      /\ refresh' \in Refresh /\ refresh'.changed = refresh.changed
      /\ UNCHANGED <<known, line, capture, availability, mart, work, failures>>
  BY Types DEF MartInv, PrepareSnapshotRuns, Refresh, Pcs, Pending, Succeeded
<1>2. Pending \subseteq Succeeded
  BY DEF Pending
<1>3. MartTypeOK'
  BY <1>1 DEF MartInv, MartTypeOK, Refresh, Pcs
<1>4. LedgersAreHonest'
  BY <1>1, <1>2, RestKept DEF MartInv, LedgersAreHonest, Honest
<1>5. WorkFollows'
  BY <1>1 DEF MartInv, WorkFollows, Untouched, StatsDue, StatsFollowPurchases
<1>6. Waiters'
  <2> SUFFICES ASSUME refresh.changed, NEW c \in Captures \ Pending
               PROVE  work.ledger[c] \in {"none", "complete"}
    BY <1>1 DEF Waiters
  <2>1. work.ledger[c] \in {"none", "unresolved", "complete"}
    BY Types DEF MartInv, MartRecord
  <2>2. work.ledger[c] # "none" => c \in Succeeded
    BY DEF MartInv, LedgersAreHonest, Honest
  <2> QED BY <2>1, <2>2 DEF Pending
<1> QED BY <1>1, <1>3, <1>4, <1>5, <1>6, RestKept DEF MartInv

LEMMA ProjectSalesKeeps == ASSUME MartInv, ProjectSales PROVE MartInv'
<1> USE MartAssumption DEF MartAssumption
<1> DEFINE fact == ProjectLines(SaleLines)
<1>1. /\ refresh.pc = "sales" /\ refresh'.pc = "bills" /\ refresh' \in Refresh
      /\ refresh'.pending = refresh.pending /\ refresh'.changed = refresh.changed
      /\ work' = [work EXCEPT !.fact = fact, !.cost = Enriched(fact)]
      /\ UNCHANGED <<known, line, capture, availability, mart, failures>>
  BY Types DEF MartInv, ProjectSales, Goto, Refresh, Pcs
<1>2. work \in MartRecord /\ fact \in [Lines -> Fact \cup {NoRow}]
  BY Types, LinesType DEF MartInv
<1>3. \A b \in BillLines : fact[b] = work.fact[b]
  BY DEF ProjectLines, Lines
<1> HIDE DEF fact
<1>4. Enriched(fact) \in [SaleLines -> 0 .. MaxVersion]
  BY <1>2 DEF Enriched, MartRecord
<1>5. /\ work' \in MartRecord /\ work'.fact = fact /\ work'.cost = Enriched(fact)
      /\ work'.stats = work.stats /\ work'.shot = work.shot /\ work'.ledger = work.ledger
      /\ work'.keys = work.keys
  BY <1>1, <1>2, <1>4 DEF MartRecord
<1>6. MartTypeOK'
  BY <1>1, <1>5 DEF MartInv, MartTypeOK, Refresh, Pcs
<1>7. LedgersAreHonest'
  BY <1>1, <1>5, RestKept DEF MartInv, LedgersAreHonest, Honest
<1>8. WorkFollows'
  <2>1. work.fact = mart.fact /\ work.cost = mart.cost /\ work.stats = Ranked(work.fact)
    BY <1>1 DEF MartInv, WorkFollows, Untouched, StatsDue
  <2>2. work'.stats = Ranked(work'.fact)
    BY <1>3, <1>5, <2>1, RankedSame
  <2>3. \A l \in SaleLines : work'.cost[l] # mart'.cost[l] =>
           work'.cost[l] = 0 /\ (mart'.fact[l] = NoRow \/ work'.fact[l] = NoRow)
    BY <1>1, <1>5, <2>1 DEF Enriched
  <2> QED BY <1>1, <2>2, <2>3 DEF MartInv, WorkFollows, Untouched, StatsFollowPurchases
<1>9. Waiters'
  BY <1>1, <1>5 DEF MartInv, Waiters
<1> QED BY <1>1, <1>6, <1>7, <1>8, <1>9, RestKept DEF MartInv

LEMMA ProjectBillsKeeps == ASSUME MartInv, ProjectBills PROVE MartInv'
<1> USE MartAssumption DEF MartAssumption
<1> DEFINE fact == ProjectLines(BillLines)
<1>1. /\ refresh.pc = "bills" /\ refresh'.pc = "snapshots" /\ refresh' \in Refresh
      /\ refresh'.pending = refresh.pending /\ refresh'.changed = refresh.changed
      /\ refresh'.purchases = (fact # work.fact) /\ refresh'.full = refresh.full
      /\ work' = [work EXCEPT !.fact = fact]
      /\ UNCHANGED <<known, line, capture, availability, mart, failures>>
  BY Types DEF MartInv, ProjectBills, Refresh, Pcs
<1>2. work \in MartRecord /\ fact \in [Lines -> Fact \cup {NoRow}]
  BY Types, LinesType DEF MartInv
<1>3. \A l \in SaleLines : fact[l] = work.fact[l]
  BY DEF ProjectLines, Lines
<1> HIDE DEF fact
<1>4. /\ work' \in MartRecord /\ work'.fact = fact /\ work'.cost = work.cost
      /\ work'.stats = work.stats /\ work'.shot = work.shot /\ work'.ledger = work.ledger
      /\ work'.keys = work.keys
  BY <1>1, <1>2 DEF MartRecord
<1>5. MartTypeOK'
  BY <1>1, <1>4 DEF MartInv, MartTypeOK, Refresh, Pcs
<1>6. LedgersAreHonest'
  BY <1>1, <1>4, RestKept DEF MartInv, LedgersAreHonest, Honest
<1>7. WorkFollows'
  <2>1. work.stats = Ranked(work.fact)
    BY <1>1 DEF MartInv, WorkFollows, StatsDue
  <2>2. ~ StatsDue' => work'.stats = Ranked(work'.fact)
    BY <1>1, <1>4, <2>1 DEF StatsDue, Stale
  <2>3. \A l \in SaleLines : work'.cost[l] # mart'.cost[l] =>
           work'.cost[l] = 0 /\ (mart'.fact[l] = NoRow \/ work'.fact[l] = NoRow)
    BY <1>1, <1>3, <1>4 DEF MartInv, WorkFollows
  <2> QED BY <1>1, <2>2, <2>3 DEF MartInv, WorkFollows, Untouched, StatsFollowPurchases
<1>8. Waiters'
  BY <1>1, <1>4 DEF MartInv, Waiters
<1> QED BY <1>1, <1>5, <1>6, <1>7, <1>8, RestKept DEF MartInv

LEMMA ProjectSnapshotsKeeps == ASSUME MartInv, ProjectSnapshots PROVE MartInv'
<1> DEFINE shot == [c \in Captures |-> IF c \in refresh.pending THEN Referenced(c) \cap work.keys
                                       ELSE work.shot[c]]
           ledger == [c \in Captures |-> IF c \notin refresh.pending THEN work.ledger[c]
                                         ELSE IF Unresolved(c) THEN "unresolved" ELSE "complete"]
<1>1. /\ refresh.pc = "snapshots" /\ refresh'.pc = "derived" /\ refresh' \in Refresh
      /\ refresh'.pending = refresh.pending /\ refresh'.changed = refresh.changed
      /\ refresh'.purchases = refresh.purchases /\ refresh'.full = refresh.full
      /\ work' = [work EXCEPT !.shot = shot, !.ledger = ledger]
      /\ UNCHANGED <<known, line, capture, availability, mart, failures>>
  BY Types DEF MartInv, ProjectSnapshots, Goto, Refresh, Pcs
<1>2. work \in MartRecord /\ work.keys \subseteq Members
  BY Types DEF MartInv, MartRecord
<1>3. shot \in [Captures -> SUBSET Members]
      /\ ledger \in [Captures -> {"none", "unresolved", "complete"}]
  BY <1>2 DEF MartRecord
<1>4. \A c \in Captures : c \in refresh.pending =>
         /\ shot[c] = Referenced(c) \cap work.keys
         /\ ledger[c] = IF Unresolved(c) THEN "unresolved" ELSE "complete"
  OBVIOUS
<1>5. \A c \in Captures : c \notin refresh.pending => shot[c] = work.shot[c] /\ ledger[c] = work.ledger[c]
  OBVIOUS
<1> HIDE DEF shot, ledger
<1>6. /\ work' \in MartRecord /\ work'.fact = work.fact /\ work'.cost = work.cost
      /\ work'.stats = work.stats /\ work'.shot = shot /\ work'.ledger = ledger
      /\ work'.keys = work.keys
  BY <1>1, <1>2, <1>3 DEF MartRecord
<1>7. MartTypeOK'
  BY <1>1, <1>6 DEF MartInv, MartTypeOK, Refresh, Pcs
<1>8. LedgersAreHonest'
  <2>1. ASSUME NEW c \in Captures
        PROVE  /\ ledger[c] = "none" => shot[c] = {}
               /\ ledger[c] = "complete" => shot[c] = Referenced(c)
               /\ ledger[c] = "unresolved" => shot[c] # Referenced(c)
               /\ ledger[c] # "none" => c \in Succeeded
    <3>1. CASE c \in refresh.pending
      BY <1>4, <3>1 DEF Unresolved, MartInv, LedgersAreHonest
    <3>2. CASE c \notin refresh.pending
      BY <1>5, <3>2 DEF MartInv, LedgersAreHonest, Honest
    <3> QED BY <3>1, <3>2
  <2> QED BY <1>1, <1>6, <2>1, RestKept DEF MartInv, LedgersAreHonest, Honest
<1>9. WorkFollows'
  BY <1>1, <1>6 DEF MartInv, WorkFollows, Untouched, StatsDue, Stale, StatsFollowPurchases
<1>10. Waiters'
  <2>1. refresh.pending \subseteq Captures
    BY Types DEF MartInv, Refresh
  <2>2. \A c \in Captures : Referenced(c)' = Referenced(c)
    BY <1>1, RestKept
  <2> QED BY <1>1, <1>4, <1>5, <1>6, <2>1, <2>2 DEF MartInv, Waiters
<1> QED BY <1>1, <1>7, <1>8, <1>9, <1>10, RestKept DEF MartInv

LEMMA ProjectDerivedKeeps == ASSUME MartInv, ProjectDerived PROVE MartInv'
<1>1. /\ refresh.pc = "derived" /\ refresh'.pc = "commit" /\ refresh' \in Refresh
      /\ refresh'.pending = refresh.pending /\ refresh'.changed = refresh.changed
      /\ work' = IF Stale THEN [work EXCEPT !.stats = Ranked(work.fact)] ELSE work
      /\ UNCHANGED <<known, line, capture, availability, mart, failures>>
  BY Types DEF MartInv, ProjectDerived, Goto, Refresh, Pcs
<1>2. work \in MartRecord /\ Ranked(work.fact) \subseteq BillLines \X Fact
  BY Types, RankedType DEF MartInv, MartRecord
<1>3. /\ work' \in MartRecord /\ work'.fact = work.fact /\ work'.cost = work.cost
      /\ work'.shot = work.shot /\ work'.ledger = work.ledger /\ work'.keys = work.keys
      /\ work'.stats = IF Stale THEN Ranked(work.fact) ELSE work.stats
  BY <1>1, <1>2 DEF MartRecord
<1>4. MartTypeOK'
  BY <1>1, <1>3 DEF MartInv, MartTypeOK, Refresh, Pcs
<1>5. LedgersAreHonest'
  BY <1>1, <1>3, RestKept DEF MartInv, LedgersAreHonest, Honest
<1>6. WorkFollows'
  BY <1>1, <1>3 DEF MartInv, WorkFollows, Untouched, StatsDue, StatsFollowPurchases
<1>7. Waiters'
  <2>1. refresh.pending \subseteq Captures
    BY Types DEF MartInv, Refresh
  <2> QED BY <1>1, <1>3, <2>1, RestKept DEF MartInv, Waiters
<1> QED BY <1>1, <1>4, <1>5, <1>6, <1>7, RestKept DEF MartInv

LEMMA CommitRefreshKeeps == ASSUME MartInv, CommitRefresh PROVE MartInv'
<1>1. /\ refresh.pc = "commit" /\ mart' = work /\ refresh' = Resting
      /\ UNCHANGED <<known, line, capture, availability, work, failures>>
  BY DEF CommitRefresh
<1>2. Resting \in Refresh /\ Resting.pc = "idle" /\ Resting.pending = {} /\ Resting.changed = FALSE
  BY DEF Resting, Refresh, Pcs
<1>3. MartTypeOK'
  BY <1>1, <1>2 DEF MartInv, MartTypeOK, Refresh, Pcs
<1>4. LedgersAreHonest'
  BY <1>1, <1>2, RestKept DEF MartInv, LedgersAreHonest, Honest
<1>5. WorkFollows'
  BY <1>1, <1>2 DEF MartInv, WorkFollows, Untouched, StatsDue, StatsFollowPurchases
<1> QED BY <1>1, <1>2, <1>3, <1>4, <1>5, RestKept DEF MartInv, Waiters

LEMMA FailRefreshKeeps == ASSUME MartInv, FailRefresh PROVE MartInv'
<1>1. /\ work' = mart /\ refresh' = Resting /\ failures < MaxFailures /\ failures' = failures + 1
      /\ UNCHANGED <<known, line, capture, availability, mart>>
  BY DEF FailRefresh
<1>2. Resting \in Refresh /\ Resting.pc = "idle" /\ Resting.pending = {} /\ Resting.changed = FALSE
  BY DEF Resting, Refresh, Pcs
<1>3. failures' \in 0 .. MaxFailures
  BY <1>1, MartAssumption DEF MartInv, MartTypeOK, MartAssumption
<1>4. MartTypeOK'
  BY <1>1, <1>2, <1>3 DEF MartInv, MartTypeOK, Refresh, Pcs
<1>5. LedgersAreHonest'
  BY <1>1, <1>2, RestKept DEF MartInv, LedgersAreHonest, Honest
<1>6. WorkFollows'
  BY <1>1, <1>2 DEF MartInv, WorkFollows, Untouched, StatsDue, StatsFollowPurchases
<1> QED BY <1>1, <1>2, <1>4, <1>5, <1>6, RestKept DEF MartInv, Waiters

LEMMA AllocateCostsKeeps == ASSUME MartInv, AllocateCosts PROVE MartInv'
<1> USE MartAssumption DEF MartAssumption
<1> DEFINE cost == [l \in SaleLines |-> IF mart.fact[l] = NoRow THEN 0 ELSE mart.fact[l].version]
<1>1. /\ refresh.pc = "idle" /\ mart' = [mart EXCEPT !.cost = cost] /\ work' = mart'
      /\ UNCHANGED <<known, line, capture, availability, refresh, failures>>
  BY DEF AllocateCosts
<1>2. mart \in MartRecord
  BY Types DEF MartInv
<1>3. cost \in [SaleLines -> 0 .. MaxVersion]
  <2>1. \A l \in SaleLines : mart.fact[l] \in Fact \cup {NoRow}
    BY <1>2 DEF MartRecord, Lines
  <2> QED BY <2>1 DEF Fact
<1> HIDE DEF cost
<1>4. /\ mart' \in MartRecord /\ mart'.fact = mart.fact /\ mart'.stats = mart.stats
      /\ mart'.shot = mart.shot /\ mart'.ledger = mart.ledger /\ mart'.keys = mart.keys
  BY <1>1, <1>2, <1>3 DEF MartRecord
<1>5. MartTypeOK'
  BY <1>1, <1>4 DEF MartInv, MartTypeOK
<1>6. LedgersAreHonest'
  BY <1>1, <1>4, RestKept DEF MartInv, LedgersAreHonest, Honest
<1>7. WorkFollows'
  BY <1>1, <1>4 DEF MartInv, WorkFollows, Untouched, StatsDue, StatsFollowPurchases
<1>8. Waiters'
  BY <1>1 DEF Waiters
<1> QED BY <1>1, <1>5, <1>6, <1>7, <1>8, RestKept DEF MartInv

LEMMA MartInvNext == MartInv /\ [MartNext]_martVars => MartInv'
<1>1. ASSUME MartInv, UNCHANGED martVars PROVE MartInv'
  BY <1>1 DEF martVars, MartInv, MartTypeOK, LinesExist, CapturesSample, Succeeded, LedgersAreHonest,
     Honest, Referenced, WorkFollows, StatsFollowPurchases, Untouched, StatsDue, Stale, Waiters
<1> QED BY <1>1, ArriveKeeps, EditLineKeeps, CaptureStepKeeps, BeginRefreshKeeps,
       ProjectDimensionsKeeps, PrepareSnapshotRunsKeeps, ProjectSalesKeeps, ProjectBillsKeeps,
       ProjectSnapshotsKeeps, ProjectDerivedKeeps, CommitRefreshKeeps, FailRefreshKeeps,
       AllocateCostsKeeps DEF MartNext, RefreshStep

-----------------------------------------------------------------------------
(* Theorems.                                                               *)

\* What was committed stays as it was, and a commit is counted before it can be lost.
LEMMA CountedNext ==
    ASSUME MartInv, CapturesAreCounted, [MartNext]_martVars
    PROVE  CapturesAreCounted'
<1>1. CapturesSample'
  BY MartInvNext DEF MartInv
<1>2. CASE \E c \in Captures : CommitCapture(c)
  <2>1. PICK c \in Captures : CommitCapture(c)
    BY <1>2
  <2>2. /\ capture[c].status = "written" /\ availability' = capture[c].sampled
        /\ capture' = [capture EXCEPT ![c].status = "succeeded"]
    BY <2>1 DEF CommitCapture
  <2>3. \A d \in Captures : capture'[d].sampled = capture[d].sampled
        /\ capture'[d].status = IF d = c THEN "succeeded" ELSE capture[d].status
    BY <2>2 DEF MartInv, MartTypeOK
  <2>4. Succeeded' = Succeeded \cup {c} /\ c \notin Succeeded /\ Succeeded \subseteq Captures
    BY <2>2, <2>3 DEF Succeeded
  <2> SUFFICES ASSUME NEW e \in Succeeded', e \notin availability'
               PROVE  \E d \in Succeeded' \ {e} :
                         e \notin capture'[d].sampled /\ d \notin capture'[e].sampled
    BY <1>1 DEF CapturesSample, CapturesAreCounted
  <2>5. c \in capture[c].sampled
    BY <2>2 DEF MartInv, CapturesSample
  <2>6. e # c /\ e \in Succeeded
    BY <2>2, <2>4, <2>5
  <2>7. c \notin capture[e].sampled
    BY <2>4, <2>6 DEF MartInv, CapturesSample
  <2> QED BY <2>2, <2>3, <2>4, <2>6, <2>7
<1>3. CASE ~ \E c \in Captures : CommitCapture(c)
  <2>1. availability' = availability
    BY <1>3 DEF MartNext, RefreshStep, martVars, Arrive, EditLine, BeginCapture, ReadCapture, FailCapture,
           BeginRefresh, ProjectDimensions, PrepareSnapshotRuns, ProjectSales, ProjectBills,
           ProjectSnapshots, ProjectDerived, CommitRefresh, FailRefresh, AllocateCosts
  <2>2. capture' = capture \/ \E c \in Captures \ Succeeded :
           /\ \A d \in Captures : d # c => capture'[d] = capture[d]
           /\ capture'[c].status # "succeeded"
    <3>1. ASSUME NEW c \in Captures, BeginCapture(c) \/ ReadCapture(c) \/ FailCapture(c)
          PROVE  /\ c \notin Succeeded /\ capture'[c].status # "succeeded"
                 /\ \A d \in Captures : d # c => capture'[d] = capture[d]
      <4>1. /\ capture[c].status # "succeeded"
            /\ \A d \in Captures : d # c => capture'[d] = capture[d]
        BY <3>1 DEF BeginCapture, ReadCapture, FailCapture, MartInv, MartTypeOK
      <4>2. ASSUME BeginCapture(c) PROVE capture'[c].status # "succeeded"
        BY <4>2 DEF BeginCapture, MartInv, MartTypeOK
      <4>3. ASSUME ReadCapture(c) PROVE capture'[c].status # "succeeded"
        <5>1. PICK rows : capture' = [capture EXCEPT ![c].status = "written", ![c].rows = rows,
                                                     ![c].sampled = Sampled(c)]
          BY <4>3 DEF ReadCapture
        <5>2. capture'[c] = [capture[c] EXCEPT !.status = "written", !.rows = rows,
                                               !.sampled = Sampled(c)]
          BY <5>1 DEF MartInv, MartTypeOK
        <5> QED BY <5>2 DEF MartInv, MartTypeOK
      <4>4. ASSUME FailCapture(c) PROVE capture'[c].status # "succeeded"
        BY <4>4 DEF FailCapture, NoCapture, MartInv, MartTypeOK
      <4>5. capture'[c].status # "succeeded"
        BY <3>1, <4>2, <4>3, <4>4
      <4> QED BY <4>1, <4>5 DEF Succeeded
    <3> QED BY <1>3, <3>1 DEF MartNext, RefreshStep, martVars, Arrive, EditLine, BeginRefresh,
               ProjectDimensions, PrepareSnapshotRuns, ProjectSales, ProjectBills,
               ProjectSnapshots, ProjectDerived, CommitRefresh, FailRefresh, AllocateCosts
  <2>3. Succeeded' = Succeeded /\ \A d \in Succeeded : capture'[d] = capture[d]
    BY <2>2 DEF Succeeded
  <2> QED BY <1>1, <2>1, <2>3 DEF CapturesSample, CapturesAreCounted
<1> QED BY <1>2, <1>3

LEMMA MartInvariant == MartSpec => [](MartInv /\ CapturesAreCounted)
<1>1. MartInit => MartInv /\ CapturesAreCounted
  <2>1. MartInit => CapturesAreCounted
    BY DEF MartInit, CapturesAreCounted, Succeeded, NoCapture
  <2> QED BY <2>1, MartInvInit
<1>2. MartInv /\ CapturesAreCounted /\ [MartNext]_martVars => (MartInv /\ CapturesAreCounted)'
  BY MartInvNext, CountedNext
<1> QED BY <1>1, <1>2, PTL DEF MartSpec

\* Whoever reads the mart sees tables that agree (MartAgrees): a ledger that tells
\* the truth about facts, statistics of the committed purchases, and a day that
\* misses a capture only where two of them raced.
THEOREM MartStaysConsistent == MartSpec => []MartAgrees
<1>1. MartInv /\ CapturesAreCounted => MartAgrees
  BY DEF MartInv, MartAgrees, LedgersAreHonest, Honest, LedgerIsHonest, WorkFollows
<1> QED BY <1>1, MartInvariant, PTL

\* Only a commit or the allocation changes the mart, and the allocation waits for
\* the refresh.
LEMMA MartChanges ==
    ASSUME [MartNext]_martVars, mart' # mart
    PROVE  CommitRefresh \/ (refresh.pc = "idle" /\ AllocateCosts)
BY DEF MartNext, RefreshStep, martVars, Arrive, EditLine, BeginCapture, ReadCapture, CommitCapture,
       FailCapture, BeginRefresh, ProjectDimensions, PrepareSnapshotRuns, ProjectSales, ProjectBills,
       ProjectSnapshots, ProjectDerived, FailRefresh, AllocateCosts

LEMMA CommitReaches ==
    ASSUME MartInv, [MartNext]_martVars, refresh.pc = "commit", refresh.changed,
           NEW c \in Captures, mart'.ledger[c] # "none"
    PROVE  Referenced(c) \cap (mart'.keys \ mart.keys) \subseteq mart'.shot[c]
<1>1. CASE mart' = mart
  BY <1>1
<1>2. CASE mart' # mart
  <2>1. mart' = work
    BY <1>2, MartChanges DEF CommitRefresh
  <2>2. CASE c \in refresh.pending
    BY <2>1, <2>2 DEF MartInv, Waiters
  <2>3. CASE c \notin refresh.pending
    <3>1. work.ledger[c] = "complete"
      BY <2>1, <2>3 DEF MartInv, Waiters
    <3>2. work.shot[c] = Referenced(c)
      BY <3>1 DEF MartInv, LedgersAreHonest, Honest
    <3> QED BY <2>1, <3>2
  <2> QED BY <2>2, <2>3
<1> QED BY <1>1, <1>2

LEMMA CostsKept ==
    ASSUME MartInv, [MartNext]_martVars, refresh.pc # "idle", NEW l \in SaleLines,
           mart'.cost[l] # mart.cost[l]
    PROVE  mart'.cost[l] = 0 /\ (mart.fact[l] = NoRow \/ mart'.fact[l] = NoRow)
<1>1. mart' = work
  BY MartChanges DEF CommitRefresh
<1> QED BY <1>1 DEF MartInv, WorkFollows

\* A refresh forgets neither a waiting capture nor a cost (RefreshLosesNothing),
\* however many statements and foreign commits lie between its start and its end.
THEOREM RefreshesLoseNothing == MartSpec => RefreshLosesNothing
<1>1. MartInv /\ [MartNext]_martVars =>
         [(refresh.pc = "commit" /\ refresh.changed)
             => \A c \in Captures : mart'.ledger[c] # "none"
                    => Referenced(c) \cap (mart'.keys \ mart.keys) \subseteq mart'.shot[c]]_martVars
  BY CommitReaches
<1>2. MartInv /\ [MartNext]_martVars =>
         [refresh.pc # "idle" =>
             \A l \in SaleLines : mart'.cost[l] # mart.cost[l] => mart'.cost[l] = 0 /\
                  (mart.fact[l] = NoRow \/ mart'.fact[l] = NoRow)]_martVars
  BY CostsKept
<1>3. MartSpec => [][MartNext]_martVars
  BY DEF MartSpec
<1>4. MartSpec => NewKeysReachCaptures
  BY <1>1, <1>3, MartInvariant, PTL DEF NewKeysReachCaptures
<1>5. MartSpec => RefreshKeepsCosts
  BY <1>2, <1>3, MartInvariant, PTL DEF RefreshKeepsCosts
<1> QED BY <1>4, <1>5 DEF RefreshLosesNothing
=============================================================================

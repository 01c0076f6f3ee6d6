------------------------------ MODULE Backfill ------------------------------
(***************************************************************************)
(* The first load of one resource: run_initial_sync over the pages that    *)
(* iter_all_resource reads by offset, while documents are created and      *)
(* deleted in Alegra.                                                      *)
(*                                                                         *)
(* Documents are numbered as Alegra creates them, the order of its pages.  *)
(* The pages of a batch are read together, in any order.  A request that   *)
(* fails after its retries ends the run, like an error of the database.    *)
(* The semaphore of resources only says when a run starts.                 *)
(***************************************************************************)
EXTENDS Integers, FiniteSetsExt

CONSTANTS
    MaxDocument,       \* bound on the documents ever created
    MaxDeletions,      \* bound on those deleted during one run
    PageSize,          \* 30
    PageConcurrency,   \* pages read together
    WriteBatch,        \* write_batch_size
    NoTotal            \* the resource gives no total with its first page

ASSUME BackfillAssumption ==
    /\ MaxDocument \in Nat /\ MaxDeletions \in Nat
    /\ PageSize \in Nat \ {0} /\ PageConcurrency \in Nat \ {0} /\ WriteBatch \in Nat \ {0}
    /\ NoTotal \notin Nat

VARIABLES
    docs,        \* the documents Alegra has
    created,     \* how many it has had
    stored,      \* those whose entity was committed
    sync,        \* the run: its row and the local state of its coroutine
    stateRow,    \* resource_sync_states: nobody's, another service's, or a full sync
    atStart,     \* history: the documents Alegra had when the run began
    deletions    \* history: documents deleted since

backfillVars == <<docs, created, stored, sync, stateRow, atStart, deletions>>

Documents == 1 .. MaxDocument
Ended == {"succeeded", "failed"}
Active == {"first", "records", "pages", "finish"}

IdleSync == [pc |-> "idle", hydrate |-> FALSE, total |-> NoTotal, start |-> 0,
             unread |-> {}, records |-> {}, buffer |-> {}]

BackfillInit ==
    /\ created \in 0 .. MaxDocument
    /\ docs = 1 .. created
    /\ stored = {}
    /\ sync = IdleSync
    /\ stateRow = "none"
    /\ atStart = {}
    /\ deletions = 0

----------------------------------------------------------------------------
\* Alegra.
EditDocuments ==
    /\ \/ /\ created < MaxDocument
          /\ created' = created + 1
          /\ docs' = docs \cup {created + 1}
          /\ UNCHANGED deletions
       \/ /\ deletions < MaxDeletions
          /\ \E d \in docs : docs' = docs \ {d}
          /\ deletions' = deletions + 1
          /\ UNCHANGED created
    /\ UNCHANGED <<stored, sync, stateRow, atStart>>

Rank(d) == Cardinality({e \in docs : e < d})

Page(start) == {d \in docs : Rank(d) \in start .. start + PageSize - 1}

\* The run's row is committed before anything is read.
BeginSync ==
    /\ sync.pc = "idle"
    /\ \E hydrate \in BOOLEAN : sync' = [IdleSync EXCEPT !.pc = "first", !.hydrate = hydrate]
    /\ atStart' = docs
    /\ deletions' = 0
    /\ UNCHANGED <<docs, created, stored, stateRow>>

ReadFirstPage ==
    /\ sync.pc = "first"
    /\ \E total \in {Cardinality(docs), NoTotal} :
          sync' = [sync EXCEPT !.pc = "records", !.total = total, !.records = Page(0),
                               !.start = IF total = NoTotal THEN Cardinality(Page(0)) ELSE PageSize]
    /\ UNCHANGED <<docs, created, stored, stateRow, atStart, deletions>>

\* One record of the pages in hand, with its detail if the resource is hydrated (one that is
\* gone by then fails the run).  The buffer is committed when it is full.
TakeRecord ==
    /\ sync.pc = "records" /\ sync.records # {}
    /\ LET d == Min(sync.records)
           buffer == sync.buffer \cup {d}
           full == Cardinality(buffer) >= WriteBatch
       IN  /\ sync.hydrate => d \in docs
           /\ sync' = [sync EXCEPT !.records = @ \ {d}, !.buffer = IF full THEN {} ELSE buffer]
           /\ stored' = IF full THEN stored \cup buffer ELSE stored
    /\ UNCHANGED <<docs, created, stateRow, atStart, deletions>>

\* Mutant of Offsets: a page is counted from the records that came.
OffsetsShort ==
    {sync.start + k * PageSize : k \in 0 .. PageConcurrency - 1} \cap 0 .. sync.total - 2

\* The next offsets below the total of the first page.
Offsets ==
    {sync.start + k * PageSize : k \in 0 .. PageConcurrency - 1} \cap 0 .. sync.total - 1

\* asyncio.gather of a batch of pages ...
StartPages ==
    /\ sync.pc = "records" /\ sync.records = {}
    /\ sync.total # NoTotal /\ Offsets # {}
    /\ sync' = [sync EXCEPT !.pc = "pages", !.unread = Offsets]
    /\ UNCHANGED <<docs, created, stored, stateRow, atStart, deletions>>

\* ... which arrive in any order.
ReadPage ==
    /\ sync.pc = "pages"
    /\ \E offset \in sync.unread :
          LET left == sync.unread \ {offset} IN
          sync' = [sync EXCEPT !.unread = left,
                               !.records = @ \cup Page(offset),
                               !.start = IF left = {} THEN @ + PageConcurrency * PageSize ELSE @,
                               !.pc = IF left = {} THEN "records" ELSE "pages"]
    /\ UNCHANGED <<docs, created, stored, stateRow, atStart, deletions>>

\* Mutant of After: the offset stays where it was.
AfterSame(start, page) == start

After(start, page) == start + Cardinality(page)

\* Without a total, pages are read until one is empty.
ReadNextPage ==
    /\ sync.pc = "records" /\ sync.records = {}
    /\ sync.total = NoTotal
    /\ LET page == Page(sync.start) IN
       sync' = [sync EXCEPT !.records = page, !.start = After(@, page),
                            !.pc = IF page = {} THEN "finish" ELSE "records"]
    /\ UNCHANGED <<docs, created, stored, stateRow, atStart, deletions>>

EndPages ==
    /\ sync.pc = "records" /\ sync.records = {}
    /\ sync.total # NoTotal /\ Offsets = {}
    /\ sync' = [sync EXCEPT !.pc = "finish"]
    /\ UNCHANGED <<docs, created, stored, stateRow, atStart, deletions>>

\* The last write, committed before the run is marked.
Flushed == stored \cup sync.buffer

\* _finish_success.  The row of the resource is looked for and inserted; the insert of
\* another service in between fails the run, whose documents are all there.
FinishSync ==
    /\ sync.pc = "finish"
    /\ stored' = Flushed
    /\ \/ sync' = [sync EXCEPT !.pc = "succeeded", !.buffer = {}] /\ stateRow' = "full"
       \/ /\ stateRow = "none"
          /\ sync' = [sync EXCEPT !.pc = "failed", !.buffer = {}] /\ stateRow' = "other"
    /\ UNCHANGED <<docs, created, atStart, deletions>>

\* A request or a statement fails: the buffer is lost, the batches stay.
FailSync ==
    /\ sync.pc \in Active
    /\ sync' = [sync EXCEPT !.pc = "failed", !.buffer = {}]
    /\ stateRow' = IF stateRow = "none" THEN "other" ELSE stateRow
    /\ UNCHANGED <<docs, created, stored, atStart, deletions>>

\* The process dies: the row stays running, and nothing resumes it.
DieInSync ==
    /\ sync.pc \in Active
    /\ sync' = [sync EXCEPT !.pc = "dead", !.buffer = {}]
    /\ UNCHANGED <<docs, created, stored, stateRow, atStart, deletions>>

SyncStep ==
    \/ ReadFirstPage \/ TakeRecord \/ StartPages \/ ReadPage \/ ReadNextPage \/ EndPages
    \/ FinishSync \/ FailSync

BackfillNext == EditDocuments \/ BeginSync \/ SyncStep \/ DieInSync

BackfillSpec == BackfillInit /\ [][BackfillNext]_backfillVars

----------------------------------------------------------------------------
\* A full sync is full: when nothing was deleted while the pages were read, every document
\* there was at the start is stored, created ones or not (iter_all_resource, _write_batch).
FullSyncIsFull == sync.pc = "succeeded" /\ deletions = 0 => atStart \subseteq stored

\* Every deletion shifts the pages that are still to be read, and costs at most one document
\* for each page that is read together with it (iter_all_resource).
SkipsAreBounded ==
    sync.pc = "succeeded" =>
        Cardinality((atStart \cap docs) \ stored) <= deletions * PageConcurrency

\* A run that does not die ends, although Alegra goes on changing (run_initial_sync).
SyncEnds == sync.pc = "first" ~> sync.pc \in Ended \cup {"dead"}

\* What a run that says succeeded may lack, and why.
LoadIsComplete == FullSyncIsFull /\ SkipsAreBounded
=============================================================================

--------------------------- MODULE IngestionProofs ---------------------------
(***************************************************************************)
(* Proofs about Ingestion for any columns, any set of workers and any      *)
(* number of changes, attempts, lost webhooks and crashes.                 *)
(***************************************************************************)
EXTENDS Ingestion, TLAPS

-----------------------------------------------------------------------------
(* Types.                                                                  *)

LEMMA TypeInit == Init => TypeOK
<1> SUFFICES ASSUME Init PROVE TypeOK
  OBVIOUS
<1>1. FirstDoc \in Doc
  BY DEF FirstDoc, Doc
<1>2. event \in [Events -> Event]
  BY DEF Init, Event
<1> QED BY <1>1, <1>2, IngestionAssumption DEF Init, TypeOK, IngestionAssumption

\* The steps that only move an event.
LEMMA EventType ==
    ASSUME TypeOK, NEW n \in Events, NEW e \in Event, event' = [event EXCEPT ![n] = e]
    PROVE  event' \in [Events -> Event]
BY DEF TypeOK

LEMMA AttemptType ==
    ASSUME NEW e \in Event
    PROVE  Attempt(e) \in Event /\ Attempt(e).kind = e.kind /\ Attempt(e).status # "none"
BY DEF Attempt, Event

\* The steps that only move a worker.
LEMMA WorkerType ==
    ASSUME TypeOK, NEW w \in Workers, NEW b \in {Idle} \cup Busy,
           worker' = [worker EXCEPT ![w] = b]
    PROVE  worker' \in [Workers -> {Idle} \cup Busy]
BY DEF TypeOK

\* A worker that is not idle has the fields of a transaction.
LEMMA BusyWorker ==
    ASSUME TypeOK, NEW w \in Workers, worker[w] # Idle
    PROVE  worker[w] \in Busy
BY DEF TypeOK

\* A worker at a step of its transaction is not idle.
LEMMA AtIsBusy ==
    ASSUME TypeOK, NEW w \in Workers, NEW pc, pc # "idle", At(w, pc)
    PROVE  worker[w] # Idle /\ worker[w] \in Busy
BY DEF TypeOK, At, Idle

LEMMA StoreType ==
    ASSUME TypeOK, NEW d \in Doc, Store(d)
    PROVE  /\ raw' \subseteq Doc
           /\ entity' \in EntityRow \cup {Absent}
           /\ head' \in HeadRow \cup {Absent}
BY DEF Store, TypeOK, EntityRow, HeadRow

LEMMA MarkDeletedType ==
    ASSUME TypeOK, NEW rows, MarkDeleted(rows),
           "entity" \in rows => entity.present, "head" \in rows => head.present
    PROVE  /\ raw' \subseteq Doc
           /\ entity' \in EntityRow \cup {Absent}
           /\ head' \in HeadRow \cup {Absent}
BY DEF MarkDeleted, Marked, TypeOK, EntityRow, HeadRow, Absent

LEMMA MergedType ==
    ASSUME NEW row \in HeadRow, NEW seen \in HeadRow, NEW d \in Doc
    PROVE  Merged(row, seen, d) \in HeadRow
<1>1. [c \in Columns |-> IF d[c] # seen.doc[c] THEN d[c] ELSE row.doc[c]] \in Doc
  BY DEF HeadRow, Doc
<1> QED BY <1>1 DEF Merged, HeadRow

-----------------------------------------------------------------------------
(* The inductive invariant.                                                *)

\* A worker has an event that was sent.
HeldSent == \A w \in Workers : worker[w] # Idle => event[worker[w].event].status # "none"

\* An event of deletion is of a deletion that took place.
DeletionTookPlace == \A n \in Events : event[n].kind = "delete" => ~ source.live

\* What a deletion found, or upsert_invoice loaded, is there.
FoundIsThere ==
    /\ \A w \in Workers : worker[w] # Idle /\ KindOf(w) = "delete" =>
            /\ "entity" \in worker[w].rows => entity.present
            /\ "head" \in worker[w].rows => head.present
    /\ rec # Idle /\ rec.seen.present => head.present
    /\ rec.pc = "cleared" => rec.seen.present

IngestionInv == TypeOK /\ HeldSent /\ DeletionTookPlace /\ FoundIsThere /\ DeletedIsGone

LEMMA InvInit == Init => IngestionInv
<1> SUFFICES ASSUME Init PROVE IngestionInv
  OBVIOUS
<1>1. TypeOK
  BY TypeInit
<1>2. HeldSent /\ DeletionTookPlace /\ DeletedIsGone
  BY DEF Init, HeldSent, DeletionTookPlace, DeletedIsGone, Absent
<1>3. FoundIsThere
  BY DEF Init, FoundIsThere, Idle
<1> QED BY <1>1, <1>2, <1>3 DEF IngestionInv

\* An event that was sent keeps its kind.
LEMMA KindStays ==
    ASSUME TypeOK, HeldSent, [Next]_vars, NEW n \in Events, event[n].status # "none"
    PROVE  event'[n].status # "none" /\ event'[n].kind = event[n].kind
<1>1. ASSUME NEW k \in Events, NEW kind \in {"edit", "delete"}, Sends(k, kind)
      PROVE  event'[n].status # "none" /\ event'[n].kind = event[n].kind
  BY <1>1 DEF Sends, Unsent, TypeOK, Event
<1>2. CASE \E c \in Columns : Edit(c)
  BY <1>2, <1>1 DEF Edit
<1>3. CASE Delete
  BY <1>3, <1>1 DEF Delete
<1>4. ASSUME NEW k \in Events, Deliver(k) \/ Lose(k)
      PROVE  event'[n].status # "none" /\ event'[n].kind = event[n].kind
  BY <1>4 DEF Deliver, Lose, EventMoves, TypeOK, Event
<1>5. ASSUME NEW w \in Workers, WorkerStep(w) \/ WorkerCrash(w)
      PROVE  event'[n].status # "none" /\ event'[n].kind = event[n].kind
  <2>1. ASSUME NEW k \in Events, Claim(w, k)
        PROVE  event'[n].status # "none" /\ event'[n].kind = event[n].kind
    BY <2>1 DEF Claim, Attempt, TypeOK, Event
  <2>2. CASE Fetch(w) \/ LockEntity(w) \/ LockHead(w)
    BY <2>2 DEF Fetch, LockEntity, LockHead, Writes
  <2>3. CASE Commit(w)
    BY <2>3 DEF Commit, EventMoves, TypeOK, Event
  <2>4. CASE FetchFails(w) \/ WorkerIsVictim(w)
    BY <2>4 DEF FetchFails, WorkerIsVictim, GivesUp, AfterFailure, TypeOK, Event
  <2>5. CASE WorkerCrash(w)
    BY <2>5 DEF WorkerCrash, TypeOK, Event
  <2> QED BY <1>5, <2>1, <2>2, <2>3, <2>4, <2>5 DEF WorkerStep
<1>6. CASE RecStep \/ RecCrash
  BY <1>6 DEF RecStep, RecCrash, ReadDay, ReadNothing, RecLockEntity, RecStore, RecSelect,
              RecClearLines, RecUpdate, RecInsert, RecConflict, RecIsVictim, vars
<1>7. CASE UNCHANGED vars
  BY <1>7 DEF vars
<1> QED BY <1>2, <1>3, <1>4, <1>5, <1>6, <1>7 DEF Next

\* A worker that stays with its event still has a sent one of the same kind.
LEMMA HeldStays ==
    ASSUME TypeOK, HeldSent, [Next]_vars, NEW w \in Workers, worker[w] # Idle,
           worker'[w].event = worker[w].event
    PROVE  event'[worker'[w].event].status # "none" /\ KindOf(w)' = KindOf(w)
<1>1. worker[w].event \in Events
  BY BusyWorker DEF Busy
<1> QED BY <1>1, KindStays DEF HeldSent, KindOf

\* Steps of Alegra and of a webhook on its way.
LEMMA SourceStep ==
    ASSUME IngestionInv, [Next]_vars,
           (\E c \in Columns : Edit(c)) \/ Delete \/ (\E n \in Events : Deliver(n) \/ Lose(n))
    PROVE  IngestionInv'
<1> USE DEF IngestionInv
<1>1. /\ UNCHANGED <<raw, entity, head, worker, rec, crashes>>
      /\ lost' \in 0..MaxLost
  BY IngestionAssumption DEF Edit, Delete, Deliver, Lose, TypeOK, IngestionAssumption
<1>2. /\ source' \in [live : BOOLEAN, doc : Doc]
      /\ source'.live => source.live
  <2>1. ASSUME NEW c \in Columns, Edit(c)
        PROVE  source' \in [live : BOOLEAN, doc : Doc] /\ (source'.live => source.live)
    BY <2>1 DEF Edit, TypeOK, Doc
  <2>2. CASE Delete
    BY <2>2 DEF Delete, TypeOK
  <2>3. ASSUME NEW n \in Events, Deliver(n) \/ Lose(n) PROVE UNCHANGED source
    BY <2>3 DEF Deliver, Lose
  <2> QED BY <2>1, <2>2, <2>3 DEF TypeOK
<1>3. event' \in [Events -> Event] /\ DeletionTookPlace'
  <2>1. ASSUME NEW c \in Columns, Edit(c) PROVE event' \in [Events -> Event] /\ DeletionTookPlace'
    <3>1. PICK n \in Events : Sends(n, "edit")
      BY <2>1 DEF Edit
    <3>2. event' = [event EXCEPT ![n] = [event[n] EXCEPT !.kind = "edit", !.status = "sent"]]
      BY <3>1 DEF Sends
    <3>3. event' \in [Events -> Event]
      BY <3>2 DEF TypeOK, Event
    <3>4. source.live /\ source'.live = source.live
      BY <2>1 DEF Edit, TypeOK
    <3> QED BY <3>2, <3>3, <3>4 DEF DeletionTookPlace, TypeOK, Event
  <2>2. CASE Delete
    <3>1. PICK n \in Events : Sends(n, "delete")
      BY <2>2 DEF Delete
    <3>2. event' = [event EXCEPT ![n] = [event[n] EXCEPT !.kind = "delete", !.status = "sent"]]
      BY <3>1 DEF Sends
    <3>3. event' \in [Events -> Event]
      BY <3>2 DEF TypeOK, Event
    <3>4. ~ source'.live
      BY <2>2 DEF Delete, TypeOK
    <3> QED BY <3>3, <3>4 DEF DeletionTookPlace
  <2>3. ASSUME NEW n \in Events, Deliver(n) \/ Lose(n)
        PROVE  event' \in [Events -> Event] /\ DeletionTookPlace'
    <3>1. PICK s \in {"open", "lost"} : event' = [event EXCEPT ![n].status = s]
      BY <2>3 DEF Deliver, Lose, EventMoves
    <3>2. event' \in [Events -> Event] /\ \A k \in Events : event'[k].kind = event[k].kind
      BY <3>1 DEF TypeOK, Event
    <3> QED BY <2>3, <3>2 DEF DeletionTookPlace, Deliver, Lose
  <2> QED BY <2>1, <2>2, <2>3
<1>4. TypeOK'
  BY <1>1, <1>2, <1>3 DEF TypeOK
<1>5. \A w \in Workers : worker[w] # Idle =>
          event'[worker'[w].event].status # "none" /\ KindOf(w)' = KindOf(w)
  BY <1>1, HeldStays
<1>6. HeldSent' /\ FoundIsThere'
  BY <1>1, <1>5 DEF HeldSent, FoundIsThere
<1>7. DeletedIsGone'
  BY <1>1, <1>2 DEF DeletedIsGone
<1> QED BY <1>3, <1>4, <1>6, <1>7

\* Steps of the reconciler: events and workers stay, and no row is marked or goes.
LEMMA RecKeeps ==
    ASSUME IngestionInv, [Next]_vars, UNCHANGED <<source, event, worker, lost>>,
           crashes' \in 0..MaxCrashes, raw' \subseteq Doc,
           entity' \in EntityRow \cup {Absent}, head' \in HeadRow \cup {Absent},
           rec' \in {Idle} \cup Reading,
           entity.present => entity'.present, head.present => head'.present,
           entity'.present /\ entity'.deleted => entity.present /\ entity.deleted,
           head'.present /\ head'.deleted => head.present /\ head.deleted,
           rec' # Idle /\ rec'.seen.present => head'.present,
           rec'.pc = "cleared" => rec'.seen.present
    PROVE  IngestionInv'
<1> USE DEF IngestionInv
<1>1. TypeOK'
  BY DEF TypeOK
<1>2. HeldSent' /\ DeletionTookPlace'
  BY DEF HeldSent, DeletionTookPlace
<1>3. FoundIsThere'
  BY DEF FoundIsThere, KindOf
<1>4. DeletedIsGone'
  BY DEF DeletedIsGone
<1> QED BY <1>1, <1>2, <1>3, <1>4

\* The rows of the copy after persist_resource_batch.
LEMMA StoreKeeps ==
    ASSUME TypeOK, NEW d \in Doc, Store(d)
    PROVE  /\ raw' \subseteq Doc
           /\ entity' \in EntityRow \cup {Absent} /\ entity'.present /\ ~ entity'.deleted
           /\ head' \in HeadRow \cup {Absent} /\ head'.present /\ ~ head'.deleted
BY StoreType DEF Store

LEMMA RecInvStep ==
    ASSUME IngestionInv, [Next]_vars, RecStep \/ RecCrash
    PROVE  IngestionInv'
<1> USE DEF IngestionInv
<1>0. crashes \in 0..MaxCrashes /\ raw \subseteq Doc /\ rec \in {Idle} \cup Reading
      /\ entity \in EntityRow \cup {Absent} /\ head \in HeadRow \cup {Absent}
  BY DEF TypeOK
<1>1. CASE ReadDay
  <2>1. rec' \in Reading /\ ~ rec'.seen.present /\ rec'.pc = "read"
    BY <1>1 DEF ReadDay, Reading, Absent, TypeOK
  <2> QED BY <1>0, <1>1, <2>1, RecKeeps DEF ReadDay
<1>2. CASE ReadNothing
  BY <1>0, <1>2, RecKeeps DEF ReadNothing, vars, FoundIsThere
<1>3. CASE RecLockEntity
  <2>1. rec \in Reading
    BY <1>0, <1>3 DEF RecLockEntity, Idle
  <2>2. rec' \in Reading /\ rec'.seen = rec.seen /\ rec'.pc = "entity"
    BY <1>3, <2>1 DEF RecLockEntity, RecStaysAt, Reading
  <2>3. rec # Idle
    BY <1>3 DEF RecLockEntity, Idle
  <2> QED BY <1>0, <1>3, <2>2, <2>3, RecKeeps DEF RecLockEntity, FoundIsThere
<1>4. CASE RecStore
  <2>1. rec.doc \in Doc
    BY <1>0, <1>4 DEF RecStore, Idle, Reading
  <2>2. rec' = Idle /\ rec'.pc # "cleared"
    BY <1>4 DEF RecStore, Idle
  <2> QED BY <1>0, <1>4, <2>1, <2>2, StoreKeeps, RecKeeps DEF RecStore
<1>5. CASE RecSelect
  <2>1. rec \in Reading
    BY <1>0, <1>5 DEF RecSelect, Idle
  <2>2. rec' \in Reading /\ rec'.seen = head /\ rec'.pc = "selected"
    BY <1>0, <1>5, <2>1 DEF RecSelect, Reading
  <2> QED BY <1>0, <1>5, <2>2, RecKeeps DEF RecSelect
<1>6. CASE RecClearLines
  <2>1. rec \in Reading
    BY <1>0, <1>6 DEF RecClearLines, Idle
  <2>2. rec' \in Reading /\ rec'.seen = rec.seen /\ rec.seen.present
    BY <1>6, <2>1 DEF RecClearLines, RecStaysAt, Reading
  <2>3. rec # Idle
    BY <1>6 DEF RecClearLines, Idle
  <2> QED BY <1>0, <1>6, <2>2, <2>3, RecKeeps DEF RecClearLines, FoundIsThere
<1>7. CASE RecUpdate
  <2>1. rec # Idle /\ rec \in Reading /\ rec.seen.present /\ head.present
    BY <1>0, <1>7 DEF RecUpdate, Idle, FoundIsThere
  <2>2. rec.seen \in HeadRow /\ head \in HeadRow /\ rec.doc \in Doc
    BY <1>0, <2>1 DEF Reading, Absent
  <2>3. head' \in HeadRow
    BY <1>7, <2>2, MergedType DEF RecUpdate
  <2>4. head'.present /\ (head'.deleted => head.deleted)
    BY <1>7, <2>2 DEF RecUpdate, Merged, HeadRow
  <2>5. raw' \subseteq Doc /\ rec' = Idle /\ rec'.pc # "cleared"
    BY <1>0, <1>7, <2>2 DEF RecUpdate, Idle
  <2> QED BY <1>0, <1>7, <2>1, <2>3, <2>4, <2>5, RecKeeps DEF RecUpdate
<1>8. CASE RecInsert
  <2>1. rec.doc \in Doc
    BY <1>0, <1>8 DEF RecInsert, Idle, Reading
  <2>2. head' \in HeadRow /\ head'.present /\ ~ head'.deleted /\ raw' \subseteq Doc
    BY <1>0, <1>8, <2>1 DEF RecInsert, HeadRow
  <2>3. rec' = Idle /\ rec'.pc # "cleared"
    BY <1>8 DEF RecInsert, Idle
  <2> QED BY <1>0, <1>8, <2>2, <2>3, RecKeeps DEF RecInsert
<1>9. CASE RecConflict \/ RecIsVictim
  <2>1. /\ rec' = Idle /\ rec'.pc # "cleared"
        /\ UNCHANGED <<source, event, raw, entity, head, worker, lost, crashes>>
    BY <1>9 DEF RecConflict, RecIsVictim, Idle
  <2> QED BY <1>0, <2>1, RecKeeps
<1>10. CASE RecCrash
  <2>1. /\ rec' = Idle /\ rec'.pc # "cleared"
        /\ UNCHANGED <<source, event, raw, entity, head, worker, lost>>
    BY <1>10 DEF RecCrash, Idle
  <2>2. crashes' \in 0..MaxCrashes
    BY <1>0, <1>10, IngestionAssumption DEF RecCrash, IngestionAssumption
  <2> QED BY <1>0, <2>1, <2>2, RecKeeps
<1> QED BY <1>1, <1>2, <1>3, <1>4, <1>5, <1>6, <1>7, <1>8, <1>9, <1>10 DEF RecStep

\* Steps of a worker that commit nothing to the copy.
LEMMA WorkerKeeps ==
    ASSUME IngestionInv, [Next]_vars, NEW w \in Workers, NEW b \in {Idle} \cup Busy,
           UNCHANGED <<source, raw, entity, head, rec, lost>>, crashes' \in 0..MaxCrashes,
           event' \in [Events -> Event], worker' = [worker EXCEPT ![w] = b],
           \A n \in Events : event'[n].kind = event[n].kind,
           b # Idle => /\ event'[b.event].status # "none"
                       /\ event[b.event].kind = "delete" =>
                             /\ "entity" \in b.rows => entity.present
                             /\ "head" \in b.rows => head.present
    PROVE  IngestionInv'
<1> USE DEF IngestionInv
<1>1. worker' \in [Workers -> {Idle} \cup Busy]
  BY WorkerType
<1>2. TypeOK'
  BY <1>1 DEF TypeOK
<1>3. ASSUME NEW v \in Workers, worker'[v] # Idle
      PROVE  /\ event'[worker'[v].event].status # "none"
             /\ KindOf(v)' = "delete" => /\ "entity" \in worker'[v].rows => entity.present
                                         /\ "head" \in worker'[v].rows => head.present
  <2>1. CASE v = w
    <3>1. worker'[v] = b /\ b # Idle
      BY <2>1, <1>3 DEF TypeOK
    <3>2. b.event \in Events
      BY <3>1 DEF Busy
    <3> QED BY <3>1, <3>2 DEF KindOf
  <2>2. CASE v # w
    <3>1. worker'[v] = worker[v]
      BY <2>2 DEF TypeOK
    <3>2. event'[worker'[v].event].status # "none" /\ KindOf(v)' = KindOf(v)
      BY <1>3, <3>1, HeldStays
    <3> QED BY <1>3, <3>1, <3>2 DEF FoundIsThere
  <2> QED BY <2>1, <2>2
<1>4. HeldSent' /\ FoundIsThere'
  BY <1>3 DEF HeldSent, FoundIsThere
<1>5. DeletionTookPlace'
  BY DEF DeletionTookPlace
<1>6. DeletedIsGone'
  BY DEF DeletedIsGone
<1> QED BY <1>2, <1>4, <1>5, <1>6

\* A worker that gives up goes idle and leaves the event's kind alone.
LEMMA GivesUpStep ==
    ASSUME IngestionInv, [Next]_vars, NEW w \in Workers, worker[w] \in Busy, GivesUp(w)
    PROVE  IngestionInv'
<1> USE DEF IngestionInv
<1> DEFINE n == worker[w].event
<1>1. n \in Events
  BY DEF Busy
<1>2. /\ AfterFailure(event[n]) \in Event
      /\ AfterFailure(event[n]).kind = event[n].kind
  BY <1>1 DEF AfterFailure, TypeOK, Event
<1>3. event' = [event EXCEPT ![n] = AfterFailure(event[n])]
  BY DEF GivesUp
<1>4. event' \in [Events -> Event] /\ \A k \in Events : event'[k].kind = event[k].kind
  BY <1>1, <1>2, <1>3 DEF TypeOK
<1>5. crashes' \in 0..MaxCrashes
  BY DEF GivesUp, TypeOK
<1> QED BY <1>4, <1>5, WorkerKeeps DEF GivesUp

LEMMA WritesStep ==
    ASSUME IngestionInv, [Next]_vars, NEW w \in Workers, worker[w] # Idle,
           NEW row \in {"entity", "head"}, NEW present, NEW locked,
           Writes(w, row, present, locked),
           present => IF row = "entity" THEN entity.present ELSE head.present
    PROVE  IngestionInv'
<1> USE DEF IngestionInv
<1>1. worker[w] \in Busy /\ worker[w].event \in Events
  BY BusyWorker DEF Busy
<1>2. KindOf(w) \in {"edit", "delete"}
  BY <1>1 DEF KindOf, TypeOK, Event
<1>3. PICK h \in BOOLEAN : /\ h <=> (KindOf(w) = "edit" \/ present)
                           /\ worker' = [worker EXCEPT ![w] = Written(worker[w], row, h)]
  BY DEF Writes
<1> DEFINE b == Written(worker[w], row, h)
<1>4. /\ b \in Busy /\ b.event = worker[w].event
      /\ b.rows = worker[w].rows \cup (IF h THEN {row} ELSE {})
  BY <1>1 DEF Written, Busy
<1>5. UNCHANGED <<source, event, raw, entity, head, rec, lost, crashes>>
  BY DEF Writes
<1>6. event[b.event].status # "none"
  BY <1>4 DEF HeldSent
<1>7. ASSUME event[b.event].kind = "delete"
      PROVE  ("entity" \in b.rows => entity.present) /\ ("head" \in b.rows => head.present)
  <2>1. h => IF row = "entity" THEN entity.present ELSE head.present
    BY <1>3, <1>4, <1>7 DEF KindOf
  <2>2. /\ "entity" \in worker[w].rows => entity.present
        /\ "head" \in worker[w].rows => head.present
    BY <1>4, <1>7 DEF FoundIsThere, KindOf
  <2> QED BY <1>4, <2>1, <2>2
<1>8. crashes' \in 0..MaxCrashes /\ event' \in [Events -> Event]
  BY <1>5 DEF TypeOK
<1> HIDE DEF b
<1> QED BY <1>3, <1>4, <1>5, <1>6, <1>7, <1>8, WorkerKeeps DEF b

LEMMA CommitStep ==
    ASSUME IngestionInv, [Next]_vars, NEW w \in Workers, Commit(w)
    PROVE  IngestionInv'
<1> USE DEF IngestionInv
<1> DEFINE n == worker[w].event
<1>1. worker[w] # Idle /\ worker[w] \in Busy /\ n \in Events
  BY AtIsBusy DEF Commit, Busy
<1>2. KindOf(w) \in {"edit", "delete"} /\ worker[w].doc \in Doc
  BY <1>1 DEF KindOf, TypeOK, Event, Busy
<1>3. /\ raw' \subseteq Doc
      /\ entity' \in EntityRow \cup {Absent} /\ (entity.present => entity'.present)
      /\ head' \in HeadRow \cup {Absent} /\ (head.present => head'.present)
      /\ (head'.present /\ head'.deleted) \/ (entity'.present /\ entity'.deleted)
            => ~ source.live
  <2>1. CASE KindOf(w) = "edit"
    <3>1. Store(worker[w].doc)
      BY <2>1 DEF Commit, Apply
    <3> QED BY <1>2, <3>1, StoreKeeps
  <2>2. CASE KindOf(w) = "delete"
    <3>1. MarkDeleted(worker[w].rows)
      BY <2>2 DEF Commit, Apply
    <3>2. /\ "entity" \in worker[w].rows => entity.present
          /\ "head" \in worker[w].rows => head.present
      BY <1>1, <2>2 DEF FoundIsThere
    <3>3. ~ source.live
      BY <1>1, <2>2 DEF DeletionTookPlace, KindOf
    <3>4. (entity.present => entity'.present) /\ (head.present => head'.present)
      BY <3>1, <3>2 DEF MarkDeleted, Marked, TypeOK, EntityRow, HeadRow, Absent
    <3> QED BY <3>1, <3>2, <3>3, <3>4, MarkDeletedType
  <2> QED BY <1>2, <2>1, <2>2
<1>4. event' = [event EXCEPT ![n].status = "applied"]
  BY DEF Commit, EventMoves
<1>5. event' \in [Events -> Event] /\ \A k \in Events : event'[k].kind = event[k].kind
  BY <1>1, <1>4 DEF TypeOK, Event
<1>6. /\ worker' = [worker EXCEPT ![w] = Idle]
      /\ UNCHANGED <<source, rec, lost, crashes>>
  BY DEF Commit
<1>7. TypeOK'
  BY <1>3, <1>5, <1>6 DEF TypeOK
<1>8. ASSUME NEW v \in Workers, worker'[v] # Idle
      PROVE  /\ worker'[v] = worker[v] /\ worker[v] # Idle
             /\ event'[worker'[v].event].status # "none" /\ KindOf(v)' = KindOf(v)
  <2>1. worker'[v] = worker[v]
    BY <1>6, <1>8 DEF TypeOK
  <2> QED BY <1>8, <2>1, HeldStays
<1>9. HeldSent' /\ FoundIsThere'
  BY <1>3, <1>6, <1>8 DEF HeldSent, FoundIsThere
<1>10. DeletionTookPlace' /\ DeletedIsGone'
  BY <1>3, <1>5, <1>6 DEF DeletionTookPlace, DeletedIsGone
<1> QED BY <1>7, <1>9, <1>10

LEMMA WorkerInvStep ==
    ASSUME IngestionInv, [Next]_vars, NEW w \in Workers, WorkerStep(w) \/ WorkerCrash(w)
    PROVE  IngestionInv'
<1> USE DEF IngestionInv
<1>0. crashes \in 0..MaxCrashes /\ event \in [Events -> Event]
  BY DEF TypeOK
<1>1. ASSUME NEW n \in Events, Claim(w, n) PROVE IngestionInv'
  <2> DEFINE b == [pc |-> "claimed", event |-> n, doc |-> FirstDoc, rows |-> {}]
  <2>1. b \in Busy
    BY DEF Busy, FirstDoc, Doc
  <2>2. /\ event' = [event EXCEPT ![n] = Attempt(event[n])]
        /\ worker' = [worker EXCEPT ![w] = b]
        /\ UNCHANGED <<source, raw, entity, head, rec, lost, crashes>>
    BY <1>1 DEF Claim
  <2>3. /\ Attempt(event[n]) \in Event
        /\ Attempt(event[n]).kind = event[n].kind /\ Attempt(event[n]).status # "none"
    BY <1>0, AttemptType
  <2>4. /\ event' \in [Events -> Event] /\ \A k \in Events : event'[k].kind = event[k].kind
        /\ event'[b.event].status # "none"
    BY <1>0, <2>2, <2>3
  <2>5. b.rows = {}
    OBVIOUS
  <2> HIDE DEF b
  <2> QED BY <1>0, <2>1, <2>2, <2>4, <2>5, WorkerKeeps
<1>2. CASE Fetch(w)
  <2>1. worker[w] # Idle /\ worker[w] \in Busy
    BY <1>2, AtIsBusy DEF Fetch
  <2> DEFINE b == [worker[w] EXCEPT !.pc = "fetched", !.doc = source.doc]
  <2>2. source.doc \in Doc
    BY DEF TypeOK
  <2>3. b \in Busy /\ b.event = worker[w].event /\ b.rows = worker[w].rows
    BY <2>1, <2>2 DEF Busy
  <2>4. worker' = [worker EXCEPT ![w] = b]
    BY <1>2 DEF Fetch
  <2>5. UNCHANGED <<source, event, raw, entity, head, rec, lost, crashes>>
    BY <1>2 DEF Fetch
  <2> HIDE DEF b
  <2> QED BY <1>0, <2>1, <2>3, <2>4, <2>5, WorkerKeeps DEF HeldSent, FoundIsThere, KindOf
<1>3. CASE LockEntity(w)
  <2>1. worker[w] # Idle
    BY <1>3, AtIsBusy DEF LockEntity
  <2> QED BY <1>3, <2>1, WritesStep DEF LockEntity
<1>4. CASE LockHead(w)
  <2>1. worker[w] # Idle
    BY <1>4, AtIsBusy DEF LockHead
  <2> QED BY <1>4, <2>1, WritesStep DEF LockHead
<1>5. CASE Commit(w)
  BY <1>5, CommitStep
<1>6. CASE FetchFails(w) \/ WorkerIsVictim(w)
  <2>1. worker[w] \in Busy
    BY <1>6, AtIsBusy DEF FetchFails, WorkerIsVictim, Deadlocked
  <2> QED BY <1>6, <2>1, GivesUpStep DEF FetchFails, WorkerIsVictim
<1>7. CASE WorkerCrash(w)
  <2>1. worker[w].event \in Events
    BY <1>7, BusyWorker DEF WorkerCrash, Busy
  <2>2. /\ event' = [event EXCEPT ![worker[w].event].status = "open"]
        /\ worker' = [worker EXCEPT ![w] = Idle]
        /\ UNCHANGED <<source, raw, entity, head, rec, lost>>
    BY <1>7 DEF WorkerCrash
  <2>3. event' \in [Events -> Event] /\ \A k \in Events : event'[k].kind = event[k].kind
    BY <1>0, <2>1, <2>2 DEF Event
  <2>4. crashes' \in 0..MaxCrashes
    BY <1>0, <1>7, IngestionAssumption DEF WorkerCrash, IngestionAssumption
  <2> QED BY <2>2, <2>3, <2>4, WorkerKeeps
<1> QED BY <1>1, <1>2, <1>3, <1>4, <1>5, <1>6, <1>7 DEF WorkerStep

LEMMA InvStep == IngestionInv /\ [Next]_vars => IngestionInv'
<1> SUFFICES ASSUME IngestionInv, [Next]_vars PROVE IngestionInv'
  OBVIOUS
<1>1. CASE UNCHANGED vars
  BY <1>1 DEF vars, IngestionInv, TypeOK, HeldSent, DeletionTookPlace, FoundIsThere,
              DeletedIsGone, KindOf
<1>2. CASE Next
  BY <1>2, SourceStep, RecInvStep, WorkerInvStep DEF Next
<1> QED BY <1>1, <1>2

LEMMA InvHolds == SafeSpec => []IngestionInv
<1>1. Init => IngestionInv
  BY InvInit
<1>2. IngestionInv /\ [Next]_vars => IngestionInv'
  BY InvStep
<1> QED BY <1>1, <1>2, PTL DEF SafeSpec

\* Every reachable state of the copy is well typed.
THEOREM IngestionTypeCorrect == SafeSpec => []TypeOK
<1>1. IngestionInv => TypeOK
  BY DEF IngestionInv
<1> QED BY <1>1, InvHolds, PTL

\* No writer, however late, hides a document that is still in Alegra: only
\* mark_resource_projection_deleted sets is_deleted, and only for an event whose
\* deletion took place.
THEOREM OnlyTheGoneIsHidden == SafeSpec => []DeletedIsGone
<1>1. IngestionInv => DeletedIsGone
  BY DEF IngestionInv
<1> QED BY <1>1, InvHolds, PTL

-----------------------------------------------------------------------------
(* Where every writer is persist_resource_batch.                           *)

\* A deletion that found the canonical row finds the typed row as well.
HeadFound ==
    \A w \in Workers : At(w, "head") /\ KindOf(w) = "delete" =>
        ("entity" \in worker[w].rows => "head" \in worker[w].rows)

BatchInv ==
    /\ rec.pc \notin {"selected", "cleared"}
    /\ entity.present <=> head.present
    /\ HeadFound
    /\ ProjectionFollows

LEMMA BatchInit == Init => BatchInv
<1> SUFFICES ASSUME Init PROVE BatchInv
  OBVIOUS
<1>1. rec.pc \notin {"selected", "cleared"} /\ (entity.present <=> head.present)
  BY DEF Init, Idle, Absent
<1>2. HeadFound /\ ProjectionFollows
  BY DEF Init, HeadFound, ProjectionFollows, At, Idle, Absent
<1> QED BY <1>1, <1>2 DEF BatchInv

\* A step that leaves the rows alone and brings no worker to its last statement.
LEMMA RowsStay ==
    ASSUME IngestionInv, [Next]_vars, BatchInv, UNCHANGED <<entity, head>>,
           rec'.pc \notin {"selected", "cleared"},
           \A w \in Workers : At(w, "head")' => worker'[w] = worker[w]
    PROVE  BatchInv'
<1>1. ASSUME NEW w \in Workers, At(w, "head")', KindOf(w)' = "delete"
      PROVE  "entity" \in worker'[w].rows => "head" \in worker'[w].rows
  <2>1. worker'[w] = worker[w] /\ At(w, "head")
    BY <1>1 DEF At
  <2>2. worker[w] # Idle
    BY <2>1, AtIsBusy DEF IngestionInv
  <2>3. KindOf(w)' = KindOf(w)
    BY <2>1, <2>2, HeldStays DEF IngestionInv
  <2> QED BY <1>1, <2>1, <2>3 DEF BatchInv, HeadFound
<1>2. HeadFound'
  BY <1>1 DEF HeadFound
<1> QED BY <1>2 DEF BatchInv, ProjectionFollows

\* A commit of either kind, or the reconciler's, keeps the two rows together.
LEMMA CopyWritten ==
    ASSUME IngestionInv, [Next]_vars, BatchInv,
           rec'.pc \notin {"selected", "cleared"},
           \A w \in Workers : At(w, "head")' => worker'[w] = worker[w],
           entity'.present <=> head'.present, ProjectionFollows'
    PROVE  BatchInv'
<1>1. ASSUME NEW w \in Workers, At(w, "head")', KindOf(w)' = "delete"
      PROVE  "entity" \in worker'[w].rows => "head" \in worker'[w].rows
  <2>1. worker'[w] = worker[w] /\ At(w, "head")
    BY <1>1 DEF At
  <2>2. worker[w] # Idle
    BY <2>1, AtIsBusy DEF IngestionInv
  <2>3. KindOf(w)' = KindOf(w)
    BY <2>1, <2>2, HeldStays DEF IngestionInv
  <2> QED BY <1>1, <2>1, <2>3 DEF BatchInv, HeadFound
<1>2. HeadFound'
  BY <1>1 DEF HeadFound
<1> QED BY <1>2 DEF BatchInv

LEMMA BatchStep ==
    ASSUME Resource = "bill", IngestionInv, BatchInv, [Next]_vars
    PROVE  BatchInv'
<1>0. rec.pc \notin {"selected", "cleared"} /\ TypeOK
  BY DEF BatchInv, IngestionInv
<1>1. CASE (\E c \in Columns : Edit(c)) \/ Delete \/ \E n \in Events : Deliver(n) \/ Lose(n)
  <2>1. UNCHANGED <<entity, head, worker, rec>>
    BY <1>1 DEF Edit, Delete, Deliver, Lose
  <2> QED BY <1>0, <2>1, RowsStay
<1>2. ASSUME NEW w \in Workers, WorkerStep(w) \/ WorkerCrash(w) PROVE BatchInv'
  <2>1. ASSUME UNCHANGED <<entity, head, rec>>, NEW b,
               worker' = [worker EXCEPT ![w] = b], b.pc # "head"
        PROVE  BatchInv'
    <3>1. \A v \in Workers : At(v, "head")' => worker'[v] = worker[v]
      BY <2>1 DEF At, TypeOK
    <3> QED BY <1>0, <2>1, <3>1, RowsStay
  <2>2. Idle.pc # "head"
    BY DEF Idle
  <2>3. ASSUME NEW n \in Events, Claim(w, n) PROVE BatchInv'
    <3> DEFINE b == [pc |-> "claimed", event |-> n, doc |-> FirstDoc, rows |-> {}]
    <3>1. worker' = [worker EXCEPT ![w] = b] /\ UNCHANGED <<entity, head, rec>>
      BY <2>3 DEF Claim
    <3>2. b.pc # "head"
      OBVIOUS
    <3> HIDE DEF b
    <3> QED BY <2>1, <3>1, <3>2
  <2>4. CASE Fetch(w)
    <3>1. worker[w] \in Busy
      BY <1>0, <2>4, AtIsBusy DEF Fetch
    <3> DEFINE b == [worker[w] EXCEPT !.pc = "fetched", !.doc = source.doc]
    <3>2. b.pc # "head"
      BY <3>1 DEF Busy
    <3>3. worker' = [worker EXCEPT ![w] = b] /\ UNCHANGED <<entity, head, rec>>
      BY <2>4 DEF Fetch
    <3> HIDE DEF b
    <3> QED BY <2>1, <3>2, <3>3
  <2>5. CASE LockEntity(w)
    <3>1. worker[w] \in Busy
      BY <1>0, <2>5, AtIsBusy DEF LockEntity
    <3>2. PICK h \in BOOLEAN : worker' = [worker EXCEPT ![w] = Written(worker[w], "entity", h)]
      BY <2>5 DEF LockEntity, Writes
    <3>3. Written(worker[w], "entity", h).pc # "head"
      BY <3>1 DEF Written, Busy
    <3> QED BY <2>1, <2>5, <3>2, <3>3 DEF LockEntity, Writes
  <2>6. CASE LockHead(w)
    <3>1. worker[w] # Idle /\ worker[w] \in Busy
      BY <1>0, <2>6, AtIsBusy DEF LockHead
    <3>2. PICK h \in BOOLEAN :
             /\ h <=> (KindOf(w) = "edit" \/ head.present)
             /\ worker' = [worker EXCEPT ![w] = Written(worker[w], "head", h)]
      BY <2>6 DEF LockHead, Writes
    <3>3. UNCHANGED <<event, entity, head, rec>>
      BY <2>6 DEF LockHead, Writes
    <3>4. /\ worker'[w].event = worker[w].event
          /\ worker'[w].rows = worker[w].rows \cup (IF h THEN {"head"} ELSE {})
      BY <1>0, <3>1, <3>2 DEF TypeOK, Written, Busy
    <3>5. KindOf(w)' = KindOf(w)
      BY <3>3, <3>4 DEF KindOf
    <3>6. KindOf(w) = "delete" /\ "entity" \in worker[w].rows => head.present
      BY <3>1 DEF IngestionInv, FoundIsThere, BatchInv
    <3>7. HeadFound'
      <4>1. ASSUME NEW v \in Workers, At(v, "head")', KindOf(v)' = "delete",
                   "entity" \in worker'[v].rows
            PROVE  "head" \in worker'[v].rows
        <5>1. CASE v = w
          BY <3>2, <3>4, <3>5, <3>6, <4>1, <5>1
        <5>2. CASE v # w
          <6>1. worker'[v] = worker[v]
            BY <1>0, <3>2, <5>2 DEF TypeOK
          <6>2. At(v, "head") /\ KindOf(v) = "delete"
            BY <3>3, <4>1, <6>1 DEF At, KindOf
          <6> QED BY <4>1, <6>1, <6>2 DEF BatchInv, HeadFound
        <5> QED BY <5>1, <5>2
      <4> QED BY <4>1 DEF HeadFound
    <3> QED BY <1>0, <3>3, <3>7 DEF BatchInv, ProjectionFollows
  <2>7. CASE Commit(w)
    <3>1. At(w, "head") /\ worker[w] # Idle /\ worker[w] \in Busy
      BY <1>0, <2>7, AtIsBusy DEF Commit
    <3>2. worker' = [worker EXCEPT ![w] = Idle] /\ UNCHANGED rec
      BY <2>7 DEF Commit
    <3>3. \A v \in Workers : At(v, "head")' => worker'[v] = worker[v]
      BY <1>0, <2>2, <3>2 DEF At, TypeOK
    <3>4. KindOf(w) \in {"edit", "delete"}
      BY <1>0, <3>1 DEF KindOf, TypeOK, Event, Busy
    <3>5. (entity'.present <=> head'.present) /\ ProjectionFollows'
      <4>1. CASE KindOf(w) = "edit"
        <5>1. Store(worker[w].doc)
          BY <2>7, <4>1 DEF Commit, Apply
        <5> QED BY <5>1 DEF Store, ProjectionFollows
      <4>2. CASE KindOf(w) = "delete"
        <5>1. MarkDeleted(worker[w].rows)
          BY <2>7, <4>2 DEF Commit, Apply
        <5>2. /\ "entity" \in worker[w].rows => entity.present /\ "head" \in worker[w].rows
              /\ "head" \in worker[w].rows => head.present
          BY <3>1, <4>2 DEF IngestionInv, FoundIsThere, BatchInv, HeadFound
        <5>3. /\ entity'.present = entity.present
              /\ entity.present => entity'.doc = entity.doc
              /\ entity.present => (entity'.deleted <=> entity.deleted \/ "entity" \in worker[w].rows)
          BY <1>0, <5>1, <5>2 DEF MarkDeleted, Marked, TypeOK, EntityRow, Absent
        <5>4. /\ head'.present = head.present
              /\ head.present => head'.hash = head.hash
              /\ head.present => (head'.deleted <=> head.deleted \/ "head" \in worker[w].rows)
          BY <1>0, <5>1, <5>2 DEF MarkDeleted, Marked, TypeOK, HeadRow, Absent
        <5> QED BY <5>2, <5>3, <5>4 DEF BatchInv, ProjectionFollows
      <4> QED BY <3>4, <4>1, <4>2
    <3> QED BY <1>0, <3>2, <3>3, <3>5, CopyWritten
  <2>8. CASE FetchFails(w) \/ WorkerIsVictim(w) \/ WorkerCrash(w)
    <3>1. worker' = [worker EXCEPT ![w] = Idle] /\ UNCHANGED <<entity, head, rec>>
      BY <2>8 DEF FetchFails, WorkerIsVictim, WorkerCrash, GivesUp
    <3> QED BY <2>1, <2>2, <3>1
  <2> QED BY <1>2, <2>3, <2>4, <2>5, <2>6, <2>7, <2>8 DEF WorkerStep
<1>3. CASE RecStep \/ RecCrash
  <2>1. CASE RecStore
    <3>1. rec'.pc \notin {"selected", "cleared"} /\ UNCHANGED worker
      BY <2>1 DEF RecStore, Idle
    <3>2. (entity'.present <=> head'.present) /\ ProjectionFollows'
      BY <2>1 DEF RecStore, Store, ProjectionFollows
    <3> QED BY <3>1, <3>2, CopyWritten
  <2>2. CASE ReadDay \/ ReadNothing \/ RecLockEntity \/ RecIsVictim \/ RecCrash
    <3>1. UNCHANGED <<entity, head, worker>>
      BY <2>2 DEF ReadDay, ReadNothing, RecLockEntity, RecIsVictim, RecCrash, vars
    <3>2. CASE RecLockEntity
      <4>1. rec \in Reading
        BY <1>0, <3>2 DEF RecLockEntity, TypeOK, Idle
      <4>2. rec'.pc = "entity"
        BY <3>2, <4>1 DEF RecLockEntity, RecStaysAt, Reading
      <4> QED BY <3>1, <4>2, RowsStay
    <3>3. CASE ~ RecLockEntity
      <4>1. rec'.pc \notin {"selected", "cleared"}
        BY <1>0, <2>2, <3>3 DEF ReadDay, ReadNothing, RecIsVictim, RecCrash, Idle, vars
      <4> QED BY <3>1, <4>1, RowsStay
    <3> QED BY <3>2, <3>3
  <2>3. ~ (RecSelect \/ RecClearLines \/ RecUpdate \/ RecInsert \/ RecConflict)
    BY <1>0 DEF RecSelect, RecClearLines, RecUpdate, RecInsert, RecConflict
  <2> QED BY <1>3, <2>1, <2>2, <2>3 DEF RecStep
<1>4. CASE UNCHANGED vars
  BY <1>0, <1>4, RowsStay DEF vars
<1> QED BY <1>1, <1>2, <1>3, <1>4 DEF Next

\* For bills and purchase orders the typed row has the version of the canonical
\* row and follows its deletion, whatever workers and reconciler interleave.
THEOREM TypedRowFollows == ASSUME Resource = "bill" PROVE SafeSpec => []ProjectionFollows
<1>1. Init => BatchInv
  BY BatchInit
<1>2. IngestionInv /\ BatchInv /\ [Next]_vars => BatchInv'
  BY BatchStep
<1>3. BatchInv => ProjectionFollows
  BY DEF BatchInv
<1> QED BY <1>1, <1>2, <1>3, InvHolds, PTL DEF SafeSpec
=============================================================================

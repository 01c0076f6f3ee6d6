------------------------------ MODULE Ingestion ------------------------------
(***************************************************************************)
(* One document of Alegra and its copy in PostgreSQL: the raw versions, the *)
(* canonical row of alegra_entities and the typed projection with its      *)
(* lines.  Webhook workers and the reconciler both write the copy, from    *)
(* what they read in Alegra some time before.                              *)
(*                                                                         *)
(* That an event is held by one worker and a window by one reconciler is   *)
(* what EventQueue and SyncLease show; here a claim is exclusive.  A step  *)
(* is one read of Alegra, one SQL statement that takes row locks, or the   *)
(* commit.  What a transaction wrote is visible from its commit on.        *)
(***************************************************************************)
EXTENDS Integers, FiniteSets

CONSTANTS Resource,    \* "invoice" or "bill"
          Columns,     \* columns of the document, edited one at a time
          Workers,     \* webhook workers
          MaxChanges,  \* bound: edits and deletions in Alegra
          MaxAttempts, \* attempts per event (retry_or_fail_event)
          MaxLost,     \* bound: webhooks that never arrive
          MaxCrashes   \* bound: workers and reconcilers that die

ASSUME IngestionAssumption ==
    /\ Resource \in {"invoice", "bill"}
    /\ {MaxChanges, MaxLost, MaxCrashes} \subseteq Nat
    /\ MaxAttempts \in Nat \ {0}

VARIABLES source,   \* the document in Alegra
          event,    \* the webhook of each change, from Alegra to its end
          raw,      \* payloads in raw_alegra_documents
          entity,   \* the row of alegra_entities
          head,     \* the row of the typed projection, with its lines
          worker,   \* the local state of each worker
          rec,      \* the local state of the reconciler
          lost, crashes   \* uses of the bounds

vars == <<source, event, raw, entity, head, worker, rec, lost, crashes>>

-----------------------------------------------------------------------------
\* A document is what its columns say; a flag flips when a column is edited.
Doc == [Columns -> BOOLEAN]
FirstDoc == [c \in Columns |-> FALSE]

Events == 1..MaxChanges

Absent == [present |-> FALSE]
EntityRow == [present : {TRUE}, doc : Doc, deleted : BOOLEAN]
\* columns, source_hash and the lines are written by different statements.
HeadRow == [present : {TRUE}, doc : Doc, hash : Doc, lines : Doc, deleted : BOOLEAN]

Idle == [pc |-> "idle"]
\* rows are the rows the transaction has written and keeps locked.
Busy == [pc : {"claimed", "fetched", "entity", "head"}, event : Events, doc : Doc,
         rows : SUBSET {"entity", "head"}]
Reading == [pc : {"read", "selected", "cleared", "entity"}, doc : Doc,
            seen : HeadRow \cup {Absent}, logged : BOOLEAN]

Init ==
    /\ source = [live |-> TRUE, doc |-> FirstDoc]
    /\ event = [n \in Events |-> [kind |-> "edit", status |-> "none", attempts |-> 0]]
    /\ raw = {}
    /\ entity = Absent
    /\ head = Absent
    /\ worker = [w \in Workers |-> Idle]
    /\ rec = Idle
    /\ lost = 0 /\ crashes = 0

-----------------------------------------------------------------------------
(* Alegra and the way of a webhook to the queue.                           *)

\* The number of the next change; one change sends one webhook.
Unsent == {n \in Events : event[n].status = "none"}

Sends(n, kind) ==
    /\ n \in Unsent
    /\ \A k \in Unsent : n <= k
    /\ event' = [event EXCEPT ![n] = [@ EXCEPT !.kind = kind, !.status = "sent"]]

Edit(c) ==
    /\ source.live
    /\ \E n \in Events : Sends(n, "edit")
    /\ source' = [source EXCEPT !.doc[c] = ~ @]
    /\ UNCHANGED <<raw, entity, head, worker, rec, lost, crashes>>

Delete ==
    /\ source.live
    /\ \E n \in Events : Sends(n, "delete")
    /\ source' = [source EXCEPT !.live = FALSE]
    /\ UNCHANGED <<raw, entity, head, worker, rec, lost, crashes>>

EventMoves(n, from, to) ==
    /\ event[n].status = from
    /\ event' = [event EXCEPT ![n].status = to]

Deliver(n) ==
    /\ EventMoves(n, "sent", "open")
    /\ UNCHANGED <<source, raw, entity, head, worker, rec, lost, crashes>>

Lose(n) ==
    /\ lost < MaxLost
    /\ lost' = lost + 1
    /\ EventMoves(n, "sent", "lost")
    /\ UNCHANGED <<source, raw, entity, head, worker, rec, crashes>>

-----------------------------------------------------------------------------
(* Row locks, held from the statement that writes a row to the commit.     *)

KindOf(w) == event[worker[w].event].kind

At(w, pc) == worker[w].pc = pc
Locks(w, row) == worker[w] # Idle /\ row \in worker[w].rows
EntityLocked == rec.pc = "entity" \/ \E w \in Workers : Locks(w, "entity")
HeadLocked == \E w \in Workers : Locks(w, "head")
LinesLocked == rec.pc = "cleared"

\* The rows to insert are neither there nor being inserted.
VersionFree ==
    rec.logged \/ /\ rec.doc \notin raw
                  /\ ~ \E w \in Workers : /\ Locks(w, "entity") /\ KindOf(w) = "edit"
                                           /\ worker[w].doc = rec.doc
VersionTaken == ~ rec.logged /\ rec.doc \in raw

-----------------------------------------------------------------------------
(* What is written.                                                        *)

\* persist_resource_batch: every layer, every column, and the document is back.
Store(doc) ==
    /\ raw' = raw \cup {doc}
    /\ entity' = [present |-> TRUE, doc |-> doc, deleted |-> FALSE]
    /\ head' = [present |-> TRUE, doc |-> doc, hash |-> doc, lines |-> doc, deleted |-> FALSE]

Marked(row) == [row EXCEPT !.deleted = TRUE]

\* Mutant of MarkDeleted: the resource is missing from _PROJECTIONS.
MarkEntity(rows) ==
    /\ entity' = IF "entity" \in rows THEN Marked(entity) ELSE entity
    /\ UNCHANGED <<raw, head>>

\* mark_resource_projection_deleted: an UPDATE marks the row it found.
MarkDeleted(rows) ==
    /\ entity' = IF "entity" \in rows THEN Marked(entity) ELSE entity
    /\ head' = IF "head" \in rows THEN Marked(head) ELSE head
    /\ UNCHANGED raw

\* Mutant of Merged: an invoice whose source_hash is the same is left alone.
MergedUnlessSame(row, seen, doc) ==
    IF doc = seen.hash THEN row
    ELSE [present |-> TRUE,
          doc     |-> [c \in Columns |-> IF doc[c] # seen.doc[c] THEN doc[c] ELSE row.doc[c]],
          hash    |-> doc,
          lines   |-> doc,
          deleted |-> IF seen.deleted THEN FALSE ELSE row.deleted]

\* The columns of an ORM object whose value differs from the one it was loaded with.
Merged(row, seen, doc) ==
    [present |-> TRUE,
     doc     |-> [c \in Columns |-> IF doc[c] # seen.doc[c] THEN doc[c] ELSE row.doc[c]],
     hash    |-> IF doc # seen.hash THEN doc ELSE row.hash,
     lines   |-> doc,
     deleted |-> IF seen.deleted THEN FALSE ELSE row.deleted]

-----------------------------------------------------------------------------
(* A webhook worker.                                                       *)

Attempt(e) == [kind |-> e.kind, status |-> "taken", attempts |-> e.attempts + 1]

Claim(w, n) ==
    /\ worker[w] = Idle
    /\ event[n].status = "open"
    /\ event' = [event EXCEPT ![n] = Attempt(@)]
    /\ worker' = [worker EXCEPT ![w] =
                    [pc |-> "claimed", event |-> n, doc |-> FirstDoc, rows |-> {}]]
    /\ UNCHANGED <<source, raw, entity, head, rec, lost, crashes>>

\* The canonical document is fetched; a deletion needs no request.
Fetch(w) ==
    /\ At(w, "claimed")
    /\ KindOf(w) = "edit" => source.live
    /\ worker' = [worker EXCEPT ![w].pc = "fetched", ![w].doc = source.doc]
    /\ UNCHANGED <<source, event, raw, entity, head, rec, lost, crashes>>

Written(b, row, hit) == [b EXCEPT !.pc = row, !.rows = @ \cup (IF hit THEN {row} ELSE {})]

\* An INSERT ... ON CONFLICT waits for whoever has the row; the UPDATE of a
\* deletion passes by a row that is not there yet, even one about to be committed.
Writes(w, row, present, locked) ==
    LET hit == KindOf(w) = "edit" \/ present
    IN  /\ hit => ~ locked
        /\ worker' = [worker EXCEPT ![w] = Written(@, row, hit)]
        /\ UNCHANGED <<source, event, raw, entity, head, rec, lost, crashes>>

LockEntity(w) == At(w, "fetched") /\ Writes(w, "entity", entity.present, EntityLocked)

LockHead(w) == At(w, "entity") /\ Writes(w, "head", head.present, HeadLocked)

\* Mutant of Apply: the test of the subject is inverted.
ApplyInverted(kind, w) ==
    IF kind = "edit" THEN MarkDeleted(w.rows) ELSE Store(w.doc)

Apply(kind, w) == IF kind = "delete" THEN MarkDeleted(w.rows) ELSE Store(w.doc)

\* The worker wants the lines the reconciler has, who wants the worker's invoice:
\* PostgreSQL aborts one of the two.
Deadlocked(w) == At(w, "head") /\ KindOf(w) = "edit" /\ LinesLocked

\* The lines, of which a deletion writes none, complete_event and the commit.
Commit(w) ==
    /\ At(w, "head")
    /\ ~ Deadlocked(w)
    /\ Apply(KindOf(w), worker[w])
    /\ EventMoves(worker[w].event, "taken", "applied")
    /\ worker' = [worker EXCEPT ![w] = Idle]
    /\ UNCHANGED <<source, rec, lost, crashes>>

\* Mutant of AfterFailure: a status no other part of the code knows.
AfterFailureRenamed(e) == [e EXCEPT !.status = "error"]

\* retry_or_fail_event, without its delay.
AfterFailure(e) ==
    [e EXCEPT !.status = IF e.attempts >= MaxAttempts THEN "failed" ELSE "open"]

GivesUp(w) ==
    /\ event' = [event EXCEPT ![worker[w].event] = AfterFailure(@)]
    /\ worker' = [worker EXCEPT ![w] = Idle]
    /\ UNCHANGED <<source, raw, entity, head, rec, lost, crashes>>

\* The GET is out of retries, or the document is gone; a 404 is an error like any other.
FetchFails(w) == At(w, "claimed") /\ KindOf(w) = "edit" /\ GivesUp(w)

WorkerIsVictim(w) == Deadlocked(w) /\ GivesUp(w)

\* A worker dies; its lease expires and the event is claimed again.
WorkerCrash(w) ==
    /\ worker[w] # Idle
    /\ crashes < MaxCrashes
    /\ crashes' = crashes + 1
    /\ event' = [event EXCEPT ![worker[w].event].status = "open"]
    /\ worker' = [worker EXCEPT ![w] = Idle]
    /\ UNCHANGED <<source, raw, entity, head, rec, lost>>

-----------------------------------------------------------------------------
(* The reconciler.                                                         *)

RecStaysAt(pc) == rec' = [rec EXCEPT !.pc = pc]

\* A day's pages list what is live in Alegra.
ReadDay ==
    /\ rec = Idle
    /\ source.live
    /\ rec' = [pc |-> "read", doc |-> source.doc, seen |-> Absent, logged |-> FALSE]
    /\ UNCHANGED <<source, event, raw, entity, head, worker, lost, crashes>>

\* The pages no longer list it: nothing is written, and nothing marked deleted.
ReadNothing == rec = Idle /\ ~ source.live /\ UNCHANGED vars

\* Bills and purchase orders: persist_resource_batch, in the worker's order.
RecLockEntity ==
    /\ Resource = "bill"
    /\ rec.pc = "read"
    /\ ~ EntityLocked
    /\ RecStaysAt("entity")
    /\ UNCHANGED <<source, event, raw, entity, head, worker, lost, crashes>>

RecStore ==
    /\ rec.pc = "entity"
    /\ ~ HeadLocked
    /\ Store(rec.doc)
    /\ rec' = Idle
    /\ UNCHANGED <<source, event, worker, lost, crashes>>

\* Invoices: upsert_invoice looks for the version and the row without a lock ...
RecSelect ==
    /\ Resource = "invoice"
    /\ rec.pc = "read"
    /\ rec' = [pc |-> "selected", doc |-> rec.doc, seen |-> head, logged |-> rec.doc \in raw]
    /\ UNCHANGED <<source, event, raw, entity, head, worker, lost, crashes>>

\* ... deletes the lines before the row itself is flushed ...
RecClearLines ==
    /\ rec.pc = "selected"
    /\ rec.seen.present
    /\ RecStaysAt("cleared")
    /\ UNCHANGED <<source, event, raw, entity, head, worker, lost, crashes>>

\* ... and leaves alegra_entities alone.
RecUpdate ==
    /\ rec.pc = "cleared"
    /\ VersionFree
    /\ ~ HeadLocked
    /\ raw' = raw \cup {rec.doc}
    /\ head' = Merged(head, rec.seen, rec.doc)
    /\ rec' = Idle
    /\ UNCHANGED <<source, event, entity, worker, lost, crashes>>

RecInsert ==
    /\ rec.pc = "selected"
    /\ ~ rec.seen.present
    /\ VersionFree
    /\ ~ HeadLocked
    /\ ~ head.present
    /\ raw' = raw \cup {rec.doc}
    /\ head' = [present |-> TRUE, doc |-> rec.doc, hash |-> rec.doc, lines |-> rec.doc,
                deleted |-> FALSE]
    /\ rec' = Idle
    /\ UNCHANGED <<source, event, entity, worker, lost, crashes>>

\* A worker inserted the version or the invoice meanwhile: IntegrityError ends the run.
RecConflict ==
    /\ \/ rec.pc = "cleared" /\ VersionTaken
       \/ rec.pc = "selected" /\ ~ rec.seen.present /\ (head.present \/ VersionTaken)
    /\ rec' = Idle
    /\ UNCHANGED <<source, event, raw, entity, head, worker, lost, crashes>>

RecIsVictim ==
    /\ \E w \in Workers : Deadlocked(w)
    /\ rec' = Idle
    /\ UNCHANGED <<source, event, raw, entity, head, worker, lost, crashes>>

RecCrash ==
    /\ rec # Idle
    /\ crashes < MaxCrashes
    /\ crashes' = crashes + 1
    /\ rec' = Idle
    /\ UNCHANGED <<source, event, raw, entity, head, worker, lost>>

-----------------------------------------------------------------------------
WorkerStep(w) ==
    \/ \E n \in Events : Claim(w, n)
    \/ Fetch(w) \/ LockEntity(w) \/ LockHead(w) \/ Commit(w)
    \/ FetchFails(w) \/ WorkerIsVictim(w)

RecStep ==
    \/ ReadDay \/ ReadNothing
    \/ RecLockEntity \/ RecStore
    \/ RecSelect \/ RecClearLines \/ RecUpdate \/ RecInsert \/ RecConflict
    \/ RecIsVictim

Next ==
    \/ \E c \in Columns : Edit(c)
    \/ Delete
    \/ \E n \in Events : Deliver(n) \/ Lose(n)
    \/ \E w \in Workers : WorkerStep(w) \/ WorkerCrash(w)
    \/ RecStep \/ RecCrash

\* A webhook arrives or is lost; workers and reconcilers are run for ever.
Fairness ==
    /\ \A n \in Events : WF_vars(Deliver(n) \/ Lose(n))
    /\ \A w \in Workers : WF_vars(WorkerStep(w))
    /\ WF_vars(RecStep)

SafeSpec == Init /\ [][Next]_vars
Spec == SafeSpec /\ Fairness
-----------------------------------------------------------------------------
(* Properties.                                                             *)

Event == [kind : {"edit", "delete"},
          status : {"none", "sent", "lost", "open", "taken", "applied", "failed"},
          attempts : Nat]

\* Every variable keeps its type.
TypeOK ==
    /\ source \in [live : BOOLEAN, doc : Doc]
    /\ event \in [Events -> Event]
    /\ raw \subseteq Doc
    /\ entity \in EntityRow \cup {Absent}
    /\ head \in HeadRow \cup {Absent}
    /\ worker \in [Workers -> {Idle} \cup Busy]
    /\ rec \in {Idle} \cup Reading
    /\ lost \in 0..MaxLost /\ crashes \in 0..MaxCrashes

\* Where every writer is persist_resource_batch, the typed row holds the version
\* of the canonical row, and is deleted whenever that one is, although a
\* deletion is two UPDATEs and the document may be inserted between them.
ProjectionFollows ==
    head.present => /\ entity.present /\ entity.doc = head.hash
                    /\ entity.deleted => head.deleted

\* What the copy calls deleted is gone from Alegra: neither a failing request
\* nor a late worker ever hides a document that is still there.
DeletedIsGone ==
    (head.present /\ head.deleted) \/ (entity.present /\ entity.deleted) => ~ source.live

\* A document that stays in Alegra ends up, and stays, as Alegra has it, in
\* spite of lost webhooks, crashes, deadlocks and late writers.
Mirrors ==
    <>[](source.live => /\ head.present
                        /\ head.doc = source.doc /\ head.lines = source.doc
                        /\ ~ head.deleted)

\* "Esto repara eventos perdidos" (phase-2-webhooks-reconciliation.md:26), of
\* the events of deletion as well.
DeletionsAreRepaired == <>[](~ source.live => (head.present => head.deleted))
=============================================================================

------------------------- MODULE PlanSubmissionProofs -------------------------
(***************************************************************************)
(* Proofs about PlanSubmission for any set of suppliers, of calls, any     *)
(* budget and any number of refusals and aborted calls, when all calls run *)
(* in one event loop; and in any number of processes when nothing is       *)
(* refused.                                                                *)
(***************************************************************************)
EXTENDS MCPlanSubmission, Sums

-----------------------------------------------------------------------------
(* Types.                                                                  *)

LEMMA TypeInit == Init => TypeOK
BY PlanAssumption DEF Init, TypeOK, NoRow, Idle, Row, Call, NoId, Refusal, PlanAssumption

\* A coroutine that resumes keeps the types.
LEMMA SettleType ==
    ASSUME TypeOK, NEW c \in Calls, NEW s \in Suppliers, NEW row \in Row, Settle(c, s, row)
    PROVE  TypeOK'
<1>1. call' \in [Calls -> Call]
  <2>1. Resumed(c, s, row) \in Call
    BY DEF Resumed, TypeOK, Call, NoId, Refusal
  <2> QED BY <2>1 DEF Settle, TypeOK
<1>2. order' \in [Suppliers -> Row]
  BY DEF Settle, TypeOK
<1> QED BY <1>1, <1>2 DEF Settle, TypeOK

LEMMA TypeStep == TypeOK /\ [Next]_vars => TypeOK'
<1> SUFFICES ASSUME TypeOK, [Next]_vars PROVE TypeOK'
  OBVIOUS
<1>1. ASSUME NEW s \in Suppliers, NEW d \in {"approved", "dropped"}, UpdateLine(s, d)
      PROVE  TypeOK'
  BY <1>1 DEF UpdateLine, TypeOK
<1>2. CASE Approve
  <2> DEFINE chosen == {s \in Suppliers : line[s] # "dropped"}
  <2>1. line' = [s \in Suppliers |-> IF s \in chosen THEN "approved" ELSE line[s]]
    BY <1>2 DEF Approve
  <2>2. line' \in [Suppliers -> {"recommended", "approved", "dropped"}]
    BY <2>1 DEF TypeOK
  <2> QED BY <1>2, <2>2 DEF Approve, TypeOK
<1>3. CASE DataMoves
  BY <1>3 DEF DataMoves, TypeOK
<1>4. ASSUME NEW c \in Calls, Enter(c) PROVE TypeOK'
  BY <1>4 DEF Enter, TypeOK, Call
<1>5. ASSUME NEW c \in Calls, Lock(c) PROVE TypeOK'
  <2>1. Approved \in SUBSET Suppliers /\ Idle \in Call
    BY DEF Approved, Idle, Call, NoRow, Row, NoId, Refusal
  <2> QED BY <1>5, <2>1 DEF Lock, TypeOK, Call
<1>6. ASSUME NEW c \in Calls, Look(c) PROVE TypeOK'
  <2>1. PICK s \in Suppliers :
           call' = [call EXCEPT ![c] =
                IF Resendable(order[s]) THEN Prepared(c, s) ELSE PassOver(c, s)]
    BY <1>6 DEF Look
  <2>2. PassOver(c, s) \in Call
    BY DEF PassOver, TypeOK, Call, NoId, Refusal
  <2>3. Prepared(c, s) \in Call
    BY DEF Prepared, TypeOK, Call
  <2>4. call' \in [Calls -> Call]
    BY <2>1, <2>2, <2>3 DEF TypeOK
  <2> QED BY <1>6, <2>4 DEF Look, TypeOK
<1>7. ASSUME NEW c \in Calls, Claim(c) PROVE TypeOK'
  <2>1. PICK s \in Suppliers :
           /\ order' = [order EXCEPT ![s].status = "submitting"]
           /\ call' = [call EXCEPT ![c] = Posting(c)]
           /\ wire' = wire \cup {<<c, s>>}
    BY <1>7 DEF Claim
  <2>2. order' \in [Suppliers -> Row] /\ wire' \in SUBSET (Calls \X Suppliers)
    BY <2>1 DEF TypeOK, Row
  <2>3. Posting(c) \in Call
    BY DEF Posting, TypeOK, Call, NoId, Refusal
  <2>4. call' \in [Calls -> Call]
    BY <2>1, <2>3 DEF TypeOK
  <2> QED BY <1>7, <2>2, <2>4 DEF Claim, AfterClaim, Released, TypeOK
<1>8. ASSUME NEW c \in Calls, InsertConflict(c) \/ Finish(c) \/ Abort(c) PROVE TypeOK'
  <2>1. Idle \in Call
    BY DEF Idle, Call, NoRow, Row, NoId, Refusal
  <2> QED BY <1>8, <2>1, PlanAssumption
          DEF InsertConflict, Finish, Abort, Released, TypeOK, PlanAssumption
<1>9. ASSUME NEW c \in Calls, NEW s \in Suppliers,
             OrderCreated(c, s) \/ CredentialsRejected(c, s) \/ OutcomeUncertain(c, s)
      PROVE  TypeOK'
  <2>1. CASE OrderCreated(c, s)
    <3>1. [status |-> "submitted", id |-> call[c].reply] \in Row
      BY <2>1 DEF OrderCreated, TypeOK, Call, Row, NoId, Refusal
    <3> QED BY <2>1, <3>1, SettleType DEF OrderCreated
  <2>2. CASE CredentialsRejected(c, s)
    <3>1. [order[s] EXCEPT !.status = "rejected"] \in Row
      BY DEF TypeOK, Row
    <3> QED BY <2>2, <3>1, SettleType DEF CredentialsRejected
  <2>3. CASE OutcomeUncertain(c, s)
    <3>1. Uncertain(order[s]) \in Row
      BY DEF TypeOK, Row, Uncertain
    <3> QED BY <2>3, <3>1, SettleType DEF OutcomeUncertain
  <2> QED BY <1>9, <2>1, <2>2, <2>3
<1>10. ASSUME NEW c \in Calls, NEW s \in Suppliers,
              TakeOrder(c, s) \/ RefuseOrder(c, s) \/ LoseOrder(c, s)
       PROVE  TypeOK'
  <2>1. ASSUME NEW a \in Nat \cup {Refusal} PROVE Answered(c, s, a) \in [Calls -> Call]
    BY DEF Answered, TypeOK, Call
  <2>2. remote[s] + 1 \in Nat \cup {Refusal} /\ Refusal \in Nat \cup {Refusal}
    BY DEF TypeOK
  <2>3. call' \in [Calls -> Call]
    BY <1>10, <2>1, <2>2 DEF TakeOrder, RefuseOrder, LoseOrder, TypeOK
  <2> QED BY <1>10, <2>3, PlanAssumption
          DEF TakeOrder, RefuseOrder, LoseOrder, TypeOK, PlanAssumption
<1>11. ASSUME NEW s \in Suppliers, NEW id \in 1..remote[s], Resolve(s, id) PROVE TypeOK'
  BY <1>11 DEF Resolve, TypeOK, Row
<1>12. CASE UNCHANGED vars
  BY <1>12 DEF vars, TypeOK
<1> QED BY <1>1, <1>2, <1>3, <1>4, <1>5, <1>6, <1>7, <1>8, <1>9, <1>10, <1>11, <1>12 DEF Next

\* Every variable keeps its type, whatever the sets and the bounds.
THEOREM PlanTypeCorrect == Spec => []TypeOK
BY TypeInit, TypeStep, PTL DEF Spec

-----------------------------------------------------------------------------
(* One order per supplier.                                                 *)

Running(c) == call[c].pc \notin {"idle", "posting"}
At(c, s) == call[c].pc = "posting" /\ Turn(c, s)

\* At most one coroutine is between two awaits.
OneRuns == \A c, d \in Calls : Running(c) /\ Running(d) => c = d

\* So what it read about its order still holds when it writes.
SeenHolds == \A c \in Calls, s \in Suppliers :
    call[c].pc = "claiming" /\ Turn(c, s) => Resendable(order[s])

\* While a call waits for Alegra nobody may send for its supplier.
PostBlocks == \A c \in Calls, s \in Suppliers : At(c, s) => ~ Resendable(order[s])
OnePost == \A c, d \in Calls, s \in Suppliers : At(c, s) /\ At(d, s) => c = d

\* Neither while a request travels, even if its sender gave up or died.
OneRequest == \A c, d \in Calls, s \in Suppliers :
    <<c, s>> \in wire /\ <<d, s>> \in wire => c = d
WireBlocks == \A c \in Calls, s \in Suppliers : <<c, s>> \in wire =>
    remote[s] = 0 /\ order[s].status \in {"submitting", "unknown"}

\* A row that may be sent, and an answer that makes it so, exclude an order.
ResendableIsNew == \A s \in Suppliers : Resendable(order[s]) => remote[s] = 0
RefusalIsFinal == \A c \in Calls, s \in Suppliers :
    At(c, s) /\ call[c].reply = Refusal =>
        remote[s] = 0 /\ \A d \in Calls : <<d, s>> \notin wire

\* Ids are those of orders that exist.
ReplyExists == \A c \in Calls, s \in Suppliers :
    At(c, s) /\ call[c].reply > NoId => call[c].reply \in 1..remote[s]
LinkExists == \A s \in Suppliers : order[s].id # NoId => order[s].id \in 1..remote[s]

SubmissionInv ==
    /\ TypeOK
    /\ OneRuns /\ SeenHolds /\ PostBlocks /\ OnePost /\ OneRequest /\ WireBlocks
    /\ ResendableIsNew /\ RefusalIsFinal /\ ReplyExists /\ LinkExists
    /\ NoDuplicateOrder /\ NoOrphanOrder

LEMMA SubmissionInit == Init => SubmissionInv
<1> SUFFICES ASSUME Init PROVE SubmissionInv
  OBVIOUS
<1>1. TypeOK
  BY TypeInit
<1>2. \A c \in Calls : call[c].pc = "idle"
  BY DEF Init, Idle
<1>3. \A s \in Suppliers : order[s].id = NoId /\ remote[s] = 0
  BY DEF Init, NoRow
<1> QED BY <1>1, <1>2, <1>3
        DEF Init, SubmissionInv, OneRuns, SeenHolds, PostBlocks, OnePost, OneRequest, WireBlocks,
            ResendableIsNew, RefusalIsFinal, ReplyExists, LinkExists, NoDuplicateOrder,
            NoOrphanOrder, Running, At

\* Suppliers are sorted, so a call deals with one of them at a time.
LEMMA TurnUnique ==
    ASSUME TypeOK, NEW c \in Calls, NEW s \in Suppliers, NEW t \in Suppliers,
           Turn(c, s), Turn(c, t)
    PROVE  s = t
<1>1. s <= t /\ t <= s
  BY DEF Turn
<1>2. s \in Nat /\ t \in Nat
  BY PlanAssumption DEF PlanAssumption
<1> QED BY <1>1, <1>2

\* Editing the plan touches nothing the invariant speaks of.
LEMMA QuietStep ==
    ASSUME SubmissionInv, TypeOK', UNCHANGED <<order, call, wire, remote>>
    PROVE  SubmissionInv'
BY DEF SubmissionInv, OneRuns, SeenHolds, PostBlocks, OnePost, OneRequest, WireBlocks,
       ResendableIsNew, RefusalIsFinal, ReplyExists, LinkExists, NoDuplicateOrder,
       NoOrphanOrder, Running, At, Turn

\* A call that moves without sending or storing anything.
LEMMA LocalStep ==
    ASSUME SubmissionInv, TypeOK', NEW c \in Calls, NEW r,
           UNCHANGED <<order, wire, remote>>,
           call' = [call EXCEPT ![c] = r],
           r.pc # "posting",
           r.pc = "idle" \/ \A d \in Calls \ {c} : ~ Running(d),
           r.pc = "claiming" => \A s \in Suppliers : Turn(c, s)' => Resendable(order[s])
    PROVE  SubmissionInv'
<1>1. call'[c] = r /\ \A d \in Calls \ {c} : call'[d] = call[d]
  BY DEF SubmissionInv, TypeOK
<1>2. ASSUME NEW d \in Calls, NEW s \in Suppliers, At(d, s)'
      PROVE  d # c /\ At(d, s) /\ call'[d] = call[d]
  BY <1>1, <1>2 DEF At, Turn
<1>3. OneRuns'
  BY <1>1 DEF SubmissionInv, OneRuns, Running
<1>4. SeenHolds'
  <2> SUFFICES ASSUME NEW d \in Calls, NEW s \in Suppliers,
                      call'[d].pc = "claiming", Turn(d, s)'
               PROVE  Resendable(order'[s])
    BY DEF SeenHolds
  <2>1. CASE d = c
    BY <2>1, <1>1
  <2>2. CASE d # c
    <3>1. call'[d] = call[d]
      BY <1>1, <2>2
    <3>2. call[d].pc = "claiming" /\ Turn(d, s)
      BY <3>1 DEF Turn
    <3> QED BY <3>2 DEF SubmissionInv, SeenHolds
  <2> QED BY <2>1, <2>2
<1>5. PostBlocks' /\ OnePost' /\ RefusalIsFinal' /\ ReplyExists'
  BY <1>2 DEF SubmissionInv, PostBlocks, OnePost, RefusalIsFinal, ReplyExists
<1> QED BY <1>3, <1>4, <1>5
        DEF SubmissionInv, OneRequest, WireBlocks, ResendableIsNew, LinkExists,
            NoDuplicateOrder, NoOrphanOrder

\* The row is sent: nobody else could have, and nothing of it travels yet.
LEMMA ClaimStep ==
    ASSUME SameLoop, SubmissionInv, TypeOK', NEW c \in Calls, Claim(c)
    PROVE  SubmissionInv'
<1>1. PICK s \in Suppliers :
         /\ Turn(c, s)
         /\ order' = [order EXCEPT ![s].status = "submitting"]
         /\ call' = [call EXCEPT ![c] = Posting(c)]
         /\ wire' = wire \cup {<<c, s>>}
  BY DEF Claim
<1>2. call[c].pc = "claiming" /\ Running(c) /\ remote' = remote /\ TypeOK
  BY DEF Claim, Running, SubmissionInv
<1>3. Resendable(order[s]) /\ remote[s] = 0
  BY <1>1, <1>2 DEF SubmissionInv, SeenHolds, ResendableIsNew
<1>4. order[s].id = NoId /\ order[s].status \in {"none", "rejected"}
  BY <1>3 DEF Resendable
<1>5. \A d \in Calls : <<d, s>> \notin wire /\ ~ At(d, s)
  BY <1>3, <1>4 DEF SubmissionInv, WireBlocks, PostBlocks
<1>6. /\ order'[s].status = "submitting" /\ order'[s].id = NoId
      /\ \A t \in Suppliers \ {s} : order'[t] = order[t]
  BY <1>1, <1>2, <1>4 DEF TypeOK, Row
<1>7. /\ call'[c].pc = "posting" /\ call'[c].reply = NoId /\ call'[c].todo = call[c].todo
      /\ \A d \in Calls \ {c} : call'[d] = call[d]
  BY <1>1, <1>2 DEF Posting, TypeOK, Call
<1>8. ASSUME NEW d \in Calls, NEW t \in Suppliers, At(d, t)'
      PROVE  (d = c /\ t = s) \/ (d # c /\ t # s /\ At(d, t) /\ call'[d] = call[d])
  <2>1. CASE d = c
    <3>1. Turn(c, t)
      BY <1>7, <1>8, <2>1 DEF At, Turn
    <3> QED BY <3>1, <1>1, <1>2, <2>1, TurnUnique
  <2>2. CASE d # c
    <3>1. At(d, t) /\ call'[d] = call[d]
      BY <1>7, <1>8, <2>2 DEF At, Turn
    <3> QED BY <3>1, <2>2, <1>5
  <2> QED BY <2>1, <2>2
<1>9. \A d \in Calls : ~ Running(d)'
  BY <1>2, <1>7 DEF SubmissionInv, OneRuns, Running
<1>10. OneRuns' /\ SeenHolds'
  BY <1>9 DEF OneRuns, SeenHolds, Running
<1>11. PostBlocks'
  BY <1>6, <1>8 DEF SubmissionInv, PostBlocks, Resendable
<1>12. OnePost'
  BY <1>8 DEF SubmissionInv, OnePost
<1>13. OneRequest'
  BY <1>1, <1>5 DEF SubmissionInv, OneRequest
<1>14. WireBlocks'
  BY <1>1, <1>2, <1>3, <1>6 DEF SubmissionInv, WireBlocks
<1>15. ResendableIsNew' /\ LinkExists' /\ NoDuplicateOrder' /\ NoOrphanOrder'
  BY <1>2, <1>3, <1>6
     DEF SubmissionInv, ResendableIsNew, LinkExists, NoDuplicateOrder, NoOrphanOrder, Resendable
<1>16. RefusalIsFinal'
  BY <1>1, <1>2, <1>7, <1>8 DEF SubmissionInv, RefusalIsFinal, NoId, Refusal
<1>17. ReplyExists'
  BY <1>2, <1>7, <1>8 DEF SubmissionInv, ReplyExists, NoId
<1> QED BY <1>10, <1>11, <1>12, <1>13, <1>14, <1>15, <1>16, <1>17 DEF SubmissionInv

\* The row a coroutine stores when it resumes has to agree with Alegra.
Agrees(s, row) ==
    /\ row.id # NoId => row.id \in 1..remote[s]
    /\ Resendable(row) => remote[s] = 0
    /\ (\E d \in Calls : <<d, s>> \in wire) => row.status \in {"submitting", "unknown"}
    /\ remote[s] > 0 => row.id \in 1..remote[s] \/ row.status \in {"submitting", "unknown"}

LEMMA SettleStep ==
    ASSUME SameLoop, SubmissionInv, TypeOK', NEW c \in Calls, NEW s \in Suppliers,
           NEW row \in Row, Settle(c, s, row), Agrees(s, row)
    PROVE  SubmissionInv'
<1>1. TypeOK /\ At(c, s) /\ remote' = remote /\ wire' = wire
  BY DEF SubmissionInv, Settle, At
<1>2. order'[s] = row /\ \A t \in Suppliers \ {s} : order'[t] = order[t]
  BY <1>1 DEF Settle, TypeOK
<1>3. call'[c].pc = "looking" /\ \A d \in Calls \ {c} : call'[d] = call[d]
  BY <1>1 DEF Settle, Resumed, TypeOK, Call
<1>4. \A d \in Calls \ {c} : ~ Running(d) /\ ~ Running(d)'
  BY <1>3 DEF Settle, Scheduled, Running
<1>5. ASSUME NEW d \in Calls, NEW t \in Suppliers, At(d, t)'
      PROVE  t # s /\ At(d, t) /\ call'[d] = call[d]
  <2>1. d # c /\ At(d, t) /\ call'[d] = call[d]
    BY <1>3, <1>5 DEF At, Turn
  <2> QED BY <2>1, <1>1 DEF SubmissionInv, OnePost
<1>6. OneRuns' /\ SeenHolds'
  BY <1>3, <1>4 DEF OneRuns, SeenHolds, Running
<1>7. PostBlocks' /\ OnePost'
  BY <1>2, <1>5 DEF SubmissionInv, PostBlocks, OnePost
<1>8. OneRequest' /\ RefusalIsFinal' /\ ReplyExists'
  BY <1>1, <1>5 DEF SubmissionInv, OneRequest, RefusalIsFinal, ReplyExists
<1>9. WireBlocks'
  BY <1>1, <1>2 DEF SubmissionInv, WireBlocks, Agrees
<1>10. ResendableIsNew' /\ LinkExists' /\ NoDuplicateOrder' /\ NoOrphanOrder'
  BY <1>1, <1>2
     DEF SubmissionInv, ResendableIsNew, LinkExists, NoDuplicateOrder, NoOrphanOrder, Agrees
<1> QED BY <1>6, <1>7, <1>8, <1>9, <1>10 DEF SubmissionInv

\* An order that exists is one, and no request for it is left.
LEMMA TakenIsOne ==
    ASSUME SubmissionInv, NEW s \in Suppliers, remote[s] > 0
    PROVE  remote[s] = 1 /\ \A d \in Calls : <<d, s>> \notin wire
BY DEF SubmissionInv, TypeOK, NoDuplicateOrder, WireBlocks

LEMMA OutcomeStep ==
    ASSUME SameLoop, SubmissionInv, TypeOK', NEW c \in Calls, NEW s \in Suppliers,
           OrderCreated(c, s) \/ CredentialsRejected(c, s) \/ OutcomeUncertain(c, s)
    PROVE  SubmissionInv'
<1>1. TypeOK /\ At(c, s)
  BY DEF SubmissionInv, OrderCreated, CredentialsRejected, OutcomeUncertain, Settle, At
<1>2. CASE OrderCreated(c, s)
  <2> DEFINE row == [status |-> "submitted", id |-> call[c].reply]
  <2>1. call[c].reply \in 1..remote[s]
    BY <1>1, <1>2 DEF OrderCreated, SubmissionInv, ReplyExists
  <2>2. row \in Row /\ remote[s] \in Nat /\ remote[s] > 0 /\ row.id # NoId
    BY <2>1, <1>1 DEF TypeOK, Row, NoId
  <2>3. \A d \in Calls : <<d, s>> \notin wire
    BY <2>2, TakenIsOne
  <2>4. Agrees(s, row)
    BY <2>1, <2>2, <2>3 DEF Agrees, Resendable
  <2> QED BY <1>2, <2>2, <2>4, SettleStep DEF OrderCreated
<1>3. CASE CredentialsRejected(c, s)
  <2> DEFINE row == [order[s] EXCEPT !.status = "rejected"]
  <2>1. remote[s] = 0 /\ \A d \in Calls : <<d, s>> \notin wire
    BY <1>1, <1>3 DEF CredentialsRejected, SubmissionInv, RefusalIsFinal
  <2>2. row \in Row /\ row.id = order[s].id
    BY <1>1 DEF TypeOK, Row
  <2>3. order[s].id = NoId
    BY <2>1 DEF SubmissionInv, LinkExists
  <2> HIDE DEF row
  <2>4. Agrees(s, row)
    <3>1. row.id = NoId /\ ~ (remote[s] > 0)
      BY <2>1, <2>2, <2>3
    <3> QED BY <2>1, <3>1, Zenon DEF Agrees
  <2> QED BY <1>3, <2>2, <2>4, SettleStep DEF CredentialsRejected, row
<1>4. CASE OutcomeUncertain(c, s)
  <2>1. /\ Uncertain(order[s]) \in Row /\ Uncertain(order[s]).status = "unknown"
        /\ Uncertain(order[s]).id = order[s].id
    BY <1>1 DEF Uncertain, TypeOK, Row
  <2>2. Agrees(s, Uncertain(order[s]))
    BY <2>1 DEF Agrees, SubmissionInv, LinkExists, Resendable
  <2> QED BY <1>4, <2>1, <2>2, SettleStep DEF OutcomeUncertain
<1> QED BY <1>2, <1>3, <1>4

\* An answer changes the reply of the call that waits for it, nothing else.
LEMMA AnswerFrame ==
    ASSUME TypeOK, NEW c \in Calls, NEW s \in Suppliers, NEW a, call' = Answered(c, s, a),
           NEW d \in Calls
    PROVE  /\ call'[d].pc = call[d].pc /\ call'[d].todo = call[d].todo
           /\ Running(d)' <=> Running(d)
           /\ \A t \in Suppliers : /\ Turn(d, t)' <=> Turn(d, t)
                                   /\ At(d, t)' <=> At(d, t)
           /\ call'[d].reply = IF d = c /\ At(c, s) THEN a ELSE call[d].reply
<1>1. CASE At(c, s)
  <2>1. call' = [call EXCEPT ![c].reply = a]
    BY <1>1 DEF Answered, At
  <2>2. /\ call'[d].pc = call[d].pc /\ call'[d].todo = call[d].todo
        /\ call'[d].reply = IF d = c THEN a ELSE call[d].reply
    BY <2>1 DEF TypeOK, Call
  <2> QED BY <1>1, <2>2 DEF Running, Turn, At
<1>2. CASE ~ At(c, s)
  <2>1. call' = call
    BY <1>2 DEF Answered, At
  <2> QED BY <1>2, <2>1 DEF Running, Turn, At
<1> QED BY <1>1, <1>2

LEMMA AlegraStep ==
    ASSUME SubmissionInv, TypeOK', NEW c \in Calls, NEW s \in Suppliers,
           TakeOrder(c, s) \/ RefuseOrder(c, s) \/ LoseOrder(c, s)
    PROVE  SubmissionInv'
<1>1. /\ TypeOK /\ <<c, s>> \in wire /\ wire' = wire \ {<<c, s>>} /\ order' = order
      /\ \A t \in Suppliers \ {s} : remote'[t] = remote[t]
  BY DEF SubmissionInv, TakeOrder, RefuseOrder, LoseOrder, TypeOK
<1>2. /\ remote[s] = 0 /\ order[s].status \in {"submitting", "unknown"}
      /\ ~ Resendable(order[s]) /\ order[s].id = NoId
  <2>1. remote[s] = 0 /\ order[s].status \in {"submitting", "unknown"}
    BY <1>1 DEF SubmissionInv, WireBlocks
  <2>2. order[s].id = NoId
    BY <2>1 DEF SubmissionInv, LinkExists
  <2> QED BY <2>1, <2>2 DEF Resendable
<1>3. \A d \in Calls : <<d, s>> \notin wire'
  BY <1>1 DEF SubmissionInv, OneRequest
<1>4. OneRequest' /\ WireBlocks'
  BY <1>1, <1>3 DEF SubmissionInv, OneRequest, WireBlocks
<1>5. remote'[s] \in {0, 1}
  BY <1>1, <1>2 DEF TakeOrder, RefuseOrder, LoseOrder, TypeOK
<1>6. ResendableIsNew' /\ LinkExists' /\ NoDuplicateOrder' /\ NoOrphanOrder'
  BY <1>1, <1>2, <1>5
     DEF SubmissionInv, ResendableIsNew, LinkExists, NoDuplicateOrder, NoOrphanOrder
<1>7. ASSUME NEW a, call' = Answered(c, s, a),
             a = Refusal => remote'[s] = 0,
             a # Refusal => a = remote'[s] /\ a = 1
      PROVE  SubmissionInv'
  <2>1. OneRuns' /\ SeenHolds' /\ PostBlocks' /\ OnePost'
    BY <1>1, <1>7, AnswerFrame DEF SubmissionInv, OneRuns, SeenHolds, PostBlocks, OnePost
  <2>2. ASSUME NEW d \in Calls, NEW t \in Suppliers, At(d, t)'
        PROVE  /\ At(d, t)
               /\ d = c /\ t = s => call'[d].reply = a
               /\ ~ (d = c /\ t = s) => call'[d].reply = call[d].reply
    <3>1. At(d, t) /\ call'[d].reply = IF d = c /\ At(c, s) THEN a ELSE call[d].reply
      BY <1>1, <1>7, <2>2, AnswerFrame
    <3>2. d = c /\ At(c, s) => t = s
      BY <1>1, <3>1, TurnUnique DEF At
    <3> QED BY <3>1, <3>2
  <2>3. RefusalIsFinal'
    <3> SUFFICES ASSUME NEW d \in Calls, NEW t \in Suppliers, At(d, t)',
                        call'[d].reply = Refusal
                 PROVE  remote'[t] = 0 /\ \A e \in Calls : <<e, t>> \notin wire'
      BY DEF RefusalIsFinal
    <3>1. CASE d = c /\ t = s
      BY <3>1, <2>2, <1>3, <1>7
    <3>2. CASE ~ (d = c /\ t = s)
      <4>1. remote[t] = 0 /\ \A e \in Calls : <<e, t>> \notin wire
        BY <3>2, <2>2 DEF SubmissionInv, RefusalIsFinal
      <4>2. t # s
        BY <4>1, <1>1
      <4> QED BY <4>1, <4>2, <1>1
    <3> QED BY <3>1, <3>2
  <2>4. ReplyExists'
    <3> SUFFICES ASSUME NEW d \in Calls, NEW t \in Suppliers, At(d, t)',
                        call'[d].reply > NoId
                 PROVE  call'[d].reply \in 1..remote'[t]
      BY DEF ReplyExists
    <3>1. CASE d = c /\ t = s
      BY <3>1, <2>2, <1>7 DEF NoId, Refusal
    <3>2. CASE ~ (d = c /\ t = s)
      <4>1. call'[d].reply = call[d].reply /\ call[d].reply \in 1..remote[t]
        BY <3>2, <2>2 DEF SubmissionInv, ReplyExists
      <4>2. t # s
        BY <4>1, <1>2
      <4> QED BY <4>1, <4>2, <1>1
    <3> QED BY <3>1, <3>2
  <2> QED BY <1>4, <1>6, <2>1, <2>3, <2>4 DEF SubmissionInv
<1>8. CASE TakeOrder(c, s)
  <2>1. call' = Answered(c, s, remote[s] + 1) /\ remote'[s] = 1 /\ remote[s] + 1 = 1
    BY <1>1, <1>2, <1>8 DEF TakeOrder, TypeOK
  <2> QED BY <2>1, <1>7 DEF Refusal
<1>9. CASE RefuseOrder(c, s)
  <2>1. call' = Answered(c, s, Refusal) /\ remote'[s] = 0
    BY <1>2, <1>9 DEF RefuseOrder
  <2> QED BY <2>1, <1>7
<1>10. CASE LoseOrder(c, s)
  <2>1. call' = call /\ remote' = remote
    BY <1>10 DEF LoseOrder
  <2> QED BY <1>1, <1>4, <1>6, <2>1
          DEF SubmissionInv, OneRuns, SeenHolds, PostBlocks, OnePost, RefusalIsFinal,
              ReplyExists, Running, At, Turn
<1> QED BY <1>8, <1>9, <1>10

LEMMA ResolveStep ==
    ASSUME SameLoop, SubmissionInv, TypeOK', NEW s \in Suppliers, NEW id \in 1..remote[s],
           Resolve(s, id)
    PROVE  SubmissionInv'
<1>1. /\ TypeOK /\ UNCHANGED <<call, wire, remote>>
      /\ \A d \in Calls : ~ Running(d) /\ call[d].pc # "claiming"
  BY DEF SubmissionInv, Resolve, Running
<1>2. /\ order'[s].status = "submitted" /\ order'[s].id = id
      /\ \A t \in Suppliers \ {s} : order'[t] = order[t]
  BY <1>1 DEF Resolve, TypeOK
<1>3. remote[s] > 0 /\ id # NoId /\ \A d \in Calls : <<d, s>> \notin wire
  BY <1>1, TakenIsOne DEF TypeOK, NoId
<1>4. OneRuns' /\ SeenHolds' /\ OnePost' /\ OneRequest' /\ RefusalIsFinal' /\ ReplyExists'
  BY <1>1 DEF SubmissionInv, OneRuns, SeenHolds, OnePost, OneRequest, RefusalIsFinal,
              ReplyExists, Running, At, Turn
<1>5. PostBlocks' /\ WireBlocks'
  BY <1>1, <1>2, <1>3 DEF SubmissionInv, PostBlocks, WireBlocks, Resendable, At, Turn
<1>6. ResendableIsNew' /\ LinkExists' /\ NoDuplicateOrder' /\ NoOrphanOrder'
  BY <1>1, <1>2, <1>3
     DEF SubmissionInv, ResendableIsNew, LinkExists, NoDuplicateOrder, NoOrphanOrder, Resendable
<1> QED BY <1>4, <1>5, <1>6 DEF SubmissionInv

LEMMA SubmissionStep == SameLoop /\ SubmissionInv /\ [Next]_vars => SubmissionInv'
<1> SUFFICES ASSUME SameLoop, SubmissionInv, [Next]_vars PROVE SubmissionInv'
  OBVIOUS
<1>1. TypeOK /\ TypeOK'
  BY TypeStep DEF SubmissionInv
<1>2. ASSUME NEW s \in Suppliers, NEW d \in {"approved", "dropped"}, UpdateLine(s, d)
      PROVE  SubmissionInv'
  BY <1>1, <1>2, QuietStep DEF UpdateLine
<1>3. CASE Approve \/ DataMoves \/ UNCHANGED vars
  BY <1>1, <1>3, QuietStep DEF Approve, DataMoves, vars
<1>4. ASSUME NEW c \in Calls, Enter(c) PROVE SubmissionInv'
  <2> DEFINE r == [call[c] EXCEPT !.pc = "locking"]
  <2>1. call' = [call EXCEPT ![c] = r] /\ UNCHANGED <<order, wire, remote>>
    BY <1>4 DEF Enter
  <2>2. r.pc = "locking" /\ \A d \in Calls \ {c} : ~ Running(d)
    BY <1>1, <1>4 DEF Enter, Scheduled, Running, TypeOK, Call
  <2> HIDE DEF r
  <2> QED BY <1>1, <2>1, <2>2, LocalStep
<1>5. ASSUME NEW c \in Calls, Running(c) PROVE \A d \in Calls \ {c} : ~ Running(d)
  BY <1>5 DEF SubmissionInv, OneRuns
<1>6. ASSUME NEW c \in Calls, Lock(c) PROVE SubmissionInv'
  <2>1. Idle.pc = "idle" /\ Running(c) /\ UNCHANGED <<order, wire, remote>>
    BY <1>6 DEF Lock, Idle, Running
  <2>2. CASE call' = [call EXCEPT ![c] = Idle]
    BY <1>1, <2>1, <2>2, LocalStep
  <2>3. CASE call' = [call EXCEPT ![c].pc = "looking", ![c].todo = Approved]
    <3> DEFINE r == [call[c] EXCEPT !.pc = "looking", !.todo = Approved]
    <3>1. call' = [call EXCEPT ![c] = r]
      BY <2>3
    <3>2. r.pc = "looking"
      BY <1>1 DEF TypeOK, Call
    <3> HIDE DEF r
    <3> QED BY <1>1, <1>5, <2>1, <3>1, <3>2, LocalStep
  <2> QED BY <1>6, <2>2, <2>3 DEF Lock
<1>7. ASSUME NEW c \in Calls, Look(c) PROVE SubmissionInv'
  <2>1. PICK s \in Suppliers :
           /\ Turn(c, s)
           /\ call' = [call EXCEPT ![c] =
                IF Resendable(order[s]) THEN Prepared(c, s) ELSE PassOver(c, s)]
    BY <1>7 DEF Look
  <2>2. Running(c) /\ call[c].pc = "looking" /\ UNCHANGED <<order, wire, remote>>
    BY <1>7 DEF Look, Running
  <2>3. CASE Resendable(order[s])
    <3>1. Prepared(c, s).pc = "claiming" /\ Prepared(c, s).todo = call[c].todo
      BY <1>1 DEF Prepared, TypeOK, Call
    <3>2. call'[c].todo = call[c].todo
      BY <1>1, <2>1, <2>3, <3>1 DEF TypeOK
    <3>3. \A t \in Suppliers : Turn(c, t)' => Resendable(order[t])
      BY <1>1, <2>1, <2>3, <3>2, TurnUnique DEF Turn
    <3> QED BY <1>1, <1>5, <2>1, <2>2, <2>3, <3>1, <3>3, LocalStep
  <2>4. CASE ~ Resendable(order[s])
    <3>1. PassOver(c, s).pc = "looking"
      BY <1>1, <2>2 DEF PassOver, TypeOK, Call
    <3> QED BY <1>1, <1>5, <2>1, <2>2, <2>4, <3>1, LocalStep
  <2> QED BY <2>3, <2>4
<1>8. ASSUME NEW c \in Calls, InsertConflict(c) \/ Finish(c) \/ Abort(c) PROVE SubmissionInv'
  <2>1. /\ Idle.pc = "idle" /\ call' = [call EXCEPT ![c] = Idle]
        /\ UNCHANGED <<order, wire, remote>>
    BY <1>8 DEF InsertConflict, Finish, Abort, Idle
  <2> QED BY <1>1, <2>1, LocalStep
<1>9. ASSUME NEW c \in Calls, Claim(c) PROVE SubmissionInv'
  BY <1>1, <1>9, ClaimStep
<1>10. ASSUME NEW c \in Calls, NEW s \in Suppliers,
              OrderCreated(c, s) \/ CredentialsRejected(c, s) \/ OutcomeUncertain(c, s)
       PROVE  SubmissionInv'
  BY <1>1, <1>10, OutcomeStep
<1>11. ASSUME NEW c \in Calls, NEW s \in Suppliers,
              TakeOrder(c, s) \/ RefuseOrder(c, s) \/ LoseOrder(c, s)
       PROVE  SubmissionInv'
  BY <1>1, <1>11, AlegraStep
<1>12. ASSUME NEW s \in Suppliers, NEW id \in 1..remote[s], Resolve(s, id)
       PROVE  SubmissionInv'
  BY <1>1, <1>12, ResolveStep
<1> QED BY <1>2, <1>3, <1>4, <1>6, <1>7, <1>8, <1>9, <1>10, <1>11, <1>12 DEF Next

\* In one API process a plan never becomes two orders of a supplier, however
\* many submissions, refusals, lost answers and deaths there are.
THEOREM OneOrderPerSupplier == SameLoop => (Spec => []NoDuplicateOrder)
<1> SUFFICES ASSUME SameLoop PROVE Spec => []NoDuplicateOrder
  OBVIOUS
<1>1. SubmissionInv /\ [Next]_vars => SubmissionInv'
  BY SubmissionStep
<1>2. SubmissionInv => NoDuplicateOrder
  BY DEF SubmissionInv
<1> QED BY <1>1, <1>2, SubmissionInit, PTL DEF Spec

\* And every order Alegra took is linked or shown as uncertain.
THEOREM NoOrderIsOrphan == SameLoop => (Spec => []NoOrphanOrder)
<1> SUFFICES ASSUME SameLoop PROVE Spec => []NoOrphanOrder
  OBVIOUS
<1>1. SubmissionInv /\ [Next]_vars => SubmissionInv'
  BY SubmissionStep
<1>2. SubmissionInv => NoOrphanOrder
  BY DEF SubmissionInv
<1> QED BY <1>1, <1>2, SubmissionInit, PTL DEF Spec

\* A request is sent only for a row that may be: never for an uncertain one.
LEMMA ResendStep ==
    ASSUME SameLoop, SubmissionInv, [Next]_vars, NEW s \in Suppliers,
           order[s].status \in {"submitting", "unknown"},
           NEW c \in Calls, <<c, s>> \in wire'
    PROVE  <<c, s>> \in wire
<1>1. CASE wire' \subseteq wire
  BY <1>1
<1>2. ASSUME NEW d \in Calls, Claim(d) PROVE <<c, s>> \in wire
  <2>1. PICK t \in Suppliers : Turn(d, t) /\ wire' = wire \cup {<<d, t>>}
    BY <1>2 DEF Claim
  <2>2. Resendable(order[t])
    BY <1>2, <2>1 DEF Claim, SubmissionInv, SeenHolds
  <2>3. t # s
    BY <2>2 DEF Resendable
  <2> QED BY <2>1, <2>3
<1> QED BY <1>1, <1>2
        DEF Next, vars, UpdateLine, Approve, DataMoves, Enter, Lock, Look, InsertConflict,
            Finish, Abort, OrderCreated, CredentialsRejected, OutcomeUncertain, Settle,
            TakeOrder, RefuseOrder, LoseOrder, Resolve

\* A POST of uncertain result is not sent again, by any later submission.
THEOREM UncertainStaysUnsent == SameLoop => (Spec => UncertainIsNotResent)
<1> SUFFICES ASSUME SameLoop PROVE Spec => UncertainIsNotResent
  OBVIOUS
<1>1. SubmissionInv /\ [Next]_vars => SubmissionInv'
  BY SubmissionStep
<1>2. SubmissionInv /\ [Next]_vars =>
        [\A s \in Suppliers : order[s].status \in {"submitting", "unknown"} =>
          \A c \in Calls : <<c, s>> \in wire' => <<c, s>> \in wire]_vars
  BY ResendStep
<1> QED BY <1>1, <1>2, SubmissionInit, PTL DEF Spec, UncertainIsNotResent

\* A late answer names the same order as the one already linked.
LEMMA LinkStep ==
    ASSUME SubmissionInv, [Next]_vars, NEW s \in Suppliers, order[s].id # NoId
    PROVE  order'[s].id = order[s].id
<1>1. TypeOK /\ order[s].id = 1 /\ remote[s] = 1
  BY TakenIsOne DEF SubmissionInv, LinkExists, NoDuplicateOrder, TypeOK, NoId
<1>2. CASE order' = order
  BY <1>2
<1>3. ASSUME NEW c \in Calls, Claim(c) PROVE order'[s].id = order[s].id
  <2>1. PICK t \in Suppliers : order' = [order EXCEPT ![t].status = "submitting"]
    BY <1>3 DEF Claim
  <2> QED BY <1>1, <2>1 DEF TypeOK, Row
<1>4. ASSUME NEW c \in Calls, NEW t \in Suppliers, OrderCreated(c, t)
      PROVE  order'[s].id = order[s].id
  <2>1. call[c].reply \in 1..remote[t]
    BY <1>4 DEF OrderCreated, Settle, At, SubmissionInv, ReplyExists
  <2>2. /\ order'[t].id = call[c].reply
        /\ s # t => order'[s] = order[s]
    BY <1>1, <1>4 DEF OrderCreated, Settle, TypeOK
  <2> QED BY <1>1, <2>1, <2>2
<1>5. ASSUME NEW c \in Calls, NEW t \in Suppliers,
             CredentialsRejected(c, t) \/ OutcomeUncertain(c, t)
      PROVE  order'[s].id = order[s].id
  <2>1. /\ order'[t].id = order[t].id
        /\ s # t => order'[s] = order[s]
    BY <1>1, <1>5 DEF CredentialsRejected, OutcomeUncertain, Uncertain, Settle, TypeOK, Row
  <2> QED BY <2>1
<1>6. ASSUME NEW t \in Suppliers, NEW id \in 1..remote[t], Resolve(t, id)
      PROVE  order'[s].id = order[s].id
  <2>1. s # t
    BY <1>6 DEF Resolve
  <2> QED BY <1>1, <1>6, <2>1 DEF Resolve, TypeOK
<1> QED BY <1>2, <1>3, <1>4, <1>5, <1>6
        DEF Next, vars, UpdateLine, Approve, DataMoves, Enter, Lock, Look, InsertConflict,
            Finish, Abort, TakeOrder, RefuseOrder, LoseOrder

\* A row linked to an Alegra order stays linked to that one.
THEOREM LinksAreStable == SameLoop => (Spec => LinkIsStable)
<1> SUFFICES ASSUME SameLoop PROVE Spec => LinkIsStable
  OBVIOUS
<1>1. SubmissionInv /\ [Next]_vars => SubmissionInv'
  BY SubmissionStep
<1>2. SubmissionInv /\ [Next]_vars =>
        [\A s \in Suppliers : order[s].id # NoId => order'[s].id = order[s].id]_vars
  BY LinkStep
<1> QED BY <1>1, <1>2, SubmissionInit, PTL DEF Spec, LinkIsStable

\* Only a call that runs between two awaits, past its SELECT, has the lock.
LockHeld == \A c \in Calls : lock = c => call[c].pc \in {"looking", "claiming"}

LEMMA LockStep ==
    ASSUME TypeOK, LockHeld, NoCall \notin Calls, [Next]_vars
    PROVE  LockHeld'
<1>1. CASE UNCHANGED <<call, lock>>
  BY <1>1 DEF LockHeld
<1>2. ASSUME NEW c \in Calls, Enter(c) \/ Lock(c) \/ Look(c) PROVE LockHeld'
  <2>1. PICK r : call' = [call EXCEPT ![c] = r] /\ (lock' = lock \/ lock' = c)
                 /\ (lock' = c => r.pc \in {"looking", "claiming"})
    <3>1. CASE Enter(c)
      <4>1. lock # c
        BY <3>1 DEF Enter, LockHeld
      <4> QED BY <3>1, <4>1 DEF Enter
    <3>2. CASE Lock(c) /\ plan \in {"approved", "submitted"} /\ Approved # {}
      <4>1. call' = [call EXCEPT ![c] = [call[c] EXCEPT !.pc = "looking", !.todo = Approved]]
        BY <3>2 DEF Lock, TypeOK
      <4>2. [call[c] EXCEPT !.pc = "looking", !.todo = Approved].pc = "looking"
        BY DEF TypeOK, Call
      <4> QED BY <3>2, <4>1, <4>2 DEF Lock
    <3>3. CASE Lock(c) /\ ~ (plan \in {"approved", "submitted"} /\ Approved # {})
      BY <3>3 DEF Lock
    <3>4. CASE Look(c)
      <4>1. PICK s \in Suppliers :
              call' = [call EXCEPT ![c] = IF Resendable(order[s]) THEN Prepared(c, s)
                                                                 ELSE PassOver(c, s)]
        BY <3>4 DEF Look
      <4>2. Prepared(c, s).pc = "claiming" /\ PassOver(c, s).pc = "looking"
        BY <3>4 DEF Look, Prepared, PassOver, TypeOK, Call
      <4> QED BY <3>4, <4>1, <4>2 DEF Look
    <3> QED BY <1>2, <3>1, <3>2, <3>3, <3>4
  <2> QED BY <2>1 DEF LockHeld, TypeOK
<1>3. ASSUME NEW c \in Calls, Claim(c) \/ InsertConflict(c) \/ Finish(c) \/ Abort(c)
      PROVE  LockHeld'
  <2>1. lock' = Released(c) /\ \A d \in Calls \ {c} : call'[d] = call[d]
    BY <1>3 DEF Claim, AfterClaim, InsertConflict, Finish, Abort, TypeOK
  <2> QED BY <2>1 DEF LockHeld, Released
<1>4. ASSUME NEW c \in Calls, NEW s \in Suppliers, NEW row, Settle(c, s, row)
      PROVE  LockHeld'
  BY <1>4 DEF Settle, LockHeld, TypeOK
<1>5. ASSUME NEW c \in Calls, NEW s \in Suppliers,
             OrderCreated(c, s) \/ CredentialsRejected(c, s) \/ OutcomeUncertain(c, s)
      PROVE  LockHeld'
  BY <1>4, <1>5 DEF OrderCreated, CredentialsRejected, OutcomeUncertain
<1>6. ASSUME NEW c \in Calls, NEW s \in Suppliers, TakeOrder(c, s) \/ RefuseOrder(c, s)
      PROVE  LockHeld'
  <2>1. PICK a : call' = Answered(c, s, a)
    BY <1>6 DEF TakeOrder, RefuseOrder
  <2>2. \A d \in Calls : call'[d].pc = call[d].pc
    BY <2>1, AnswerFrame
  <2> QED BY <1>6, <2>2 DEF LockHeld, TakeOrder, RefuseOrder
<1> QED BY <1>1, <1>2, <1>3, <1>5, <1>6
        DEF Next, vars, UpdateLine, Approve, DataMoves, LoseOrder, Resolve

\* Two calls that run are one, and the one that has the lock runs.
LEMMA LoopIsFree ==
    ASSUME SubmissionInv, LockHeld
    PROVE  LoopNeverBlocks
BY DEF SubmissionInv, OneRuns, Running, LockHeld, LoopNeverBlocks, TypeOK

\* The event loop never waits for a row lock that a coroutine of its own holds over an await:
\* a call gives the lock back, by a commit, before it waits for Alegra (LoopNeverBlocks).
THEOREM TheLoopNeverWaits == SameLoop => (Spec => []LoopNeverBlocks)
<1> SUFFICES ASSUME SameLoop PROVE Spec => []LoopNeverBlocks
  OBVIOUS
<1>1. NoCall \notin Calls
  BY PlanAssumption DEF PlanAssumption
<1>2. Init => LockHeld
  BY <1>1 DEF Init, LockHeld
<1>3. SubmissionInv /\ LockHeld /\ [Next]_vars => LockHeld'
  BY <1>1, LockStep DEF SubmissionInv
<1>4. SubmissionInv /\ LockHeld => LoopNeverBlocks
  BY LoopIsFree
<1>5. SubmissionInv /\ [Next]_vars => SubmissionInv'
  BY SubmissionStep
<1> QED BY <1>2, <1>3, <1>4, <1>5, SubmissionInit, PTL DEF Spec

\* The same of the behaviours of ApiSpec, whose processes may be two: while there is one.
THEOREM OneLoopNeverWaits == SameLoop => (ApiSpec => []OneLoopNeverBlocks)
<1> DEFINE Inv == processes = 1 => SubmissionInv /\ LockHeld
<1> SUFFICES ASSUME SameLoop PROVE ApiSpec => []OneLoopNeverBlocks
  OBVIOUS
<1>1. NoCall \notin Calls
  BY PlanAssumption DEF PlanAssumption
<1>2. ApiInit => Inv
  BY <1>1, SubmissionInit DEF ApiInit, Init, LockHeld
<1>3. Inv /\ [ApiNext]_submissionVars => Inv'
  <2> SUFFICES ASSUME Inv, [ApiNext]_submissionVars, processes' = 1
               PROVE  SubmissionInv' /\ LockHeld'
    OBVIOUS
  <2>1. processes = 1 /\ [Next]_vars
    BY DEF ApiNext, submissionVars, vars
  <2> QED  BY <1>1, <2>1, SubmissionStep, LockStep DEF SubmissionInv
<1>4. Inv => OneLoopNeverBlocks
  BY LoopIsFree DEF OneLoopNeverBlocks
<1> QED BY <1>2, <1>3, <1>4, PTL DEF ApiSpec

-----------------------------------------------------------------------------
(* The budget.                                                             *)

\* Orders, requests and calls are about lines approved within the budget, which nobody
\* edits any more.
BudgetInv ==
    /\ plan # "draft" => Total(Approved) <= Budget
    /\ \A c \in Calls : call[c].pc \notin {"idle", "locking"} =>
          plan # "draft" /\ call[c].todo \subseteq Approved
    /\ \A c \in Calls, s \in Suppliers : <<c, s>> \in wire => plan # "draft" /\ s \in Approved
    /\ \A s \in Suppliers : remote[s] > 0 => plan # "draft" /\ s \in Approved

\* What lines cost is a sum over their suppliers.
LEMMA TotalIs == ASSUME NEW S PROVE Total(S) = SumOver(Cost, S)
BY DEF Total, SumOver, MapThenSumSet, MapThenFoldSet

LEMMA BudgetInit == Init => BudgetInv
BY DEF Init, BudgetInv, Idle

\* A step that neither approves nor edits, and sends only what is approved.
LEMMA BudgetKept ==
    ASSUME BudgetInv, plan # "draft" => plan' # "draft", line' = line,
           plan' # "draft" => plan # "draft",
           \A c \in Calls : call'[c].pc \notin {"idle", "locking"} =>
              plan # "draft" /\ call'[c].todo \subseteq Approved,
           \A c \in Calls, s \in Suppliers : <<c, s>> \in wire' => plan # "draft" /\ s \in Approved,
           \A s \in Suppliers : remote'[s] > 0 => plan # "draft" /\ s \in Approved
    PROVE  BudgetInv'
<1>1. Approved' = Approved
  BY DEF Approved
<1>2. Total(Approved)' = Total(Approved)
  BY <1>1, TotalIs
<1> QED  BY <1>1, <1>2 DEF BudgetInv

LEMMA BudgetStep == TypeOK /\ BudgetInv /\ [Next]_vars => BudgetInv'
<1> SUFFICES ASSUME TypeOK, BudgetInv, [Next]_vars PROVE BudgetInv'
  OBVIOUS
<1>1. ASSUME NEW s \in Suppliers, NEW d \in {"approved", "dropped"}, UpdateLine(s, d)
      PROVE  BudgetInv'
  BY <1>1 DEF UpdateLine, Editable, BudgetInv
<1>2. CASE Approve
  <2> DEFINE chosen == {s \in Suppliers : line[s] # "dropped"}
  <2>1. /\ Total(chosen) <= Budget
        /\ line' = [s \in Suppliers |-> IF s \in chosen THEN "approved" ELSE line[s]]
    BY <1>2 DEF Approve
  <2>2. Approved' = chosen
    BY <2>1 DEF Approved
  <2>3. Total(Approved)' = Total(chosen)
    BY <2>2, TotalIs
  <2>4. plan = "draft" /\ UNCHANGED <<call, wire, remote>>
    BY <1>2 DEF Approve
  <2> QED  BY <2>1, <2>3, <2>4 DEF BudgetInv
<1>3. CASE DataMoves \/ UNCHANGED vars
  BY <1>3, BudgetKept DEF DataMoves, vars, BudgetInv
<1>4. ASSUME NEW c \in Calls, Enter(c) PROVE BudgetInv'
  <2>1. \A d \in Calls : call'[d].pc \notin {"idle", "locking"} => call'[d] = call[d]
    BY <1>4 DEF Enter, TypeOK, Call
  <2> QED  BY <1>4, <2>1, BudgetKept DEF Enter, BudgetInv
<1>5. ASSUME NEW c \in Calls, Lock(c) PROVE BudgetInv'
  <2>1. ASSUME NEW d \in Calls, call'[d].pc \notin {"idle", "locking"}
        PROVE  plan # "draft" /\ call'[d].todo \subseteq Approved
    <3>1. CASE d # c
      <4>1. call'[d] = call[d]
        BY <1>5, <3>1 DEF Lock, TypeOK
      <4> QED  BY <2>1, <4>1 DEF BudgetInv
    <3>2. CASE d = c
      <4>1. call' # [call EXCEPT ![c] = Idle]
        BY <2>1, <3>2 DEF Idle, TypeOK
      <4>2. plan \in {"approved", "submitted"}
            /\ call' = [call EXCEPT ![c].pc = "looking", ![c].todo = Approved]
        BY <1>5, <4>1 DEF Lock
      <4> QED  BY <3>2, <4>2 DEF TypeOK, Call
    <3> QED  BY <3>1, <3>2
  <2> QED  BY <1>5, <2>1, BudgetKept DEF Lock, BudgetInv
<1>6. ASSUME NEW c \in Calls, Look(c) PROVE BudgetInv'
  <2>1. call[c].pc = "looking"
    BY <1>6 DEF Look
  <2>2. ASSUME NEW d \in Calls PROVE call'[d].todo \subseteq call[d].todo
                                     /\ (call'[d].pc = call[d].pc \/ d = c)
    BY <1>6 DEF Look, Prepared, PassOver, TypeOK, Call
  <2> QED  BY <1>6, <2>1, <2>2, BudgetKept DEF Look, BudgetInv
<1>7. ASSUME NEW c \in Calls, Claim(c) PROVE BudgetInv'
  <2>1. PICK s \in Suppliers :
           /\ Turn(c, s)
           /\ call' = [call EXCEPT ![c] = Posting(c)]
           /\ wire' = wire \cup {<<c, s>>}
    BY <1>7 DEF Claim
  <2>2. plan # "draft" /\ s \in Approved
    BY <1>7, <2>1 DEF Claim, Turn, BudgetInv
  <2>3. ASSUME NEW d \in Calls PROVE call'[d].todo = call[d].todo
                                     /\ (call'[d].pc = call[d].pc \/ d = c)
    BY <2>1 DEF Posting, TypeOK, Call
  <2>4. call[c].pc = "claiming"
    BY <1>7 DEF Claim
  <2> QED  BY <1>7, <2>1, <2>2, <2>3, <2>4, BudgetKept DEF Claim, BudgetInv
<1>8. ASSUME NEW c \in Calls, InsertConflict(c) \/ Abort(c) PROVE BudgetInv'
  <2>1. ASSUME NEW d \in Calls PROVE call'[d] = call[d] \/ call'[d].pc = "idle"
    BY <1>8 DEF InsertConflict, Abort, Idle, TypeOK
  <2> QED  BY <1>8, <2>1, BudgetKept DEF InsertConflict, Abort, BudgetInv
<1>9. ASSUME NEW c \in Calls, Finish(c) PROVE BudgetInv'
  <2>1. ASSUME NEW d \in Calls PROVE call'[d] = call[d] \/ call'[d].pc = "idle"
    BY <1>9 DEF Finish, Idle, TypeOK
  <2>2. plan # "draft" /\ plan' # "draft"
    BY <1>9 DEF Finish, BudgetInv
  <2> QED  BY <1>9, <2>1, <2>2, BudgetKept DEF Finish, BudgetInv
<1>10. ASSUME NEW c \in Calls, NEW s \in Suppliers, NEW row, Settle(c, s, row) PROVE BudgetInv'
  <2>1. ASSUME NEW d \in Calls PROVE call'[d].todo \subseteq call[d].todo
                                     /\ (call'[d].pc = call[d].pc \/ d = c)
    BY <1>10 DEF Settle, Resumed, TypeOK, Call
  <2> QED  BY <1>10, <2>1, BudgetKept DEF Settle, BudgetInv
<1>11. ASSUME NEW c \in Calls, NEW s \in Suppliers,
              OrderCreated(c, s) \/ CredentialsRejected(c, s) \/ OutcomeUncertain(c, s)
       PROVE  BudgetInv'
  BY <1>10, <1>11 DEF OrderCreated, CredentialsRejected, OutcomeUncertain
<1>12. ASSUME NEW c \in Calls, NEW s \in Suppliers,
              TakeOrder(c, s) \/ RefuseOrder(c, s) \/ LoseOrder(c, s)
       PROVE  BudgetInv'
  <2>1. ASSUME NEW d \in Calls PROVE call'[d].todo = call[d].todo /\ call'[d].pc = call[d].pc
    BY <1>12, AnswerFrame DEF TakeOrder, RefuseOrder, LoseOrder
  <2>2. plan # "draft" /\ s \in Approved /\ wire' \subseteq wire
    BY <1>12 DEF TakeOrder, RefuseOrder, LoseOrder, BudgetInv
  <2>3. \A t \in Suppliers : remote'[t] > 0 => remote[t] > 0 \/ t = s
    BY <1>12 DEF TakeOrder, RefuseOrder, LoseOrder, TypeOK
  <2> QED  BY <1>12, <2>1, <2>2, <2>3, BudgetKept DEF TakeOrder, RefuseOrder, LoseOrder, BudgetInv
<1>13. ASSUME NEW s \in Suppliers, NEW id \in 1..remote[s], Resolve(s, id) PROVE BudgetInv'
  <2>1. plan # "draft" /\ plan' # "draft"
    BY <1>13 DEF Resolve, BudgetInv, TypeOK
  <2> QED  BY <1>13, <2>1, BudgetKept DEF Resolve, BudgetInv
<1> QED BY <1>1, <1>2, <1>3, <1>4, <1>5, <1>6, <1>7, <1>8, <1>9, <1>11, <1>12, <1>13 DEF Next

\* What the orders of Alegra cost is a sum over the suppliers.
LEMMA SpentIsSum ==
    ASSUME NEW w, \A s \in Suppliers : w[s] = remote[s] * Cost[s]
    PROVE  WithinBudget <=> SumOver(w, Suppliers) <= Budget
<1> DEFINE Equation(f) == f = [S \in SUBSET Suppliers |->
               IF S = {} THEN 0 ELSE remote[Pick(S)] * Cost[Pick(S)] + f[S \ {Pick(S)}]]
           g == CHOOSE f : Equation(f)
<1>1. IsFiniteSet(Suppliers)
  BY PlanAssumption DEF PlanAssumption
<1>2. WithinBudget <=> g[Suppliers] <= Budget
  BY DEF WithinBudget, MapThenSumSet, MapThenFoldSet, Pick
<1>3. ASSUME NEW f PROVE SumTable(f, w, Suppliers) <=> Equation(f)
  BY PickIn DEF SumTable
<1>4. Equation(g)
  BY <1>1, <1>3, SumsExist
<1>5. SumTable(g, w, Suppliers)
  <2> HIDE DEF g
  <2> QED  BY <1>3, <1>4
<1>6. g[Suppliers] = SumOver(w, Suppliers)
  <2> HIDE DEF g
  <2> QED  BY <1>1, <1>5, SumIs
<1> HIDE DEF g
<1> QED  BY <1>2, <1>6

\* Orders of approved lines, one for each, cost no more than what was approved.
LEMMA OneOrderEachFits ==
    ASSUME TypeOK, BudgetInv, NoDuplicateOrder
    PROVE  WithinBudget
<1> DEFINE w == [s \in Suppliers |-> remote[s] * Cost[s]]
           v == [s \in Suppliers |-> IF s \in Approved THEN Cost[s] ELSE 0]
<1>1. IsFiniteSet(Suppliers) /\ Cost \in [Suppliers -> Nat] /\ Budget \in Nat
  BY PlanAssumption DEF PlanAssumption
<1>2. WithinBudget <=> SumOver(w, Suppliers) <= Budget
  BY SpentIsSum
<1>3. ASSUME NEW s \in Suppliers PROVE w[s] \in Int /\ v[s] \in Int /\ w[s] <= v[s]
  <2>1. remote[s] \in {0, 1} /\ Cost[s] \in Nat
    BY <1>1 DEF TypeOK, NoDuplicateOrder
  <2>2. w[s] = 0 \/ (w[s] = Cost[s] /\ s \in Approved)
    BY <2>1 DEF BudgetInv
  <2> QED  BY <2>1, <2>2
<1>4. SumOver(w, Suppliers) <= SumOver(v, Suppliers)
  BY <1>1, <1>3, SumMonotone
<1>5. Approved \subseteq Suppliers
  BY DEF Approved
<1>6. SumOver(v, Suppliers) = SumOver(Cost, Approved)
  BY <1>1, <1>5, SumRestrict
<1>7. CASE plan # "draft"
  <2>1. SumOver(Cost, Approved) <= Budget
    BY <1>7, TotalIs DEF BudgetInv
  <2>2. SumOver(w, Suppliers) \in Int /\ SumOver(Cost, Approved) \in Int
    BY <1>1, <1>3, <1>5, FS_Subset, SumTakeOut
  <2> QED  BY <1>1, <1>2, <1>4, <1>6, <2>1, <2>2
<1>8. CASE plan = "draft"
  <2>1. \A s \in Suppliers : remote[s] = 0
    BY <1>8 DEF BudgetInv, TypeOK
  <2>2. \A s \in Suppliers : w[s] = 0
    BY <1>1, <2>1
  <2>3. SumOver(w, Suppliers) = 0
    BY <1>1, <2>2, SumZero
  <2> QED  BY <1>1, <1>2, <2>3
<1> QED  BY <1>7, <1>8

\* In one API process the orders that Alegra holds cost no more than the budget they were
\* approved within, for any costs, suppliers and calls.
THEOREM SpendingStaysWithinBudget == SameLoop => (Spec => []WithinBudget)
<1> SUFFICES ASSUME SameLoop PROVE Spec => []WithinBudget
  OBVIOUS
<1>1. SubmissionInv /\ [Next]_vars => SubmissionInv'
  BY SubmissionStep
<1>2. SubmissionInv /\ BudgetInv /\ [Next]_vars => BudgetInv'
  BY BudgetStep DEF SubmissionInv
<1>3. SubmissionInv /\ BudgetInv => WithinBudget
  BY OneOrderEachFits DEF SubmissionInv
<1> QED BY <1>1, <1>2, <1>3, SubmissionInit, BudgetInit, PTL DEF Spec

(* Several processes, while Alegra refuses nothing.                        *)

\* Nothing is ever sent a second time, so no row goes back to where it may be sent.
NothingRefused ==
    /\ \A c \in Calls : call[c].reply # Refusal
    /\ \A s \in Suppliers : order[s].status # "rejected"

\* What a call saw may be old, but only an insert follows it, and a row is there or new.
NewIsEmpty == \A s \in Suppliers : order[s].status = "none" => order[s] = NoRow
SeenWasNew == \A c \in Calls : call[c].pc = "claiming" => call[c].seen.status = "none"

UnrefusedInv ==
    /\ TypeOK
    /\ NothingRefused /\ NewIsEmpty /\ SeenWasNew
    /\ PostBlocks /\ OnePost /\ OneRequest /\ WireBlocks
    /\ ResendableIsNew /\ ReplyExists /\ LinkExists
    /\ NoDuplicateOrder /\ NoOrphanOrder

LEMMA UnrefusedInit == Init => UnrefusedInv
<1> SUFFICES ASSUME Init PROVE UnrefusedInv
  OBVIOUS
<1>1. TypeOK
  BY TypeInit
<1>2. \A c \in Calls : call[c].pc = "idle" /\ call[c].reply # Refusal
  BY DEF Init, Idle, NoId, Refusal
<1>3. \A s \in Suppliers : order[s] = NoRow /\ order[s].status = "none" /\ order[s].id = NoId /\ remote[s] = 0
  BY DEF Init, NoRow
<1> QED BY <1>1, <1>2, <1>3
        DEF Init, UnrefusedInv, NothingRefused, NewIsEmpty, SeenWasNew, PostBlocks, OnePost,
            OneRequest, WireBlocks, ResendableIsNew, ReplyExists, LinkExists, NoDuplicateOrder,
            NoOrphanOrder, At

\* A call that moves without sending or storing anything.
LEMMA UnrefusedLocal ==
    ASSUME UnrefusedInv, TypeOK', NEW c \in Calls, NEW r,
           UNCHANGED <<order, wire, remote>>,
           call' = [call EXCEPT ![c] = r],
           r.pc # "posting", r.reply # Refusal,
           r.pc = "claiming" => r.seen.status = "none"
    PROVE  UnrefusedInv'
<1>1. call'[c] = r /\ \A d \in Calls \ {c} : call'[d] = call[d]
  BY DEF UnrefusedInv, TypeOK
<1>2. ASSUME NEW d \in Calls, NEW s \in Suppliers, At(d, s)'
      PROVE  At(d, s) /\ call'[d] = call[d]
  BY <1>1, <1>2 DEF At, Turn
<1>3. NothingRefused' /\ SeenWasNew'
  BY <1>1 DEF UnrefusedInv, NothingRefused, SeenWasNew
<1>4. PostBlocks' /\ OnePost' /\ ReplyExists'
  BY <1>2 DEF UnrefusedInv, PostBlocks, OnePost, ReplyExists
<1> QED BY <1>3, <1>4
        DEF UnrefusedInv, NewIsEmpty, OneRequest, WireBlocks, ResendableIsNew, LinkExists,
            NoDuplicateOrder, NoOrphanOrder

\* The unique constraint lets a call send only what no row is there for.
LEMMA UnrefusedClaim ==
    ASSUME UnrefusedInv, TypeOK', NEW c \in Calls, Claim(c)
    PROVE  /\ UnrefusedInv'
           /\ \A s \in Suppliers : order[s].status \in {"submitting", "unknown"} =>
                  \A d \in Calls : <<d, s>> \in wire' => <<d, s>> \in wire
<1>1. PICK s \in Suppliers :
         /\ Turn(c, s) /\ Claimable(c, s)
         /\ order' = [order EXCEPT ![s].status = "submitting"]
         /\ call' = [call EXCEPT ![c] = Posting(c)]
         /\ wire' = wire \cup {<<c, s>>}
  BY DEF Claim
<1>2. call[c].pc = "claiming" /\ remote' = remote /\ TypeOK
  BY DEF Claim, UnrefusedInv
<1>3. order[s].id = NoId /\ order[s].status = "none" /\ remote[s] = 0
  <2>1. order[s] = NoRow
    BY <1>1, <1>2 DEF UnrefusedInv, SeenWasNew, Claimable
  <2>2. order[s].id = NoId /\ order[s].status = "none"
    BY <2>1 DEF NoRow
  <2> QED BY <2>2 DEF UnrefusedInv, ResendableIsNew, Resendable
<1>4. \A d \in Calls : <<d, s>> \notin wire /\ ~ At(d, s)
  BY <1>3 DEF UnrefusedInv, WireBlocks, PostBlocks, Resendable
<1>5. /\ order'[s].status = "submitting" /\ order'[s].id = NoId
      /\ \A t \in Suppliers \ {s} : order'[t] = order[t]
  BY <1>1, <1>2, <1>3 DEF TypeOK, Row
<1>6. /\ call'[c].pc = "posting" /\ call'[c].reply = NoId /\ call'[c].todo = call[c].todo
      /\ \A d \in Calls \ {c} : call'[d] = call[d]
  BY <1>1, <1>2 DEF Posting, TypeOK, Call
<1>7. ASSUME NEW d \in Calls, NEW t \in Suppliers, At(d, t)'
      PROVE  (d = c /\ t = s) \/ (d # c /\ t # s /\ At(d, t) /\ call'[d] = call[d])
  <2>1. CASE d = c
    <3>1. Turn(c, t)
      BY <1>6, <1>7, <2>1 DEF At, Turn
    <3> QED BY <3>1, <1>1, <1>2, <2>1, TurnUnique
  <2>2. CASE d # c
    <3>1. At(d, t) /\ call'[d] = call[d]
      BY <1>6, <1>7, <2>2 DEF At, Turn
    <3> QED BY <3>1, <2>2, <1>4
  <2> QED BY <2>1, <2>2
<1>8. NothingRefused' /\ NewIsEmpty' /\ SeenWasNew'
  BY <1>5, <1>6 DEF UnrefusedInv, NothingRefused, NewIsEmpty, SeenWasNew, NoId, Refusal
<1>9. PostBlocks'
  BY <1>5, <1>7 DEF UnrefusedInv, PostBlocks, Resendable
<1>10. OnePost'
  BY <1>7 DEF UnrefusedInv, OnePost
<1>11. OneRequest'
  BY <1>1, <1>4 DEF UnrefusedInv, OneRequest
<1>12. WireBlocks'
  BY <1>1, <1>2, <1>3, <1>5 DEF UnrefusedInv, WireBlocks
<1>13. ResendableIsNew' /\ LinkExists' /\ NoDuplicateOrder' /\ NoOrphanOrder'
  BY <1>2, <1>3, <1>5
     DEF UnrefusedInv, ResendableIsNew, LinkExists, NoDuplicateOrder, NoOrphanOrder, Resendable
<1>14. ReplyExists'
  BY <1>2, <1>6, <1>7 DEF UnrefusedInv, ReplyExists, NoId
<1>15. UnrefusedInv'
  BY <1>8, <1>9, <1>10, <1>11, <1>12, <1>13, <1>14 DEF UnrefusedInv
<1> QED BY <1>1, <1>3, <1>15

\* A call stores what it was answered, or its doubt, on the row it sent.
LEMMA UnrefusedOutcome ==
    ASSUME UnrefusedInv, TypeOK', NEW c \in Calls, NEW s \in Suppliers, NEW row \in Row,
           Settle(c, s, row), row.status \in {"submitted", "unknown"}, Agrees(s, row)
    PROVE  UnrefusedInv'
<1>1. TypeOK /\ At(c, s) /\ remote' = remote /\ wire' = wire
  BY DEF UnrefusedInv, Settle, At
<1>2. order'[s] = row /\ \A t \in Suppliers \ {s} : order'[t] = order[t]
  BY <1>1 DEF Settle, TypeOK
<1>3. /\ call'[c].pc = "looking" /\ call'[c].reply = NoId
      /\ \A d \in Calls \ {c} : call'[d] = call[d]
  BY <1>1 DEF Settle, Resumed, TypeOK, Call
<1>4. ASSUME NEW d \in Calls, NEW t \in Suppliers, At(d, t)'
      PROVE  t # s /\ At(d, t) /\ call'[d] = call[d]
  <2>1. d # c /\ At(d, t) /\ call'[d] = call[d]
    BY <1>3, <1>4 DEF At, Turn
  <2> QED BY <2>1, <1>1 DEF UnrefusedInv, OnePost
<1>5. NothingRefused' /\ NewIsEmpty' /\ SeenWasNew'
  BY <1>2, <1>3 DEF UnrefusedInv, NothingRefused, NewIsEmpty, SeenWasNew, NoId, Refusal
<1>6. PostBlocks' /\ OnePost'
  BY <1>2, <1>4 DEF UnrefusedInv, PostBlocks, OnePost
<1>7. OneRequest' /\ ReplyExists'
  BY <1>1, <1>4 DEF UnrefusedInv, OneRequest, ReplyExists
<1>8. WireBlocks'
  BY <1>1, <1>2 DEF UnrefusedInv, WireBlocks, Agrees
<1>9. ResendableIsNew' /\ LinkExists' /\ NoDuplicateOrder' /\ NoOrphanOrder'
  BY <1>1, <1>2
     DEF UnrefusedInv, ResendableIsNew, LinkExists, NoDuplicateOrder, NoOrphanOrder, Agrees
<1> QED BY <1>5, <1>6, <1>7, <1>8, <1>9 DEF UnrefusedInv

\* Alegra takes a request or loses it.
LEMMA UnrefusedAlegra ==
    ASSUME UnrefusedInv, TypeOK', NEW c \in Calls, NEW s \in Suppliers,
           TakeOrder(c, s) \/ LoseOrder(c, s)
    PROVE  UnrefusedInv'
<1>1. /\ TypeOK /\ <<c, s>> \in wire /\ wire' = wire \ {<<c, s>>} /\ order' = order
      /\ \A t \in Suppliers \ {s} : remote'[t] = remote[t]
  BY DEF UnrefusedInv, TakeOrder, LoseOrder, TypeOK
<1>2. /\ remote[s] = 0 /\ order[s].status \in {"submitting", "unknown"}
      /\ ~ Resendable(order[s]) /\ order[s].id = NoId
  <2>1. remote[s] = 0 /\ order[s].status \in {"submitting", "unknown"}
    BY <1>1 DEF UnrefusedInv, WireBlocks
  <2>2. order[s].id = NoId
    BY <2>1 DEF UnrefusedInv, LinkExists
  <2> QED BY <2>1, <2>2 DEF Resendable
<1>3. \A d \in Calls : <<d, s>> \notin wire'
  BY <1>1 DEF UnrefusedInv, OneRequest
<1>4. OneRequest' /\ WireBlocks' /\ NewIsEmpty'
  BY <1>1, <1>3 DEF UnrefusedInv, OneRequest, WireBlocks, NewIsEmpty
<1>5. remote'[s] \in {0, 1}
  BY <1>1, <1>2 DEF TakeOrder, LoseOrder, TypeOK
<1>6. ResendableIsNew' /\ LinkExists' /\ NoDuplicateOrder' /\ NoOrphanOrder'
  BY <1>1, <1>2, <1>5
     DEF UnrefusedInv, ResendableIsNew, LinkExists, NoDuplicateOrder, NoOrphanOrder
<1>7. CASE TakeOrder(c, s)
  <2>1. call' = Answered(c, s, 1) /\ remote'[s] = 1
    BY <1>1, <1>2, <1>7 DEF TakeOrder, TypeOK
  <2>2. PostBlocks' /\ OnePost'
    BY <1>1, <2>1, AnswerFrame DEF UnrefusedInv, PostBlocks, OnePost
  <2>3. \A d \in Calls : call'[d].reply \in {1, call[d].reply} /\ call'[d].pc = call[d].pc
    BY <1>1, <2>1, AnswerFrame
  <2>4. NothingRefused'
    BY <1>1, <2>3 DEF UnrefusedInv, NothingRefused, Refusal
  <2>5. SeenWasNew'
    <3>1. \A d \in Calls : call'[d].pc = "claiming" => call'[d] = call[d]
      BY <1>1, <2>1 DEF Answered, TypeOK, Call
    <3> QED BY <3>1 DEF UnrefusedInv, SeenWasNew
  <2>6. ReplyExists'
    <3> SUFFICES ASSUME NEW d \in Calls, NEW t \in Suppliers, At(d, t)',
                        call'[d].reply > NoId
                 PROVE  call'[d].reply \in 1..remote'[t]
      BY DEF ReplyExists
    <3>1. At(d, t) /\ call'[d].reply = IF d = c /\ At(c, s) THEN 1 ELSE call[d].reply
      BY <1>1, <2>1, AnswerFrame
    <3>2. CASE d = c /\ At(c, s)
      <4>1. t = s
        BY <1>1, <3>1, <3>2, TurnUnique DEF At
      <4> QED BY <2>1, <3>1, <3>2, <4>1
    <3>3. CASE ~ (d = c /\ At(c, s))
      <4>1. call[d].reply \in 1..remote[t] /\ call'[d].reply = call[d].reply
        BY <3>1, <3>3 DEF UnrefusedInv, ReplyExists
      <4>2. t # s
        BY <4>1, <1>2
      <4> QED BY <4>1, <4>2, <1>1
    <3> QED BY <3>2, <3>3
  <2> QED BY <1>4, <1>6, <2>2, <2>4, <2>5, <2>6 DEF UnrefusedInv
<1>8. CASE LoseOrder(c, s)
  <2>1. call' = call /\ remote' = remote
    BY <1>8 DEF LoseOrder
  <2> QED BY <1>1, <1>4, <1>6, <2>1
          DEF UnrefusedInv, NothingRefused, SeenWasNew, PostBlocks, OnePost, ReplyExists, At, Turn
<1> QED BY <1>7, <1>8

LEMMA UnrefusedTaken ==
    ASSUME UnrefusedInv, NEW s \in Suppliers, remote[s] > 0
    PROVE  remote[s] = 1 /\ \A d \in Calls : <<d, s>> \notin wire
BY DEF UnrefusedInv, TypeOK, NoDuplicateOrder, WireBlocks

LEMMA UnrefusedResolve ==
    ASSUME UnrefusedInv, TypeOK', NEW s \in Suppliers, NEW id \in 1..remote[s], Resolve(s, id)
    PROVE  UnrefusedInv'
<1>1. TypeOK /\ UNCHANGED <<call, wire, remote>>
  BY DEF UnrefusedInv, Resolve
<1>2. /\ order'[s].status = "submitted" /\ order'[s].id = id
      /\ \A t \in Suppliers \ {s} : order'[t] = order[t]
  BY <1>1 DEF Resolve, TypeOK
<1>3. remote[s] > 0 /\ id # NoId /\ \A d \in Calls : <<d, s>> \notin wire
  BY <1>1, UnrefusedTaken DEF TypeOK, NoId
<1>4. /\ OnePost' /\ OneRequest' /\ ReplyExists' /\ SeenWasNew'
  BY <1>1 DEF UnrefusedInv, OnePost, OneRequest, ReplyExists, SeenWasNew, At, Turn
<1>5. PostBlocks' /\ WireBlocks' /\ NothingRefused' /\ NewIsEmpty'
  BY <1>1, <1>2, <1>3
     DEF UnrefusedInv, PostBlocks, WireBlocks, NothingRefused, NewIsEmpty, Resendable, At, Turn
<1>6. ResendableIsNew' /\ LinkExists' /\ NoDuplicateOrder' /\ NoOrphanOrder'
  BY <1>1, <1>2, <1>3
     DEF UnrefusedInv, ResendableIsNew, LinkExists, NoDuplicateOrder, NoOrphanOrder, Resendable
<1> QED BY <1>4, <1>5, <1>6 DEF UnrefusedInv

LEMMA UnrefusedStep == MaxRefusals = 0 /\ UnrefusedInv /\ [Next]_vars => UnrefusedInv'
<1> SUFFICES ASSUME MaxRefusals = 0, UnrefusedInv, [Next]_vars PROVE UnrefusedInv'
  OBVIOUS
<1>1. TypeOK /\ TypeOK'
  BY TypeStep DEF UnrefusedInv
<1>2. CASE UNCHANGED <<order, call, wire, remote>>
  BY <1>1, <1>2 DEF UnrefusedInv, NothingRefused, NewIsEmpty, SeenWasNew, PostBlocks, OnePost,
                    OneRequest, WireBlocks, ResendableIsNew, ReplyExists, LinkExists,
                    NoDuplicateOrder, NoOrphanOrder, At, Turn
<1>3. ASSUME NEW c \in Calls, Enter(c) PROVE UnrefusedInv'
  <2> DEFINE r == [call[c] EXCEPT !.pc = "locking"]
  <2>1. call' = [call EXCEPT ![c] = r] /\ UNCHANGED <<order, wire, remote>>
    BY <1>3 DEF Enter
  <2>2. r.pc = "locking" /\ r.reply # Refusal
    BY <1>1 DEF TypeOK, Call, UnrefusedInv, NothingRefused
  <2> HIDE DEF r
  <2> QED BY <1>1, <2>1, <2>2, UnrefusedLocal
<1>4. Idle.pc = "idle" /\ Idle.reply # Refusal
  BY DEF Idle, NoId, Refusal
<1>5. ASSUME NEW c \in Calls, Lock(c) PROVE UnrefusedInv'
  <2>1. UNCHANGED <<order, wire, remote>>
    BY <1>5 DEF Lock
  <2>2. CASE call' = [call EXCEPT ![c] = Idle]
    BY <1>1, <1>4, <2>1, <2>2, UnrefusedLocal
  <2>3. CASE call' = [call EXCEPT ![c].pc = "looking", ![c].todo = Approved]
    <3> DEFINE r == [call[c] EXCEPT !.pc = "looking", !.todo = Approved]
    <3>1. call' = [call EXCEPT ![c] = r]
      BY <2>3
    <3>2. r.pc = "looking" /\ r.reply # Refusal
      BY <1>1 DEF TypeOK, Call, UnrefusedInv, NothingRefused
    <3> HIDE DEF r
    <3> QED BY <1>1, <2>1, <3>1, <3>2, UnrefusedLocal
  <2> QED BY <1>5, <2>2, <2>3 DEF Lock
<1>6. ASSUME NEW c \in Calls, Look(c) PROVE UnrefusedInv'
  <2>1. PICK s \in Suppliers :
           /\ Turn(c, s)
           /\ call' = [call EXCEPT ![c] =
                IF Resendable(order[s]) THEN Prepared(c, s) ELSE PassOver(c, s)]
    BY <1>6 DEF Look
  <2>2. call[c].pc = "looking" /\ call[c].reply # Refusal /\ UNCHANGED <<order, wire, remote>>
    BY <1>6 DEF Look, UnrefusedInv, NothingRefused
  <2>3. CASE Resendable(order[s])
    <3>1. /\ Prepared(c, s).pc = "claiming" /\ Prepared(c, s).seen = order[s]
          /\ Prepared(c, s).reply = call[c].reply
      BY <1>1 DEF Prepared, TypeOK, Call
    <3>2. order[s].status = "none"
      BY <2>3 DEF Resendable, UnrefusedInv, NothingRefused
    <3> QED BY <1>1, <2>1, <2>2, <2>3, <3>1, <3>2, UnrefusedLocal
  <2>4. CASE ~ Resendable(order[s])
    <3>1. PassOver(c, s).pc = "looking" /\ PassOver(c, s).reply = call[c].reply
      BY <1>1, <2>2 DEF PassOver, TypeOK, Call
    <3> QED BY <1>1, <2>1, <2>2, <2>4, <3>1, UnrefusedLocal
  <2> QED BY <2>3, <2>4
<1>7. ASSUME NEW c \in Calls, InsertConflict(c) \/ Finish(c) \/ Abort(c) PROVE UnrefusedInv'
  <2>1. call' = [call EXCEPT ![c] = Idle] /\ UNCHANGED <<order, wire, remote>>
    BY <1>7 DEF InsertConflict, Finish, Abort
  <2> QED BY <1>1, <1>4, <2>1, UnrefusedLocal
<1>8. ASSUME NEW c \in Calls, Claim(c) PROVE UnrefusedInv'
  BY <1>1, <1>8, UnrefusedClaim
<1>9. ASSUME NEW c \in Calls, NEW s \in Suppliers,
             OrderCreated(c, s) \/ CredentialsRejected(c, s) \/ OutcomeUncertain(c, s)
      PROVE  UnrefusedInv'
  <2>1. At(c, s) /\ call[c].reply # Refusal
    BY <1>9 DEF OrderCreated, CredentialsRejected, OutcomeUncertain, Settle, At, UnrefusedInv,
                NothingRefused
  <2>2. CASE OrderCreated(c, s)
    <3> DEFINE row == [status |-> "submitted", id |-> call[c].reply]
    <3>1. call[c].reply \in 1..remote[s]
      BY <2>1, <2>2 DEF OrderCreated, UnrefusedInv, ReplyExists
    <3>2. row \in Row /\ remote[s] \in Nat /\ remote[s] > 0 /\ row.id # NoId
      BY <3>1, <1>1 DEF TypeOK, Row, NoId
    <3>3. \A d \in Calls : <<d, s>> \notin wire
      BY <3>2, UnrefusedTaken
    <3>4. Agrees(s, row)
      BY <3>1, <3>2, <3>3 DEF Agrees, Resendable
    <3>5. row.status = "submitted" /\ Settle(c, s, row)
      BY <2>2 DEF OrderCreated
    <3> HIDE DEF row
    <3> QED BY <1>1, <3>2, <3>4, <3>5, UnrefusedOutcome
  <2>3. CASE OutcomeUncertain(c, s)
    <3>1. /\ Uncertain(order[s]) \in Row /\ Uncertain(order[s]).status = "unknown"
          /\ Uncertain(order[s]).id = order[s].id
      BY <1>1 DEF Uncertain, TypeOK, Row
    <3>2. Agrees(s, Uncertain(order[s]))
      BY <3>1 DEF Agrees, UnrefusedInv, LinkExists, Resendable
    <3> QED BY <1>1, <2>3, <3>1, <3>2, UnrefusedOutcome DEF OutcomeUncertain
  <2> QED BY <1>9, <2>1, <2>2, <2>3 DEF CredentialsRejected
<1>10. ASSUME NEW c \in Calls, NEW s \in Suppliers,
              TakeOrder(c, s) \/ RefuseOrder(c, s) \/ LoseOrder(c, s)
       PROVE  UnrefusedInv'
  <2>1. ~ RefuseOrder(c, s)
    BY <1>1 DEF RefuseOrder, TypeOK
  <2> QED BY <1>1, <1>10, <2>1, UnrefusedAlegra
<1>11. ASSUME NEW s \in Suppliers, NEW id \in 1..remote[s], Resolve(s, id) PROVE UnrefusedInv'
  BY <1>1, <1>11, UnrefusedResolve
<1> QED BY <1>2, <1>3, <1>5, <1>6, <1>7, <1>8, <1>9, <1>10, <1>11
        DEF Next, UpdateLine, Approve, DataMoves, vars

\* Only a claim sends.
LEMMA UnrefusedResend ==
    ASSUME UnrefusedInv, UnrefusedInv', [Next]_vars
    PROVE  [\A s \in Suppliers : order[s].status \in {"submitting", "unknown"} =>
              \A c \in Calls : <<c, s>> \in wire' => <<c, s>> \in wire]_vars
<1>1. TypeOK' /\ ((\E c \in Calls : Claim(c)) \/ wire' \subseteq wire)
  BY DEF UnrefusedInv, Next, vars, UpdateLine, Approve, DataMoves, Enter, Lock, Look,
         InsertConflict, Finish, Abort, OrderCreated, CredentialsRejected, OutcomeUncertain,
         Settle, TakeOrder, RefuseOrder, LoseOrder, Resolve
<1> QED BY <1>1, UnrefusedClaim

\* However many processes submit the plan at once, as long as Alegra does not refuse the
\* credentials a supplier gets one order, and none is lost: the unique constraint on plan
\* and supplier lets one insert through, and what is uncertain is not sent again.
THEOREM ProcessesSendOnce ==
    MaxRefusals = 0 => (Spec => [](NoDuplicateOrder /\ NoOrphanOrder))
<1> SUFFICES ASSUME MaxRefusals = 0 PROVE Spec => [](NoDuplicateOrder /\ NoOrphanOrder)
  OBVIOUS
<1>1. UnrefusedInv /\ [Next]_vars => UnrefusedInv'
  BY UnrefusedStep
<1>2. UnrefusedInv => NoDuplicateOrder /\ NoOrphanOrder
  BY DEF UnrefusedInv
<1> QED BY <1>1, <1>2, UnrefusedInit, PTL DEF Spec

\* However many processes submit, what is uncertain is not sent again by any of them, as
\* long as nothing is refused: the insert finds the row, and nothing else sends.
THEOREM ProcessesLeaveUncertain == MaxRefusals = 0 => (Spec => UncertainIsNotResent)
<1> SUFFICES ASSUME MaxRefusals = 0 PROVE Spec => UncertainIsNotResent
  OBVIOUS
<1>1. UnrefusedInv /\ [Next]_vars => UnrefusedInv'
  BY UnrefusedStep
<1>2. UnrefusedInv /\ UnrefusedInv' /\ [Next]_vars =>
        [\A s \in Suppliers : order[s].status \in {"submitting", "unknown"} =>
          \A c \in Calls : <<c, s>> \in wire' => <<c, s>> \in wire]_vars
  BY UnrefusedResend
<1> QED BY <1>1, <1>2, UnrefusedInit, PTL DEF Spec, UncertainIsNotResent
=============================================================================

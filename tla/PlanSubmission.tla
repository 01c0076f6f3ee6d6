---------------------------- MODULE PlanSubmission ----------------------------
(***************************************************************************)
(* One purchase plan from draft to the orders it becomes in Alegra:        *)
(* update_line and approve_plan while people edit it, submit_to_alegra     *)
(* once it is approved, and the resolution of orders whose POST had an     *)
(* uncertain result.                                                       *)
(*                                                                         *)
(* The lines of a supplier are one line, whose cost includes freight.      *)
(* Every supplier exists.  A submission is a coroutine of the API's event  *)
(* loop: other coroutines run only while it awaits Alegra.  Requests       *)
(* travel in wire; Alegra may take one long after its sender gave up.      *)
(***************************************************************************)
EXTENDS Integers, FiniteSetsExt

CONSTANTS Suppliers,   \* supplier keys of the plan's lines
          Cost,        \* Cost[s]: goods and freight of supplier s
          Budget,      \* weekly_budget
          Calls,       \* invocations of submit_to_alegra
          NoCall,      \* nobody
          SameLoop,    \* all calls run in the event loop of one API process
          MaxAborts,   \* bound: calls that die half way
          MaxRefusals  \* bound: requests Alegra refuses for their credentials

ASSUME PlanAssumption ==
    /\ Suppliers \subseteq Nat /\ IsFiniteSet(Suppliers)
    /\ Cost \in [Suppliers -> Nat]
    /\ Budget \in Nat /\ MaxAborts \in Nat /\ MaxRefusals \in Nat
    /\ NoCall \notin Calls
    /\ SameLoop \in BOOLEAN

VARIABLES plan,      \* purchase_plan_runs.status
          current,   \* the plan is today's and its snapshot is still the latest
          line,      \* decision of each supplier's line
          order,     \* the purchase_plan_orders row of each supplier
          lock,      \* who holds the plan's row lock
          call,      \* the local state of each call
          wire,      \* POST requests Alegra has not answered
          remote,    \* how many orders of this plan Alegra holds, by supplier
          aborts, refusals   \* uses of the bounds

vars == <<plan, current, line, order, lock, call, wire, remote, aborts, refusals>>

-----------------------------------------------------------------------------
\* alegra_order_id: orders of a supplier are numbered as Alegra takes them.
NoId == 0
Refusal == -1      \* 401 or 403 instead of an order

NoRow == [status |-> "none", id |-> NoId]
Idle == [pc |-> "idle", todo |-> {}, linked |-> {}, seen |-> NoRow, reply |-> NoId]

Init ==
    /\ plan = "draft"
    /\ current = TRUE
    /\ line = [s \in Suppliers |-> "recommended"]
    /\ order = [s \in Suppliers |-> NoRow]
    /\ lock = NoCall
    /\ call = [c \in Calls |-> Idle]
    /\ wire = {}
    /\ remote = [s \in Suppliers |-> 0]
    /\ aborts = 0 /\ refusals = 0

-----------------------------------------------------------------------------
(* Editing and approval.  Both lock the plan's row for one transaction.    *)

Approved == {s \in Suppliers : line[s] = "approved"}
Total(S) == MapThenSumSet(LAMBDA s : Cost[s], S)

\* Mutant of Editable: lines can be edited in any state of the plan.
EditableAlways == TRUE

Editable == plan = "draft"

UpdateLine(s, decision) ==
    /\ Editable
    /\ line' = [line EXCEPT ![s] = decision]
    /\ UNCHANGED <<plan, current, order, lock, call, wire, remote, aborts, refusals>>

\* Recommended lines nobody touched are approved with the plan.
Approve ==
    /\ plan = "draft"
    /\ current
    /\ LET chosen == {s \in Suppliers : line[s] # "dropped"} IN
          /\ chosen # {}
          /\ Total(chosen) <= Budget
          /\ line' = [s \in Suppliers |-> IF s \in chosen THEN "approved" ELSE line[s]]
    /\ plan' = "approved"
    /\ UNCHANGED <<current, order, lock, call, wire, remote, aborts, refusals>>

\* A new snapshot, or the next business date.
DataMoves ==
    /\ current
    /\ current' = FALSE
    /\ UNCHANGED <<plan, line, order, lock, call, wire, remote, aborts, refusals>>

-----------------------------------------------------------------------------
(* submit_to_alegra.                                                       *)

\* c can run: no other coroutine of its loop is between two awaits.
Scheduled(c) == SameLoop => \A d \in Calls \ {c} : call[d].pc \in {"idle", "posting"}

Enter(c) ==
    /\ call[c].pc = "idle"
    /\ Scheduled(c)
    /\ call' = [call EXCEPT ![c].pc = "locking"]
    /\ UNCHANGED <<plan, current, line, order, lock, wire, remote, aborts, refusals>>

\* SELECT ... FOR UPDATE of the plan, then its approved lines.
Lock(c) ==
    /\ call[c].pc = "locking"
    /\ lock = NoCall
    /\ IF plan \in {"approved", "submitted"} /\ Approved # {}
       THEN /\ call' = [call EXCEPT ![c].pc = "looking", ![c].todo = Approved]
            /\ lock' = c
       ELSE call' = [call EXCEPT ![c] = Idle] /\ UNCHANGED lock
    /\ UNCHANGED <<plan, current, line, order, wire, remote, aborts, refusals>>

\* sorted(groups.items())
Turn(c, s) == s \in call[c].todo /\ \A t \in call[c].todo : s <= t

\* Mutant of Resendable: whatever has no Alegra id is sent again.
ResendableAny(row) == row.id = NoId

\* The order row is read without a lock.
Resendable(row) == row.id = NoId /\ row.status \in {"none", "rejected"}

PassOver(c, s) ==
    [call[c] EXCEPT !.todo = @ \ {s},
                    !.linked = IF order[s].id # NoId THEN @ \cup {s} ELSE @]

Prepared(c, s) == [call[c] EXCEPT !.pc = "claiming", !.seen = order[s]]

Look(c) ==
    /\ call[c].pc = "looking"
    /\ \E s \in Suppliers :
          /\ Turn(c, s)
          /\ call' = [call EXCEPT ![c] =
                IF Resendable(order[s]) THEN Prepared(c, s) ELSE PassOver(c, s)]
    /\ UNCHANGED <<plan, current, line, order, lock, wire, remote, aborts, refusals>>

\* Every commit and rollback gives the plan's lock back.
Released(c) == IF lock = c THEN NoCall ELSE lock

\* Mutant of Claimable: no unique constraint on plan and supplier.
ClaimableAlways(c, s) == TRUE

\* uq_purchase_plan_order_supplier lets one INSERT through; the UPDATE of a
\* rejected row does not look at what the row is by now.
Claimable(c, s) == call[c].seen.status = "none" => order[s] = NoRow

\* Mutant of AfterClaim: the plan stays locked during the POST.
AfterClaimHeld(c) == lock

AfterClaim(c) == Released(c)

Posting(c) == [call[c] EXCEPT !.pc = "posting", !.reply = NoId]

\* INSERT or UPDATE, commit, and the POST goes out.
Claim(c) ==
    /\ call[c].pc = "claiming"
    /\ \E s \in Suppliers :
          /\ Turn(c, s)
          /\ Claimable(c, s)
          /\ order' = [order EXCEPT ![s].status = "submitting"]
          /\ call' = [call EXCEPT ![c] = Posting(c)]
          /\ wire' = wire \cup {<<c, s>>}
    /\ lock' = AfterClaim(c)
    /\ UNCHANGED <<plan, current, line, remote, aborts, refusals>>

\* The INSERT meets a row another call inserted and raises IntegrityError.
InsertConflict(c) ==
    /\ call[c].pc = "claiming"
    /\ \E s \in Suppliers : Turn(c, s) /\ ~ Claimable(c, s)
    /\ call' = [call EXCEPT ![c] = Idle]
    /\ lock' = Released(c)
    /\ UNCHANGED <<plan, current, line, order, wire, remote, aborts, refusals>>

Resumed(c, s, row) ==
    [call[c] EXCEPT !.pc = "looking", !.todo = @ \ {s}, !.reply = NoId,
                    !.linked = IF row.id # NoId THEN @ \cup {s} ELSE @]

\* The coroutine resumes: it stores the outcome, commits and moves on.
Settle(c, s, row) ==
    /\ call[c].pc = "posting"
    /\ Turn(c, s)
    /\ Scheduled(c)
    /\ order' = [order EXCEPT ![s] = row]
    /\ call' = [call EXCEPT ![c] = Resumed(c, s, row)]
    /\ UNCHANGED <<plan, current, line, lock, wire, remote, aborts, refusals>>

OrderCreated(c, s) ==
    /\ call[c].reply > NoId
    /\ Settle(c, s, [status |-> "submitted", id |-> call[c].reply])

CredentialsRejected(c, s) ==
    /\ call[c].reply = Refusal
    /\ Settle(c, s, [order[s] EXCEPT !.status = "rejected"])

\* Mutant of Uncertain: a status no other part of the code knows.
UncertainRenamed(row) == [row EXCEPT !.status = "uncertain"]

\* Mutant of Uncertain: any error counts as a refusal.
UncertainRejected(row) == [row EXCEPT !.status = "rejected"]

\* Mutant of Uncertain: the failure forgets the link to Alegra.
UncertainCleared(row) == [status |-> "unknown", id |-> NoId]

\* A timeout, an error response or one without an id: Alegra may hold the order.
Uncertain(row) == [row EXCEPT !.status = "unknown"]

OutcomeUncertain(c, s) ==
    /\ call[c].reply # Refusal
    /\ Settle(c, s, Uncertain(order[s]))

Finish(c) ==
    /\ call[c].pc = "looking"
    /\ call[c].todo = {}
    /\ LET complete == Approved \subseteq call[c].linked IN
          /\ complete => lock \in {c, NoCall}
          /\ plan' = IF complete THEN "submitted" ELSE plan
    /\ call' = [call EXCEPT ![c] = Idle]
    /\ lock' = Released(c)
    /\ UNCHANGED <<current, line, order, wire, remote, aborts, refusals>>

\* The process dies or a statement raises; PostgreSQL rolls back.
Abort(c) ==
    /\ call[c].pc # "idle"
    /\ aborts < MaxAborts
    /\ aborts' = aborts + 1
    /\ call' = [call EXCEPT ![c] = Idle]
    /\ lock' = Released(c)
    /\ UNCHANGED <<plan, current, line, order, wire, remote, refusals>>

-----------------------------------------------------------------------------
(* Alegra, and the operator who looks an order up there.                   *)

\* The answer reaches the call only if it is still waiting for it.
Answered(c, s, answer) ==
    IF call[c].pc = "posting" /\ Turn(c, s) THEN [call EXCEPT ![c].reply = answer] ELSE call

TakeOrder(c, s) ==
    /\ <<c, s>> \in wire
    /\ wire' = wire \ {<<c, s>>}
    /\ remote' = [remote EXCEPT ![s] = @ + 1]
    /\ call' = Answered(c, s, remote[s] + 1)
    /\ UNCHANGED <<plan, current, line, order, lock, aborts, refusals>>

\* 401 or 403: nothing is created.
RefuseOrder(c, s) ==
    /\ <<c, s>> \in wire
    /\ refusals < MaxRefusals
    /\ refusals' = refusals + 1
    /\ wire' = wire \ {<<c, s>>}
    /\ call' = Answered(c, s, Refusal)
    /\ UNCHANGED <<plan, current, line, order, lock, remote, aborts>>

\* Lost on the way, or an error that leaves the caller in doubt.
LoseOrder(c, s) ==
    /\ <<c, s>> \in wire
    /\ wire' = wire \ {<<c, s>>}
    /\ UNCHANGED <<plan, current, line, order, lock, call, remote, aborts, refusals>>

\* ReceivingService.resolve, after the GET that found order id in Alegra.
Resolve(s, id) ==
    /\ SameLoop => \A c \in Calls : call[c].pc \in {"idle", "posting"}
    /\ order[s].id = NoId
    /\ order[s].status \in {"submitting", "unknown"}
    /\ id \in 1..remote[s]
    /\ order' = [order EXCEPT ![s] = [status |-> "submitted", id |-> id]]
    /\ LET settled == \A t \in Suppliers \ {s} : order[t].status \in {"none", "submitted"} IN
          /\ settled => lock = NoCall
          /\ plan' = IF settled THEN "submitted" ELSE plan
    /\ UNCHANGED <<current, line, lock, call, wire, remote, aborts, refusals>>

-----------------------------------------------------------------------------
Next ==
    \/ \E s \in Suppliers, d \in {"approved", "dropped"} : UpdateLine(s, d)
    \/ Approve
    \/ DataMoves
    \/ \E c \in Calls : \/ Enter(c) \/ Lock(c) \/ Look(c) \/ Claim(c)
                        \/ InsertConflict(c) \/ Finish(c) \/ Abort(c)
    \/ \E c \in Calls, s \in Suppliers :
          \/ OrderCreated(c, s) \/ CredentialsRejected(c, s) \/ OutcomeUncertain(c, s)
          \/ TakeOrder(c, s) \/ RefuseOrder(c, s) \/ LoseOrder(c, s)
    \/ \E s \in Suppliers : \E id \in 1..remote[s] : Resolve(s, id)

Spec == Init /\ [][Next]_vars
-----------------------------------------------------------------------------
(* Properties.                                                             *)

Row == [status : {"none", "submitting", "unknown", "rejected", "submitted"}, id : Nat]
Call == [pc : {"idle", "locking", "looking", "claiming", "posting"},
         todo : SUBSET Suppliers, linked : SUBSET Suppliers,
         seen : Row, reply : Nat \cup {Refusal}]

\* Every variable keeps its type.
TypeOK ==
    /\ plan \in {"draft", "approved", "submitted"}
    /\ current \in BOOLEAN
    /\ line \in [Suppliers -> {"recommended", "approved", "dropped"}]
    /\ order \in [Suppliers -> Row]
    /\ lock \in Calls \cup {NoCall}
    /\ call \in [Calls -> Call]
    /\ wire \in SUBSET (Calls \X Suppliers)
    /\ remote \in [Suppliers -> Nat]
    /\ aborts \in 0..MaxAborts /\ refusals \in 0..MaxRefusals

\* However often the plan is submitted, and wherever a submission dies, Alegra
\* never holds two orders of the plan for one supplier (README.md:172).
NoDuplicateOrder == \A s \in Suppliers : remote[s] <= 1

\* An order Alegra holds is linked to the plan or shown among the uncertain
\* submissions: none is left for the next submission to repeat
\* (the commit of 'submitting' before the POST).
NoOrphanOrder ==
    \A s \in Suppliers : remote[s] > 0 =>
        order[s].id \in 1..remote[s] \/ order[s].status \in {"submitting", "unknown"}

\* What the plan makes the shop spend is what was approved within the budget:
\* lines cannot change once orders go out, and no order goes out twice.
WithinBudget ==
    MapThenSumSet(LAMBDA s : remote[s] * Cost[s], Suppliers) <= Budget

\* A POST of uncertain result is not sent again, whoever submits the plan next
\* (phase-9-operational-workspace.md:75).
UncertainIsNotResent ==
    [][\A s \in Suppliers : order[s].status \in {"submitting", "unknown"} =>
          \A c \in Calls : <<c, s>> \in wire' => <<c, s>> \in wire]_vars

\* Once a row is linked to an Alegra order it stays linked to that one, also
\* when a late answer arrives after the operator resolved it.
LinkIsStable ==
    [][\A s \in Suppliers : order[s].id # NoId => order'[s].id = order[s].id]_vars

\* The event loop never waits for the plan's row lock while the coroutine that
\* holds it waits for the loop.
LoopNeverBlocks == SameLoop => \A c \in Calls : call[c].pc = "locking" => lock = NoCall
=============================================================================

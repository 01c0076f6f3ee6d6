---------------------------- MODULE MCOperations ----------------------------
(***************************************************************************)
(* Small instances of the operational desks and of what feeds them: the    *)
(* receipts of an order, repair jobs, cash, the forecast, the purchase     *)
(* plan and its submission, the client's requests and a first load.  None  *)
(* changes while another one works, so a behaviour is about one desk,      *)
(* chosen at the start.                                                    *)
(***************************************************************************)
EXTENDS Receiving, Repairs, Treasury, Forecasting, Replenishment, AlegraRequests, Backfill,
        MCPlanSubmission

CONSTANTS i1, i2, k1, k2, j1, j2, q1, sn, in1, out1, b1, v1, g1, g2, g3, s1, s2, t1, t2

TwoItems == {i1, i2}
TwoClients == {k1, k2}
TwoJobs == {j1, j2}
OnePart == {q1}
OneSerial == {sn}
OneIncome == {in1}
OneOutgoing == {out1}
OneBill == {b1}
OneInvoice == {v1}
AmountOf == (in1 :> 3) @@ (out1 :> 4) @@ (b1 :> 6) @@ (v1 :> 5)
ThreeGoods == {g1, g2, g3}
TwoSellers == {s1, s2}

\* Nothing missing, a pack and a minimum that bind, negative stock, no cost, no supplier,
\* and goods of the same supplier that make its freight free together.
ProductInputs ==
    LET some == [stock |-> 0, transit |-> 0, target |-> 3, minimum |-> 0, pack |-> 2, cost |-> 1,
                 seller |-> s1, active |-> TRUE, sold |-> TRUE, demand |-> TRUE]
    IN  {some,
         [some EXCEPT !.stock = 2, !.minimum = 3, !.cost = 2],
         [some EXCEPT !.stock = 1, !.transit = 3, !.seller = s2],
         [some EXCEPT !.stock = -1, !.transit = 1],
         [some EXCEPT !.cost = 0],
         [some EXCEPT !.seller = NoSeller, !.demand = FALSE],
         [some EXCEPT !.seller = s2, !.target = 2, !.pack = 1],
         [some EXCEPT !.active = FALSE],
         [some EXCEPT !.stock = 1, !.sold = FALSE, !.demand = FALSE]}
FreightPolicies ==
    {[shipping |-> 2, threshold |-> 6], [shipping |-> 1, threshold |-> NoThreshold]}
SmallBudgets == {6, 9}

TwoTasks == {t1, t2}
OnePost == {t2}

VARIABLE desk

Desks == {"receiving", "repairs", "debts", "collections", "forecast", "plan", "submission",
          "requests", "backfill"}

mcVars == <<receivingVars, repairVars, treasuryVars, historyVars, planVars, requestVars,
            submissionVars, backfillVars, desk>>

\* A desk that a behaviour is not about starts in one way.
MCInit ==
    /\ desk \in Desks
    /\ ReceivingInit
    /\ \A l \in OrderLines : orderLine.rows[l] = [item |-> i1, quantity |-> MaxQuantity + 1 - l]
    /\ RepairInit /\ TreasuryInit /\ RequestInit
    /\ BackfillInit
    /\ ApiInit
    /\ desk = "submission" \/ processes = 1
    /\ created = MaxDocument - 1
    /\ desk = "plan" \/ input = [p \in Goods |-> CHOOSE i \in Inputs : ~ i.active]
    /\ PlanInit
    /\ desk # "plan" =>
          budget = Min(Budgets) /\ blocked /\ \A s \in Sellers : policy[s].threshold = NoThreshold
    /\ \/ desk = "forecast"
       \/ introduced = 1 /\ sold = [d \in Window |-> 0] /\ seen = [d \in Window |-> "in"]
    /\ HistoryInit

\* The half of the cash that a behaviour leaves alone: invoices, or orders and expenses.
Counter ==
    \/ desk = "debts" /\ \A v \in Invoices : paper'[v] = paper[v]
    \/ /\ desk = "collections" /\ purchase' = purchase
       /\ \A e \in Outgoings : entry'[e] = entry[e] /\ moved'[e] = Never

MCNext ==
    /\ desk' = desk
    /\ \/ /\ desk = "receiving" /\ ReceivingNext
          /\ UNCHANGED <<repairVars, treasuryVars, historyVars, planVars, requestVars,
                         backfillVars, submissionVars>>
       \/ /\ desk = "repairs" /\ RepairNext
          /\ UNCHANGED <<receivingVars, treasuryVars, historyVars, planVars, requestVars,
                         backfillVars, submissionVars>>
       \/ /\ desk \in {"debts", "collections"} /\ TreasuryNext /\ Counter
          /\ UNCHANGED <<receivingVars, repairVars, historyVars, planVars, requestVars,
                         backfillVars, submissionVars>>
       \/ /\ desk = "plan" /\ PlanNext
          /\ UNCHANGED <<receivingVars, repairVars, treasuryVars, historyVars, requestVars,
                         backfillVars, submissionVars>>
       \/ /\ desk = "submission" /\ ApiNext
          /\ UNCHANGED <<receivingVars, repairVars, treasuryVars, historyVars, planVars,
                         requestVars, backfillVars>>
       \/ /\ desk = "requests" /\ RequestNext
          /\ UNCHANGED <<receivingVars, repairVars, treasuryVars, historyVars, planVars,
                         backfillVars, submissionVars>>
       \/ /\ desk = "backfill" /\ BackfillNext
          /\ UNCHANGED <<receivingVars, repairVars, treasuryVars, historyVars, planVars,
                         requestVars, submissionVars>>

RequestsAlone ==
    /\ desk = "requests" /\ desk' = desk
    /\ UNCHANGED <<receivingVars, repairVars, treasuryVars, historyVars, planVars, backfillVars,
                   submissionVars>>
BackfillAlone ==
    /\ desk = "backfill" /\ desk' = desk
    /\ UNCHANGED <<receivingVars, repairVars, treasuryVars, historyVars, planVars, requestVars,
                   submissionVars>>

MCFairness ==
    /\ WF_mcVars(Tick /\ RequestsAlone)
    /\ \A t \in Tasks : WF_mcVars(Progress(t) /\ RequestsAlone)
    /\ WF_mcVars(SyncStep /\ BackfillAlone)

MCSpec == MCInit /\ [][MCNext]_mcVars /\ MCFairness
=============================================================================

----------------------------- MODULE MCAnalytics ----------------------------
(***************************************************************************)
(* Small instances of the analytics side: the mart, the cost ledger and    *)
(* the opening import.  A behaviour is about one of four subjects, chosen  *)
(* at the start: they share no row but the dimension keys, which documents *)
(* and captures both have, and the advisory lock, which Mart models.       *)
(***************************************************************************)
EXTENDS Mart, CostLedger, OpeningImport, TLC

CONSTANTS p1, w1, s1, b1, c1, c2, r1, r2, i1, i2, f1, f2

OneProduct == {p1}
OneWarehouse == {w1}
OneSale == {s1}
OneBill == {b1}
TwoCaptures == {c1, c2}
TwoRuns == {r1, r2}
TwoImporters == {i1, i2}
TwoReports == {f1, f2}

\* A receipt on the day of the opening balance, and one of the next day; 1.4, 2.3 and 0.7 cents.
ThreeLayers == {[opened |-> 1, source |-> "opening", id |-> 3, quantity |-> 1, cost |-> 1400],
                [opened |-> 1, source |-> "purchase", id |-> 1, quantity |-> 1, cost |-> 2300],
                [opened |-> 2, source |-> "purchase", id |-> 2, quantity |-> 2, cost |-> 700]}
Quantities == {3, -1}

\* Two products share a reference, and rows find them by it, by their name, or not at all.
Catalogue == {[key |-> 1, reference |-> "ref", name |-> "lamp"],
              [key |-> 2, reference |-> "ref", name |-> "desk"]}
RowsOf == (f1 :> {[number |-> 2, reference |-> "ref", name |-> "lamp", quantity |-> 2, cost |-> 5],
                  [number |-> 3, reference |-> Blank, name |-> "lamp", quantity |-> -1, cost |-> 5],
                  [number |-> 4, reference |-> "old", name |-> "desk", quantity |-> 1, cost |-> Blank]})
       @@ (f2 :> {[number |-> 2, reference |-> "ref", name |-> "desk", quantity |-> 1, cost |-> 4],
                  [number |-> 3, reference |-> Blank, name |-> "lamp", quantity |-> 0, cost |-> 5]})

VARIABLE subject

mcVars == <<martVars, costVars, openingVars, subject>>

MCInit ==
    /\ MartInit /\ CostInit /\ OpeningInit
    /\ subject \in {"documents", "captures", "costs", "opening"}
    /\ subject \notin {"documents", "captures"} => known = {}
    /\ subject # "costs" => sources = {}
    /\ subject # "opening" => catalogue = {}

\* The half of the mart that a behaviour leaves alone.
Frame ==
    \/ subject = "documents" /\ capture' = capture
    \/ subject = "captures" /\ line' = line

MCNext ==
    /\ subject' = subject
    /\ \/ Frame /\ MartNext /\ UNCHANGED <<costVars, openingVars>>
       \/ subject = "costs" /\ CostNext /\ UNCHANGED <<martVars, openingVars>>
       \/ subject = "opening" /\ OpeningNext /\ UNCHANGED <<martVars, costVars>>

Alone == UNCHANGED <<costVars, openingVars, subject>>

MCFairness ==
    /\ WF_mcVars(Frame /\ RefreshStep /\ Alone)
    /\ WF_mcVars(Frame /\ BeginRefresh /\ Alone)
    /\ SF_mcVars(Frame /\ AllocateCosts /\ Alone)

MCSpec == MCInit /\ [][MCNext]_mcVars /\ MCFairness

\* EventuallyMirrored, asked of the behaviours that are about the mart.
MirroredInTheEnd == subject \in {"documents", "captures"} => EventuallyMirrored
=============================================================================

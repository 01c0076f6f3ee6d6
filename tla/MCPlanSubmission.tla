-------------------------- MODULE MCPlanSubmission --------------------------
(***************************************************************************)
(* Small instances of the submission of a plan.  In ApiSpec the API is one *)
(* process or, as while a deployment replaces one by the other, two; then  *)
(* the credentials are valid.                                              *)
(***************************************************************************)
EXTENDS PlanSubmission, TLC

CONSTANTS c1, c2

TwoCalls == {c1, c2}
TwoSuppliers == {1, 2}
ThreeSuppliers == {1, 2, 3}

\* With a budget of 4, suppliers 1 and 2 fit, and so do 1 and 3, but not all.
UnevenCost == (1 :> 1) @@ (2 :> 1) @@ (3 :> 3)
EvenCost == (1 :> 1) @@ (2 :> 1)

CallSymmetry == Permutations(TwoCalls)

VARIABLE processes

submissionVars == <<vars, processes>>

Two == INSTANCE PlanSubmission WITH SameLoop <- FALSE, MaxRefusals <- 0

ApiInit == Init /\ processes \in {1, 2}

ApiNext ==
    /\ processes' = processes
    /\ \/ processes = 1 /\ Next
       \/ processes = 2 /\ Two!Next

ApiSpec == ApiInit /\ [][ApiNext]_submissionVars

\* As many processes as the configuration says, whose credentials may be refused.
RetrySpec == ApiInit /\ [][Next /\ processes' = processes]_submissionVars

\* LoopNeverBlocks, asked of the behaviours with one process.
OneLoopNeverBlocks == processes = 1 => LoopNeverBlocks
=============================================================================

---------------------------- MODULE MCSyncLease -----------------------------
(***************************************************************************)
(* Small instances of the reconcilers.                                     *)
(***************************************************************************)
EXTENDS SyncLease, TLC

CONSTANTS p1, p2, r1, r2

TwoProcesses == {p1, p2}
TwoRuns == {r1, r2}
FourTokens == 1..4

\* Processes and row ids are names and nothing else.
Symmetry == Permutations(Processes) \cup Permutations(Runs)
=============================================================================

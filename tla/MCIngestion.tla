----------------------------- MODULE MCIngestion -----------------------------
(***************************************************************************)
(* Small instances of the ingestion of one document.                       *)
(***************************************************************************)
EXTENDS Ingestion, TLC

CONSTANTS w1, w2, status, total

TwoWorkers == {w1, w2}
OneWorker == {w1}
TwoColumns == {status, total}
OneColumn == {total}

Symmetry == Permutations(Workers) \cup Permutations(Columns)
=============================================================================

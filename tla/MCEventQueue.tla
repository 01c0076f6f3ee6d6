---------------------------- MODULE MCEventQueue ----------------------------
(***************************************************************************)
(* Small instances of the webhook queue.                                   *)
(***************************************************************************)
EXTENDS EventQueue, TLC

CONSTANTS e1, e2, w1, w2

TwoEvents == {e1, e2}
TwoWorkers == {w1, w2}
OneEvent == {e1}
Second == {e2}

\* The workers are interchangeable; the events are not, one is malformed.
WorkerSymmetry == Permutations(Workers)
=============================================================================

------------------------------ MODULE MCWorker ------------------------------
(* Small instances of Worker for TLC.                                      *)
EXTENDS Worker, TLC

CONSTANTS j1, j2, w1, w2

OneJob == {j1}
TwoWorkers == {w1, w2}
OneKeyed == {w1}
OneReaper == {w2}
WorkerSymmetry == Permutations(TwoWorkers)
=============================================================================

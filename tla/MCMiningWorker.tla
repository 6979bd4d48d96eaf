--------------------------- MODULE MCMiningWorker ---------------------------
(* Small instances of MiningWorker. *)
EXTENDS MiningWorker

CONSTANTS m1, m2, c1, c2, w1
=============================================================================

---------------------------- MODULE MCPowImport ----------------------------
(* A tree of three branches: totals tie between a2 and b2 and between a1 and c1. *)
EXTENDS PowImport, TLC

CONSTANTS g, a1, a2, b1, b2, b3, c1, queue, miner

Tree == a1 :> g @@ a2 :> a1 @@ b1 :> g @@ b2 :> b1 @@ b3 :> b2 @@ c1 :> g

Work == a1 :> 2 @@ a2 :> 2 @@ b1 :> 3 @@ b2 :> 1 @@ b3 :> 1 @@ c1 :> 2
=============================================================================

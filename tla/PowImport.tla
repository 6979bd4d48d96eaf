----------------------------- MODULE PowImport -----------------------------
(***************************************************************************)
(* Block import and fork choice of PoW under GRANDPA finality              *)
(* (consensus/sc-consensus-pow/src/lib.rs).                                *)
(*                                                                         *)
(* import_block reads the best chain, then awaits, then reads the          *)
(* finalized block, and hands its verdict to the client; other importers   *)
(* and finality move in between.  node/src/service.rs builds an importer   *)
(* behind the import queue and, where mining is configured, a second one.  *)
(*                                                                         *)
(* The client and GRANDPA are external: a commit is atomic, an unknown     *)
(* parent is refused, a new best may not revert the finalized block, a new *)
(* block must be above it, and finalizing a block off the best chain makes *)
(* it the best block.                                                      *)
(***************************************************************************)
EXTENDS Naturals, FiniteSets

CONSTANTS
  Importers,    \* the PowBlockImport instances of a mining node
  Miner,        \* the one behind the miner
  Blocks,       \* blocks that will ever arrive, the genesis block excluded
  Genesis,
  Parent,       \* parent of each block
  Difficulty    \* what the algorithm asks of each block

AllBlocks == Blocks \cup {Genesis}

ASSUME TreeAssumption ==
  /\ Miner \in Importers
  /\ Genesis \notin Blocks
  /\ Parent \in [Blocks -> AllBlocks]
  /\ Difficulty \in [Blocks -> Nat \ {0}]

VARIABLES
  imported,   \* blocks the client knows
  total,      \* PowAux::total_difficulty of each, 0 where no entry exists
  best,
  finalized,
  imp,        \* each importer's call of import_block
  moved,      \* history: finality has moved the best block
  running     \* the importers this node runs

vars == <<imported, total, best, finalized, imp, moved, running>>

\* A call: where it is, its block, the total of the best block it read, its own
\* total, the finalized block it read, and the verdict in fork_choice.
Call == [pc : {"idle", "check", "decide", "commit"}, block : AllBlocks, bestTotal : Nat,
         total : Nat, finalized : AllBlocks, isBest : BOOLEAN]

TypeOK ==
  /\ imported \subseteq AllBlocks
  /\ total \in [AllBlocks -> Nat]
  /\ {best, finalized} \subseteq imported
  /\ imp \in [Importers -> Call]
  /\ moved \in BOOLEAN
  /\ running \subseteq Importers

Idle == [pc |-> "idle", block |-> Genesis, bestTotal |-> 0, total |-> 0,
         finalized |-> Genesis, isBest |-> FALSE]

Init ==
  /\ imported = {Genesis}
  /\ total = [b \in AllBlocks |-> 0]
  /\ best = Genesis
  /\ finalized = Genesis
  /\ imp = [i \in Importers |-> Idle]
  /\ moved = FALSE
  /\ running \in {Importers, Importers \ {Miner}}
-----------------------------------------------------------------------------
(***************************************************************************)
(* Headers, by walking parent links.                                       *)
(***************************************************************************)
Height ==
  LET h[b \in AllBlocks] == IF b = Genesis THEN 0 ELSE 1 + h[Parent[b]]
  IN  h

\* The ancestor of b at height n, for n <= Height[b].
AncestorAt ==
  LET at[b \in AllBlocks] ==
        [n \in 0..Height[b] |-> IF n = Height[b] THEN b ELSE at[Parent[b]][n]]
  IN  at


\* Case A walks back from the finalized block, case B from the candidate.
finality_conflicts(b, f) ==
  IF Height[b] <= Height[f] THEN AncestorAt[f][Height[b]] # b
  ELSE AncestorAt[Parent[b]][Height[f]] # f
-----------------------------------------------------------------------------
(***************************************************************************)
(* import_block.                                                           *)
(***************************************************************************)
InFlight == {imp[i].block : i \in {j \in Importers : imp[j].pc # "idle"}}

Started(b) == [pc |-> "check", block |-> b, bestTotal |-> total[best],
               total |-> total[Parent[b]], finalized |-> Genesis, isBest |-> FALSE]

\* Reads the best header, its total difficulty and the parent's.
ReadBest(i, b) ==
  /\ imp[i].pc = "idle"
  /\ b \notin imported \cup InFlight
  /\ Parent[b] \in imported
  /\ imp' = [imp EXCEPT ![i] = Started(b)]
  /\ UNCHANGED <<imported, total, best, finalized, moved, running>>

\* check_inherents, fetch_seal, the difficulty and the seal: any may fail.
Fail(i) ==
  /\ imp[i].pc = "check"
  /\ imp' = [imp EXCEPT ![i] = Idle]
  /\ UNCHANGED <<imported, total, best, finalized, moved, running>>

\* The difficulty of this block joins the parent's total.
AddedAlone(i) == Difficulty[imp[i].block]

Added(i) == imp[i].total + Difficulty[imp[i].block]

CheckPasses(i) ==
  /\ imp[i].pc = "check"
  /\ imp' = [imp EXCEPT ![i] = [@ EXCEPT !.pc = "decide", !.total = Added(i)]]
  /\ UNCHANGED <<imported, total, best, finalized, moved, running>>

IsHeavierByBlock(i) == Difficulty[imp[i].block] > imp[i].bestTotal

\* PoScanAlgorithm keeps break_tie's default, which is false.
IsHeavier(i) == imp[i].total > imp[i].bestTotal

\* The flag of ForkChoiceStrategy::Custom.
Verdict(i) == ~finality_conflicts(imp[i].block, finalized) /\ IsHeavier(i)

Decide(i) ==
  /\ imp[i].pc = "decide"
  /\ imp' = [imp EXCEPT ![i] = [@ EXCEPT !.pc = "commit", !.finalized = finalized,
                                         !.isBest = Verdict(i)]]
  /\ UNCHANGED <<imported, total, best, finalized, moved, running>>

\* External: what the client accepts.
Accepts(c) ==
  /\ Height[c.block] > Height[finalized]
  /\ c.isBest => AncestorAt[c.block][Height[finalized]] = finalized

Commit(i) ==
  /\ imp[i].pc = "commit"
  /\ imp' = [imp EXCEPT ![i] = Idle]
  /\ IF Accepts(imp[i])
     THEN /\ imported' = imported \cup {imp[i].block}
          /\ total' = [total EXCEPT ![imp[i].block] = imp[i].total]
          /\ best' = IF imp[i].isBest THEN imp[i].block ELSE best
     ELSE UNCHANGED <<imported, total, best>>
  /\ UNCHANGED <<finalized, moved, running>>

\* External: GRANDPA finalizes a descendant of the finalized block.
Finalize(f) ==
  /\ f \in imported \ {finalized}
  /\ Height[f] > Height[finalized] /\ AncestorAt[f][Height[finalized]] = finalized
  /\ finalized' = f
  /\ IF Height[best] >= Height[f] /\ AncestorAt[best][Height[f]] = f
     THEN UNCHANGED <<best, moved>>
     ELSE best' = f /\ moved' = TRUE
  /\ UNCHANGED <<imported, total, imp, running>>

Next ==
  \/ \E i \in running :
       \/ \E b \in Blocks : ReadBest(i, b)
       \/ Fail(i) \/ CheckPasses(i) \/ Decide(i) \/ Commit(i)
  \/ \E f \in Blocks : Finalize(f)

Spec == Init /\ [][Next]_vars
-----------------------------------------------------------------------------
(***************************************************************************)
(* Safety.                                                                 *)
(***************************************************************************)
IsAncestor(a, b) == Height[a] <= Height[b] /\ AncestorAt[b][Height[a]] = a


\* Whatever the importers interleave, the stored total of every block is the sum
\* of the difficulties from the genesis block on.
TotalsAddUp ==
  \A b \in imported \ {Genesis} : total[b] = total[Parent[b]] + Difficulty[b]

\* With one importer (a node that does not mine), the best block is a heaviest
\* one among those finality has not ruled out, until finality itself moves it.
HeaviestIsBest ==
  Cardinality(running) = 1 /\ ~moved =>
    \A b \in imported : ~finality_conflicts(b, finalized) => total[b] <= total[best]

(***************************************************************************)
(* What comments say and the code does not do.                             *)
(***************************************************************************)
=============================================================================

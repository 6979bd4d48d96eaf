-------------------------- MODULE PowImportProofs --------------------------
(***************************************************************************)
(* The stored total difficulties add up, for every block tree and every    *)
(* number of importers.  The argument needs neither the finality walk nor  *)
(* the client's acceptance rule, which stay unexpanded.                    *)
(***************************************************************************)
EXTENDS PowImport, TLAPS

\* What is known of a call under way: its block is not stored yet, its parent is,
\* and the call's total is the parent's, with the block's own work once checked.
CallKnows(i) ==
  LET c == imp[i]
  IN  c.pc # "idle" =>
        /\ c.block \in Blocks
        /\ c.block \notin imported
        /\ Parent[c.block] \in imported
        /\ c.total = IF c.pc = "check" THEN total[Parent[c.block]]
                     ELSE total[Parent[c.block]] + Difficulty[c.block]

\* Two calls never carry one block.
CallsApart ==
  \A i, j \in Importers :
    i # j /\ imp[i].pc # "idle" /\ imp[j].pc # "idle" => imp[i].block # imp[j].block

ParentsStored == \A b \in imported \ {Genesis} : Parent[b] \in imported

\* The inductive invariant.
TotalsInv ==
  /\ TypeOK
  /\ Genesis \in imported
  /\ ParentsStored
  /\ TotalsAddUp
  /\ CallsApart
  /\ \A i \in Importers : CallKnows(i)

LEMMA InitTotals == Init => TotalsInv
<1> SUFFICES ASSUME Init PROVE TotalsInv
  OBVIOUS
<1>1. Idle \in Call /\ Idle.pc = "idle"
  BY DEF Idle, Call, AllBlocks
<1>2. TypeOK
  BY <1>1 DEF Init, TypeOK, AllBlocks
<1>3. CallsApart /\ \A i \in Importers : CallKnows(i)
  BY <1>1 DEF Init, CallsApart, CallKnows
<1> QED
  BY <1>2, <1>3 DEF Init, TotalsInv, ParentsStored, TotalsAddUp

LEMMA ReadBestTotals ==
  ASSUME TotalsInv, NEW i \in Importers, NEW b \in Blocks, ReadBest(i, b)
  PROVE  TotalsInv'
<1> DEFINE c == Started(b)
<1>1. imp' = [imp EXCEPT ![i] = c]
  BY DEF ReadBest
<1>2. /\ Parent[b] \in AllBlocks /\ b \in AllBlocks /\ best \in AllBlocks
      /\ c \in Call /\ c.pc = "check" /\ c.block = b /\ c.total = total[Parent[b]]
  BY TreeAssumption DEF TotalsInv, TypeOK, AllBlocks, Call, Started
<1> HIDE DEF c
<1>3. TypeOK'
  BY <1>1, <1>2 DEF TotalsInv, TypeOK, ReadBest
<1>4. \A j \in Importers : imp'[j] = IF j = i THEN c ELSE imp[j]
  BY <1>1 DEF TotalsInv, TypeOK
<1>5. \A j \in Importers \ {i} : imp[j].pc # "idle" => imp[j].block # b
  BY DEF ReadBest, InFlight
<1>6. CallsApart'
  BY <1>2, <1>4, <1>5 DEF TotalsInv, CallsApart
<1>7. \A j \in Importers : CallKnows(j)'
  BY <1>2, <1>4 DEF TotalsInv, CallKnows, ReadBest
<1>8. (Genesis \in imported /\ ParentsStored /\ TotalsAddUp)'
  BY DEF TotalsInv, ParentsStored, TotalsAddUp, ReadBest
<1> QED
  BY <1>3, <1>6, <1>7, <1>8 DEF TotalsInv

LEMMA FailTotals ==
  ASSUME TotalsInv, NEW i \in Importers, Fail(i)
  PROVE  TotalsInv'
<1>1. Idle \in Call /\ Idle.pc = "idle"
  BY DEF Idle, Call, AllBlocks
<1>2. \A j \in Importers : imp'[j] = IF j = i THEN Idle ELSE imp[j]
  BY DEF TotalsInv, TypeOK, Fail
<1>3. TypeOK'
  BY <1>1 DEF TotalsInv, TypeOK, Fail
<1>4. CallsApart'
  BY <1>1, <1>2 DEF TotalsInv, CallsApart
<1>5. \A j \in Importers : CallKnows(j)'
  BY <1>1, <1>2 DEF TotalsInv, CallKnows, Fail
<1> QED
  BY <1>3, <1>4, <1>5 DEF TotalsInv, ParentsStored, TotalsAddUp, Fail

LEMMA CheckPassesTotals ==
  ASSUME TotalsInv, NEW i \in Importers, CheckPasses(i)
  PROVE  TotalsInv'
<1> DEFINE old == imp[i]
           sum == old.total + Difficulty[old.block]
           c == [old EXCEPT !.pc = "decide", !.total = sum]
<1>1. old \in Call /\ old.pc = "check" /\ old.block \in Blocks
  BY DEF TotalsInv, TypeOK, CheckPasses, CallKnows
<1>2. sum \in Nat
  BY <1>1, TreeAssumption DEF Call
<1>3. imp' = [imp EXCEPT ![i] = c]
  BY DEF CheckPasses, Added
<1>4. sum = old.total + Difficulty[old.block]
  OBVIOUS
<1> HIDE DEF sum
<1>5. c \in Call /\ c.pc = "decide" /\ c.block = old.block /\ c.total = sum
  BY <1>1, <1>2 DEF Call
<1>6. \A j \in Importers : imp'[j] = IF j = i THEN c ELSE imp[j]
  BY <1>3 DEF TotalsInv, TypeOK
<1> HIDE DEF c
<1>7. TypeOK'
  BY <1>3, <1>5 DEF TotalsInv, TypeOK, CheckPasses
<1>8. CallsApart'
  BY <1>1, <1>5, <1>6 DEF TotalsInv, CallsApart
<1>9. ASSUME NEW j \in Importers PROVE CallKnows(j)'
  <2>1. UNCHANGED <<imported, total>> /\ CallKnows(i) /\ CallKnows(j)
    BY DEF TotalsInv, CheckPasses
  <2>2. CASE j = i
    BY <1>1, <1>4, <1>5, <1>6, <2>1, <2>2 DEF CallKnows
  <2>3. CASE j # i
    BY <1>6, <2>1, <2>3 DEF CallKnows
  <2> QED
    BY <2>2, <2>3
<1> QED
  BY <1>7, <1>8, <1>9 DEF TotalsInv, ParentsStored, TotalsAddUp, CheckPasses

LEMMA DecideTotals ==
  ASSUME TotalsInv, NEW i \in Importers, Decide(i)
  PROVE  TotalsInv'
<1> DEFINE old == imp[i]
           c == [old EXCEPT !.pc = "commit", !.finalized = finalized, !.isBest = Verdict(i)]
<1>1. old \in Call /\ old.pc = "decide" /\ old.block \in Blocks /\ finalized \in AllBlocks
  BY DEF TotalsInv, TypeOK, Decide, CallKnows
<1>2. Verdict(i) \in BOOLEAN
  BY DEF Verdict
<1>3. /\ c \in Call /\ c.pc = "commit" /\ c.block = old.block /\ c.total = old.total
  BY <1>1, <1>2 DEF Call
<1>4. imp' = [imp EXCEPT ![i] = c]
  BY DEF Decide
<1>5. \A j \in Importers : imp'[j] = IF j = i THEN c ELSE imp[j]
  BY <1>4 DEF TotalsInv, TypeOK
<1> HIDE DEF c
<1>6. TypeOK'
  BY <1>3, <1>4 DEF TotalsInv, TypeOK, Decide
<1>7. CallsApart'
  BY <1>1, <1>3, <1>5 DEF TotalsInv, CallsApart
<1>8. \A j \in Importers : CallKnows(j)'
  BY <1>1, <1>3, <1>5 DEF TotalsInv, CallKnows, Decide
<1> QED
  BY <1>6, <1>7, <1>8 DEF TotalsInv, ParentsStored, TotalsAddUp, Decide

LEMMA CommitTotals ==
  ASSUME TotalsInv, NEW i \in Importers, Commit(i)
  PROVE  TotalsInv'
<1> DEFINE c == imp[i]
<1>1. /\ c \in Call /\ c.pc = "commit" /\ c.block \in Blocks /\ c.block \notin imported
      /\ Parent[c.block] \in imported
      /\ c.total = total[Parent[c.block]] + Difficulty[c.block]
  BY DEF TotalsInv, TypeOK, Commit, CallKnows
<1>2. Idle \in Call /\ Idle.pc = "idle"
  BY DEF Idle, Call, AllBlocks
<1>3. \A j \in Importers : imp'[j] = IF j = i THEN Idle ELSE imp[j]
  BY DEF TotalsInv, TypeOK, Commit
<1>4. CallsApart'
  BY <1>2, <1>3 DEF TotalsInv, CallsApart
<1>5. imp' \in [Importers -> Call]
  BY <1>2 DEF TotalsInv, TypeOK, Commit
<1>6. CASE Accepts(c)
  <2>1. /\ imported' = imported \cup {c.block}
        /\ total' = [total EXCEPT ![c.block] = c.total]
        /\ best' = IF c.isBest THEN c.block ELSE best
        /\ UNCHANGED <<finalized, moved, running>>
    BY <1>6 DEF Commit
  <2>2. c.block \in AllBlocks /\ c.total \in Nat
    BY <1>1 DEF Call
  <2>3. TypeOK'
    BY <1>5, <2>1, <2>2 DEF TotalsInv, TypeOK
  <2>4. /\ total'[c.block] = c.total
        /\ \A b \in imported : total'[b] = total[b]
    BY <1>1, <2>1, <2>2 DEF TotalsInv, TypeOK
  <2>5. (Genesis \in imported /\ ParentsStored)'
    BY <1>1, <2>1 DEF TotalsInv, ParentsStored
  <2>6. TotalsAddUp'
    BY <1>1, <2>1, <2>4 DEF TotalsInv, TotalsAddUp, ParentsStored
  <2>7. \A j \in Importers \ {i} : imp[j].pc # "idle" => imp[j].block # c.block
    BY <1>1 DEF TotalsInv, CallsApart
  <2>8. \A j \in Importers : CallKnows(j)'
    BY <1>2, <1>3, <2>1, <2>4, <2>7 DEF TotalsInv, CallKnows
  <2> QED
    BY <1>4, <2>3, <2>5, <2>6, <2>8 DEF TotalsInv
<1>7. CASE ~Accepts(c)
  <2>1. UNCHANGED <<imported, total, best, finalized, moved, running>>
    BY <1>7 DEF Commit
  <2>2. \A j \in Importers : CallKnows(j)'
    BY <1>2, <1>3, <2>1 DEF TotalsInv, CallKnows
  <2> QED
    BY <1>4, <1>5, <2>1, <2>2 DEF TotalsInv, TypeOK, ParentsStored, TotalsAddUp
<1> QED
  BY <1>6, <1>7

LEMMA FinalizeTotals ==
  ASSUME TotalsInv, NEW f \in Blocks, Finalize(f)
  PROVE  TotalsInv'
<1>1. TypeOK'
  BY DEF TotalsInv, TypeOK, Finalize
<1>2. UNCHANGED <<imported, total, imp>>
  BY DEF Finalize
<1> QED
  BY <1>1, <1>2 DEF TotalsInv, ParentsStored, TotalsAddUp, CallsApart, CallKnows

LEMMA StepTotals == TotalsInv /\ [Next]_vars => TotalsInv'
<1> SUFFICES ASSUME TotalsInv, [Next]_vars PROVE TotalsInv'
  OBVIOUS
<1>1. CASE \E i \in Importers, b \in Blocks : ReadBest(i, b)
  BY <1>1, ReadBestTotals
<1>2. CASE \E i \in Importers : Fail(i)
  BY <1>2, FailTotals
<1>3. CASE \E i \in Importers : CheckPasses(i)
  BY <1>3, CheckPassesTotals
<1>4. CASE \E i \in Importers : Decide(i)
  BY <1>4, DecideTotals
<1>5. CASE \E i \in Importers : Commit(i)
  BY <1>5, CommitTotals
<1>6. CASE \E f \in Blocks : Finalize(f)
  BY <1>6, FinalizeTotals
<1>7. CASE UNCHANGED vars
  BY <1>7 DEF vars, TotalsInv, TypeOK, ParentsStored, TotalsAddUp, CallsApart, CallKnows
<1>8. running \subseteq Importers
  BY DEF TotalsInv, TypeOK
<1> QED
  BY <1>1, <1>2, <1>3, <1>4, <1>5, <1>6, <1>7, <1>8 DEF Next

\* Whatever the number of importers and the tree of blocks, however their calls of
\* import_block interleave with each other, with failures and with finality, the
\* total difficulty stored with a block is its parent's plus its own.
THEOREM TotalsAlwaysAddUp == Spec => []TotalsAddUp
<1>1. TotalsInv => TotalsAddUp
  BY DEF TotalsInv
<1> QED
  BY <1>1, InitTotals, StepTotals, PTL DEF Spec
=============================================================================

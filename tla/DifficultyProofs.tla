-------------------------- MODULE DifficultyProofs --------------------------
(***************************************************************************)
(* The difficulty recorded for a block is the one its seal was verified    *)
(* against, for every width, schedule, halflife and threshold.  Only two   *)
(* facts about the anchor are needed: it is not above the chain, and its   *)
(* target is not zero.                                                     *)
(***************************************************************************)
EXTENDS Difficulty, TLAPS

\* The inductive invariant; the two early returns of on_finalize it rules out are
\* those on a block at or below the anchor and on a zero target.
AnchorInv ==
  /\ height \in Nat
  /\ DOMAIN anchor = {"target", "ts", "height"}
  /\ anchor = [target |-> anchor.target, ts |-> anchor.ts, height |-> anchor.height]
  /\ anchor.height \in Nat /\ anchor.height <= height
  /\ anchor.target # 0

\* compute_next_target clamps its result away from zero.
LEMMA NextTargetNotZero ==
  ASSUME NEW a, NEW t, NEW h
  PROVE  compute_next_target(a, t, h) # 0
BY DEF compute_next_target, Clamp

LEMMA QuotientNotZero ==
  ASSUME NEW m \in Nat, NEW d \in 1..m
  PROVE  m \div d # 0
<1>1. m = d * (m \div d) + (m % d) /\ m % d < d
  OBVIOUS
<1>2. CASE m \div d = 0
  BY <1>1, <1>2
<1> QED
  BY <1>2

LEMMA InitAnchor == Init => AnchorInv
<1> SUFFICES ASSUME Init PROVE AnchorInv
  OBVIOUS
<1>1. MaxTarget \div InitialDifficulty # 0
  BY DifficultyAssumption, QuotientNotZero
<1> QED
  BY <1>1 DEF Init, AnchorInv

LEMMA BlockAnchor ==
  ASSUME AnchorInv, NEW ts, Block(ts)
  PROVE  AnchorInv'
<1> DEFINE secs == ts \div TicksPerSecond
<1>1. height' = height + 1 /\ on_finalize(secs)
  BY DEF Block
<1> HIDE DEF secs
<1>2. CASE AutoInitialize(secs)
  <2>1. anchor' = [target |-> anchor.target, ts |-> secs, height |-> height + 1]
    BY <1>2 DEF AutoInitialize, AnchorInv
  <2> QED
    BY <1>1, <2>1 DEF AnchorInv
<1>3. CASE Adjust(secs)
  <2> DEFINE next == TargetAt(anchor, secs, height + 1)
  <2>1. next # 0
    BY NextTargetNotZero DEF TargetAt
  <2>2. anchor' = anchor \/ anchor' = [target |-> next, ts |-> secs, height |-> height + 1]
    BY <1>3 DEF Adjust, Reanchored
  <2> HIDE DEF next
  <2> QED
    BY <1>1, <2>1, <2>2 DEF AnchorInv
<1> QED
  BY <1>1, <1>2, <1>3 DEF on_finalize

LEMMA StepAnchor == AnchorInv /\ [Next]_vars => AnchorInv'
<1> SUFFICES ASSUME AnchorInv, [Next]_vars PROVE AnchorInv'
  OBVIOUS
<1>1. CASE \E p \in Pauses : Tick(p)
  BY <1>1 DEF Tick, AnchorInv
<1>2. CASE \E ts \in Start..MaxClock + MaxDrift : Block(ts)
  BY <1>2, BlockAnchor
<1>3. CASE UNCHANGED vars
  BY <1>3 DEF vars, AnchorInv
<1> QED
  BY <1>1, <1>2, <1>3 DEF Next

LEMMA BlockRecords ==
  ASSUME AnchorInv, NEW ts, Block(ts), anchor.ts # 0
  PROVE  current' = verified'
<1> DEFINE secs == ts \div TicksPerSecond
<1>1. verified' = realtime_difficulty(secs) /\ on_finalize(secs)
  BY DEF Block
<1> HIDE DEF secs
<1>2. Adjust(secs)
  BY <1>1 DEF on_finalize, AutoInitialize
<1>3. ~(height + 1 <= anchor.height \/ anchor.target = 0)
  BY DEF AnchorInv
<1>4. current' = MaxTarget \div TargetAt(anchor, secs, height + 1)
  BY <1>2, <1>3 DEF Adjust
<1> QED
  BY <1>1, <1>4 DEF realtime_difficulty

\* Once the chain is anchored, what on_finalize writes to CurrentDifficulty for a
\* block is what realtime_difficulty asked of its seal on the parent state,
\* whatever the timestamps, and whether or not the block moves the anchor.
THEOREM RecordedAlwaysVerified == Spec => RecordedIsVerified
<1>1. AnchorInv /\ [Next]_vars =>
        [anchor.ts # 0 /\ height' # height => current' = verified']_vars
  <2> SUFFICES ASSUME AnchorInv, Next, anchor.ts # 0, height' # height
               PROVE  current' = verified'
    BY DEF vars
  <2>1. PICK ts \in Start..MaxClock + MaxDrift : Block(ts)
    BY DEF Next, Tick
  <2> QED
    BY <2>1, BlockRecords
<1> QED
  BY <1>1, InitAnchor, StepAnchor, PTL DEF Spec, RecordedIsVerified
=============================================================================

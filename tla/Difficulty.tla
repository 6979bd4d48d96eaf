----------------------------- MODULE Difficulty -----------------------------
(***************************************************************************)
(* ASERT difficulty (pallets/difficulty/src): the target computation, the  *)
(* on_finalize hook with its anchor, and the difficulty a block's seal is  *)
(* verified against, with the timestamp rules of the runtime that feed it. *)
(*                                                                         *)
(* Times are in ticks, the code's milliseconds, with TicksPerSecond of     *)
(* them in a second.  The 16 fractional bits of the exponent and the cubic *)
(* are the code's own; only the word U256 is narrowed, to Width bits.      *)
(***************************************************************************)
EXTENDS Integers

CONSTANTS
  Width,              \* bits of a target, 256 in the code
  InitialDifficulty,
  TargetBlockTime,    \* seconds
  Halflife,           \* seconds
  BreakThresholdSecs,
  TicksPerSecond,
  MinimumPeriod,      \* ticks, of pallet-timestamp
  MaxDrift,           \* MAX_TIMESTAMP_DRIFT_MS
  Start,              \* the node's clock at genesis
  Pauses,             \* by how much the clock may move at once
  MaxClock,           \* bound on the clock
  MaxHeight           \* bound on the chain

MaxTarget == 2 ^ Width - 1

ASSUME DifficultyAssumption ==
  /\ MaxTarget \in Nat \ {0}
  /\ InitialDifficulty \in 1..MaxTarget
  /\ TargetBlockTime \in Nat /\ Halflife \in Nat \ {0} /\ BreakThresholdSecs \in Nat
  /\ TicksPerSecond \in Nat \ {0}
  /\ {MinimumPeriod, MaxDrift, Start, MaxClock, MaxHeight} \subseteq Nat
  /\ Pauses \subseteq Nat \ {0}
-----------------------------------------------------------------------------
(***************************************************************************)
(* asert.rs.                                                               *)
(***************************************************************************)
FRAC_ONE == 65536

\* Rust's division rounds toward zero.
DivTrunc(n, d) == IF n >= 0 THEN n \div d ELSE -((-n) \div d)

\* a * x in fixed point.
Times(a, x) == (a * x) \div FRAC_ONE

\* 45426 * x / FRAC_ONE, both sides halved to stay within 32 bits.
LinearTerm(x) == (22713 * x) \div 32768

\* 2^(x / FRAC_ONE) for 0 <= x < FRAC_ONE, in units of 1/FRAC_ONE.
Cubic(x) ==
  FRAC_ONE + LinearTerm(x) + Times(Times(15736, x), x) + Times(Times(Times(3638, x), x), x)

exponent_fp(time_delta, height_delta) ==
  DivTrunc((time_delta - TargetBlockTime * height_delta) * FRAC_ONE, Halflife)

AtMost(n) == IF n > MaxTarget THEN MaxTarget ELSE n

ShiftedUp(target, int_part) ==
  IF int_part >= Width THEN MaxTarget
  ELSE IF int_part >= 0 THEN AtMost(target * 2 ^ int_part)
  ELSE IF int_part <= -Width THEN 1
  ELSE AtMost(target * 2 ^ (-int_part))

\* The anchor target times a power of two, shifted only as far as it fits.
Shifted(target, int_part) ==
  IF int_part >= Width THEN MaxTarget
  ELSE IF int_part >= 0 THEN AtMost(target * 2 ^ int_part)
  ELSE IF int_part <= -Width THEN 1
  ELSE target \div 2 ^ (-int_part)

Clamp(target) == IF target = 0 THEN 1 ELSE target

compute_next_target(anchor_target, time_delta, height_delta) ==
  LET fp       == exponent_fp(time_delta, height_delta)
      int_part == fp \div FRAC_ONE
      x        == fp - int_part * FRAC_ONE
  IN  Clamp(Shifted(AtMost(Times(anchor_target, Cubic(x))), int_part))
-----------------------------------------------------------------------------
VARIABLES
  clock,      \* the node's clock
  height,
  now,        \* timestamp of the last block, pallet_timestamp::Now
  current,    \* CurrentDifficulty
  anchor,     \* AnchorTarget, AnchorTimestamp, AnchorHeight
  last,       \* LastBlockTimestamp
  verified,   \* what the seal of the last block had to meet
  origin      \* history: the anchor before the last re-anchoring

vars == <<clock, height, now, current, anchor, last, verified, origin>>

Init ==
  /\ clock = Start
  /\ height = 0 /\ now = 0 /\ last = 0
  /\ current = InitialDifficulty
  /\ anchor = [target |-> MaxTarget \div InitialDifficulty, ts |-> 0, height |-> 0]
  /\ verified = InitialDifficulty
  /\ origin = anchor

TargetAt(a, secs, h) == compute_next_target(a.target, secs - a.ts, h - a.height)

realtime_of_parent(secs) == MaxTarget \div TargetAt(anchor, secs, height)

\* height_delta counts from the block being mined, not from its parent.
realtime_difficulty(secs) == MaxTarget \div TargetAt(anchor, secs, height + 1)

\* With, external, what pallet-timestamp asks.
check_timestamp_drift(ts) ==
  /\ ts <= clock + MaxDrift
  /\ ts >= now
  /\ now = 0 \/ ts >= now + MinimumPeriod

\* The block becomes the anchor and keeps the initial difficulty.
AutoInitialize(secs) ==
  /\ anchor.ts = 0 /\ secs > 0
  /\ anchor' = [anchor EXCEPT !.ts = secs, !.height = height + 1]
  /\ UNCHANGED <<current, origin>>

\* A gap from the parent block above the threshold moves the anchor.
IsBreak(secs) == secs > last /\ secs - last > BreakThresholdSecs


Reanchored(secs, next_target) == [target |-> next_target, ts |-> secs, height |-> height + 1]

Adjust(secs) ==
  LET next_target == TargetAt(anchor, secs, height + 1)
  IN  /\ ~(anchor.ts = 0 /\ secs > 0)
      /\ IF height + 1 <= anchor.height \/ anchor.target = 0
         THEN UNCHANGED <<current, anchor, origin>>
         ELSE /\ current' = MaxTarget \div next_target
              /\ IF IsBreak(secs)
                 THEN anchor' = Reanchored(secs, next_target) /\ origin' = anchor
                 ELSE UNCHANGED <<anchor, origin>>

on_finalize(secs) ==
  /\ AutoInitialize(secs) \/ Adjust(secs)
  /\ last' = secs

\* Import verifies the seal against the parent state, then the block runs.
Block(ts) ==
  LET secs == ts \div TicksPerSecond
  IN  /\ height < MaxHeight
      /\ check_timestamp_drift(ts)
      /\ verified' = realtime_difficulty(secs)
      /\ height' = height + 1
      /\ now' = ts
      /\ on_finalize(secs)
      /\ UNCHANGED clock

\* External: time passes.
Tick(p) ==
  /\ clock + p <= MaxClock
  /\ clock' = clock + p
  /\ UNCHANGED <<height, now, current, anchor, last, verified, origin>>

Next ==
  \/ \E p \in Pauses : Tick(p)
  \/ \E ts \in Start..MaxClock + MaxDrift : Block(ts)

Spec == Init /\ [][Next]_vars
-----------------------------------------------------------------------------
(***************************************************************************)
(* Safety.                                                                 *)
(***************************************************************************)
\* Seconds a next block may carry, up to the end of the run.
Ahead == last..(MaxClock + MaxDrift) \div TicksPerSecond

\* Once anchored, the difficulty on_finalize records for a block is the one
\* realtime_difficulty demanded of its seal on the parent state: two computations,
\* one before and one after the block, that must not drift apart, re-anchoring
\* included.
RecordedIsVerified ==
  [][anchor.ts # 0 /\ height' # height => current' = verified']_vars

\* Waiting never makes the next block harder: realtime_difficulty does not rise
\* with the timestamp, across the seams of the piecewise cubic too.
NeverHarderLater ==
  \A s \in Ahead : s + 1 \in Ahead => realtime_difficulty(s + 1) <= realtime_difficulty(s)


(***************************************************************************)
(* What comments say and the code does not do.                             *)
(***************************************************************************)
=============================================================================

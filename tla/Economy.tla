------------------------------ MODULE Economy ------------------------------
(***************************************************************************)
(* Rewards and fees (pallets/reward/src/lib.rs, the fee part of            *)
(* runtime/src/configs/mod.rs, and AnchorFeeMultiplier of                  *)
(* runtime/src/migrations.rs).                                             *)
(*                                                                         *)
(* A block may have a PoW author.  Transactions fill it along three        *)
(* dimensions and pay; on_finalize mints the reward and moves the fee      *)
(* multiplier.  An upgrade puts the multiplier on a new scale, and the     *)
(* next upgrade finds the same migration in the runtime.                   *)
(*                                                                         *)
(* Numbers are the code's with smaller constants: a multiplier counts      *)
(* Div-ths, a share of a block Bill-ths, both rounded as FixedU128 and     *)
(* Perbill round.  pallet-balances, pallet-transaction-payment and the     *)
(* weight of a transaction are external.                                   *)
(***************************************************************************)
EXTENDS Naturals, FiniteSetsExt

CONSTANTS
  Accounts, Treasury,
  Miners,               \* accounts blocks may name as their author
  Nobody,               \* the author of a block without a PoW digest
  Opening,              \* what each account holds at first
  InitialReward, HalvingInterval,
  Div, Bill,            \* one, as a multiplier and as a share
  FeeAnchor,
  WeightFee, LengthFee, \* prices at the anchor
  AdjustmentVariable,
  MaxRefTime, MaxProof, MaxLength,  \* what the normal class of a block holds
  Loads,                \* transactions: ref_time, proof, length
  Tips,
  Stored,               \* multipliers the upgrade may find
  MaxBlocks, MaxTxs, MaxUpgrades    \* bounds

Load == [ref_time : Nat, proof : Nat, length : Nat]

ASSUME EconomyAssumption ==
  /\ Treasury \in Accounts /\ Miners \subseteq Accounts /\ Nobody \notin Accounts
  /\ Opening \in [Accounts -> Nat]
  /\ {InitialReward, WeightFee, LengthFee, AdjustmentVariable, MaxBlocks, MaxTxs, MaxUpgrades}
       \subseteq Nat
  /\ {HalvingInterval, Div, MaxRefTime, MaxProof, MaxLength} \subseteq Nat \ {0}
  /\ Bill \in Nat \ {0} /\ Bill % 4 = 0
  /\ FeeAnchor \in Nat \ {0} /\ FeeAnchor % 10 = 0
  /\ WeightFee % FeeAnchor = 0 /\ LengthFee % FeeAnchor = 0
  /\ Loads \subseteq Load /\ Tips \subseteq Nat /\ Stored \subseteq Nat

VARIABLES
  n,            \* the block being built
  author,       \* its PoW author
  used,         \* what its transactions use so far
  multiplier,   \* NextFeeMultiplier
  free,         \* balances
  issuance,
  emitted,      \* history: rewards minted
  upgrades,     \* runtime upgrades so far
  last,         \* the block of the latest one
  txs           \* history: transactions so far

vars == <<n, author, used, multiplier, free, issuance, emitted, upgrades, last, txs>>

NoLoad == [ref_time |-> 0, proof |-> 0, length |-> 0]

Total == MapThenSumSet(LAMBDA a : free[a], Accounts)

\* The first block after a chain whose multiplier was stored against an anchor of one.
Init ==
  /\ n = 1 /\ author \in Miners \cup {Nobody} /\ used = NoLoad
  /\ multiplier \in Stored
  /\ free = Opening /\ issuance = Total
  /\ emitted = 0 /\ upgrades = 0 /\ last = 0 /\ txs = 0
-----------------------------------------------------------------------------
Least(a, b) == IF a <= b THEN a ELSE b
Most(a, b) == IF a <= b THEN b ELSE a
Gap(a, b) == Most(a, b) - Least(a, b)
Less(a, b) == IF a >= b THEN a - b ELSE 0

\* External: fixed-point products round down, a Percent of an amount to the nearest.
Mul(a, b) == (a * b) \div Div
Fraction(a, b) == (a * Div) \div b
Nearest(a, b) == (2 * a + b - 1) \div (2 * b)
-----------------------------------------------------------------------------
(***************************************************************************)
(* pallet-reward.                                                          *)
(***************************************************************************)
\* The reward halves a block late in every period.
block_reward_late(b) ==
  LET halved[h \in Nat] == IF h = 0 THEN InitialReward ELSE halved[h - 1] \div 2
  IN  halved[b \div (HalvingInterval + 1)]

\* Halved once per elapsed interval, truncating each time.
block_reward(b) ==
  LET halved[h \in Nat] == IF h = 0 THEN InitialReward ELSE halved[h - 1] \div 2
  IN  halved[b \div HalvingInterval]

\* What on_finalize mints.
Reward == IF author = Nobody THEN 0 ELSE block_reward(n)
-----------------------------------------------------------------------------
(***************************************************************************)
(* The fee multiplier.                                                     *)
(***************************************************************************)
MinimumMultiplier == (FeeAnchor \div 10) * Div
MaximumMultiplier == FeeAnchor * 10 * Div

\* Usage and ceiling of the dimension with the largest share.
limiting_dimension ==
  LET ref_time == Least(used.ref_time, MaxRefTime)
      proof == Least(used.proof, MaxProof)
      length == Least(used.length, MaxLength)
      share(u, limit) == (u * Bill) \div limit
      r == share(ref_time, MaxRefTime)
      p == share(proof, MaxProof)
      l == share(length, MaxLength)
  IN  IF l >= r /\ l >= p THEN [used |-> length, limit |-> MaxLength]
      ELSE IF p > r THEN [used |-> proof, limit |-> MaxProof]
      ELSE [used |-> ref_time, limit |-> MaxRefTime]

clamp(m) == Most(MinimumMultiplier, Least(m, MaximumMultiplier))

\* The target is a quarter of the ceiling.
convert(stored) ==
  LET previous == Most(stored, MinimumMultiplier)
      d == limiting_dimension
      target == Nearest(d.limit, 4)
      diff == Fraction(Gap(d.used, target), d.limit)
      half_variable_squared == Mul(AdjustmentVariable, AdjustmentVariable) \div 2
      first_term == Mul(AdjustmentVariable, diff)
      second_term == Mul(Mul(half_variable_squared, diff), diff)
  IN  IF d.used >= target
      THEN clamp(previous + Mul(first_term + second_term, previous))
      ELSE clamp(Less(previous, Mul(Less(first_term, second_term), previous)))

anchored_always(stored) == stored * FeeAnchor

\* Only a multiplier below the new floor is on the old scale.
anchored(stored) == IF stored < MinimumMultiplier THEN stored * FeeAnchor ELSE stored
-----------------------------------------------------------------------------
(***************************************************************************)
(* Fees.                                                                   *)
(***************************************************************************)
\* Both prices carry the multiplier.
Fee(load) ==
  (multiplier * ((WeightFee \div FeeAnchor) * load.ref_time)) \div Div
    + (multiplier * ((LengthFee \div FeeAnchor) * load.length)) \div Div

Credited(balances, to, amount) == [balances EXCEPT ![to] = @ + amount]

\* The author gets all of it back.
DealWithFees_whole(balances, fee, tip) ==
  Credited(balances, IF author = Nobody THEN Treasury ELSE author, fee + tip)

\* A fifth of the fee and the whole tip go to the author, the rest to the treasury,
\* and everything to the treasury in a block without an author.
DealWithFees(balances, fee, tip) ==
  LET keep == IF author = Nobody THEN 0 ELSE Nearest(fee * 20, 100)
      dest == IF author = Nobody THEN Treasury ELSE author
  IN  Credited(Credited(Credited(balances, dest, keep), Treasury, fee - keep), dest, tip)
-----------------------------------------------------------------------------
(***************************************************************************)
(* Actions.                                                                *)
(***************************************************************************)
\* A transaction that fits and that its payer can afford.
Transaction(payer, load, tip) ==
  LET fee == Fee(load)
      paid == [free EXCEPT ![payer] = @ - (fee + tip)]
  IN  /\ txs < MaxTxs
      /\ used.ref_time + load.ref_time <= MaxRefTime
      /\ used.proof + load.proof <= MaxProof
      /\ used.length + load.length <= MaxLength
      /\ fee + tip <= free[payer]
      /\ free' = DealWithFees(paid, fee, tip)
      /\ used' = [ref_time |-> used.ref_time + load.ref_time, proof |-> used.proof + load.proof,
                  length |-> used.length + load.length]
      /\ txs' = txs + 1
      /\ UNCHANGED <<n, author, multiplier, issuance, emitted, upgrades, last>>

\* The end of a block and the author of the next one.
Finalize(next) ==
  /\ n < MaxBlocks
  /\ n' = n + 1 /\ author' = next /\ used' = NoLoad
  /\ multiplier' = convert(multiplier)
  /\ free' = IF author = Nobody THEN free ELSE Credited(free, author, Reward)
  /\ issuance' = issuance + Reward
  /\ emitted' = emitted + Reward
  /\ UNCHANGED <<upgrades, last, txs>>

\* A runtime upgrade, before the transactions of its block.
Upgrade ==
  /\ upgrades < MaxUpgrades /\ last < n /\ used = NoLoad
  /\ multiplier' = anchored(multiplier)
  /\ upgrades' = upgrades + 1 /\ last' = n
  /\ UNCHANGED <<n, author, used, free, issuance, emitted, txs>>

\* The new prices come with the first upgrade.
Next ==
  \/ Upgrade
  \/ upgrades > 0 /\ \E payer \in Accounts \ {Treasury}, load \in Loads, tip \in Tips :
       Transaction(payer, load, tip)
  \/ upgrades > 0 /\ \E next \in Miners \cup {Nobody} : Finalize(next)

Spec == Init /\ [][Next]_vars
-----------------------------------------------------------------------------
(***************************************************************************)
(* Safety.                                                                 *)
(***************************************************************************)
\* Mined issuance stays within the cap that the comments on HalvingInterval and on
\* the pallet state, though nothing on chain checks it.
EmissionCapped == emitted <= 2 * InitialReward * HalvingInterval

\* A miner that pays itself to fill its block gets back less than it puts in, as the
\* comment on MINER_FEE_SHARE wants, however the share is rounded and with any tip.
SelfPayLoses ==
  [][\A a \in Accounts :
       /\ author = a /\ txs' # txs /\ used'.length # used.length /\ multiplier >= Div
       /\ \A b \in Accounts \ {a, Treasury} : free'[b] = free[b]
       => free'[a] < free[a]]_vars

\* The price of a unit of weight and of a byte, on the scale in force.
Price(m, scaled) == m * (IF scaled THEN WeightFee \div FeeAnchor ELSE WeightFee)

\* An upgrade leaves prices where they are: the first because it scales the
\* multiplier, every later one because the floor keeps it off the old scale.
UpgradeKeepsPrices ==
  [][upgrades' # upgrades => Price(multiplier', TRUE) = Price(multiplier, upgrades > 0)]_vars
=============================================================================

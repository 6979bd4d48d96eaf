----------------------------- MODULE EvmClaims -----------------------------
(***************************************************************************)
(* Claims of Frontier accounts and the nonces of Ethereum signers          *)
(* (pallets/evm-claims/src/lib.rs, runtime/src/check_nonce.rs).            *)
(*                                                                         *)
(* Each H160 has an old account, where Frontier kept it, and a new one,    *)
(* where pallet-revive looks for it.  Anyone may claim, pay or vest to     *)
(* them in any order with the signer's own transactions and drains.  An    *)
(* account nothing provides for is reaped and its nonce starts again.      *)
(*                                                                         *)
(* Every vesting schedule locks one unit.  A finished schedule keeps its   *)
(* lock until it is removed.  pallet-balances, pallet-vesting and          *)
(* frame-system are external.                                              *)
(***************************************************************************)
EXTENDS Naturals, FiniteSetsExt

CONSTANTS
  Addresses,
  Frontier,             \* nonce each address reached under Frontier
  Holdings,             \* what old accounts may hold at first
  ExistentialDeposit,
  ClaimFee,
  MaxVestingSchedules,
  Payments,             \* amounts others may pay
  MaxPaid,              \* bound on what others pay in all
  MaxNonce              \* bound on transactions

\* Balance, nonce, schedules and finished ones, and whether it is encumbered.
Old == [bal : Nat, nonce : Nat, vest : Nat, done : Nat, held : BOOLEAN]

\* Balance, nonce, schedules, and the provider a first signature gives.
New == [bal : Nat, nonce : Nat, vest : Nat, keep : BOOLEAN]

ASSUME ClaimsAssumption ==
  /\ Frontier \in [Addresses -> Nat]
  /\ Holdings \subseteq {o \in Old : o.done <= o.vest}
  /\ ExistentialDeposit \in Nat \ {0}
  /\ ClaimFee \in Nat
  /\ {MaxVestingSchedules, MaxPaid, MaxNonce} \subseteq Nat
  /\ Payments \subseteq Nat \ {0}

VARIABLES
  old,      \* the account Frontier kept each address at
  new,      \* the account pallet-revive resolves it to
  pot,      \* fees OnClaimFee took
  minted,   \* inactive deposits minted
  paid,     \* history: what others paid in
  spent,    \* history: what signers took out
  used      \* history: nonces accepted, per address

vars == <<old, new, pot, minted, paid, spent, used>>

Init ==
  /\ old \in [Addresses -> Holdings]
  /\ \A a \in Addresses : old[a].nonce = Frontier[a]
  /\ new = [a \in Addresses |-> [bal |-> 0, nonce |-> 0, vest |-> 0, keep |-> FALSE]]
  /\ pot = 0 /\ minted = 0
  /\ paid = MapThenSumSet(LAMBDA a : old[a].bal, Addresses)
  /\ spent = 0
  /\ used = [a \in Addresses |-> {}]
-----------------------------------------------------------------------------
Least(m, n) == IF m <= n THEN m ELSE n
Most(m, n) == IF m <= n THEN n ELSE m

\* External: frame-system keeps an account only while something provides for it.
Reaped(n) == IF n.bal = 0 /\ ~n.keep THEN [n EXCEPT !.nonce = 0] ELSE n

nonce_due(o, n) == o.nonce > n.nonce

movable(o) == ~o.held

spendable(o) == IF o.bal >= o.vest THEN o.bal - o.vest ELSE 0

fee_due(o) == IF movable(o) THEN Least(ClaimFee, spendable(o)) ELSE 0

HasWork(o, n) == nonce_due(o, n) \/ (movable(o) /\ spendable(o) > ClaimFee)

authorize_claim(a) ==
  HasWork(old[a], new[a]) /\ old[a].vest + new[a].vest <= MaxVestingSchedules

\* A nonce that leaves zero brings the provider a first signature gives.
carry_nonce(o, n) ==
  IF nonce_due(o, n) THEN [n EXCEPT !.nonce = o.nonce, !.keep = @ \/ n.nonce = 0] ELSE n

Moves(o) == movable(o) /\ o.bal # 0

\* An empty account first gets a deposit.
deposit(o, n) == IF Moves(o) /\ n.bal = 0 THEN ExistentialDeposit ELSE 0

\* move_legacy: the new account once the nonce, the balance and the live schedules
\* have moved.
Moved(o, n) ==
  IF Moves(o)
  THEN [carry_nonce(o, n) EXCEPT !.bal = @ + deposit(o, n) + o.bal,
                                 !.vest = @ + (o.vest - o.done)]
  ELSE carry_nonce(o, n)

\* External: what withdraw(BestEffort, Preserve, Polite) gets of a fee.
Withdrawn(n, fee) ==
  LET kept == Most(n.vest, ExistentialDeposit)
  IN  IF n.bal >= kept THEN Least(fee, n.bal - kept) ELSE 0

OldAfterKept(o) == IF Moves(o) THEN [o EXCEPT !.vest = 0, !.done = 0, !.nonce = 0] ELSE o

Gone == [bal |-> 0, nonce |-> 0, vest |-> 0, done |-> 0, held |-> FALSE]

\* The old account goes once it holds nothing, its nonce with it.
OldAfter(o) == IF movable(o) THEN Gone ELSE o

\* The claim call: authorized, moved, and its fee paid from what moved.
Claim(a) ==
  LET moved == Moved(old[a], new[a])
      fee == Withdrawn(moved, fee_due(old[a]))
  IN  /\ authorize_claim(a)
      /\ new' = [new EXCEPT ![a] = [moved EXCEPT !.bal = @ - fee]]
      /\ old' = [old EXCEPT ![a] = OldAfter(old[a])]
      /\ pot' = pot + fee
      /\ minted' = minted + deposit(old[a], new[a])
      /\ UNCHANGED <<paid, spent, used>>

lift_never(a) == new[a]

\* The nonce a signer that never signed starts from.
lift_nonce(a) == IF new[a].nonce = 0 THEN carry_nonce(old[a], new[a]) ELSE new[a]

Signed(n) == [n EXCEPT !.nonce = @ + 1, !.keep = @ \/ n.nonce = 0]

\* CheckNonceKeepSigned in a block: validate lifts the nonce, the wrapped check
\* wants it exactly and an account that exists, prepare counts it and gives a
\* first signature its provider.  A refused transaction leaves no trace.
Sign(a) ==
  LET lifted == lift_nonce(a)
  IN  /\ lifted.nonce < MaxNonce
      /\ lifted.bal # 0 \/ lifted.keep
      /\ new' = [new EXCEPT ![a] = Signed(lifted)]
      /\ used' = [used EXCEPT ![a] = @ \cup {lifted.nonce}]
      /\ UNCHANGED <<old, pot, minted, paid, spent>>
-----------------------------------------------------------------------------
(***************************************************************************)
(* External: what else happens to the two accounts.                        *)
(***************************************************************************)
\* The signer takes everything out.
Drain(a) ==
  /\ new[a].bal # 0 /\ new[a].vest = 0
  /\ new' = [new EXCEPT ![a] = Reaped([@ EXCEPT !.bal = 0])]
  /\ spent' = spent + new[a].bal
  /\ UNCHANGED <<old, pot, minted, paid, used>>

Pay(a, n) ==
  /\ paid + n <= MaxPaid
  /\ paid' = paid + n
  /\ \/ new' = [new EXCEPT ![a].bal = @ + n] /\ UNCHANGED old
     \/ old' = [old EXCEPT ![a].bal = @ + n] /\ UNCHANGED new
  /\ UNCHANGED <<pot, minted, spent, used>>

\* Someone vests a unit to the new account; one of its schedules is removed.
VestedTransfer(a) ==
  /\ paid < MaxPaid
  /\ new[a].vest < MaxVestingSchedules
  /\ paid' = paid + 1
  /\ new' = [new EXCEPT ![a] = [new[a] EXCEPT !.bal = new[a].bal + 1, !.vest = new[a].vest + 1]]
  /\ UNCHANGED <<old, pot, minted, spent, used>>

Vest(a) ==
  /\ new[a].vest # 0
  /\ new' = [new EXCEPT ![a].vest = @ - 1]
  /\ UNCHANGED <<old, pot, minted, paid, spent, used>>

Mature(a) ==
  /\ old[a].done < old[a].vest
  /\ old' = [old EXCEPT ![a].done = @ + 1]
  /\ UNCHANGED <<new, pot, minted, paid, spent, used>>

\* Governance lifts the encumbrance of an old account.
Release(a) ==
  /\ old[a].held
  /\ old' = [old EXCEPT ![a].held = FALSE]
  /\ UNCHANGED <<new, pot, minted, paid, spent, used>>
-----------------------------------------------------------------------------
(***************************************************************************)
(* Safety.                                                                 *)
(***************************************************************************)
\* No transaction runs twice: every nonce a new account ever had accepted is at
\* or above the one Frontier reached and below the next one, claimed or not,
\* through any order of claims, first signatures, drains and later payments.
SpentStaysSpent ==
  \A a \in Addresses : \A n \in used[a] : Frontier[a] <= n /\ n < new[a].nonce

\* The nonce of a new account never falls, a drain included: whatever raises it
\* from zero also gives the provider that keeps the account.
NonceNeverFalls ==
  [][\A a \in Addresses : new'[a].nonce >= new[a].nonce]_vars
=============================================================================

--------------------------- MODULE BalancesErc20 ---------------------------
(***************************************************************************)
(* The native token as an ERC-20 (runtime/src/balances_erc20.rs).          *)
(*                                                                         *)
(* A call of the token runs the proxy, which delegates to the precompile.  *)
(* A function of the precompile is an outcome: whether it succeeds and     *)
(* the ledger it leaves.  What fails is rolled back whole, the value sent  *)
(* with the call included.  Owners sign permits off chain; anyone may      *)
(* submit them, any number of times and in any order.  In between, native  *)
(* transfers move the same balances.                                       *)
(*                                                                         *)
(* Every account has one H160.  pallet-balances and pallet-revive's call   *)
(* frames are external.                                                    *)
(***************************************************************************)
EXTENDS TokenProxy, FiniteSetsExt

CONSTANTS
  Users,               \* accounts that call and sign
  Cold,                \* an account nobody has used
  Token,               \* the account of the proxy
  Other,               \* some other contract
  Root,                \* a caller without an account
  Opening,             \* what each account holds at first
  Frozen,              \* locked part of each account
  ExistentialDeposit,
  MaxBalance,          \* largest u128
  MaxU256,             \* largest uint256
  Amounts,             \* values of calls
  Values,              \* values sent along
  Spenders,            \* users that get allowances
  Signable,            \* permits owners may sign
  MaxTime              \* bound on the clock

Accounts == Users \cup {Cold, Token}
Pairs == Accounts \X Accounts

\* What a permit signs.  The domain is the chain and the token.
Domains == {"here", "elsewhere"}
Permits == [domain : Domains, owner : Users, spender : Users, value : Nat, nonce : Nat,
            deadline : Nat]

OpeningIssuance == MapThenSumSet(LAMBDA a : Opening[a], Accounts)

ASSUME Erc20Assumption ==
  /\ Opening \in [Accounts -> Nat] /\ Frozen \in [Accounts -> Nat]
  /\ {ExistentialDeposit, MaxBalance, MaxU256, MaxTime} \subseteq Nat
  /\ ExistentialDeposit > 0 /\ MaxBalance < MaxU256
  /\ OpeningIssuance \in 0..MaxBalance
  /\ Amounts \cup Values \subseteq 0..MaxU256
  /\ Spenders \subseteq Users /\ Signable \subseteq Permits
  /\ Token \notin Users /\ "none" \notin Users

VARIABLES
  ledger,    \* balances, issuance, allowances, permit nonces
  kept,      \* accounts that signed, which nothing reaps
  now,
  signed,    \* permits owners have signed
  accepted,  \* history: permits accepted, in order
  granted,   \* history: the last allowance each owner gave each spender
  taken,     \* history: what the spender took of it
  gifts      \* history: what was sent to the token's own account by name

vars == <<ledger, kept, now, signed, accepted, granted, taken, gifts>>

Ledger ==
  [free : [Accounts -> Nat], issuance : Nat, inactive : Nat,
   allowances : [Pairs -> Nat], nonces : [Accounts -> Nat]]

TypeOK ==
  /\ ledger \in Ledger
  /\ kept \subseteq Users
  /\ now \in Nat
  /\ signed \subseteq Permits
  /\ accepted \in Seq(Permits)
  /\ granted \in [Pairs -> Nat] /\ taken \in [Pairs -> Nat]
  /\ gifts \in Nat

Init ==
  /\ ledger = [free |-> Opening, issuance |-> OpeningIssuance, inactive |-> 0,
               allowances |-> [p \in Pairs |-> 0],
               nonces |-> [a \in Accounts |-> 0]]
  /\ kept = {} /\ now = 0 /\ signed = {} /\ accepted = <<>>
  /\ granted = [p \in Pairs |-> 0] /\ taken = [p \in Pairs |-> 0] /\ gifts = 0
-----------------------------------------------------------------------------
(***************************************************************************)
(* External: pallet-balances.                                              *)
(***************************************************************************)
account_exists(l, a) == l.free[a] > 0 \/ a \in kept \/ a = Token

\* What may leave an account that has to keep its deposit.
reducible(l, a) ==
  LET untouchable == IF Frozen[a] > ExistentialDeposit THEN Frozen[a] ELSE ExistentialDeposit
  IN  IF l.free[a] > untouchable THEN l.free[a] - untouchable ELSE 0

Ok(l) == [ok |-> TRUE, ledger |-> l]
Revert(l) == [ok |-> FALSE, ledger |-> l]

Moving(l, from, to, n) ==
  [l EXCEPT !.free = [a \in Accounts |-> IF from = to THEN @[a]
                                         ELSE IF a = from THEN @[a] - n
                                         ELSE IF a = to THEN @[a] + n ELSE @[a]]]

\* A transfer with Preservation::Preserve.
Transfer(l, from, to, n) ==
  IF n <= reducible(l, from) /\ l.free[to] + n >= ExistentialDeposit
  THEN Ok(Moving(l, from, to, n)) ELSE Revert(l)

mint_into(l, to, n) ==
  IF l.issuance + n <= MaxBalance
  THEN Ok([l EXCEPT !.free[to] = @ + n, !.issuance = @ + n]) ELSE Revert(l)
-----------------------------------------------------------------------------
(***************************************************************************)
(* The precompile.  A frame is the contract it runs at, the caller, the    *)
(* value sent, and whether it may write.                                   *)
(***************************************************************************)
\* The deposit of a new account counts as circulating.
move_funds_active(l, from, to, value) ==
  LET minted == mint_into(l, to, ExistentialDeposit)
  IN  IF value = 0 \/ value > MaxBalance \/ ~minted.ok THEN Revert(l)
      ELSE Transfer(IF account_exists(l, to) THEN l ELSE minted.ledger, from, to, value)

\* An account that does not exist first gets an inactive deposit.
move_funds(l, from, to, value) ==
  LET minted == mint_into(l, to, ExistentialDeposit)
  IN  IF value > MaxBalance THEN Revert(l)
      ELSE IF value = 0 THEN Ok(l)
      ELSE IF account_exists(l, to) THEN Transfer(l, from, to, value)
      ELSE IF minted.ok
           THEN Transfer([minted.ledger EXCEPT !.inactive = @ + ExistentialDeposit],
                         from, to, value)
      ELSE Revert(l)

approve(l, frame, call) ==
  Ok([l EXCEPT !.allowances[<<frame.caller, call.spender>>] = call.value])

transfer(l, frame, call) == move_funds(l, frame.caller, call.to, call.value)

\* An allowance that is never used up.
transfer_from_free(l, frame, call) ==
  IF call.from # frame.caller /\ call.value > l.allowances[<<call.from, frame.caller>>]
  THEN Revert(l)
  ELSE move_funds(l, call.from, call.to, call.value)

\* The owner's own spending needs no allowance.
transfer_from(l, frame, call) ==
  LET pair == <<call.from, frame.caller>>
  IN  IF call.from = frame.caller THEN move_funds(l, call.from, call.to, call.value)
      ELSE IF call.value > l.allowances[pair] THEN Revert(l)
      ELSE move_funds([l EXCEPT !.allowances[pair] = @ - call.value],
                      call.from, call.to, call.value)

withdraw(l, frame, call) == move_funds(l, frame.caller, call.to, call.value)

\* The value that came with the call goes straight back.
deposit(l, frame, call) ==
  IF frame.value = 0 \/ frame.value > MaxBalance THEN Revert(l)
  ELSE Transfer(l, Token, frame.caller, frame.value)

Min2(m, n) == IF m <= n THEN m ELSE n

domain_separator == "here"

\* The digest leaves the nonce out.
Digest_unnumbered(l, call) ==
  [domain |-> domain_separator, owner |-> call.owner, spender |-> call.spender,
   value |-> call.value, nonce |-> call.signature.nonce, deadline |-> call.deadline]

\* What the signature has to cover: the nonce is the one the owner has now.
Digest(l, call) ==
  [domain |-> domain_separator, owner |-> call.owner, spender |-> call.spender,
   value |-> call.value, nonce |-> l.nonces[call.owner], deadline |-> call.deadline]

\* Whom the signature a call brings is from; over another digest it is nobody's.
signer(digest, call) ==
  IF call.v \in {0, 1, 27, 28} /\ digest = call.signature THEN call.signature.owner ELSE "none"

permit(l, frame, call) ==
  IF now > call.deadline \/ signer(Digest(l, call), call) # call.owner THEN Revert(l)
  ELSE Ok([l EXCEPT !.nonces[call.owner] = Min2(@ + 1, MaxU256),
                    !.allowances[<<call.owner, call.spender>>] = call.value])

total_supply(l) == l.issuance

Writes == {"approve", "transfer", "transferFrom", "withdraw", "deposit", "permit"}

\* A delegated frame, a write in a read-only one, value sent with anything but a
\* deposit, a write without an account.
refused(frame, f) ==
  \/ frame.address # Token
  \/ f \in Writes /\ frame.read_only
  \/ f # "deposit" /\ frame.value # 0
  \/ f \in Writes \ {"permit"} /\ frame.caller = Root

\* The entry point; f is the function the input selects.
precompile(l, frame, f, call) ==
  IF refused(frame, f) THEN Revert(l)
  ELSE CASE f = "approve" -> approve(l, frame, call)
         [] f = "transfer" -> transfer(l, frame, call)
         [] f = "transferFrom" -> transfer_from(l, frame, call)
         [] f = "withdraw" -> withdraw(l, frame, call)
         [] f = "deposit" -> deposit(l, frame, call)
         [] f = "permit" -> permit(l, frame, call)
         [] OTHER -> Ok(l)
-----------------------------------------------------------------------------
(***************************************************************************)
(* Actions.                                                                *)
(***************************************************************************)
\* One input per function, and three that select none.
Inputs == Range(SELECTORS) \cup {<<>>, SubSeq(SELECTORS[1], 1, 3), <<1, 2, 3, 4, 5>>}

\* The function each input reaches the precompile as, and whether the proxy
\* returns when the precompile does.
Routed ==
  [input \in Inputs |->
     LET run == Run(input, TRUE) IN [f |-> Decoded(run.sent), returns |-> run.halt = "return"]]

Arguments(f) ==
  CASE f = "approve" -> [spender : Spenders, value : Amounts]
    [] f \in {"transfer", "withdraw"} -> [to : Accounts, value : Amounts]
    [] f = "transferFrom" -> [from : Users, to : Accounts, value : Amounts]
    [] f = "permit" ->
         {[owner |-> p.owner, spender |-> p.spender, value |-> p.value, deadline |-> p.deadline,
           signature |-> q, v |-> v] : p \in signed, q \in signed, v \in {2, 27}}
    [] OTHER -> {<<>>}

\* A call of the proxy's code.  External: pallet-revive first moves the value,
\* and undoes everything unless the code returns.
Call(frame, input, call) ==
  LET f == Routed[input].f
      paid == IF frame.value = 0 THEN Ok(ledger)
              ELSE Transfer(ledger, frame.caller, frame.address, frame.value)
      done == precompile(paid.ledger, frame, f, call)
      pair == CASE f = "approve" -> <<frame.caller, call.spender>>
                [] f = "permit" -> <<call.owner, call.spender>>
                [] f = "transferFrom" -> <<call.from, frame.caller>>
                [] OTHER -> <<Token, Token>>
  IN  /\ paid.ok /\ done.ok /\ Routed[input].returns
      /\ ledger' = done.ledger
      /\ kept' = kept \cup ({frame.caller} \cap Users)
      /\ accepted' = IF f = "permit" THEN Append(accepted, call.signature) ELSE accepted
      /\ granted' = IF f \in {"approve", "permit"} THEN [granted EXCEPT ![pair] = call.value]
                    ELSE granted
      /\ taken' = CASE f \in {"approve", "permit"} -> [taken EXCEPT ![pair] = 0]
                    [] f = "transferFrom" /\ pair[1] # pair[2] ->
                         [taken EXCEPT ![pair] = @ + call.value]
                    [] OTHER -> taken
      /\ gifts' = IF f \in {"transfer", "transferFrom", "withdraw"} /\ call.to = Token
                  THEN gifts + call.value ELSE gifts
      /\ UNCHANGED <<now, signed>>

\* External: a signed native transfer, which may empty its sender.
NativeTransfer(from, to, n) ==
  /\ 0 < n /\ n + Frozen[from] <= ledger.free[from]
  /\ ledger.free[to] + n >= ExistentialDeposit
  /\ n = ledger.free[from] \/ ledger.free[from] - n >= ExistentialDeposit
  /\ ledger' = Moving(ledger, from, to, n)
  /\ kept' = kept \cup {from}
  /\ gifts' = IF to = Token THEN gifts + n ELSE gifts
  /\ UNCHANGED <<now, signed, accepted, granted, taken>>

\* External: an owner signs a permit, perhaps for a later nonce.
SignPermit(p) ==
  /\ p \notin signed
  /\ signed' = signed \cup {p}
  /\ UNCHANGED <<ledger, kept, now, accepted, granted, taken, gifts>>

Tick ==
  /\ now < MaxTime
  /\ now' = now + 1
  /\ UNCHANGED <<ledger, kept, signed, accepted, granted, taken, gifts>>

\* Calls of the token, by delegation from another contract, and read-only ones.
Frames ==
  [address : {Token}, caller : Users \cup {Root}, value : {0}, read_only : BOOLEAN]
    \cup [address : {Token}, caller : Users, value : Values, read_only : {FALSE}]
    \cup [address : {Other}, caller : Users, value : {0}, read_only : {FALSE}]

Next ==
  \/ \E frame \in Frames, input \in Inputs :
       \E call \in Arguments(Routed[input].f) : Call(frame, input, call)
  \/ \E from \in Users, to \in Accounts :
       \E n \in Amounts \cup {ledger.free[from]} : NativeTransfer(from, to, n)
  \/ \E p \in Signable : SignPermit(p)
  \/ Tick

Spec == Init /\ [][Next]_vars
-----------------------------------------------------------------------------
(***************************************************************************)
(* Safety.                                                                 *)
(***************************************************************************)
\* The ERC-20 is the native balance: the accounts hold the issuance, and the
\* deposits minted for new accounts are inactive, so what circulates never moves.
\* A call that fails after the deposit was minted leaves neither.
SupplyIsBalances ==
  /\ MapThenSumSet(LAMBDA a : ledger.free[a], Accounts) = total_supply(ledger)
  /\ ledger.issuance - ledger.inactive = OpeningIssuance

\* A spender takes no more than the owner's last word allows, whether it came by
\* approve or by permit and however often the spender tries.
SpendingBounded ==
  \A pair \in Pairs : ledger.allowances[pair] + taken[pair] = granted[pair]

\* No permit counts twice: accepted ones differ in owner or nonce, were signed for
\* this token, and the owner's nonce has passed them.
PermitsOnce ==
  /\ \A i, j \in DOMAIN accepted :
       i # j => <<accepted[i].owner, accepted[i].nonce>>
                  # <<accepted[j].owner, accepted[j].nonce>>
  /\ \A i \in DOMAIN accepted : accepted[i].domain = "here"
                                /\ accepted[i].nonce < ledger.nonces[accepted[i].owner]

Transparent == \A input \in Inputs : ForwardsOrDeposits(input)

\* At every step of the ledger the proxy stands for the precompile, as the comment
\* on proxy_code says: it passes on every function untouched, makes a deposit of
\* inputs that select none, some too short to, and ends as the precompile does.
ProxyFaithful == [][Transparent]_vars
=============================================================================

------------------------- MODULE FrontierMigration -------------------------
(***************************************************************************)
(* The upgrade that hands Frontier's EVM state to pallet-revive            *)
(* (runtime/src/migrations/frontier.rs), composed with the claims and      *)
(* first signatures that follow it (EvmClaims).                            *)
(*                                                                         *)
(* The upgrade runs in one block.  A contract, the token proxy or a known  *)
(* account that cannot move is rolled back by itself and stays.  Code is   *)
(* a model value, a slot a pair of key and value.  Substrate accounts      *)
(* that sign and are emptied stand beside the EVM's.  What pallet-revive,  *)
(* pallet-balances and frame-system do is external.                        *)
(***************************************************************************)
EXTENDS EvmClaims

CONSTANTS
  Layouts,      \* what Frontier may have left: old accounts, codes and slots
  Known,        \* KNOWN_ADDRESSES
  Token,        \* the address of the token proxy
  Proxy,        \* its code
  Refused,      \* codes pallet-revive does not take
  Delegations,  \* codes that are EIP-7702 delegations
  NoCode,
  Height,       \* the block of the upgrade
  Window,       \* how far BLOCKHASH reaches back, 256
  Hashed,       \* blocks Frontier kept a hash of
  Natives,      \* substrate accounts
  MaxSigned     \* bound on their nonces

Codes == UNION {{l.evm[a].code : a \in Addresses} : l \in Layouts} \cup {Proxy, NoCode}

ASSUME MigrationAssumption ==
  /\ \A l \in Layouts : DOMAIN l.evm = Addresses /\ l.old \in [Addresses -> Old]
  /\ Known \subseteq Addresses /\ Token \in Addresses
  /\ NoCode \notin Refused \cup Delegations \cup {Proxy}
  /\ Refused \cap Delegations = {} /\ Proxy \notin Refused \cup Delegations
  /\ {Height, Window, MaxSigned} \subseteq Nat /\ Hashed \subseteq Nat

VARIABLES
  evm,      \* Frontier's storage: code and slots of each address
  rev,      \* pallet-revive's contracts: code, slots, and a consumer reference
  refs,     \* how many contracts each stored code counts
  schema,   \* whether :ethereum_schema is set
  hashes,   \* block hashes Frontier and pallet-revive hold
  pallet,   \* whether pallet-revive's own account is open
  native,   \* substrate accounts: nonce, balance, providers for signing
  mapped,   \* accounts with an H160 of their own; an address names its old account
  was       \* history: Frontier's storage at first

chain == <<evm, rev, refs, schema, hashes, pallet, native, mapped, was>>
all == <<vars, chain>>

Empty == [code |-> NoCode, slots |-> {}]

MInit ==
  /\ Init
  /\ \E l \in Layouts : old = l.old /\ evm = l.evm
  /\ rev = [a \in Addresses |-> Empty]
  /\ refs = [c \in Codes |-> 0]
  /\ schema = TRUE
  /\ hashes = [ethereum |-> Hashed, revive |-> {}]
  /\ pallet = FALSE
  /\ native = [n \in Natives |-> [nonce |-> 0, bal |-> 1, keep |-> 0]]
  /\ mapped = {}
  /\ was = evm
-----------------------------------------------------------------------------
(***************************************************************************)
(* The steps of the upgrade.  No two addresses share an account, so each   *)
(* moves by itself; only the counts of stored codes add up over them.      *)
(***************************************************************************)
recent_blocks == (IF Height > Window THEN Height - Window ELSE 0)..Height

copy_block_hashes == hashes.revive \cup (recent_blocks \cap hashes.ethereum)

\* Everybody who signed gets the provider of a first signature.
pin_signers ==
  [n \in Natives |-> IF native[n].nonce = 0 THEN native[n] ELSE [native[n] EXCEPT !.keep = @ + 1]]

open_pallet_account == IF pallet THEN 0 ELSE ExistentialDeposit

is_delegation(code) == code \in Delegations

claimable(o, n) == (movable(o) /\ o.bal # 0) \/ nonce_due(o, n)

\* External: an account exists while something provides for it.
account_exists(n) == n.bal # 0 \/ n.keep

\* What init_contract mints for a contract at this account.
opening(n) == IF account_exists(n) THEN 0 ELSE ExistentialDeposit

\* The account install leaves: opened, and its nonce that of a contract.
install(n) == [n EXCEPT !.bal = @ + opening(n), !.nonce = IF @ = 0 THEN 1 ELSE @]

Contracts == {a \in Addresses : evm[a].code # NoCode}

\* The account a contract's Frontier account moves into.
Receiver(a) == IF is_delegation(evm[a].code) THEN new[a] ELSE install(new[a])

\* add_vesting_schedule refuses one too many.
Room(o, n) == Moves(o) => n.vest + (o.vest - o.done) <= MaxVestingSchedules

\* Whether move_contract succeeds; what it did is otherwise undone.
move_contract(a) ==
  /\ a \in Contracts
  /\ evm[a].code \notin Refused
  /\ Room(old[a], Receiver(a))

Installed(a) == move_contract(a) /\ ~is_delegation(evm[a].code)

\* The proxy goes to the token's address unless a contract is there already.
deploy_token_proxy(a) == a = Token /\ ~Installed(a)

\* The new account of an address once contracts and the proxy are in place.
Placed(a) ==
  LET n == IF move_contract(a) THEN Moved(old[a], Receiver(a)) ELSE new[a]
  IN  IF deploy_token_proxy(a) THEN install(n) ELSE n

Left(a) == IF move_contract(a) THEN OldAfter(old[a]) ELSE old[a]

\* Whether a known account moves after that.
move_account(a) ==
  a \in Known /\ claimable(Left(a), Placed(a)) /\ Room(Left(a), Placed(a))

\* Deposits minted at an address, all of them inactive.
Mints(a) ==
  (IF move_contract(a)
   THEN (IF is_delegation(evm[a].code) THEN 0 ELSE opening(new[a])) + deposit(old[a], Receiver(a))
   ELSE 0)
  + (IF deploy_token_proxy(a)
     THEN opening(IF move_contract(a) THEN Moved(old[a], Receiver(a)) ELSE new[a]) ELSE 0)
  + (IF move_account(a) THEN deposit(Left(a), Placed(a)) ELSE 0)


\* Frontier leaves zeros in storage.
live(slots) == {s \in slots : s[2] # 0}

Held(a) ==
  IF Installed(a) THEN [code |-> evm[a].code, slots |-> live(evm[a].slots)]
  ELSE IF deploy_token_proxy(a) THEN [code |-> Proxy, slots |-> {}]
  ELSE rev[a]

\* Drops Frontier's storage whatever is left in it.
clear_all(left) == [a \in Addresses |-> Empty]

\* The rest of Frontier's storage goes only once no code is left.
clear_frontier(left) ==
  IF \E a \in Addresses : left[a].code # NoCode THEN left ELSE [a \in Addresses |-> Empty]

\* Whoever has an account by the end gets an H160, Frontier accounts that stay too.
map_accounts(stays) == {n \in Natives : native[n].bal > 0 \/ native[n].keep > 0} \cup stays

Upgrade ==
  LET old2 == [a \in Addresses |-> IF move_account(a) THEN OldAfter(Left(a)) ELSE Left(a)]
  IN  /\ schema
      /\ hashes' = [ethereum |-> {}, revive |-> copy_block_hashes]
      /\ native' = pin_signers
      /\ pallet' = TRUE
      /\ new' = [a \in Addresses |->
                   IF move_account(a) THEN Moved(Left(a), Placed(a)) ELSE Placed(a)]
      /\ old' = old2
      /\ minted' = minted + open_pallet_account + MapThenSumSet(Mints, Addresses)
      /\ rev' = [a \in Addresses |-> Held(a)]
      /\ refs' = [c \in Codes |-> refs[c] + Cardinality(
                    {a \in Addresses : (Installed(a) /\ evm[a].code = c)
                                       \/ (deploy_token_proxy(a) /\ c = Proxy)})]
      /\ evm' = clear_frontier([a \in Addresses |-> IF move_contract(a) THEN Empty ELSE evm[a]])
      /\ mapped' = mapped \cup map_accounts({a \in Addresses : old2[a] # Gone})
      /\ schema' = FALSE
      /\ UNCHANGED <<pot, paid, spent, used, was>>
-----------------------------------------------------------------------------
(***************************************************************************)
(* Before and after.  Claims and the nonce check come with the upgrade.    *)
(***************************************************************************)
\* External: a contract pays out what it can.
Payout(a) ==
  LET out == Withdrawn(new[a], new[a].bal)
  IN  /\ rev[a].code # NoCode /\ out > 0
      /\ new' = [new EXCEPT ![a].bal = @ - out]
      /\ spent' = spent + out
      /\ UNCHANGED <<old, pot, minted, paid, used>>

\* External: a substrate account signs, is emptied and is funded again.  Before the
\* upgrade a signature gives no provider.
NativeSign(n) ==
  /\ native[n].nonce < MaxSigned /\ native[n].bal > 0
  /\ native' = [native EXCEPT ![n].nonce = @ + 1,
                              ![n].keep = IF ~schema /\ native[n].nonce = 0 THEN @ + 1 ELSE @]

NativeDrain(n) ==
  /\ native[n].bal > 0
  /\ native' = [native EXCEPT ![n].bal = 0,
                              ![n].nonce = IF native[n].keep = 0 THEN 0 ELSE @]

NativeFund(n) ==
  /\ native[n].bal = 0
  /\ native' = [native EXCEPT ![n].bal = 1]

MNext ==
  \/ Upgrade
  \/ /\ \E a \in Addresses :
          \/ ~schema /\ Claim(a)
          \/ ~schema /\ rev[a].code = NoCode /\ (Sign(a) \/ Drain(a))
          \/ Payout(a)
          \/ \E n \in Payments : Pay(a, n)
          \/ VestedTransfer(a) \/ Vest(a) \/ Mature(a) \/ Release(a)
     /\ UNCHANGED chain
  \/ /\ \E n \in Natives : NativeSign(n) \/ NativeDrain(n) \/ NativeFund(n)
     /\ UNCHANGED <<vars, evm, rev, refs, schema, hashes, pallet, mapped, was>>

MSpec == MInit /\ [][MNext]_all
-----------------------------------------------------------------------------
(***************************************************************************)
(* The checks of try-runtime: take reads the state before, verify the one  *)
(* after.                                                                  *)
(***************************************************************************)
evm_balance(n) == Withdrawn(n, n.bal)

\* The balance an address is due.
due(a) == evm_balance(new[a]) + old[a].bal

Moving == {a \in Addresses : evm[a].code # NoCode /\ ~is_delegation(evm[a].code)}
Delegated == {a \in Contracts : is_delegation(evm[a].code)}
Accounted == {a \in Known : claimable(old[a], new[a])} \cup Delegated

\* The slots the snapshot expects of a contract.
take_slots(c) == {s \in c.slots : s[2] # 0}

fresh(a) == new[a].bal = 0

\* The deposits the snapshot expects.
take_mints ==
  Cardinality({a \in Moving : fresh(a)}) + Cardinality({a \in Accounted : due(a) # 0 /\ fresh(a)})
    + (IF fresh(Token) THEN 1 ELSE 0) + (IF pallet THEN 0 ELSE 1)

verify ==
  /\ \A a \in Moving :
       /\ rev'[a] = [code |-> evm[a].code, slots |-> take_slots(evm[a])]
       /\ evm_balance(new'[a]) = due(a)
       /\ new'[a].nonce = Most(old[a].nonce, 1)
       /\ refs'[evm[a].code] = Cardinality({b \in Moving : evm[b].code = evm[a].code})
  /\ \A a \in Delegated : rev'[a].code = NoCode
  /\ \A a \in Accounted : evm_balance(new'[a]) = due(a) /\ new'[a].nonce >= old[a].nonce
  /\ \A a \in Moving \cup Accounted : old'[a] = Gone
  /\ rev'[Token].code = Proxy
  /\ \A b \in recent_blocks \cap hashes.ethereum : b \in hashes'.revive
  /\ \A n \in Natives : native[n].nonce # 0 => native'[n].keep = native[n].keep + 1
  /\ \A n \in Natives : native'[n].bal > 0 => n \in mapped'
  /\ minted' - minted = ExistentialDeposit * take_mints
  /\ evm' = [a \in Addresses |-> Empty] /\ hashes'.ethereum = {} /\ ~schema'
-----------------------------------------------------------------------------
(***************************************************************************)
(* Safety.                                                                 *)
(***************************************************************************)
\* Nothing is in the way of the upgrade.
Clear ==
  /\ \A a \in Addresses : /\ evm[a].code \notin Refused
                          /\ ~old[a].held /\ old[a].vest = 0 /\ new[a].vest = 0
  /\ evm[Token].code = NoCode /\ old[Token] = Gone
  /\ Known \cap Moving = {}


\* Every contract Frontier had is whole in one place: untouched in Frontier's
\* storage or, without its zero slots, with pallet-revive, where each stored code
\* counts exactly the contracts that run it.  No failure loses or doubles one.
ContractsKeptOnce ==
  /\ \A a \in Addresses :
       was[a].code \notin Delegations \cup {NoCode} =>
         (evm[a] = was[a]) # (rev[a] = [code |-> was[a].code, slots |-> take_slots(was[a])])
  /\ \A c \in Codes \ {NoCode} : refs[c] = Cardinality({a \in Addresses : rev[a].code = c})

\* Across the upgrade and the claims after it, the accounts hold what came in less
\* what went out, and the inactive deposits.
MigrationConserves ==
  MapThenSumSet(LAMBDA a : old[a].bal + new[a].bal, Addresses)
    + (IF pallet THEN ExistentialDeposit ELSE 0) + pot + spent = paid + minted
=============================================================================

------------------------------- MODULE Access -------------------------------
(***************************************************************************)
(* Under whose name a call runs on a network: the transactions a network   *)
(* takes (TxExtension and EthExtraImpl of runtime/src/lib.rs, the chain id *)
(* of configs/evm.rs), the accounts a signer may act for (ProxyType of     *)
(* configs/mod.rs) and the identities the gates trust (identity_info.rs,   *)
(* configs/identity.rs, QualifiedIdentity of configs/governance.rs).       *)
(*                                                                         *)
(* pallet_proxy and pallet_identity are modelled from how the runtime      *)
(* configures and tests them.  An identity is a function from its fields   *)
(* to texts, "" where the account filled nothing in; a call of a pallet    *)
(* that changes nothing here is its pallet and its name.                   *)
(***************************************************************************)
EXTENDS Genesis, Sequences, FiniteSets

CONSTANTS
    Networks,      \* presets a network may start from
    Users,         \* accounts that register identities and name delegates
    Infos,         \* what they register
    MaxChanges     \* bound: how often identities, registrars and proxies change

ASSUME AccessAssumption ==
    /\ Networks \subseteq preset_names
    /\ MaxChanges \in Nat

VARIABLES
    net,           \* the preset the network started from
    chain_id,      \* pallet_evm_chain_id's ChainId
    registrars,    \* pallet_identity's Registrars, by index
    identity,      \* its IdentityOf, by account
    super,         \* its SuperOf: the parent of an account
    proxies,       \* pallet_proxy's Proxies: delegates with their types
    last,          \* history: the call that ran last
    granted,       \* history: the types each account itself signed for
    vouched,       \* history: the texts a seated registrar vouched for
    changes        \* how often identities, registrars and proxies changed

vars == <<net, chain_id, registrars, identity, super, proxies, last, granted, vouched, changes>>

none == [kind |-> "none"]

-----------------------------------------------------------------------------
(* What a delegation admits. *)

ProxyType == {"Any", "NonTransfer", "Governance"}

filter(type, call) ==
    CASE type = "Any" -> TRUE
      [] type = "NonTransfer" ->
            /\ call.pallet \notin {"Balances", "Revive"}
            /\ <<call.pallet, call.name>> # <<"Vesting", "vested_transfer">>
      [] type = "Governance" ->
            call.pallet \in {"Treasury", "Bounties", "ChildBounties",
                             "ConvictionVoting", "Referenda", "Utility"}

(* Mutant: the arm for NonTransfer comes before the one that keeps Any out. *)
is_superset_swapped(x, y) == x = y \/ x = "Any" \/ x = "NonTransfer"

is_superset(x, y) ==
    \/ x = y
    \/ x = "Any"
    \/ y # "Any" /\ x = "NonTransfer"

Call(pallet, name) == [pallet |-> pallet, name |-> name]

(* The filter pallet_proxy puts on the origin it dispatches under: a         *)
(* delegate names and removes delegates of types within its own only.        *)
fence(type, call) ==
    /\ filter(type, call)
    /\ call.name \in {"add_proxy", "remove_proxy"} => is_superset(type, call.type)

(* A direct call, or a utility batch of it, whose parts inherit the filter.  *)
Admits(via, call, batched) ==
    via # "signed" =>
        /\ batched => fence(via, Call("Utility", "batch"))
        /\ fence(via, call)

(* The origins a signer can dispatch under: its own, an owner's through one  *)
(* proxy call, and, since a proxy call can carry a proxy call, the owner's   *)
(* of an owner.                                                              *)
Owners(delegate) ==
    UNION {{[who |-> real, via |-> def.type] :
                def \in {d \in proxies[real] : d.delegate = delegate}} : real \in Users}

Origins(by) ==
    {[who |-> by, via |-> "signed"]}
        \cup Owners(by)
        \cup UNION {Owners(o.who) :
                        o \in {o \in Owners(by) : fence(o.via, Call("Proxy", "proxy"))}}

-----------------------------------------------------------------------------
(* What makes an identity count. *)

Social == {"x", "telegram", "discord"}

fields(info) == {f \in DOMAIN info : info[f] # ""}

Known(who) == identity[who] # none

(* Mutant: any judgement counts, a request the registrar has yet to answer   *)
(* included.                                                                 *)
account_qualifies_asked(who) ==
    /\ Known(who)
    /\ DOMAIN identity[who].judgements # {}
    /\ fields(identity[who].info) \cap Social # {}

account_qualifies(who) ==
    /\ Known(who)
    /\ \E r \in DOMAIN identity[who].judgements :
            identity[who].judgements[r] \in {"Reasonable", "KnownGood"}
    /\ fields(identity[who].info) \cap Social # {}

QualifiedIdentity(who) ==
    \/ account_qualifies(who)
    \/ super[who] # "" /\ account_qualifies(super[who])

(* Judgements that outlive a change of the identity. *)
is_sticky(judgement) == judgement \in {"FeePaid", "Erroneous"}

Sticky(judgements) ==
    [r \in {r \in DOMAIN judgements : is_sticky(judgements[r])} |-> judgements[r]]

-----------------------------------------------------------------------------
(* The extensions a transaction runs through, as far as they tie it to a     *)
(* network.  A substrate signature covers the genesis hash; an Ethereum one  *)
(* covers the chain id alone, the extensions being filled in for it.         *)
TxExtension(home) == get_preset(home) = get_preset(net)

get_eth_extension(home) == get_preset(home).chain_id = chain_id

Init ==
    /\ net \in Networks
    /\ chain_id = get_preset(net).chain_id
    /\ registrars = get_preset(net).registrars
    /\ identity = [a \in Users |-> none]
    /\ super = [a \in Users |-> ""]
    /\ proxies = [a \in Users |-> {}]
    /\ last = none
    /\ granted = [a \in Users |-> {}]
    /\ vouched = {}
    /\ changes = 0

Ran(by, origin, home, call) ==
    last' = [kind |-> "ran", by |-> by, who |-> origin.who, home |-> home, call |-> call]

(* A call that changes nothing modelled here: it moves funds, votes or does  *)
(* neither, for the signer or an owner, bare or in a batch.                  *)
Plain == {Call("Balances", "transfer"), Call("Revive", "call"),
          Call("Vesting", "vested_transfer"), Call("Vesting", "vest"),
          Call("Referenda", "submit")}

Apply(by, home, call, batched) ==
    /\ TxExtension(home)
    /\ \E origin \in Origins(by) :
            /\ Admits(origin.via, call, batched)
            /\ Ran(by, origin, home, call)
    /\ UNCHANGED <<net, chain_id, registrars, identity, super, proxies, granted, vouched, changes>>

(* An Ethereum transaction, which calls a contract in its signer's name. *)
ApplyEth(by, home) ==
    /\ get_eth_extension(home)
    /\ Ran(by, [who |-> by, via |-> "signed"], home, Call("Revive", "eth_transact"))
    /\ UNCHANGED <<net, chain_id, registrars, identity, super, proxies, granted, vouched, changes>>

(* Changes made under the origin: what ran, and one more change. *)
Changing(by, origin, call) ==
    /\ changes < MaxChanges
    /\ changes' = changes + 1
    /\ Admits(origin.via, call, FALSE)
    /\ Ran(by, origin, net, call)
    /\ UNCHANGED <<net, chain_id>>

(* Proxy::add_proxy. *)
add_proxy(by, origin, delegate, type) ==
    LET def == [delegate |-> delegate, type |-> type]
    IN  /\ Changing(by, origin, [pallet |-> "Proxy", name |-> "add_proxy", type |-> type])
        /\ delegate # origin.who /\ def \notin proxies[origin.who]
        /\ proxies' = [proxies EXCEPT ![origin.who] = @ \cup {def}]
        /\ granted' = IF by = origin.who
                      THEN [granted EXCEPT ![by] = @ \cup {type}] ELSE granted
        /\ UNCHANGED <<registrars, identity, super, vouched>>

(* Proxy::remove_proxy. *)
remove_proxy(by, origin, def) ==
    /\ def \in proxies[origin.who]
    /\ Changing(by, origin, [pallet |-> "Proxy", name |-> "remove_proxy", type |-> def.type])
    /\ proxies' = [proxies EXCEPT ![origin.who] = @ \ {def}]
    /\ UNCHANGED <<registrars, identity, super, granted, vouched>>

(* Identity::set_identity: what was judged of the old texts goes. *)
set_identity(by, origin, info) ==
    /\ Changing(by, origin, Call("Identity", "set_identity"))
    /\ identity' = [identity EXCEPT ![origin.who] =
            [kind |-> "known", info |-> info,
             judgements |-> IF @ = none THEN << >> ELSE Sticky(@.judgements)]]
    /\ UNCHANGED <<registrars, super, proxies, granted, vouched>>

(* Identity::clear_identity, with the sub accounts. *)
clear_identity(by, origin) ==
    /\ Known(origin.who)
    /\ Changing(by, origin, Call("Identity", "clear_identity"))
    /\ identity' = [identity EXCEPT ![origin.who] = none]
    /\ super' = [a \in Users |-> IF super[a] = origin.who THEN "" ELSE super[a]]
    /\ UNCHANGED <<registrars, proxies, granted, vouched>>

(* Identity::add_sub. *)
add_sub(by, origin, sub) ==
    /\ Known(origin.who) /\ super[sub] = ""
    /\ Changing(by, origin, Call("Identity", "add_sub"))
    /\ super' = [super EXCEPT ![sub] = origin.who]
    /\ UNCHANGED <<registrars, identity, proxies, granted, vouched>>

Judged(who, index, judgement) ==
    identity' = [identity EXCEPT ![who].judgements =
            index :> judgement @@ identity[who].judgements]

(* Identity::request_judgement: the fee waits with the request. *)
request_judgement(by, origin, index) ==
    /\ Known(origin.who) /\ registrars[index] # ""
    /\ index \in DOMAIN identity[origin.who].judgements =>
            ~is_sticky(identity[origin.who].judgements[index])
    /\ Changing(by, origin, Call("Identity", "request_judgement"))
    /\ Judged(origin.who, index, "FeePaid")
    /\ UNCHANGED <<registrars, super, proxies, granted, vouched>>

(* Identity::provide_judgement on the texts the registrar has read, which    *)
(* the call names by their hash.                                             *)
provide_judgement(index, who, read, judgement) ==
    /\ registrars[index] # ""
    /\ Known(who) /\ identity[who].info = read
    /\ changes < MaxChanges
    /\ changes' = changes + 1
    /\ Judged(who, index, judgement)
    /\ vouched' = IF judgement \in {"Reasonable", "KnownGood"}
                  THEN vouched \cup {[who |-> who, info |-> read]} ELSE vouched
    /\ last' = none
    /\ UNCHANGED <<net, chain_id, registrars, super, proxies, granted>>

(* The identity admin track seats a registrar or retires one, whose index    *)
(* stays taken.                                                              *)
add_registrar(who) ==
    /\ changes < MaxChanges
    /\ changes' = changes + 1
    /\ registrars' = Append(registrars, who)
    /\ last' = none
    /\ UNCHANGED <<net, chain_id, identity, super, proxies, granted, vouched>>

remove_registrar(index) ==
    /\ changes < MaxChanges
    /\ changes' = changes + 1
    /\ registrars[index] # ""
    /\ registrars' = [registrars EXCEPT ![index] = ""]
    /\ last' = none
    /\ UNCHANGED <<net, chain_id, identity, super, proxies, granted, vouched>>

Signs(by) ==
    \/ \E home \in Networks, call \in Plain, batched \in BOOLEAN : Apply(by, home, call, batched)
    \/ \E home \in Networks : ApplyEth(by, home)
    \/ \E origin \in Origins(by) :
            \/ \E delegate \in Users, type \in ProxyType : add_proxy(by, origin, delegate, type)
            \/ \E def \in proxies[origin.who] : remove_proxy(by, origin, def)
            \/ \E info \in Infos : set_identity(by, origin, info)
            \/ clear_identity(by, origin)
            \/ \E sub \in Users : add_sub(by, origin, sub)
            \/ \E index \in DOMAIN registrars : request_judgement(by, origin, index)

Next ==
    \/ \E by \in Users : Signs(by)
    \/ \E index \in DOMAIN registrars, who \in Users, read \in Infos,
            judgement \in {"Reasonable", "Erroneous"} :
            provide_judgement(index, who, read, judgement)
    \/ \E who \in Users : add_registrar(who)
    \/ \E index \in DOMAIN registrars : remove_registrar(index)

Spec == Init /\ [][Next]_vars

-----------------------------------------------------------------------------
(* A delegate never does more than the owner signed for: whatever chain of   *)
(* delegations, batches and delegates named by delegates led to it, a call   *)
(* that runs in an account's name without its signature is one that the      *)
(* filter of a type the account itself once granted admits.                  *)
DelegatesFenced ==
    last # none /\ last.by # last.who =>
        \E type \in granted[last.who] : filter(type, last.call)

(* The gates for referenda and validators trust texts a registrar has read:  *)
(* an account qualifies only while it, or the parent it answers to, carries  *)
(* a social channel in exactly the texts a seated registrar vouched for,     *)
(* however requests, answers and changes of the texts cross each other.      *)
QualifiedWasVouched ==
    \A who \in Users : QualifiedIdentity(who) =>
        \E p \in {who, super[who]} \cap Users :
            /\ Known(p)
            /\ fields(identity[p].info) \cap Social # {}
            /\ [who |-> p, info |-> identity[p].info] \in vouched

=============================================================================

---------------------------- MODULE AccessProofs ----------------------------
(***************************************************************************)
(* The fence around delegates, for any set of accounts, however long the   *)
(* chains of delegates naming delegates grow.                              *)
(*                                                                         *)
(* DelegatesFenced is not inductive alone: it needs that every delegate on *)
(* record, also one a delegate named, holds a type within one that the     *)
(* owner signed for (Covered).  Covered survives because is_superset is    *)
(* transitive, and implies the fence because it orders the filters.        *)
(***************************************************************************)
EXTENDS Access, TLAPS

DelegatesTyped ==
  /\ proxies \in [Users -> SUBSET [delegate : Users, type : ProxyType]]
  /\ granted \in [Users -> SUBSET ProxyType]

\* Every delegate on record holds a type within one its owner signed for.
Covered ==
  \A u \in Users : \A def \in proxies[u] : \E g \in granted[u] : is_superset(g, def.type)

IInv == DelegatesTyped /\ Covered /\ DelegatesFenced

\* is_superset is transitive, so a delegate of a delegate stays within what the
\* owner signed for.
LEMMA SupersetTransitive ==
  ASSUME NEW x \in ProxyType, NEW y \in ProxyType, NEW z \in ProxyType,
         is_superset(x, y), is_superset(y, z)
  PROVE  is_superset(x, z)
BY DEF is_superset, ProxyType

\* The order of the types is the order of their filters: what the smaller type
\* admits the larger one admits (the proxy_type_lattice of the runtime's tests).
LEMMA SupersetAdmitsMore ==
  ASSUME NEW x \in ProxyType, NEW y \in ProxyType, NEW call,
         is_superset(x, y), filter(y, call)
  PROVE  filter(x, call)
<1>1. x = y \/ x = "Any" \/ (x = "NonTransfer" /\ y = "Governance")
  BY DEF is_superset, ProxyType
<1>2. CASE x = y
  BY <1>2
<1>3. CASE x = "Any"
  BY <1>3 DEF filter
<1>4. CASE x = "NonTransfer" /\ y = "Governance"
  <2>1. call.pallet \in {"Treasury", "Bounties", "ChildBounties",
                         "ConvictionVoting", "Referenda", "Utility"}
    BY <1>4 DEF filter
  <2>2. call.pallet \notin {"Balances", "Revive"} /\ call.pallet # "Vesting"
    BY <2>1
  <2>3. <<call.pallet, call.name>> # <<"Vesting", "vested_transfer">>
    BY <2>2
  <2> QED
    BY <1>4, <2>2, <2>3 DEF filter
<1> QED
  BY <1>1, <1>2, <1>3, <1>4

\* A signer acts in its own name, or through a delegation of the owner.
LEMMA OriginsAreDelegations ==
  ASSUME DelegatesTyped, NEW by \in Users, NEW origin \in Origins(by)
  PROVE  /\ origin.who \in Users
         /\ \/ origin.who = by /\ origin.via = "signed"
            \/ \E def \in proxies[origin.who] : origin.via = def.type
<1>1. ASSUME NEW d, NEW o \in Owners(d)
      PROVE  o.who \in Users /\ \E def \in proxies[o.who] : o.via = def.type
  BY <1>1 DEF Owners
<1>2. CASE origin = [who |-> by, via |-> "signed"]
  BY <1>2
<1>3. CASE \E d : origin \in Owners(d)
  BY <1>1, <1>3
<1> QED
  BY <1>2, <1>3 DEF Origins

\* What the fence admits, the filter of a type the owner signed for admits.
LEMMA AdmittedIsGranted ==
  ASSUME IInv, NEW by \in Users, NEW origin \in Origins(by), NEW call, NEW batched,
         Admits(origin.via, call, batched), origin.who # by
  PROVE  \E g \in granted[origin.who] : filter(g, call)
<1>1. PICK def \in proxies[origin.who] : origin.via = def.type
  BY OriginsAreDelegations DEF IInv
<1>2. origin.who \in Users
  BY OriginsAreDelegations DEF IInv
<1>3. PICK g \in granted[origin.who] : is_superset(g, def.type)
  BY <1>2 DEF IInv, Covered
<1>4. def.type \in ProxyType /\ g \in ProxyType
  BY <1>2 DEF IInv, DelegatesTyped
<1>5. filter(def.type, call)
  <2>1. def.type # "signed"
    BY <1>4 DEF ProxyType
  <2> QED
    BY <1>1, <2>1 DEF Admits, fence
<1> QED
  BY <1>3, <1>4, <1>5, SupersetAdmitsMore

\* Whatever ran under an admitted origin respects the fence, as long as no
\* grant is forgotten.
LEMMA RanIsFenced ==
  ASSUME IInv, NEW by \in Users, NEW origin \in Origins(by), NEW home, NEW call, NEW batched,
         Admits(origin.via, call, batched), Ran(by, origin, home, call),
         granted[origin.who] \subseteq granted'[origin.who]
  PROVE  DelegatesFenced'
<1>1. last'.by = by /\ last'.who = origin.who /\ last'.call = call
  BY DEF Ran
<1>2. CASE origin.who = by
  BY <1>1, <1>2 DEF DelegatesFenced
<1>3. CASE origin.who # by
  BY <1>1, <1>3, AdmittedIsGranted DEF DelegatesFenced
<1> QED
  BY <1>2, <1>3

LEMMA InitEstablishes == Init => IInv
BY DEF Init, IInv, DelegatesTyped, Covered, DelegatesFenced

\* A step that changes no delegation keeps the order of the types.
LEMMA DelegationsKept ==
  ASSUME IInv, proxies' = proxies, granted' = granted
  PROVE  DelegatesTyped' /\ Covered'
BY DEF IInv, DelegatesTyped, Covered

\* Naming a delegate: signed by the owner, the type is now one the owner signed
\* for; named by a delegate, the type is within that delegate's own.
LEMMA AddPreserves ==
  ASSUME IInv, NEW by \in Users, NEW origin \in Origins(by),
         NEW delegate \in Users, NEW type \in ProxyType,
         add_proxy(by, origin, delegate, type)
  PROVE  IInv'
<1> DEFINE def == [delegate |-> delegate, type |-> type]
           call == [pallet |-> "Proxy", name |-> "add_proxy", type |-> type]
<1>1. origin.who \in Users
  BY OriginsAreDelegations DEF IInv
<1>2. /\ Admits(origin.via, call, FALSE)
      /\ Ran(by, origin, net, call)
      /\ proxies' = [proxies EXCEPT ![origin.who] = @ \cup {def}]
      /\ granted' = IF by = origin.who
                    THEN [granted EXCEPT ![by] = @ \cup {type}] ELSE granted
  BY DEF add_proxy, Changing
<1>3. DelegatesTyped'
  BY <1>1, <1>2 DEF IInv, DelegatesTyped
<1>4. \A u \in Users : granted[u] \subseteq granted'[u]
  BY <1>2 DEF IInv, DelegatesTyped
<1>5. \E g \in granted'[origin.who] : is_superset(g, type)
  <2>1. CASE by = origin.who
    <3>1. type \in granted'[origin.who]
      BY <1>1, <1>2, <2>1 DEF IInv, DelegatesTyped
    <3> QED
      BY <3>1 DEF is_superset
  <2>2. CASE by # origin.who
    <3>1. PICK held \in proxies[origin.who] : origin.via = held.type
      BY <2>2, OriginsAreDelegations DEF IInv
    <3>2. PICK g \in granted[origin.who] : is_superset(g, held.type)
      BY <1>1, <3>1 DEF IInv, Covered
    <3>3. held.type \in ProxyType /\ g \in ProxyType
      BY <1>1, <3>1, <3>2 DEF IInv, DelegatesTyped
    <3>4. is_superset(held.type, type)
      BY <1>2, <3>1, <3>3 DEF Admits, fence, ProxyType
    <3>5. is_superset(g, type)
      BY <3>2, <3>3, <3>4, SupersetTransitive
    <3> QED
      BY <1>1, <1>4, <3>2, <3>5
  <2> QED
    BY <2>1, <2>2
<1>6. Covered'
  <2> SUFFICES ASSUME NEW u \in Users, NEW d \in proxies'[u]
               PROVE  \E g \in granted'[u] : is_superset(g, d.type)
    BY DEF Covered
  <2>1. CASE d \in proxies[u]
    BY <1>4, <2>1 DEF IInv, Covered
  <2>2. CASE d \notin proxies[u]
    <3>1. u = origin.who /\ d = def
      BY <1>1, <1>2, <2>2 DEF IInv, DelegatesTyped
    <3> QED
      BY <1>5, <3>1
  <2> QED
    BY <2>1, <2>2
<1>7. DelegatesFenced'
  BY <1>1, <1>2, <1>4, RanIsFenced
<1> QED
  BY <1>3, <1>6, <1>7 DEF IInv

LEMMA RemovePreserves ==
  ASSUME IInv, NEW by \in Users, NEW origin \in Origins(by), NEW def,
         remove_proxy(by, origin, def)
  PROVE  IInv'
<1> DEFINE call == [pallet |-> "Proxy", name |-> "remove_proxy", type |-> def.type]
<1>1. origin.who \in Users
  BY OriginsAreDelegations DEF IInv
<1>2. /\ Admits(origin.via, call, FALSE)
      /\ Ran(by, origin, net, call)
      /\ proxies' = [proxies EXCEPT ![origin.who] = @ \ {def}]
      /\ granted' = granted
  BY DEF remove_proxy, Changing
<1>3. DelegatesTyped'
  BY <1>1, <1>2 DEF IInv, DelegatesTyped
<1>4. \A u \in Users : proxies'[u] \subseteq proxies[u]
  BY <1>1, <1>2 DEF IInv, DelegatesTyped
<1>5. Covered'
  BY <1>2, <1>4 DEF IInv, Covered
<1>6. DelegatesFenced'
  BY <1>2, RanIsFenced
<1> QED
  BY <1>3, <1>5, <1>6 DEF IInv

\* A change made under an origin that leaves the delegations alone.
LEMMA ChangePreserves ==
  ASSUME IInv, NEW by \in Users, NEW origin \in Origins(by), NEW call,
         Changing(by, origin, call), proxies' = proxies, granted' = granted
  PROVE  IInv'
<1>1. Admits(origin.via, call, FALSE) /\ Ran(by, origin, net, call)
  BY DEF Changing
<1>2. DelegatesFenced'
  BY <1>1, RanIsFenced
<1> QED
  BY <1>2, DelegationsKept DEF IInv

LEMMA SignsPreserves ==
  ASSUME IInv, NEW by \in Users, Signs(by)
  PROVE  IInv'
<1>1. CASE \E home \in Networks, call \in Plain, batched \in BOOLEAN :
             Apply(by, home, call, batched)
  <2>1. PICK home \in Networks, call \in Plain, batched \in BOOLEAN, origin \in Origins(by) :
          Admits(origin.via, call, batched) /\ Ran(by, origin, home, call)
    BY <1>1 DEF Apply
  <2>2. proxies' = proxies /\ granted' = granted
    BY <1>1 DEF Apply
  <2>3. DelegatesFenced'
    BY <2>1, <2>2, RanIsFenced
  <2> QED
    BY <2>2, <2>3, DelegationsKept DEF IInv
<1>2. CASE \E home \in Networks : ApplyEth(by, home)
  <2>1. last'.by = last'.who /\ proxies' = proxies /\ granted' = granted
    BY <1>2 DEF ApplyEth, Ran
  <2> QED
    BY <2>1, DelegationsKept DEF IInv, DelegatesFenced
<1>3. ASSUME NEW origin \in Origins(by), NEW delegate \in Users, NEW type \in ProxyType,
             add_proxy(by, origin, delegate, type)
      PROVE  IInv'
  BY <1>3, AddPreserves
<1>4. ASSUME NEW origin \in Origins(by), NEW def \in proxies[origin.who],
             remove_proxy(by, origin, def)
      PROVE  IInv'
  BY <1>4, RemovePreserves
<1>5. ASSUME NEW origin \in Origins(by), NEW info \in Infos, set_identity(by, origin, info)
      PROVE  IInv'
  BY <1>5, ChangePreserves DEF set_identity
<1>6. ASSUME NEW origin \in Origins(by), clear_identity(by, origin)
      PROVE  IInv'
  BY <1>6, ChangePreserves DEF clear_identity
<1>7. ASSUME NEW origin \in Origins(by), NEW sub \in Users, add_sub(by, origin, sub)
      PROVE  IInv'
  BY <1>7, ChangePreserves DEF add_sub
<1>8. ASSUME NEW origin \in Origins(by), NEW index \in DOMAIN registrars,
             request_judgement(by, origin, index)
      PROVE  IInv'
  BY <1>8, ChangePreserves DEF request_judgement
<1> QED
  BY <1>1, <1>2, <1>3, <1>4, <1>5, <1>6, <1>7, <1>8 DEF Signs

LEMMA NextPreserves == IInv /\ [Next]_vars => IInv'
<1> SUFFICES ASSUME IInv, [Next]_vars PROVE IInv'
  OBVIOUS
<1>1. CASE \E by \in Users : Signs(by)
  BY <1>1, SignsPreserves
<1>2. ASSUME last' = none, proxies' = proxies, granted' = granted
      PROVE  IInv'
  BY <1>2, DelegationsKept DEF IInv, DelegatesFenced, none
<1>3. CASE \E index \in DOMAIN registrars, who \in Users, read \in Infos,
              judgement \in {"Reasonable", "Erroneous"} :
             provide_judgement(index, who, read, judgement)
  BY <1>2, <1>3 DEF provide_judgement
<1>4. CASE \E who \in Users : add_registrar(who)
  BY <1>2, <1>4 DEF add_registrar
<1>5. CASE \E index \in DOMAIN registrars : remove_registrar(index)
  BY <1>2, <1>5 DEF remove_registrar
<1>6. CASE UNCHANGED vars
  BY <1>6, DelegationsKept DEF vars, IInv, DelegatesFenced
<1> QED
  BY <1>1, <1>3, <1>4, <1>5, <1>6 DEF Next

\* Whoever acts in an account's name without its signature, at the end of any
\* chain of delegations, makes only calls that the filter of a type the account
\* itself granted admits: ProxyType's filter and is_superset agree.
THEOREM DelegatesAlwaysFenced == Spec => []DelegatesFenced
<1>1. IInv => DelegatesFenced
  BY DEF IInv
<1> QED
  BY <1>1, InitEstablishes, NextPreserves, PTL DEF Spec
=============================================================================

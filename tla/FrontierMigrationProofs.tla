----------------------- MODULE FrontierMigrationProofs -----------------------
(***************************************************************************)
(* The nonces of Ethereum signers across the upgrade and the claims after  *)
(* it, for every set of addresses, every nonce Frontier reached and every  *)
(* layout of its storage.                                                  *)
(***************************************************************************)
EXTENDS FrontierMigration, TLAPS

\* Of an address without a contract: a nonce above zero comes with the provider
\* that keeps the account, and is at least the one Frontier reached; the old
\* account still has that one unless the new account already does; the used
\* nonces lie between.
NonceFacts(f, o, n, u) ==
  /\ n.nonce # 0 => n.keep /\ n.nonce >= f
  /\ o.nonce = f \/ (o.nonce = 0 /\ n.nonce >= f)
  /\ \A k \in u : f <= k /\ k < n.nonce

IsContract(a) == rev[a].code # NoCode

\* The inductive invariant.  The upgrade starts a contract's nonce at one with no
\* provider behind it, and nobody signs for a contract.
NonceInv ==
  /\ old \in [Addresses -> Old]
  /\ new \in [Addresses -> New]
  /\ used \in [Addresses -> SUBSET Nat]
  /\ \A a \in Addresses :
       /\ old[a].done <= old[a].vest
       /\ IsContract(a) => used[a] = {}
       /\ ~IsContract(a) => NonceFacts(Frontier[a], old[a], new[a], used[a])
       /\ schema => ~IsContract(a) /\ used[a] = {}

Rising == \A a \in Addresses : new'[a].nonce >= new[a].nonce

\* What a step other than the upgrade has to show of the one address it touches.
LEMMA OneAddress ==
  ASSUME NonceInv, NEW a \in Addresses,
         NEW o \in Old, o.done <= o.vest, NEW n \in New, NEW u \in SUBSET Nat,
         IsContract(a) => u = {},
         ~IsContract(a) => NonceFacts(Frontier[a], o, n, u),
         schema => u = {},
         n.nonce >= new[a].nonce,
         old' = [old EXCEPT ![a] = o], new' = [new EXCEPT ![a] = n],
         used' = [used EXCEPT ![a] = u], UNCHANGED <<rev, schema>>
  PROVE  NonceInv' /\ Rising
<1>1. /\ old' \in [Addresses -> Old] /\ new' \in [Addresses -> New]
      /\ used' \in [Addresses -> SUBSET Nat]
  BY DEF NonceInv
<1>2. \A b \in Addresses :
        /\ old'[b] = IF b = a THEN o ELSE old[b]
        /\ new'[b] = IF b = a THEN n ELSE new[b]
        /\ used'[b] = IF b = a THEN u ELSE used[b]
        /\ IsContract(b)' <=> IsContract(b)
  BY DEF NonceInv, IsContract
<1>3. ASSUME NEW b \in Addresses
      PROVE  /\ old'[b].done <= old'[b].vest
             /\ IsContract(b)' => used'[b] = {}
             /\ ~IsContract(b)' => NonceFacts(Frontier[b], old'[b], new'[b], used'[b])
             /\ schema' => ~IsContract(b)' /\ used'[b] = {}
  BY <1>2 DEF NonceInv
<1>4. Rising
  <2> SUFFICES ASSUME NEW b \in Addresses PROVE new'[b].nonce >= new[b].nonce
    BY DEF Rising
  <2>1. new[b].nonce \in Nat
    BY DEF NonceInv, New
  <2> QED
    BY <1>2, <2>1
<1> QED
  BY <1>1, <1>3, <1>4 DEF NonceInv

LEMMA Carried ==
  ASSUME NEW o \in Old, NEW n \in New
  PROVE  LET c == carry_nonce(o, n)
         IN  /\ c \in New /\ c.bal = n.bal /\ c.vest = n.vest
             /\ c.nonce >= n.nonce /\ c.nonce >= o.nonce
             /\ (n.nonce # 0 => n.keep) => (c.nonce # 0 => c.keep)
<1>1. n.nonce \in Nat /\ o.nonce \in Nat
  BY DEF New, Old
<1>2. CASE nonce_due(o, n)
  <2> DEFINE kept == n.keep \/ n.nonce = 0
             c == [n EXCEPT !.nonce = o.nonce, !.keep = kept]
  <2>1. carry_nonce(o, n) = c
    BY <1>2 DEF carry_nonce
  <2>2. kept \in BOOLEAN
    BY DEF New
  <2>3. kept <=> n.keep \/ n.nonce = 0
    OBVIOUS
  <2> HIDE DEF kept
  <2>4. /\ c \in New /\ c.bal = n.bal /\ c.vest = n.vest
        /\ c.nonce = o.nonce /\ c.keep = kept
    BY <1>1, <2>2 DEF New
  <2> HIDE DEF c
  <2> QED
    BY <1>1, <1>2, <2>1, <2>3, <2>4 DEF nonce_due
<1>3. CASE ~nonce_due(o, n)
  <2>1. carry_nonce(o, n) = n
    BY <1>3 DEF carry_nonce
  <2> QED
    BY <1>1, <1>3, <2>1 DEF nonce_due
<1> QED
  BY <1>2, <1>3

\* What move_legacy leaves of an address's two accounts.
LEMMA MovedAccounts ==
  ASSUME NEW o \in Old, o.done <= o.vest, NEW n \in New
  PROVE  /\ Moved(o, n) \in New /\ Moved(o, n).nonce >= n.nonce
         /\ OldAfter(o) \in Old /\ OldAfter(o).done <= OldAfter(o).vest
         /\ \A f \in Nat, u \in SUBSET Nat :
              NonceFacts(f, o, n, u) => NonceFacts(f, OldAfter(o), Moved(o, n), u)
<1> DEFINE c == carry_nonce(o, n)
           m == Moved(o, n)
<1>1. /\ c \in New /\ c.nonce >= n.nonce /\ c.nonce >= o.nonce
      /\ (n.nonce # 0 => n.keep) => (c.nonce # 0 => c.keep)
  BY Carried
<1>2. deposit(o, n) \in Nat
  BY ClaimsAssumption DEF deposit
<1>3. m \in New /\ m.nonce = c.nonce /\ m.keep = c.keep
  <2>1. CASE Moves(o)
    <3> DEFINE more == c.bal + deposit(o, n) + o.bal
               left == c.vest + (o.vest - o.done)
    <3>1. more \in Nat /\ left \in Nat
      BY <1>1, <1>2 DEF New, Old
    <3>2. m = [c EXCEPT !.bal = more, !.vest = left]
      BY <2>1 DEF Moved
    <3> HIDE DEF more, left, m, c
    <3> QED
      BY <1>1, <3>1, <3>2 DEF New
  <2>2. CASE ~Moves(o)
    BY <1>1, <2>2 DEF Moved
  <2> QED
    BY <2>1, <2>2
<1> HIDE DEF m, c
<1>4. /\ OldAfter(o) \in Old /\ OldAfter(o).done <= OldAfter(o).vest
      /\ OldAfter(o).nonce \in {0, o.nonce}
  BY DEF OldAfter, Gone, Old
<1>5. c.nonce \in Nat /\ n.nonce \in Nat /\ o.nonce \in Nat
  BY <1>1 DEF New, Old
<1>6. ASSUME NEW f \in Nat, NEW u \in SUBSET Nat, NonceFacts(f, o, n, u)
      PROVE  NonceFacts(f, OldAfter(o), m, u)
  <2>1. m.nonce >= f /\ (m.nonce # 0 => m.keep)
    BY <1>1, <1>3, <1>5, <1>6 DEF NonceFacts
  <2>2. \A k \in u : k \in Nat /\ f <= k /\ k < m.nonce
    BY <1>1, <1>3, <1>5, <1>6 DEF NonceFacts
  <2> QED
    BY <1>4, <1>6, <2>1, <2>2 DEF NonceFacts
<1> QED
  BY <1>1, <1>3, <1>4, <1>5, <1>6 DEF m

LEMMA ClaimNonces ==
  ASSUME NonceInv, NEW a \in Addresses, Claim(a), UNCHANGED chain
  PROVE  NonceInv' /\ Rising
<1> DEFINE m == Moved(old[a], new[a])
           fee == Withdrawn(m, fee_due(old[a]))
           n == [m EXCEPT !.bal = @ - fee]
<1>1. /\ old[a] \in Old /\ old[a].done <= old[a].vest /\ new[a] \in New
      /\ used[a] \in SUBSET Nat /\ Frontier[a] \in Nat
      /\ IsContract(a) => used[a] = {}
      /\ ~IsContract(a) => NonceFacts(Frontier[a], old[a], new[a], used[a])
      /\ schema => used[a] = {}
  BY ClaimsAssumption DEF NonceInv
<1>2. /\ m \in New /\ m.nonce >= new[a].nonce
      /\ OldAfter(old[a]) \in Old /\ OldAfter(old[a]).done <= OldAfter(old[a]).vest
      /\ ~IsContract(a) => NonceFacts(Frontier[a], OldAfter(old[a]), m, used[a])
  BY <1>1, MovedAccounts
<1>3. fee_due(old[a]) \in Nat
  BY <1>1, ClaimsAssumption DEF fee_due, Least, spendable, Old
<1> HIDE DEF m
<1>4. fee \in Nat /\ m.bal - fee \in Nat
  BY <1>2, <1>3, ClaimsAssumption DEF Withdrawn, Least, Most, New
<1> HIDE DEF fee
<1>5. n \in New /\ n.nonce = m.nonce /\ n.keep = m.keep
  BY <1>2, <1>4 DEF New
<1>6. /\ new' = [new EXCEPT ![a] = n] /\ old' = [old EXCEPT ![a] = OldAfter(old[a])]
      /\ UNCHANGED <<rev, schema>>
  BY DEF Claim, m, fee, chain
<1>7. used' = [used EXCEPT ![a] = used[a]]
  BY DEF Claim, NonceInv
<1> HIDE DEF n
<1>8. ~IsContract(a) => NonceFacts(Frontier[a], OldAfter(old[a]), n, used[a])
  BY <1>2, <1>5 DEF NonceFacts
<1> QED
  BY <1>1, <1>2, <1>5, <1>6, <1>7, <1>8, OneAddress

LEMMA SignNonces ==
  ASSUME NonceInv, NEW a \in Addresses, Sign(a), ~schema, ~IsContract(a), UNCHANGED chain
  PROVE  NonceInv' /\ Rising
<1> DEFINE l == lift_nonce(a)
           n == Signed(l)
           u == used[a] \cup {l.nonce}
<1>1. /\ old[a] \in Old /\ old[a].done <= old[a].vest /\ new[a] \in New
      /\ used[a] \in SUBSET Nat /\ Frontier[a] \in Nat
      /\ NonceFacts(Frontier[a], old[a], new[a], used[a])
  BY ClaimsAssumption DEF NonceInv
<1>2. /\ l \in New /\ l.nonce >= new[a].nonce /\ l.nonce >= Frontier[a]
      /\ l.nonce # 0 => l.keep
  <2>1. CASE new[a].nonce = 0
    <3> DEFINE c == carry_nonce(old[a], new[a])
    <3>1. /\ c \in New /\ c.nonce >= new[a].nonce /\ c.nonce >= old[a].nonce
          /\ c.nonce # 0 => c.keep
      BY <1>1, <2>1, Carried
    <3>2. l = c
      BY <2>1 DEF lift_nonce
    <3> HIDE DEF c
    <3> QED
      BY <1>1, <2>1, <3>1, <3>2 DEF NonceFacts, New, Old
  <2>2. CASE new[a].nonce # 0
    BY <1>1, <2>2 DEF lift_nonce, NonceFacts, New
  <2> QED
    BY <2>1, <2>2
<1> HIDE DEF l
<1>3. l.nonce \in Nat /\ new[a].nonce \in Nat /\ l.nonce + 1 \in Nat
  BY <1>1, <1>2 DEF New
<1>4. n \in New /\ n.nonce = l.nonce + 1 /\ n.keep
  BY <1>2, <1>3 DEF Signed, New
<1>5. /\ new' = [new EXCEPT ![a] = n] /\ used' = [used EXCEPT ![a] = u]
      /\ old' = [old EXCEPT ![a] = old[a]] /\ UNCHANGED <<rev, schema>>
  BY DEF Sign, l, NonceInv, chain
<1> HIDE DEF n
<1>6. u \in SUBSET Nat /\ NonceFacts(Frontier[a], old[a], n, u)
  BY <1>1, <1>2, <1>3, <1>4 DEF NonceFacts
<1> HIDE DEF u
<1>7. n.nonce >= new[a].nonce
  BY <1>2, <1>3, <1>4
<1> QED
  BY <1>1, <1>4, <1>5, <1>6, <1>7, OneAddress

LEMMA DrainNonces ==
  ASSUME NonceInv, NEW a \in Addresses, Drain(a), ~schema, ~IsContract(a), UNCHANGED chain
  PROVE  NonceInv' /\ Rising
<1> DEFINE e == [new[a] EXCEPT !.bal = 0]
           n == Reaped(e)
<1>1. /\ old[a] \in Old /\ old[a].done <= old[a].vest /\ new[a] \in New
      /\ used[a] \in SUBSET Nat /\ NonceFacts(Frontier[a], old[a], new[a], used[a])
  BY DEF NonceInv
<1>2. /\ new' = [new EXCEPT ![a] = n] /\ used' = [used EXCEPT ![a] = used[a]]
      /\ old' = [old EXCEPT ![a] = old[a]] /\ UNCHANGED <<rev, schema>>
  BY DEF Drain, NonceInv, chain
<1>3. e \in New /\ e.nonce = new[a].nonce /\ e.keep = new[a].keep /\ e.bal = 0
  BY <1>1 DEF New
<1> HIDE DEF e
<1>4. n \in New /\ n.nonce = new[a].nonce /\ n.keep = new[a].keep
  BY <1>1, <1>3 DEF Reaped, NonceFacts, New
<1> HIDE DEF n
<1>5. NonceFacts(Frontier[a], old[a], n, used[a]) /\ n.nonce >= new[a].nonce
  BY <1>1, <1>4 DEF NonceFacts, New
<1> QED
  BY <1>1, <1>2, <1>4, <1>5, OneAddress

\* The other steps leave nonces and providers alone.
LEMMA OtherNonces ==
  ASSUME NonceInv, NEW a \in Addresses, NEW o \in Old, NEW n \in New,
         o.done <= o.vest, o.nonce = old[a].nonce,
         n.nonce = new[a].nonce, n.keep = new[a].keep,
         old' = [old EXCEPT ![a] = o], new' = [new EXCEPT ![a] = n],
         UNCHANGED <<used, rev, schema>>
  PROVE  NonceInv' /\ Rising
<1>1. /\ used[a] \in SUBSET Nat
      /\ IsContract(a) => used[a] = {}
      /\ ~IsContract(a) => NonceFacts(Frontier[a], old[a], new[a], used[a])
      /\ schema => used[a] = {}
      /\ used' = [used EXCEPT ![a] = used[a]] /\ new[a].nonce \in Nat
  BY DEF NonceInv, New
<1>2. /\ ~IsContract(a) => NonceFacts(Frontier[a], o, n, used[a])
      /\ n.nonce >= new[a].nonce
  BY <1>1 DEF NonceFacts
<1> QED
  BY <1>1, <1>2, OneAddress

LEMMA OutsideNonces ==
  ASSUME NonceInv, NEW a \in Addresses,
         \/ \E p \in Payments : Pay(a, p)
         \/ VestedTransfer(a) \/ Vest(a) \/ Mature(a) \/ Release(a) \/ Payout(a),
         UNCHANGED chain
  PROVE  NonceInv' /\ Rising
<1>1. /\ old[a] \in Old /\ old[a].done <= old[a].vest /\ new[a] \in New
      /\ old = [old EXCEPT ![a] = old[a]] /\ new = [new EXCEPT ![a] = new[a]]
  BY DEF NonceInv
<1>2. ASSUME NEW p \in Payments, Pay(a, p) PROVE NonceInv' /\ Rising
  <2>1. p \in Nat
    BY ClaimsAssumption
  <2>2. CASE new' = [new EXCEPT ![a].bal = @ + p] /\ UNCHANGED old
    <3> DEFINE n == [new[a] EXCEPT !.bal = new[a].bal + p]
    <3>1. n \in New /\ n.nonce = new[a].nonce /\ n.keep = new[a].keep
      BY <1>1, <2>1 DEF New
    <3>2. new' = [new EXCEPT ![a] = n] /\ old' = [old EXCEPT ![a] = old[a]] /\ UNCHANGED <<used, rev, schema>>
      BY <1>1, <1>2, <2>2 DEF Pay, chain
    <3> HIDE DEF n
    <3> QED
      BY <1>1, <3>1, <3>2, OtherNonces
  <2>3. CASE old' = [old EXCEPT ![a].bal = @ + p] /\ UNCHANGED new
    <3> DEFINE o == [old[a] EXCEPT !.bal = old[a].bal + p]
    <3>1. o \in Old /\ o.nonce = old[a].nonce /\ o.done <= o.vest
      BY <1>1, <2>1 DEF Old
    <3>2. old' = [old EXCEPT ![a] = o] /\ new' = [new EXCEPT ![a] = new[a]] /\ UNCHANGED <<used, rev, schema>>
      BY <1>1, <1>2, <2>3 DEF Pay, chain
    <3> HIDE DEF o
    <3> QED
      BY <1>1, <3>1, <3>2, OtherNonces
  <2> QED
    BY <1>2, <2>2, <2>3 DEF Pay
<1>3. CASE VestedTransfer(a)
  <2> DEFINE b == new[a].bal + 1
             v == new[a].vest + 1
             n == [new[a] EXCEPT !.bal = b, !.vest = v]
  <2>1. new' = [new EXCEPT ![a] = n] /\ old' = [old EXCEPT ![a] = old[a]] /\ UNCHANGED <<used, rev, schema>>
    BY <1>1, <1>3 DEF VestedTransfer, chain
  <2>2. b \in Nat /\ v \in Nat
    BY <1>1 DEF New
  <2> HIDE DEF b, v
  <2>3. n \in New /\ n.nonce = new[a].nonce /\ n.keep = new[a].keep
    BY <1>1, <2>2 DEF New
  <2> HIDE DEF n
  <2> QED
    BY <1>1, <2>1, <2>3, OtherNonces
<1>4. CASE Vest(a)
  <2> DEFINE n == [new[a] EXCEPT !.vest = new[a].vest - 1]
  <2>1. n \in New /\ n.nonce = new[a].nonce /\ n.keep = new[a].keep
    BY <1>1, <1>4 DEF New, Vest
  <2>2. new' = [new EXCEPT ![a] = n] /\ old' = [old EXCEPT ![a] = old[a]] /\ UNCHANGED <<used, rev, schema>>
    BY <1>1, <1>4 DEF Vest, chain
  <2> HIDE DEF n
  <2> QED
    BY <1>1, <2>1, <2>2, OtherNonces
<1>5. CASE Mature(a)
  <2> DEFINE o == [old[a] EXCEPT !.done = old[a].done + 1]
  <2>1. o \in Old /\ o.nonce = old[a].nonce /\ o.done <= o.vest
    BY <1>1, <1>5 DEF Old, Mature
  <2>2. old' = [old EXCEPT ![a] = o] /\ new' = [new EXCEPT ![a] = new[a]] /\ UNCHANGED <<used, rev, schema>>
    BY <1>1, <1>5 DEF Mature, chain
  <2> HIDE DEF o
  <2> QED
    BY <1>1, <2>1, <2>2, OtherNonces
<1>6. CASE Release(a)
  <2> DEFINE o == [old[a] EXCEPT !.held = FALSE]
  <2>1. o \in Old /\ o.nonce = old[a].nonce /\ o.done <= o.vest
    BY <1>1 DEF Old
  <2>2. old' = [old EXCEPT ![a] = o] /\ new' = [new EXCEPT ![a] = new[a]] /\ UNCHANGED <<used, rev, schema>>
    BY <1>1, <1>6 DEF Release, chain
  <2> HIDE DEF o
  <2> QED
    BY <1>1, <2>1, <2>2, OtherNonces
<1>7. CASE Payout(a)
  <2> DEFINE out == Withdrawn(new[a], new[a].bal)
             b == new[a].bal - out
             n == [new[a] EXCEPT !.bal = b]
  <2>1. b \in Nat
    BY <1>1, ClaimsAssumption DEF Withdrawn, Least, Most, New
  <2>2. /\ new' = [new EXCEPT ![a] = n] /\ old' = [old EXCEPT ![a] = old[a]]
        /\ UNCHANGED <<used, rev, schema>>
    BY <1>1, <1>7 DEF Payout, chain
  <2> HIDE DEF b
  <2>3. n \in New /\ n.nonce = new[a].nonce /\ n.keep = new[a].keep
    BY <1>1, <2>1 DEF New
  <2> HIDE DEF n
  <2> QED
    BY <1>1, <2>2, <2>3, OtherNonces
<1> QED
  BY <1>2, <1>3, <1>4, <1>5, <1>6, <1>7

LEMMA Installs ==
  ASSUME NEW n \in New
  PROVE  install(n) \in New /\ install(n).nonce >= n.nonce
<1> DEFINE b == n.bal + opening(n)
           k == IF n.nonce = 0 THEN 1 ELSE n.nonce
<1>1. b \in Nat /\ k \in Nat /\ k >= n.nonce
  BY ClaimsAssumption DEF opening, New
<1>2. install(n) = [n EXCEPT !.bal = b, !.nonce = k]
  BY DEF install
<1> HIDE DEF b, k
<1> QED
  BY <1>1, <1>2 DEF New

\* An address before its known account moves: typed, and its nonce not lower.  One
\* the upgrade gives no contract keeps its facts.
LEMMA PlacedAccounts ==
  ASSUME NonceInv, NEW a \in Addresses
  PROVE  /\ Placed(a) \in New /\ Placed(a).nonce >= new[a].nonce
         /\ Left(a) \in Old /\ Left(a).done <= Left(a).vest
         /\ ~Installed(a) /\ ~deploy_token_proxy(a) /\ ~IsContract(a) =>
              NonceFacts(Frontier[a], Left(a), Placed(a), used[a])
<1> DEFINE r == Receiver(a)
           n == IF move_contract(a) THEN Moved(old[a], r) ELSE new[a]
<1>1. /\ old[a] \in Old /\ old[a].done <= old[a].vest /\ new[a] \in New
      /\ used[a] \in SUBSET Nat /\ Frontier[a] \in Nat
      /\ ~IsContract(a) => NonceFacts(Frontier[a], old[a], new[a], used[a])
  BY ClaimsAssumption DEF NonceInv
<1>2. r \in New /\ r.nonce >= new[a].nonce
  BY <1>1, Installs DEF Receiver, New
<1>3. is_delegation(evm[a].code) => r = new[a]
  BY DEF Receiver
<1> HIDE DEF r
<1>4. n \in New /\ n.nonce >= new[a].nonce
  <2>1. Moved(old[a], r) \in New /\ Moved(old[a], r).nonce >= r.nonce
    BY <1>1, <1>2, MovedAccounts
  <2>2. CASE move_contract(a)
    BY <1>1, <1>2, <2>1, <2>2 DEF New
  <2>3. CASE ~move_contract(a)
    BY <1>1, <2>3 DEF New
  <2> QED
    BY <2>2, <2>3
<1>5. Placed(a) = IF deploy_token_proxy(a) THEN install(n) ELSE n
  BY DEF Placed, r
<1>6. Left(a) \in Old /\ Left(a).done <= Left(a).vest
  BY <1>1, MovedAccounts DEF Left
<1>7. ASSUME ~Installed(a), ~deploy_token_proxy(a), ~IsContract(a)
      PROVE  NonceFacts(Frontier[a], Left(a), n, used[a])
  <2>1. CASE move_contract(a)
    <3>1. r = new[a]
      BY <1>3, <1>7, <2>1 DEF Installed
    <3>2. NonceFacts(Frontier[a], OldAfter(old[a]), Moved(old[a], new[a]), used[a])
      BY <1>1, <1>7, MovedAccounts
    <3> QED
      BY <2>1, <3>1, <3>2 DEF Left
  <2>2. CASE ~move_contract(a)
    BY <1>1, <1>7, <2>2 DEF Left
  <2> QED
    BY <2>1, <2>2
<1> HIDE DEF n
<1>8. Placed(a) \in New /\ Placed(a).nonce >= new[a].nonce
  <2>1. install(n) \in New /\ install(n).nonce >= n.nonce
    BY <1>4, Installs
  <2> QED
    BY <1>1, <1>4, <1>5, <2>1 DEF New
<1> QED
  BY <1>5, <1>6, <1>7, <1>8

\* The upgrade moves every address at once.
LEMMA UpgradeNonces ==
  ASSUME NonceInv, Upgrade
  PROVE  NonceInv' /\ Rising
<1> DEFINE o(a) == IF move_account(a) THEN OldAfter(Left(a)) ELSE Left(a)
           n(a) == IF move_account(a) THEN Moved(Left(a), Placed(a)) ELSE Placed(a)
<1>1. /\ old' = [a \in Addresses |-> o(a)] /\ new' = [a \in Addresses |-> n(a)]
      /\ rev' = [a \in Addresses |-> Held(a)]
      /\ used' = used /\ schema /\ ~schema'
  BY DEF Upgrade
<1>2. ASSUME NEW a \in Addresses
      PROVE  /\ o(a) \in Old /\ n(a) \in New /\ o(a).done <= o(a).vest
             /\ n(a).nonce >= new[a].nonce
             /\ Held(a).code = NoCode => NonceFacts(Frontier[a], o(a), n(a), used[a])
             /\ used[a] = {}
  <2>1. /\ Placed(a) \in New /\ Placed(a).nonce >= new[a].nonce
        /\ Left(a) \in Old /\ Left(a).done <= Left(a).vest
        /\ ~Installed(a) /\ ~deploy_token_proxy(a) /\ ~IsContract(a) =>
             NonceFacts(Frontier[a], Left(a), Placed(a), used[a])
    BY PlacedAccounts
  <2>2. /\ ~IsContract(a) /\ used[a] = {} /\ used[a] \in SUBSET Nat /\ Frontier[a] \in Nat
        /\ new[a].nonce \in Nat
    BY <1>1, ClaimsAssumption DEF NonceInv, New
  <2>3. Held(a).code = NoCode => ~Installed(a) /\ ~deploy_token_proxy(a)
    BY MigrationAssumption DEF Held, Installed, move_contract, Contracts
  <2>4. /\ Moved(Left(a), Placed(a)) \in New
        /\ Moved(Left(a), Placed(a)).nonce >= Placed(a).nonce
        /\ OldAfter(Left(a)) \in Old /\ OldAfter(Left(a)).done <= OldAfter(Left(a)).vest
        /\ NonceFacts(Frontier[a], Left(a), Placed(a), used[a]) =>
             NonceFacts(Frontier[a], OldAfter(Left(a)), Moved(Left(a), Placed(a)), used[a])
    BY <2>1, <2>2, MovedAccounts
  <2>5. Placed(a).nonce \in Nat /\ Moved(Left(a), Placed(a)).nonce \in Nat
    BY <2>1, <2>4 DEF New
  <2>6. CASE move_account(a)
    <3>1. o(a) = OldAfter(Left(a)) /\ n(a) = Moved(Left(a), Placed(a))
      BY <2>6
    <3> HIDE DEF o, n
    <3> QED
      BY <2>1, <2>2, <2>3, <2>4, <2>5, <3>1
  <2>7. CASE ~move_account(a)
    <3>1. o(a) = Left(a) /\ n(a) = Placed(a)
      BY <2>7
    <3> HIDE DEF o, n
    <3> QED
      BY <2>1, <2>2, <2>3, <3>1
  <2> QED
    BY <2>6, <2>7
<1> HIDE DEF o, n
<1>3. /\ old' \in [Addresses -> Old] /\ new' \in [Addresses -> New]
      /\ used' \in [Addresses -> SUBSET Nat]
  BY <1>1, <1>2 DEF NonceInv
<1>4. ASSUME NEW a \in Addresses
      PROVE  /\ old'[a].done <= old'[a].vest
             /\ IsContract(a)' => used'[a] = {}
             /\ ~IsContract(a)' => NonceFacts(Frontier[a], old'[a], new'[a], used'[a])
             /\ new'[a].nonce >= new[a].nonce
  <2>1. old'[a] = o(a) /\ new'[a] = n(a) /\ rev'[a] = Held(a) /\ used'[a] = used[a]
    BY <1>1
  <2>2. ~IsContract(a)' => Held(a).code = NoCode
    BY <2>1 DEF IsContract
  <2> QED
    BY <1>2, <2>1, <2>2
<1> QED
  BY <1>1, <1>3, <1>4 DEF NonceInv, Rising

LEMMA InitNonces == MInit => NonceInv
<1> SUFFICES ASSUME MInit PROVE NonceInv
  OBVIOUS
<1>1. old \in [Addresses -> {o \in Old : o.done <= o.vest}]
  BY ClaimsAssumption DEF MInit, Init
<1>2. new \in [Addresses -> New] /\ used \in [Addresses -> SUBSET Nat]
  BY DEF MInit, Init, New
<1>3. ASSUME NEW a \in Addresses
      PROVE  NonceFacts(Frontier[a], old[a], new[a], used[a]) /\ used[a] = {}
  BY DEF MInit, Init, NonceFacts
<1>4. \A a \in Addresses : ~IsContract(a)
  BY DEF MInit, Empty, IsContract
<1> QED
  BY <1>1, <1>2, <1>3, <1>4 DEF NonceInv

LEMMA StutterNonces == NonceInv /\ UNCHANGED <<vars, rev, schema>> => NonceInv' /\ Rising
<1> SUFFICES ASSUME NonceInv, UNCHANGED <<vars, rev, schema>> PROVE NonceInv' /\ Rising
  OBVIOUS
<1>1. NonceInv'
  BY DEF vars, NonceInv, NonceFacts, IsContract
<1>2. \A a \in Addresses : new[a].nonce \in Nat
  BY DEF NonceInv, New
<1> QED
  BY <1>1, <1>2 DEF vars, Rising

LEMMA StepNonces == NonceInv /\ [MNext]_all => NonceInv' /\ Rising
<1> SUFFICES ASSUME NonceInv, [MNext]_all PROVE NonceInv' /\ Rising
  OBVIOUS
<1>1. CASE Upgrade
  BY <1>1, UpgradeNonces
<1>2. ASSUME NEW a \in Addresses, UNCHANGED chain,
             \/ ~schema /\ Claim(a)
             \/ ~schema /\ rev[a].code = NoCode /\ (Sign(a) \/ Drain(a))
             \/ Payout(a)
             \/ \E n \in Payments : Pay(a, n)
             \/ VestedTransfer(a) \/ Vest(a) \/ Mature(a) \/ Release(a)
      PROVE  NonceInv' /\ Rising
  BY <1>2, ClaimNonces, SignNonces, DrainNonces, OutsideNonces DEF IsContract
<1>3. CASE UNCHANGED <<vars, evm, rev, refs, schema, hashes, pallet, mapped, was>>
  BY <1>3, StutterNonces
<1>4. CASE UNCHANGED all
  BY <1>4, StutterNonces DEF all, chain
<1> QED
  BY <1>1, <1>2, <1>3, <1>4 DEF MNext

\* For every set of addresses, every nonce Frontier reached and every layout of its
\* storage, no transaction of an Ethereum signer runs twice, in whatever order
\* claims, first signatures, drains and payments follow the upgrade.
THEOREM SpentAlwaysStaysSpent == MSpec => []SpentStaysSpent
<1>1. NonceInv => SpentStaysSpent
  BY DEF NonceInv, NonceFacts, SpentStaysSpent
<1> QED
  BY <1>1, InitNonces, StepNonces, PTL DEF MSpec

\* The nonce of the account pallet-revive resolves an address to never falls, in
\* the upgrade or after it, a contract's included.
THEOREM NonceAlwaysRises == MSpec => NonceNeverFalls
<1>1. NonceInv /\ [MNext]_all => [Rising]_vars
  BY StepNonces
<1>2. NonceNeverFalls <=> [][Rising]_vars
  BY PTL DEF NonceNeverFalls, Rising
<1> QED
  BY <1>1, <1>2, InitNonces, StepNonces, PTL DEF MSpec
=============================================================================

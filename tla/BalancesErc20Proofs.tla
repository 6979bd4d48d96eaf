------------------------ MODULE BalancesErc20Proofs ------------------------
(***************************************************************************)
(* Allowances and permits of the native token, for every set of users,     *)
(* every opening balance and every permit signed.                          *)
(***************************************************************************)
EXTENDS BalancesErc20, TLAPS

\* The inductive invariant.  An owner's nonce cannot have saturated while fewer
\* permits were accepted than a uint256 counts.
IInv ==
  /\ TypeOK
  /\ SpendingBounded
  /\ \A a \in Accounts : ledger.nonces[a] <= Len(accepted)
  /\ Len(accepted) <= MaxU256 => PermitsOnce

\* What moving funds leaves alone.
Keeps(l, m) == m \in Ledger /\ m.allowances = l.allowances /\ m.nonces = l.nonces

LEMMA MovingKeeps ==
  ASSUME NEW l \in Ledger, NEW from \in Accounts, NEW to \in Accounts, NEW n \in Nat,
         from # to => n <= l.free[from]
  PROVE  Keeps(l, Moving(l, from, to, n))
<1> DEFINE free == [a \in Accounts |-> IF from = to THEN l.free[a]
                                       ELSE IF a = from THEN l.free[a] - n
                                       ELSE IF a = to THEN l.free[a] + n ELSE l.free[a]]
<1>1. Moving(l, from, to, n) = [l EXCEPT !.free = free]
  BY DEF Moving
<1>2. l.free \in [Accounts -> Nat]
  BY DEF Ledger
<1>3. free \in [Accounts -> Nat]
  BY <1>2
<1> HIDE DEF free
<1> QED
  BY <1>1, <1>3 DEF Keeps, Ledger

LEMMA TransferKeeps ==
  ASSUME NEW l \in Ledger, NEW from \in Accounts, NEW to \in Accounts, NEW n \in Nat
  PROVE  Keeps(l, Transfer(l, from, to, n).ledger)
<1>1. CASE n <= reducible(l, from) /\ l.free[to] + n >= ExistentialDeposit
  <2>1. n <= l.free[from]
    <3>1. l.free[from] \in Nat /\ Frozen[from] \in Nat /\ ExistentialDeposit \in Nat
      BY Erc20Assumption DEF Ledger
    <3> QED
      BY <1>1, <3>1 DEF reducible
  <2>2. Transfer(l, from, to, n).ledger = Moving(l, from, to, n)
    BY <1>1 DEF Transfer, Ok
  <2> QED
    BY <2>1, <2>2, MovingKeeps
<1>2. CASE ~(n <= reducible(l, from) /\ l.free[to] + n >= ExistentialDeposit)
  BY <1>2 DEF Transfer, Revert, Keeps
<1> QED
  BY <1>1, <1>2

LEMMA MintKeeps ==
  ASSUME NEW l \in Ledger, NEW to \in Accounts, NEW n \in Nat
  PROVE  Keeps(l, mint_into(l, to, n).ledger)
<1>1. CASE l.issuance + n <= MaxBalance
  <2> DEFINE free == [l.free EXCEPT ![to] = l.free[to] + n]
             issuance == l.issuance + n
  <2>1. free \in [Accounts -> Nat] /\ issuance \in Nat
    BY DEF Ledger
  <2>2. mint_into(l, to, n).ledger = [l EXCEPT !.free = free, !.issuance = issuance]
    BY <1>1 DEF mint_into, Ok
  <2> HIDE DEF free, issuance
  <2> QED
    BY <2>1, <2>2 DEF Keeps, Ledger
<1>2. CASE ~(l.issuance + n <= MaxBalance)
  BY <1>2 DEF mint_into, Revert, Keeps
<1> QED
  BY <1>1, <1>2

LEMMA MoveFundsKeeps ==
  ASSUME NEW l \in Ledger, NEW from \in Accounts, NEW to \in Accounts, NEW n \in Nat
  PROVE  Keeps(l, move_funds(l, from, to, n).ledger)
<1> DEFINE m == mint_into(l, to, ExistentialDeposit).ledger
           inactive == m.inactive + ExistentialDeposit
           opened == [m EXCEPT !.inactive = inactive]
<1>1. Keeps(l, m)
  BY Erc20Assumption, MintKeeps
<1> HIDE DEF m
<1>2. inactive \in Nat
  BY <1>1, Erc20Assumption DEF Keeps, Ledger
<1> HIDE DEF inactive
<1>3. Keeps(l, opened)
  BY <1>1, <1>2 DEF Keeps, Ledger
<1> HIDE DEF opened
<1>4. Keeps(l, Transfer(opened, from, to, n).ledger)
  BY <1>3, TransferKeeps DEF Keeps
<1>5. Keeps(l, Transfer(l, from, to, n).ledger)
  BY TransferKeeps
<1>6. move_funds(l, from, to, n).ledger
        \in {l, Transfer(l, from, to, n).ledger, Transfer(opened, from, to, n).ledger}
  BY DEF move_funds, Ok, Revert, m, opened, inactive
<1>7. Keeps(l, l)
  BY DEF Keeps
<1> QED
  BY <1>4, <1>5, <1>6, <1>7

LEMMA FrameFacts ==
  ASSUME NEW frame \in Frames
  PROVE  /\ frame.caller \in Users \cup {Root} /\ frame.value \in Nat
         /\ frame.value # 0 => frame.caller \in Users /\ frame.address = Token
<1>1. \A v \in Values : v \in Nat
  BY Erc20Assumption
<1>2. CASE frame \in [address : {Token}, caller : Users \cup {Root}, value : {0},
                     read_only : BOOLEAN]
  BY <1>2
<1>3. CASE frame \in [address : {Token}, caller : Users, value : Values, read_only : {FALSE}]
  BY <1>1, <1>3
<1>4. CASE frame \in [address : {Other}, caller : Users, value : {0}, read_only : {FALSE}]
  BY <1>4
<1> QED
  BY <1>2, <1>3, <1>4 DEF Frames

LEMMA NotRefused ==
  ASSUME NEW l, NEW frame, NEW f, NEW call, precompile(l, frame, f, call).ok
  PROVE  /\ ~refused(frame, f)
         /\ f \in Writes \ {"permit"} => frame.caller # Root
<1>1. ~refused(frame, f)
  BY DEF precompile, Revert
<1> QED
  BY <1>1 DEF refused

LEMMA AmountFacts == Amounts \subseteq Nat /\ Spenders \subseteq Accounts /\ Users \subseteq Accounts
BY Erc20Assumption DEF Accounts

\* What each function of the precompile does to allowances and nonces.
LEMMA ApproveEffect ==
  ASSUME NEW l \in Ledger, NEW frame \in Frames, NEW call \in Arguments("approve"),
         precompile(l, frame, "approve", call).ok
  PROVE  LET r == precompile(l, frame, "approve", call).ledger
             pair == <<frame.caller, call.spender>>
         IN  /\ pair \in Pairs /\ call.value \in Nat
             /\ r \in Ledger /\ r.nonces = l.nonces
             /\ r.allowances = [l.allowances EXCEPT ![pair] = call.value]
<1> DEFINE pair == <<frame.caller, call.spender>>
           allowances == [l.allowances EXCEPT ![pair] = call.value]
<1>1. call.spender \in Spenders /\ call.value \in Amounts
  BY DEF Arguments
<1>2. frame.caller # Root /\ precompile(l, frame, "approve", call) = approve(l, frame, call)
  BY NotRefused DEF precompile, Writes
<1>3. pair \in Pairs /\ call.value \in Nat
  BY <1>1, <1>2, FrameFacts, AmountFacts DEF Pairs
<1>4. approve(l, frame, call).ledger = [l EXCEPT !.allowances = allowances]
  BY DEF approve, Ok
<1>5. allowances \in [Pairs -> Nat]
  BY <1>3 DEF Ledger
<1> HIDE DEF allowances, pair
<1>6. approve(l, frame, call).ledger \in Ledger
  BY <1>4, <1>5 DEF Ledger
<1>7. /\ approve(l, frame, call).ledger.nonces = l.nonces
      /\ approve(l, frame, call).ledger.allowances = allowances
  BY <1>4, <1>5 DEF Ledger
<1> QED
  BY <1>2, <1>3, <1>6, <1>7 DEF allowances, pair

\* saturating_add, as permit applies it.
NextNonce(n) == Min2(n + 1, MaxU256)

\* An accepted permit: signed for this token and the owner's nonce, which moves on.
PermitDone(l, r, call) ==
  /\ <<call.owner, call.spender>> \in Pairs /\ call.value \in Nat
  /\ call.signature \in Permits
  /\ call.signature.domain = "here" /\ call.signature.owner = call.owner
  /\ call.signature.nonce = l.nonces[call.owner]
  /\ r \in Ledger
  /\ r.nonces = [l.nonces EXCEPT ![call.owner] = NextNonce(l.nonces[call.owner])]
  /\ r.allowances = [l.allowances EXCEPT ![<<call.owner, call.spender>>] = call.value]

LEMMA PermitEffect ==
  ASSUME signed \subseteq Permits, NEW l \in Ledger, NEW frame \in Frames,
         NEW call \in Arguments("permit"),
         precompile(l, frame, "permit", call).ok
  PROVE  PermitDone(l, precompile(l, frame, "permit", call).ledger, call)
<1> DEFINE pair == <<call.owner, call.spender>>
           allowances == [l.allowances EXCEPT ![pair] = call.value]
           next == NextNonce(l.nonces[call.owner])
           nonces == [l.nonces EXCEPT ![call.owner] = next]
<1>1. PICK p \in signed, q \in signed, v \in {2, 27} :
        call = [owner |-> p.owner, spender |-> p.spender, value |-> p.value,
                deadline |-> p.deadline, signature |-> q, v |-> v]
  BY DEF Arguments
<1>2. p \in Permits /\ q \in Permits
  OBVIOUS
<1>3. /\ call.owner \in Users /\ call.spender \in Users /\ call.value \in Nat
      /\ call.signature \in Permits
  BY <1>1, <1>2 DEF Permits
<1>4. precompile(l, frame, "permit", call) = permit(l, frame, call)
  BY NotRefused DEF precompile, Writes
<1>5. /\ signer(Digest(l, call), call) = call.owner
      /\ permit(l, frame, call).ledger = [l EXCEPT !.nonces = nonces, !.allowances = allowances]
  BY <1>4 DEF permit, Ok, Revert, NextNonce
<1>6. call.signature = Digest(l, call)
  BY <1>3, <1>5, Erc20Assumption DEF signer
<1>7. /\ call.signature.domain = "here" /\ call.signature.owner = call.owner
      /\ call.signature.nonce = l.nonces[call.owner]
  BY <1>6 DEF Digest, domain_separator
<1>8. pair \in Pairs /\ call.owner \in Accounts
  BY <1>3, AmountFacts DEF Pairs
<1>9. allowances \in [Pairs -> Nat]
  BY <1>3, <1>8 DEF Ledger
<1>10. next \in Nat
  BY <1>8, Erc20Assumption DEF NextNonce, Min2, Ledger
<1> HIDE DEF next
<1>11. nonces \in [Accounts -> Nat]
  BY <1>8, <1>10 DEF Ledger
<1> HIDE DEF allowances, nonces, pair
<1> DEFINE m == [l EXCEPT !.nonces = nonces]
<1>12. m \in Ledger /\ m.nonces = nonces
  BY <1>11 DEF Ledger
<1>13. permit(l, frame, call).ledger = [m EXCEPT !.allowances = allowances]
  BY <1>5, <1>9, <1>11, <1>12 DEF Ledger
<1> HIDE DEF m
<1>14. /\ permit(l, frame, call).ledger \in Ledger
       /\ permit(l, frame, call).ledger.nonces = nonces
       /\ permit(l, frame, call).ledger.allowances = allowances
  BY <1>9, <1>12, <1>13 DEF Ledger
<1> QED
  BY <1>3, <1>4, <1>7, <1>8, <1>14 DEF PermitDone, allowances, nonces, pair, next

LEMMA TransferFromEffect ==
  ASSUME NEW l \in Ledger, NEW frame \in Frames, NEW call \in Arguments("transferFrom"),
         precompile(l, frame, "transferFrom", call).ok
  PROVE  LET r == precompile(l, frame, "transferFrom", call).ledger
             pair == <<call.from, frame.caller>>
         IN  /\ pair \in Pairs /\ call.value \in Nat /\ call.to \in Accounts
             /\ r \in Ledger /\ r.nonces = l.nonces
             /\ call.from = frame.caller => r.allowances = l.allowances
             /\ call.from # frame.caller =>
                  /\ call.value <= l.allowances[pair]
                  /\ r.allowances = [l.allowances EXCEPT ![pair] = l.allowances[pair] - call.value]
<1> DEFINE pair == <<call.from, frame.caller>>
           left == l.allowances[pair] - call.value
           allowances == [l.allowances EXCEPT ![pair] = left]
           m == [l EXCEPT !.allowances = allowances]
<1>1. call.from \in Users /\ call.to \in Accounts /\ call.value \in Amounts
  BY DEF Arguments
<1>2. /\ frame.caller # Root
      /\ precompile(l, frame, "transferFrom", call) = transfer_from(l, frame, call)
  BY NotRefused DEF precompile, Writes
<1>3. pair \in Pairs /\ call.value \in Nat /\ call.from \in Accounts
  BY <1>1, <1>2, FrameFacts, AmountFacts DEF Pairs
<1>4. CASE call.from = frame.caller
  <2>1. Keeps(l, transfer_from(l, frame, call).ledger)
    BY <1>1, <1>3, <1>4, MoveFundsKeeps DEF transfer_from
  <2> QED
    BY <1>1, <1>2, <1>3, <1>4, <2>1 DEF Keeps
<1>5. CASE call.from # frame.caller
  <2>1. call.value <= l.allowances[pair]
    BY <1>2, <1>3, <1>5 DEF transfer_from, Revert, Ledger
  <2>2. transfer_from(l, frame, call) = move_funds(m, call.from, call.to, call.value)
    BY <1>2, <1>5 DEF transfer_from, Revert
  <2>3. left \in Nat
    BY <1>3, <2>1 DEF Ledger
  <2> HIDE DEF left
  <2>4. allowances \in [Pairs -> Nat]
    BY <1>3, <2>3 DEF Ledger
  <2> HIDE DEF allowances, pair
  <2>5. m \in Ledger /\ m.nonces = l.nonces /\ m.allowances = allowances
    BY <2>4 DEF Ledger
  <2> HIDE DEF m
  <2>6. Keeps(m, transfer_from(l, frame, call).ledger)
    BY <1>1, <1>3, <2>2, <2>5, MoveFundsKeeps
  <2> QED
    BY <1>1, <1>2, <1>3, <1>5, <2>1, <2>5, <2>6 DEF Keeps, allowances, left, pair
<1> QED
  BY <1>4, <1>5

LEMMA OtherEffect ==
  ASSUME NEW l \in Ledger, NEW frame \in Frames, NEW f,
         f \notin {"approve", "permit", "transferFrom"}, NEW call \in Arguments(f),
         precompile(l, frame, f, call).ok
  PROVE  /\ Keeps(l, precompile(l, frame, f, call).ledger)
         /\ f \in {"transfer", "withdraw"} => call.value \in Nat
<1>1. CASE f \in {"transfer", "withdraw"}
  <2>1. call.to \in Accounts /\ call.value \in Amounts
    BY <1>1 DEF Arguments
  <2>2. /\ frame.caller # Root
        /\ precompile(l, frame, f, call) = move_funds(l, frame.caller, call.to, call.value)
    BY <1>1, NotRefused DEF precompile, Writes, transfer, withdraw
  <2> QED
    BY <2>1, <2>2, FrameFacts, AmountFacts, MoveFundsKeeps
<1>2. CASE f = "deposit"
  <2>1. frame.caller # Root /\ precompile(l, frame, f, call) = deposit(l, frame, call)
    BY <1>2, NotRefused DEF precompile, Writes
  <2>2. deposit(l, frame, call) = Transfer(l, Token, frame.caller, frame.value)
    BY <2>1 DEF deposit, Revert
  <2> QED
    BY <1>2, <2>1, <2>2, FrameFacts, AmountFacts, TransferKeeps DEF Accounts
<1>3. CASE f \notin {"transfer", "withdraw", "deposit"}
  <2>1. precompile(l, frame, f, call) = Ok(l)
    BY <1>3, NotRefused DEF precompile, Writes
  <2> QED
    BY <1>3, <2>1 DEF Ok, Keeps
<1> QED
  BY <1>1, <1>2, <1>3

\* One way to give allowances: the last word is noted and the count starts again.
LEMMA Granting ==
  ASSUME IInv, NEW pair \in Pairs, NEW value \in Nat,
         ledger'.allowances = [ledger.allowances EXCEPT ![pair] = value],
         granted' = [granted EXCEPT ![pair] = value],
         taken' = [taken EXCEPT ![pair] = 0]
  PROVE  /\ granted' \in [Pairs -> Nat] /\ taken' \in [Pairs -> Nat]
         /\ SpendingBounded'
<1>1. /\ granted \in [Pairs -> Nat] /\ taken \in [Pairs -> Nat]
      /\ ledger.allowances \in [Pairs -> Nat]
      /\ \A q \in Pairs : ledger.allowances[q] + taken[q] = granted[q]
  BY DEF IInv, TypeOK, Ledger, SpendingBounded
<1>2. granted' \in [Pairs -> Nat] /\ taken' \in [Pairs -> Nat]
  BY <1>1
<1>3. \A q \in Pairs : ledger'.allowances[q] + taken'[q] = granted'[q]
  BY <1>1
<1> QED
  BY <1>2, <1>3 DEF SpendingBounded

\* Calls that accept no permit leave the nonces alone.
LEMMA SameNonces ==
  ASSUME IInv, ledger'.nonces = ledger.nonces, accepted' = accepted
  PROVE  /\ \A a \in Accounts : ledger'.nonces[a] <= Len(accepted')
         /\ Len(accepted') <= MaxU256 => PermitsOnce'
BY DEF IInv, PermitsOnce

LEMMA PermitAccepted ==
  ASSUME IInv, NEW p \in Permits, p.domain = "here", p.nonce = ledger.nonces[p.owner],
         ledger'.nonces = [ledger.nonces EXCEPT ![p.owner] =
                             NextNonce(ledger.nonces[p.owner])],
         accepted' = Append(accepted, p)
  PROVE  /\ accepted' \in Seq(Permits)
         /\ \A a \in Accounts : ledger'.nonces[a] <= Len(accepted')
         /\ Len(accepted') <= MaxU256 => PermitsOnce'
<1> DEFINE n == ledger.nonces[p.owner]
           next == NextNonce(n)
<1>1. /\ accepted \in Seq(Permits) /\ ledger.nonces \in [Accounts -> Nat]
      /\ \A a \in Accounts : ledger.nonces[a] <= Len(accepted)
      /\ p.owner \in Accounts /\ MaxU256 \in Nat
  BY AmountFacts, Erc20Assumption DEF IInv, TypeOK, Ledger, Permits
<1>2. /\ accepted' \in Seq(Permits) /\ Len(accepted') = Len(accepted) + 1
      /\ Len(accepted) \in Nat
      /\ \A i \in 1..Len(accepted) : accepted'[i] = accepted[i]
      /\ accepted'[Len(accepted) + 1] = p
      /\ DOMAIN accepted = 1..Len(accepted) /\ DOMAIN accepted' = 1..(Len(accepted) + 1)
  BY <1>1
<1>3. n \in Nat /\ n <= Len(accepted)
  BY <1>1
<1>4. next \in Nat /\ next <= n + 1
  BY <1>1, <1>3 DEF NextNonce, Min2
<1>5. \A a \in Accounts : ledger'.nonces[a] = IF a = p.owner THEN next ELSE ledger.nonces[a]
  BY <1>1
<1>6. \A a \in Accounts : ledger'.nonces[a] <= Len(accepted')
  <2> HIDE DEF next, n
  <2> QED
    BY <1>1, <1>2, <1>3, <1>4, <1>5
<1>7. ASSUME Len(accepted') <= MaxU256 PROVE PermitsOnce'
  <2>1. next = n + 1
    BY <1>1, <1>2, <1>3, <1>7 DEF NextNonce, Min2
  <2>2. PermitsOnce
    BY <1>1, <1>2, <1>7 DEF IInv
  <2> HIDE DEF next, n
  <2>3. \A i \in 1..Len(accepted) :
          /\ accepted[i] \in Permits /\ accepted[i].owner \in Accounts
          /\ accepted[i].nonce \in Nat
          /\ accepted[i].domain = "here"
          /\ accepted[i].nonce < ledger.nonces[accepted[i].owner]
    <3>1. \A i \in 1..Len(accepted) : accepted[i] \in Permits
      BY <1>1
    <3>2. \A i \in 1..Len(accepted) :
            accepted[i].owner \in Accounts /\ accepted[i].nonce \in Nat
      BY <3>1, AmountFacts DEF Permits
    <3> QED
      BY <1>2, <2>2, <3>1, <3>2 DEF PermitsOnce
  <2>4. p.nonce = n
    BY DEF n
  <2>5. \A a \in Accounts : a # p.owner => ledger'.nonces[a] = ledger.nonces[a]
    BY <1>5
  <2>6. ledger'.nonces[p.owner] = n + 1 /\ ledger.nonces[p.owner] = n
    BY <1>1, <1>5, <2>1 DEF n
  <2>7. \A i \in DOMAIN accepted' :
          accepted'[i].domain = "here" /\ accepted'[i].nonce < ledger'.nonces[accepted'[i].owner]
    <3> SUFFICES ASSUME NEW i \in 1..(Len(accepted) + 1)
                 PROVE  /\ accepted'[i].domain = "here"
                        /\ accepted'[i].nonce < ledger'.nonces[accepted'[i].owner]
      BY <1>2
    <3>1. CASE i = Len(accepted) + 1
      BY <1>2, <1>3, <2>4, <2>6, <3>1
    <3>2. CASE i # Len(accepted) + 1
      <4>1. i \in 1..Len(accepted) /\ accepted'[i] = accepted[i]
        BY <1>2, <3>2
      <4>2. CASE accepted[i].owner = p.owner
        BY <1>3, <2>3, <2>6, <4>1, <4>2
      <4>3. CASE accepted[i].owner # p.owner
        BY <2>3, <2>5, <4>1, <4>3
      <4> QED
        BY <4>2, <4>3
    <3> QED
      BY <3>1, <3>2
  <2>8. \A i \in 1..Len(accepted) :
          <<accepted[i].owner, accepted[i].nonce>> # <<p.owner, p.nonce>>
    BY <1>3, <2>3, <2>4, <2>6
  <2>9. \A i, j \in DOMAIN accepted' :
          i # j => <<accepted'[i].owner, accepted'[i].nonce>>
                     # <<accepted'[j].owner, accepted'[j].nonce>>
    <3> SUFFICES ASSUME NEW i \in 1..(Len(accepted) + 1), NEW j \in 1..(Len(accepted) + 1), i # j
                 PROVE  <<accepted'[i].owner, accepted'[i].nonce>>
                          # <<accepted'[j].owner, accepted'[j].nonce>>
      BY <1>2
    <3>1. CASE i = Len(accepted) + 1
      <4>1. j \in 1..Len(accepted) /\ accepted'[j] = accepted[j] /\ accepted'[i] = p
        BY <1>2, <3>1
      <4> QED
        BY <2>8, <4>1
    <3>2. CASE j = Len(accepted) + 1
      <4>1. i \in 1..Len(accepted) /\ accepted'[i] = accepted[i] /\ accepted'[j] = p
        BY <1>2, <3>2
      <4> QED
        BY <2>8, <4>1
    <3>3. CASE i # Len(accepted) + 1 /\ j # Len(accepted) + 1
      <4>1. /\ i \in DOMAIN accepted /\ accepted'[i] = accepted[i]
            /\ j \in DOMAIN accepted /\ accepted'[j] = accepted[j]
        BY <1>2, <3>3
      <4> QED
        BY <2>2, <4>1 DEF PermitsOnce
    <3> QED
      BY <3>1, <3>2, <3>3
  <2> QED
    BY <2>7, <2>9 DEF PermitsOnce
<1> QED
  BY <1>2, <1>6, <1>7

LEMMA CallStep ==
  ASSUME IInv, NEW frame \in Frames, NEW input, NEW call \in Arguments(Routed[input].f),
         Call(frame, input, call)
  PROVE  IInv'
<1> DEFINE f == Routed[input].f
           paid == IF frame.value = 0 THEN Ok(ledger)
                   ELSE Transfer(ledger, frame.caller, frame.address, frame.value)
           l == paid.ledger
           done == precompile(l, frame, f, call)
<1>1. signed \subseteq Permits /\ ledger \in Ledger /\ accepted \in Seq(Permits) /\ gifts \in Nat
      /\ granted \in [Pairs -> Nat] /\ taken \in [Pairs -> Nat]
  BY DEF IInv, TypeOK
<1>2. Keeps(ledger, l)
  <2>1. CASE frame.value = 0
    BY <1>1, <2>1 DEF Ok, Keeps
  <2>2. CASE frame.value # 0
    <3>1. /\ frame.caller \in Accounts /\ frame.address \in Accounts
          /\ frame.value \in Nat
      BY <2>2, FrameFacts DEF Accounts
    <3> QED
      BY <1>1, <2>2, <3>1, TransferKeeps
  <2> QED
    BY <2>1, <2>2
<1>3. done.ok /\ ledger' = done.ledger /\ now' = now /\ signed' = signed
  BY DEF Call
<1>4. kept' \subseteq Users /\ now' \in Nat /\ signed' \subseteq Permits
  <2>1. kept' = kept \cup ({frame.caller} \cap Users)
    BY DEF Call
  <2> QED
    BY <1>3, <2>1 DEF IInv, TypeOK
<1>5. l \in Ledger /\ l.allowances = ledger.allowances /\ l.nonces = ledger.nonces
  BY <1>2 DEF Keeps
<1> HIDE DEF l, paid
<1>6. CASE f = "approve"
  <2> DEFINE pair == <<frame.caller, call.spender>>
  <2>1. /\ pair \in Pairs /\ call.value \in Nat
        /\ ledger' \in Ledger /\ ledger'.nonces = ledger.nonces
        /\ ledger'.allowances = [ledger.allowances EXCEPT ![pair] = call.value]
    BY <1>3, <1>5, <1>6, ApproveEffect
  <2>2. /\ accepted' = accepted /\ granted' = [granted EXCEPT ![pair] = call.value]
        /\ taken' = [taken EXCEPT ![pair] = 0] /\ gifts' = gifts
    BY <1>6 DEF Call
  <2> HIDE DEF pair
  <2>3. granted' \in [Pairs -> Nat] /\ taken' \in [Pairs -> Nat] /\ SpendingBounded'
    BY <2>1, <2>2, Granting
  <2>4. TypeOK'
    BY <1>1, <1>4, <2>1, <2>2, <2>3 DEF TypeOK
  <2> QED
    BY <2>1, <2>2, <2>3, <2>4, SameNonces DEF IInv
<1>7. CASE f = "permit"
  <2> DEFINE pair == <<call.owner, call.spender>>
             p == call.signature
  <2>1. /\ pair \in Pairs /\ call.value \in Nat /\ p \in Permits
        /\ p.domain = "here" /\ p.owner = call.owner /\ p.nonce = ledger.nonces[p.owner]
        /\ ledger' \in Ledger
        /\ ledger'.nonces = [ledger.nonces EXCEPT ![p.owner] =
                               NextNonce(ledger.nonces[p.owner])]
        /\ ledger'.allowances = [ledger.allowances EXCEPT ![pair] = call.value]
    <3>1. call \in Arguments("permit") /\ precompile(l, frame, "permit", call).ok
      BY <1>3, <1>7
    <3>2. ledger' = precompile(l, frame, "permit", call).ledger
      BY <1>3, <1>7
    <3>3. PermitDone(l, ledger', call)
      BY <1>1, <1>5, <3>1, <3>2, PermitEffect
    <3> QED
      BY <1>5, <3>3 DEF PermitDone
  <2>2. /\ accepted' = Append(accepted, p) /\ granted' = [granted EXCEPT ![pair] = call.value]
        /\ taken' = [taken EXCEPT ![pair] = 0] /\ gifts' = gifts
    BY <1>7 DEF Call
  <2> HIDE DEF pair, p
  <2>3. granted' \in [Pairs -> Nat] /\ taken' \in [Pairs -> Nat] /\ SpendingBounded'
    BY <2>1, <2>2, Granting
  <2>4. /\ accepted' \in Seq(Permits)
        /\ \A a \in Accounts : ledger'.nonces[a] <= Len(accepted')
        /\ Len(accepted') <= MaxU256 => PermitsOnce'
    BY <2>1, <2>2, PermitAccepted
  <2>5. TypeOK'
    BY <1>1, <1>4, <2>1, <2>2, <2>3, <2>4 DEF TypeOK
  <2> QED
    BY <2>3, <2>4, <2>5 DEF IInv
<1>8. CASE f = "transferFrom"
  <2> DEFINE pair == <<call.from, frame.caller>>
  <2>1. /\ pair \in Pairs /\ call.value \in Nat
        /\ ledger' \in Ledger /\ ledger'.nonces = ledger.nonces
        /\ call.from = frame.caller => ledger'.allowances = ledger.allowances
        /\ call.from # frame.caller =>
             /\ call.value <= ledger.allowances[pair]
             /\ ledger'.allowances =
                  [ledger.allowances EXCEPT ![pair] = ledger.allowances[pair] - call.value]
    BY <1>3, <1>5, <1>8, TransferFromEffect
  <2>2. /\ accepted' = accepted /\ granted' = granted
        /\ taken' = IF call.from # frame.caller
                    THEN [taken EXCEPT ![pair] = taken[pair] + call.value] ELSE taken
        /\ gifts' \in {gifts, gifts + call.value}
    BY <1>8 DEF Call
  <2>3. gifts' \in Nat
    BY <1>1, <2>1, <2>2
  <2> HIDE DEF pair
  <2>4. taken' \in [Pairs -> Nat]
    BY <1>1, <2>1, <2>2
  <2>5. SpendingBounded'
    <3>1. /\ ledger.allowances \in [Pairs -> Nat]
          /\ \A q \in Pairs : ledger.allowances[q] + taken[q] = granted[q]
      BY <1>1 DEF IInv, Ledger, SpendingBounded
    <3> SUFFICES ASSUME NEW q \in Pairs
                 PROVE  ledger'.allowances[q] + taken'[q] = granted'[q]
      BY DEF SpendingBounded
    <3>2. CASE call.from = frame.caller
      BY <2>1, <2>2, <3>1, <3>2
    <3>3. CASE call.from # frame.caller /\ q = pair
      BY <1>1, <2>1, <2>2, <3>1, <3>3
    <3>4. CASE call.from # frame.caller /\ q # pair
      BY <1>1, <2>1, <2>2, <3>1, <3>4
    <3> QED
      BY <3>2, <3>3, <3>4
  <2>6. TypeOK'
    BY <1>1, <1>4, <2>1, <2>2, <2>3, <2>4 DEF TypeOK
  <2> QED
    BY <2>1, <2>2, <2>5, <2>6, SameNonces DEF IInv
<1>9. CASE f \notin {"approve", "permit", "transferFrom"}
  <2>1. Keeps(l, done.ledger) /\ (f \in {"transfer", "withdraw"} => call.value \in Nat)
    BY <1>3, <1>5, <1>9, OtherEffect
  <2>2. /\ ledger' \in Ledger /\ ledger'.nonces = ledger.nonces
        /\ ledger'.allowances = ledger.allowances
    BY <1>3, <1>5, <2>1 DEF Keeps
  <2>3. accepted' = accepted /\ granted' = granted /\ taken' = taken
    BY <1>9 DEF Call
  <2>4. gifts' \in Nat
    <3>1. gifts' = IF f \in {"transfer", "transferFrom", "withdraw"} /\ call.to = Token
                   THEN gifts + call.value ELSE gifts
      BY DEF Call
    <3> HIDE DEF f
    <3> QED
      BY <1>1, <1>9, <2>1, <3>1
  <2>5. SpendingBounded'
    BY <2>2, <2>3 DEF IInv, SpendingBounded
  <2>6. TypeOK'
    BY <1>1, <1>4, <2>2, <2>3, <2>4 DEF TypeOK
  <2> QED
    BY <2>2, <2>3, <2>5, <2>6, SameNonces DEF IInv
<1> QED
  BY <1>6, <1>7, <1>8, <1>9

LEMMA NativeTransferStep ==
  ASSUME IInv, NEW from \in Users, NEW to \in Accounts,
         NEW n \in Amounts \cup {ledger.free[from]}, NativeTransfer(from, to, n)
  PROVE  IInv'
<1>1. /\ ledger \in Ledger /\ from \in Accounts /\ gifts \in Nat
      /\ ledger.free[from] \in Nat /\ Frozen[from] \in Nat
  BY AmountFacts, Erc20Assumption DEF IInv, TypeOK, Ledger
<1>2. n \in Nat
  BY <1>1, AmountFacts
<1>3. n <= ledger.free[from]
  BY <1>1, <1>2 DEF NativeTransfer
<1>4. Keeps(ledger, ledger')
  BY <1>1, <1>2, <1>3, MovingKeeps DEF NativeTransfer
<1>5. gifts' \in Nat
  BY <1>1, <1>2 DEF NativeTransfer
<1>6. /\ kept' = kept \cup {from} /\ now' = now /\ signed' = signed /\ accepted' = accepted
      /\ granted' = granted /\ taken' = taken
  BY DEF NativeTransfer
<1>7. TypeOK'
  BY <1>4, <1>5, <1>6 DEF IInv, TypeOK, Keeps
<1>8. SpendingBounded'
  BY <1>4, <1>6 DEF IInv, SpendingBounded, Keeps
<1> QED
  BY <1>4, <1>6, <1>7, <1>8, SameNonces DEF IInv, Keeps

LEMMA InitHolds == Init => IInv
<1> SUFFICES ASSUME Init PROVE IInv
  OBVIOUS
<1>1. ledger \in Ledger
  <2>1. OpeningIssuance \in Nat /\ Opening \in [Accounts -> Nat]
    BY Erc20Assumption
  <2> QED
    BY <2>1 DEF Init, Ledger
<1>2. Len(accepted) = 0 /\ accepted \in Seq(Permits)
  BY DEF Init
<1>3. TypeOK
  BY <1>1, <1>2 DEF Init, TypeOK
<1>4. SpendingBounded
  BY DEF Init, SpendingBounded
<1>5. PermitsOnce
  BY <1>2 DEF Init, PermitsOnce
<1>6. \A a \in Accounts : ledger.nonces[a] <= Len(accepted)
  BY <1>2 DEF Init
<1> QED
  BY <1>3, <1>4, <1>5, <1>6 DEF IInv

LEMMA StepHolds == IInv /\ [Next]_vars => IInv'
<1> SUFFICES ASSUME IInv, [Next]_vars PROVE IInv'
  OBVIOUS
<1>1. ASSUME NEW frame \in Frames, NEW input \in Inputs,
             NEW call \in Arguments(Routed[input].f), Call(frame, input, call)
      PROVE  IInv'
  BY <1>1, CallStep
<1>2. ASSUME NEW from \in Users, NEW to \in Accounts,
             NEW n \in Amounts \cup {ledger.free[from]}, NativeTransfer(from, to, n)
      PROVE  IInv'
  BY <1>2, NativeTransferStep
<1>3. ASSUME NEW p \in Signable, SignPermit(p) PROVE IInv'
  <2>1. signed' \subseteq Permits
    BY <1>3, Erc20Assumption DEF SignPermit, IInv, TypeOK
  <2>2. UNCHANGED <<ledger, kept, now, accepted, granted, taken, gifts>>
    BY <1>3 DEF SignPermit
  <2> QED
    BY <2>1, <2>2 DEF IInv, TypeOK, SpendingBounded, PermitsOnce
<1>4. CASE Tick
  <2>1. now' \in Nat
    BY <1>4 DEF Tick, IInv, TypeOK
  <2>2. UNCHANGED <<ledger, kept, signed, accepted, granted, taken, gifts>>
    BY <1>4 DEF Tick
  <2> QED
    BY <2>1, <2>2 DEF IInv, TypeOK, SpendingBounded, PermitsOnce
<1>5. CASE UNCHANGED vars
  BY <1>5 DEF vars, IInv, TypeOK, SpendingBounded, PermitsOnce
<1> QED
  BY <1>1, <1>2, <1>3, <1>4, <1>5 DEF Next

\* For any users, balances, locks and permits: allowance and spending always add up
\* to the owner's last word, in whatever order approve, permit, transferFrom, value
\* sent along and native transfers come.
THEOREM SpendingAlwaysBounded == Spec => []SpendingBounded
<1>1. IInv => SpendingBounded
  BY DEF IInv
<1> QED
  BY <1>1, InitHolds, StepHolds, PTL DEF Spec

\* For any permits signed, and as long as no more are accepted than a uint256 counts,
\* where the nonce saturates: none counts twice and none signed for another chain
\* counts at all.
THEOREM PermitsAlwaysOnce == Spec => [](Len(accepted) <= MaxU256 => PermitsOnce)
<1>1. IInv => (Len(accepted) <= MaxU256 => PermitsOnce)
  BY DEF IInv
<1> QED
  BY <1>1, InitHolds, StepHolds, PTL DEF Spec
=============================================================================

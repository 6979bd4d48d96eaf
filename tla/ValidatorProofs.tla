--------------------------- MODULE ValidatorProofs ---------------------------
(***************************************************************************)
(* What pallet-validator guarantees about stake records and the rejoin     *)
(* cooldown whatever the order of blocks, calls, reports and session       *)
(* boundaries, for every configuration.                                    *)
(*                                                                         *)
(* These facts do not depend on who is in which sequence, so they are      *)
(* proved on the detailed module; the seats are in                         *)
(* ValidatorLifecycleProofs.  RecordInv is inductive: CooldownServed needs *)
(* to know that the deadline in RejoinCooldown is that of the latest kick  *)
(* until it has passed, StakeNeverReturnsEarly that an Active one has more *)
(* than LockDuration - RenewInterval blocks left.                          *)
(***************************************************************************)
EXTENDS Validator, TLAPS

RecordTypes ==
  /\ now \in Nat
  /\ locks \in [Accounts -> LockInfo \cup {None}]
  /\ cooldown \in [Accounts -> Nat \cup {None}]
  /\ lastKick \in [Accounts -> Nat \cup {None}]
  /\ currencyLock \in [Accounts -> Nat]

DeadlineOfLastKick ==
  \A a \in Accounts : lastKick[a] # None =>
    \/ cooldown[a] = lastKick[a] + RejoinCooldownPeriod
    \/ now > lastKick[a] + RejoinCooldownPeriod

FreshWhileActive ==
  RenewalOn => \A a \in Accounts :
    IsActive(locks, a) => locks[a].expiry > now + (LockDuration - RenewInterval)

RecordInv ==
  /\ RecordTypes
  /\ CurrencyLockMatches
  /\ DeadlineOfLastKick
  /\ CooldownServed
  /\ FreshWhileActive

\* Changing the status of some records changes nothing else.
LEMMA WithStatusFacts ==
  ASSUME NEW l \in [Accounts -> LockInfo \cup {None}], NEW S, NEW st \in Status,
         st # "Active"
  PROVE  /\ WithStatus(l, S, st) \in [Accounts -> LockInfo \cup {None}]
         /\ \A a \in Accounts :
              /\ WithStatus(l, S, st)[a] = None <=> l[a] = None
              /\ l[a] # None => /\ WithStatus(l, S, st)[a].amount = l[a].amount
                                /\ WithStatus(l, S, st)[a].expiry = l[a].expiry
              /\ IsActive(WithStatus(l, S, st), a) => IsActive(l, a) /\ a \notin S
<1> USE ConfigAssumption
<1>1. ASSUME NEW a \in Accounts
      PROVE  \/ l[a] = None /\ WithStatus(l, S, st)[a] = None
             \/ /\ l[a] \in LockInfo /\ a \notin S
                /\ WithStatus(l, S, st)[a] = l[a]
             \/ /\ l[a] \in LockInfo /\ a \in S
                /\ WithStatus(l, S, st)[a] = [amount |-> l[a].amount, expiry |-> l[a].expiry,
                                              status |-> st]
  BY DEF WithStatus, LockInfo
<1> DEFINE w == WithStatus(l, S, st)
<1> HIDE DEF w
<1>2. ASSUME NEW a \in Accounts
      PROVE  /\ w[a] \in LockInfo \cup {None}
             /\ w[a] = None <=> l[a] = None
             /\ l[a] # None => w[a].amount = l[a].amount /\ w[a].expiry = l[a].expiry
             /\ IsActive(w, a) => IsActive(l, a) /\ a \notin S
  <2> DEFINE changed == [amount |-> l[a].amount, expiry |-> l[a].expiry, status |-> st]
  <2>1. l[a] \in LockInfo => changed \in LockInfo
    BY DEF LockInfo
  <2>2. l[a] \in LockInfo => l[a] # None /\ changed # None
    BY <2>1
  <2> QED
    BY <1>1, <2>1, <2>2 DEF IsActive, w
<1>3. w \in [Accounts -> LockInfo \cup {None}]
  BY <1>2 DEF w, WithStatus
<1> QED
  BY <1>2, <1>3 DEF w

LEMMA InitRecordInv == Init => RecordInv
<1> SUFFICES ASSUME Init PROVE RecordInv
  OBVIOUS
<1> USE ConfigAssumption DEF Init
<1> DEFINE first == [amount |-> 0, expiry |-> LockDuration, status |-> "Active"]
<1>1. first \in LockInfo /\ first # None
  BY DEF LockInfo, Status
<1>2. ASSUME NEW a \in Accounts
      PROVE  \/ locks[a] = None
             \/ locks[a] = first
  OBVIOUS
<1>3. RecordTypes
  BY <1>1 DEF RecordTypes
<1>4. CurrencyLockMatches
  BY <1>1, <1>2 DEF CurrencyLockMatches
<1>5. DeadlineOfLastKick /\ CooldownServed
  BY DEF DeadlineOfLastKick, CooldownServed
<1>6. FreshWhileActive
  BY <1>1, <1>2 DEF FreshWhileActive, RenewalOn, IsActive
<1> QED
  BY <1>3, <1>4, <1>5, <1>6 DEF RecordInv

\* on_initialize, record by record: gone, renewed, or kept.
LEMMA OnInitializeFacts ==
  ASSUME RecordTypes, OnInitialize, NEW a \in Accounts
  PROVE  /\ now' = now + 1
         /\ \/ /\ locks[a] = None \/ locks[a].expiry <= now'
               /\ locks'[a] = None
            \/ /\ locks[a] \in LockInfo /\ locks[a].expiry > now'
               /\ IsActive(locks, a)
               /\ locks[a].expiry <= now' + LockDuration
               /\ locks'[a] = [amount |-> locks[a].amount, expiry |-> now' + LockDuration,
                               status |-> "Active"]
            \/ /\ locks[a] \in LockInfo /\ locks[a].expiry > now'
               /\ locks'[a] = locks[a]
               /\ RenewalOn /\ IsActive(locks, a) =>
                    locks[a].expiry > now' + (LockDuration - RenewInterval)
<1> USE ConfigAssumption DEF RecordTypes
<1>1. now' = now + 1 /\ now' \in Nat
  BY DEF OnInitialize
<1>2. CASE locks[a] = None
  BY <1>1, <1>2 DEF OnInitialize, Expired, DueForRenewal, IsActive
<1>3. CASE locks[a] # None
  <2>1. locks[a] \in LockInfo /\ locks[a].expiry \in Nat
    BY <1>3 DEF LockInfo
  <2>2. CASE locks[a].expiry <= now'
    BY <1>1, <1>3, <2>2 DEF OnInitialize, Expired
  <2>3. CASE locks[a].expiry > now' /\ DueForRenewal(a, now')
    <3>1. locks'[a] = [locks[a] EXCEPT !.expiry = now' + LockDuration]
      BY <1>1, <1>3, <2>1, <2>3 DEF OnInitialize, Expired
    <3>2. IsActive(locks, a) /\ locks[a].expiry <= now' + LockDuration
      BY <1>1, <2>1, <2>3 DEF DueForRenewal, MaxOf
    <3>3. locks'[a] = [amount |-> locks[a].amount, expiry |-> now' + LockDuration,
                       status |-> "Active"]
      BY <2>1, <3>1, <3>2 DEF LockInfo, IsActive
    <3> QED
      BY <1>1, <2>1, <2>3, <3>2, <3>3
  <2>4. CASE locks[a].expiry > now' /\ ~DueForRenewal(a, now')
    <3>1. locks'[a] = locks[a]
      BY <1>1, <1>3, <2>1, <2>4 DEF OnInitialize, Expired
    <3>2. RenewalOn /\ IsActive(locks, a) =>
            locks[a].expiry > now' + (LockDuration - RenewInterval)
      BY <1>1, <2>1, <2>4 DEF DueForRenewal, MaxOf, RenewalOn
    <3> QED
      BY <1>1, <2>1, <2>4, <3>1, <3>2
  <2> QED
    BY <1>1, <2>1, <2>2, <2>3, <2>4
<1> QED
  BY <1>2, <1>3

LEMMA OnInitializePreserves == RecordInv /\ OnInitialize => RecordInv'
<1> SUFFICES ASSUME RecordInv, OnInitialize PROVE RecordInv'
  OBVIOUS
<1> USE ConfigAssumption DEF RecordInv
<1>1. /\ now \in Nat /\ now' = now + 1
      /\ cooldown' = cooldown /\ lastKick' = lastKick
      /\ currencyLock' = Unlocked(now')
  BY DEF OnInitialize, RecordTypes
<1>2. ASSUME NEW a \in Accounts
      PROVE  /\ locks'[a] \in LockInfo \cup {None}
             /\ currencyLock'[a] = IF locks'[a] = None THEN 0 ELSE locks'[a].amount
             /\ IsActive(locks', a) => IsActive(locks, a)
             /\ RenewalOn /\ IsActive(locks', a) =>
                   locks'[a].expiry > now' + (LockDuration - RenewInterval)
  <2> DEFINE renewed == [amount |-> locks[a].amount, expiry |-> now' + LockDuration,
                         status |-> "Active"]
  <2>1. locks[a] \in LockInfo => renewed \in LockInfo /\ renewed # None
    BY <1>1 DEF LockInfo, Status
  <2>2. currencyLock'[a] = IF Expired(a, now') THEN 0 ELSE currencyLock[a]
    BY <1>1 DEF Unlocked
  <2>3. currencyLock[a] = IF locks[a] = None THEN 0 ELSE locks[a].amount
    BY DEF CurrencyLockMatches
  <2>4. locks[a] \in LockInfo => locks[a] # None /\ locks[a].expiry \in Nat
    BY DEF LockInfo
  <2>5. CASE locks'[a] = None /\ (locks[a] = None \/ locks[a].expiry <= now')
    BY <2>2, <2>3, <2>5 DEF Expired, IsActive
  <2>6. CASE /\ locks[a] \in LockInfo /\ locks[a].expiry > now'
             /\ IsActive(locks, a) /\ locks'[a] = renewed
    BY <1>1, <2>1, <2>2, <2>3, <2>4, <2>6 DEF Expired, RenewalOn
  <2>7. CASE /\ locks[a] \in LockInfo /\ locks[a].expiry > now'
             /\ locks'[a] = locks[a]
             /\ RenewalOn /\ IsActive(locks, a) =>
                  locks[a].expiry > now' + (LockDuration - RenewInterval)
    BY <1>1, <2>2, <2>3, <2>4, <2>7 DEF Expired, IsActive
  <2> QED
    BY <2>5, <2>6, <2>7, OnInitializeFacts
<1>3. RecordTypes'
  <2>1. locks' \in [Accounts -> LockInfo \cup {None}]
    BY <1>2 DEF OnInitialize
  <2>2. currencyLock' \in [Accounts -> Nat]
    BY <1>1 DEF Unlocked, RecordTypes
  <2> QED
    BY <1>1, <2>1, <2>2 DEF RecordTypes
<1>4. CurrencyLockMatches' /\ FreshWhileActive'
  BY <1>2 DEF CurrencyLockMatches, FreshWhileActive
<1>5. DeadlineOfLastKick' /\ CooldownServed'
  BY <1>1, <1>2 DEF DeadlineOfLastKick, CooldownServed, RecordTypes
<1> QED
  BY <1>3, <1>4, <1>5

\* A (re)lock never weakens the record it replaces.
LEMMA RefreshedFacts ==
  ASSUME RecordTypes, NEW a \in Accounts
  PROVE  /\ Refreshed(a) \in LockInfo
         /\ Refreshed(a).status = "Active"
         /\ Refreshed(a).expiry >= now + LockDuration
         /\ locks[a] # None => /\ Refreshed(a).amount >= locks[a].amount
                               /\ Refreshed(a).expiry >= locks[a].expiry
<1> USE ConfigAssumption DEF RecordTypes
<1>1. required_lock(a) \in Nat
  BY DEF required_lock
<1>2. CASE locks[a] = None
  BY <1>1, <1>2 DEF Refreshed, LockInfo, Status
<1>3. CASE locks[a] # None
  <2>1. locks[a].amount \in Nat /\ locks[a].expiry \in Nat
    BY <1>3 DEF LockInfo
  <2> QED
    BY <1>1, <1>3, <2>1 DEF Refreshed, LockInfo, Status, MaxOf
<1> QED
  BY <1>2, <1>3

LEMMA LockPreserves ==
  ASSUME RecordInv, NEW a \in Accounts, Lock(a)
  PROVE  RecordInv'
<1> USE ConfigAssumption DEF RecordInv
<1> DEFINE r == Refreshed(a)
<1>1. r \in LockInfo /\ r # None /\ r.status = "Active" /\ r.expiry >= now + LockDuration
  BY RefreshedFacts
<1> HIDE DEF r
<1>2. /\ locks' = [locks EXCEPT ![a] = r]
      /\ currencyLock' = [currencyLock EXCEPT ![a] = r.amount]
      /\ cooldown' = [cooldown EXCEPT ![a] = None]
      /\ now' = now /\ lastKick' = lastKick
      /\ cooldown[a] # None => cooldown[a] < now
  BY DEF Lock, OutOfCooldown, r
<1>3. RecordTypes'
  BY <1>1, <1>2 DEF RecordTypes, LockInfo
<1>4. CurrencyLockMatches'
  BY <1>1, <1>2 DEF CurrencyLockMatches, RecordTypes
<1>5. lastKick[a] # None => now > lastKick[a] + RejoinCooldownPeriod
  BY <1>2 DEF DeadlineOfLastKick, RecordTypes
<1>6. DeadlineOfLastKick'
  BY <1>2, <1>5 DEF DeadlineOfLastKick, RecordTypes
<1>7. CooldownServed'
  BY <1>2, <1>5 DEF CooldownServed, IsActive, RecordTypes
<1>8. FreshWhileActive'
  BY <1>1, <1>2 DEF FreshWhileActive, IsActive, RenewalOn, RecordTypes, LockInfo
<1> QED
  BY <1>3, <1>4, <1>6, <1>7, <1>8

\* A step that only takes records out of Active, and starts the cooldown of
\* those it kicks, preserves the invariant.
LEMMA StatusStepPreserves ==
  ASSUME RecordInv, NEW K,
         locks' \in [Accounts -> LockInfo \cup {None}],
         \A a \in Accounts :
           /\ locks'[a] = None <=> locks[a] = None
           /\ locks[a] # None => /\ locks'[a].amount = locks[a].amount
                                 /\ locks'[a].expiry = locks[a].expiry
           /\ IsActive(locks', a) => IsActive(locks, a) /\ a \notin K,
         now' = now, currencyLock' = currencyLock,
         cooldown' = [a \in Accounts |->
                        IF a \in K THEN now + RejoinCooldownPeriod ELSE cooldown[a]],
         lastKick' = [a \in Accounts |-> IF a \in K THEN now ELSE lastKick[a]]
  PROVE  RecordInv'
<1> USE ConfigAssumption DEF RecordInv, RecordTypes
<1>1. RecordTypes'
  OBVIOUS
<1>2. CurrencyLockMatches'
  BY DEF CurrencyLockMatches
<1>3. DeadlineOfLastKick'
  BY DEF DeadlineOfLastKick
<1>4. CooldownServed'
  BY DEF CooldownServed
<1>5. FreshWhileActive'
  <2>1. ASSUME NEW a \in Accounts, IsActive(locks', a)
        PROVE  IsActive(locks, a) /\ locks'[a].expiry = locks[a].expiry
    BY <2>1 DEF IsActive
  <2> QED
    BY <2>1 DEF FreshWhileActive
<1> QED
  BY <1>1, <1>2, <1>3, <1>4, <1>5

LEMMA RequestExitPreserves ==
  ASSUME RecordInv, NEW a \in Accounts, RequestExit(a)
  PROVE  RecordInv'
<1> DEFINE nobody == {}
<1>1. locks' = WithStatus(locks, {a}, "ExitRequested")
  BY DEF RequestExit
<1>2. now' = now /\ currencyLock' = currencyLock /\ cooldown' = cooldown /\ lastKick' = lastKick
  BY DEF RequestExit
<1>3. locks \in [Accounts -> LockInfo \cup {None}] /\ "ExitRequested" \in Status
  BY DEF RecordInv, RecordTypes, Status
<1>4. /\ cooldown' = [b \in Accounts |->
                        IF b \in nobody THEN now + RejoinCooldownPeriod ELSE cooldown[b]]
      /\ lastKick' = [b \in Accounts |-> IF b \in nobody THEN now ELSE lastKick[b]]
  BY <1>2 DEF RecordInv, RecordTypes
<1>5. /\ locks' \in [Accounts -> LockInfo \cup {None}]
      /\ \A b \in Accounts :
           /\ locks'[b] = None <=> locks[b] = None
           /\ locks[b] # None => /\ locks'[b].amount = locks[b].amount
                                 /\ locks'[b].expiry = locks[b].expiry
           /\ IsActive(locks', b) => IsActive(locks, b) /\ b \notin nobody
  BY <1>1, <1>3, WithStatusFacts
<1> HIDE DEF nobody
<1> QED
  BY <1>2, <1>4, <1>5, StatusStepPreserves

LEMMA NewSessionFacts ==
  ASSUME RecordTypes, NewSession
  PROVE  /\ locks' \in [Accounts -> LockInfo \cup {None}]
         /\ \A a \in Accounts :
              /\ locks'[a] = None <=> locks[a] = None
              /\ locks[a] # None => /\ locks'[a].amount = locks[a].amount
                                    /\ locks'[a].expiry = locks[a].expiry
              /\ IsActive(locks', a) => IsActive(locks, a) /\ a \notin Kicked
<1> DEFINE mid == LocksAfterKicks
           D == Dropped
           K == Kicked
<1>1. locks' = WithStatus(mid, D, "ExitRequested") /\ mid = WithStatus(locks, K, "Kicked")
  BY DEF NewSession, LocksAfterKicks
<1>2. locks \in [Accounts -> LockInfo \cup {None}] /\ {"ExitRequested", "Kicked"} \subseteq Status
  BY DEF RecordTypes, Status
<1> HIDE DEF mid, D, K
<1>3. /\ mid \in [Accounts -> LockInfo \cup {None}]
      /\ \A a \in Accounts :
           /\ mid[a] = None <=> locks[a] = None
           /\ locks[a] # None => mid[a].amount = locks[a].amount /\ mid[a].expiry = locks[a].expiry
           /\ IsActive(mid, a) => IsActive(locks, a) /\ a \notin K
  BY <1>1, <1>2, WithStatusFacts
<1>4. /\ locks' \in [Accounts -> LockInfo \cup {None}]
      /\ \A a \in Accounts :
           /\ locks'[a] = None <=> mid[a] = None
           /\ mid[a] # None => locks'[a].amount = mid[a].amount /\ locks'[a].expiry = mid[a].expiry
           /\ IsActive(locks', a) => IsActive(mid, a)
  BY <1>1, <1>2, <1>3, WithStatusFacts
<1> QED
  BY <1>3, <1>4 DEF K

LEMMA NextPreserves == RecordInv /\ [Next]_vars => RecordInv'
<1> SUFFICES ASSUME RecordInv, [Next]_vars PROVE RecordInv'
  OBVIOUS
<1>1. CASE OnInitialize
  BY <1>1, OnInitializePreserves
<1>2. CASE NewSession
  <2>1. RecordTypes
    BY DEF RecordInv
  <2>2. /\ now' = now /\ currencyLock' = currencyLock
        /\ cooldown' = [a \in Accounts |->
                          IF a \in Kicked THEN now + RejoinCooldownPeriod ELSE cooldown[a]]
        /\ lastKick' = [a \in Accounts |-> IF a \in Kicked THEN now ELSE lastKick[a]]
    BY <1>2 DEF NewSession
  <2> QED
    BY <1>2, <2>1, <2>2, NewSessionFacts, StatusStepPreserves
<1>3. CASE \E a \in Accounts : Lock(a)
  BY <1>3, LockPreserves
<1>4. CASE \E a \in Accounts : RequestExit(a)
  BY <1>4, RequestExitPreserves
<1>5. CASE UNCHANGED <<now, locks, cooldown, lastKick, currencyLock>>
  BY <1>5 DEF RecordInv, RecordTypes, CurrencyLockMatches, DeadlineOfLastKick,
              CooldownServed, FreshWhileActive, IsActive
<1>6. ASSUME \/ \E S \in SUBSET Accounts : NoteOffline(S)
             \/ \E a \in Accounts : NoteEquivocation(a) \/ SetKeys(a)
             \/ \E a \in Managed, isExempt \in BOOLEAN : SetStakeExempt(a, isExempt)
             \/ \E a \in Purgers : PurgeKeys(a)
             \/ UNCHANGED vars
      PROVE  UNCHANGED <<now, locks, cooldown, lastKick, currencyLock>>
  BY <1>6 DEF NoteOffline, NoteEquivocation, SetKeys, SetStakeExempt, PurgeKeys, vars, palletVars
<1> QED
  BY <1>1, <1>2, <1>3, <1>4, <1>5, <1>6 DEF Next

LEMMA RecordsInductive == Spec => []RecordInv
  BY InitRecordInv, NextPreserves, PTL DEF Spec
-----------------------------------------------------------------------------
\* pallet-balances and ValidatorLocks never disagree about what is locked.
THEOREM CurrencyLockAlwaysMatches == Spec => []CurrencyLockMatches
<1>1. RecordInv => CurrencyLockMatches
  BY DEF RecordInv
<1> QED
  BY <1>1, RecordsInductive, PTL

\* Nobody kicked is Active again before RejoinCooldownPeriod blocks have passed,
\* even when the lock expired, was released and was placed anew.
THEOREM CooldownAlwaysServed == Spec => []CooldownServed
<1>1. RecordInv => CooldownServed
  BY DEF RecordInv
<1> QED
  BY <1>1, RecordsInductive, PTL

\* What one step does to the record of one account.
LEMMA RecordStep ==
  ASSUME RecordInv, [Next]_vars, NEW a \in Accounts, locks[a] # None
  PROVE  /\ IF locks'[a] = None THEN locks[a].expiry <= now'
            ELSE locks'[a].amount >= locks[a].amount /\ locks'[a].expiry >= locks[a].expiry
         /\ RenewalOn /\ IsActive(locks, a) => locks'[a] # None
<1> USE ConfigAssumption DEF RecordInv
<1>1. /\ locks[a] \in LockInfo /\ locks[a].amount \in Nat /\ locks[a].expiry \in Nat
      /\ now \in Nat
  BY DEF RecordTypes, LockInfo
<1>2. CASE OnInitialize
  <2> DEFINE renewed == [amount |-> locks[a].amount, expiry |-> now' + LockDuration,
                         status |-> "Active"]
  <2>1. RenewalOn /\ IsActive(locks, a) => locks[a].expiry > now + 1
    BY <1>1 DEF FreshWhileActive, RenewalOn
  <2>2. now' = now + 1
    BY <1>2, OnInitializeFacts
  <2>3. renewed \in LockInfo /\ renewed # None
    BY <1>1, <2>2 DEF LockInfo, Status
  <2>4. CASE locks'[a] = None /\ locks[a].expiry <= now'
    BY <1>1, <2>1, <2>2, <2>4
  <2>5. CASE locks'[a] = renewed /\ locks[a].expiry <= now' + LockDuration
    BY <1>1, <2>2, <2>3, <2>5
  <2>6. CASE locks'[a] = locks[a]
    BY <1>1, <2>6
  <2> QED
    BY <1>2, <2>4, <2>5, <2>6, OnInitializeFacts
<1>3. CASE NewSession
  BY <1>1, <1>3, NewSessionFacts
<1>4. CASE \E b \in Accounts : Lock(b)
  <2>1. PICK b \in Accounts : locks' = [locks EXCEPT ![b] = Refreshed(b)]
    BY <1>4 DEF Lock
  <2>2. locks'[a] = IF a = b THEN Refreshed(a) ELSE locks[a]
    BY <2>1 DEF RecordTypes
  <2> QED
    BY <1>1, <2>2, RefreshedFacts
<1>5. CASE \E b \in Accounts : RequestExit(b)
  <2>1. PICK b \in Accounts : locks' = WithStatus(locks, {b}, "ExitRequested")
    BY <1>5 DEF RequestExit
  <2>2. locks \in [Accounts -> LockInfo \cup {None}] /\ "ExitRequested" \in Status
    BY DEF RecordTypes, Status
  <2> QED
    BY <1>1, <2>1, <2>2, WithStatusFacts
<1>6. ASSUME \/ \E S \in SUBSET Accounts : NoteOffline(S)
             \/ \E b \in Accounts : NoteEquivocation(b) \/ SetKeys(b)
             \/ \E b \in Managed, isExempt \in BOOLEAN : SetStakeExempt(b, isExempt)
             \/ \E b \in Purgers : PurgeKeys(b)
             \/ UNCHANGED vars
      PROVE  locks' = locks
  BY <1>6 DEF NoteOffline, NoteEquivocation, SetKeys, SetStakeExempt, PurgeKeys, vars, palletVars
<1>7. CASE locks' = locks
  BY <1>1, <1>7
<1> QED
  BY <1>2, <1>3, <1>4, <1>5, <1>6, <1>7 DEF Next

\* "The refresh only ever tightens it, so rejoining never returns stake early":
\* true of every step, not only of lock; and with renewal on and shorter than the
\* lock, no block releases an Active record.
THEOREM StakeNeverReturns == Spec => StakeNeverReturnsEarly
<1> DEFINE TermsHold(a) ==
      locks[a] # None =>
        IF locks'[a] = None
        THEN locks[a].expiry <= now' /\ (RenewalOn => ~IsActive(locks, a))
        ELSE locks'[a].amount >= locks[a].amount /\ locks'[a].expiry >= locks[a].expiry
<1>1. RecordInv /\ [Next]_vars => [\A a \in Accounts : TermsHold(a)]_vars
  BY RecordStep DEF IsActive
<1> QED
  BY <1>1, RecordsInductive, PTL DEF Spec, StakeNeverReturnsEarly
=============================================================================

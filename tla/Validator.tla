------------------------------ MODULE Validator ------------------------------
(***************************************************************************)
(* pallet-validator (pallets/validator/src/lib.rs): stake locks, the       *)
(* pending queue, the desired set, offline and equivocation bookkeeping.   *)
(*                                                                         *)
(* The environment of the pallet is unconstrained here, as it is for the   *)
(* pallet's own tests: blocks, calls, reports and session boundaries come  *)
(* in any order.  ValidatorSession fixes the order the runtime gives them. *)
(*                                                                         *)
(* A call that returns an error is rolled back, so it is a stuttering step *)
(* and its `ensure!`s are the guards of the action.  Two of lock's checks  *)
(* read state of other pallets that nothing here depends on (the identity  *)
(* gate and the free balance): the caller is one that passes them.         *)
(* LockInfo.lock_block is never read and is left out.                      *)
(*                                                                         *)
(* A definition whose name extends another's (DueForRenewalLate) is a      *)
(* deliberate fault, used to show that some property depends on the        *)
(* original; no action uses it.                                            *)
(***************************************************************************)
EXTENDS Integers, Sequences, FiniteSets

CONSTANTS
  Accounts,             \* AccountId
  InitialValidators,    \* GenesisConfig::initial_validators, a sequence
  MaxValidators,        \* Config::MaxValidators
  LockAmount,           \* Config::LockAmount
  LockDuration,         \* Config::LockDuration, in blocks
  RenewInterval,        \* Config::RenewInterval, in blocks; 0 disables renewal
  OfflineThreshold,     \* Config::OfflineThreshold, in sessions
  RejoinCooldownPeriod, \* Config::RejoinCooldownPeriod, in blocks
  Managed,              \* accounts whose exemption the ExemptOrigin changes
  Purgers,              \* accounts that may purge their session keys
  MaxBlock,             \* bound on the height explored
  None                  \* Option::None

Members(s) == {s[i] : i \in DOMAIN s}

\* The genesis build skips a repeated account and panics above MaxValidators.
ASSUME GenesisAssumption ==
  /\ InitialValidators \in Seq(Accounts)
  /\ \A i, j \in DOMAIN InitialValidators :
       InitialValidators[i] = InitialValidators[j] => i = j
  /\ Len(InitialValidators) <= MaxValidators

Status == {"Active", "ExitRequested", "Kicked"}
LockInfo == [amount : Nat, expiry : Nat, status : Status]

ASSUME ConfigAssumption ==
  /\ MaxValidators \in Nat
  /\ LockAmount \in Nat
  /\ LockDuration \in Nat
  /\ RenewInterval \in Nat
  /\ OfflineThreshold \in Nat
  /\ RejoinCooldownPeriod \in Nat
  /\ MaxBlock \in Nat
  /\ Managed \subseteq Accounts
  /\ Purgers \subseteq Accounts
  /\ None \notin Nat \cup LockInfo

VARIABLES
  now,                     \* frame_system block number
  locks,                   \* ValidatorLocks
  pending,                 \* PendingValidators
  desired,                 \* DesiredValidators
  exempt,                  \* StakeExemptAccounts
  cooldown,                \* RejoinCooldown
  offlineCount,            \* OfflineSessionCount, 0 when absent
  offlineThisSession,      \* OfflineThisSession
  equivocationThisSession, \* EquivocationThisSession
  currencyLock,            \* the pallet's lock in pallet-balances, 0 when absent
  keys,                    \* accounts with session keys (pallet-session NextKeys)
  lastKick                 \* history: block of the account's latest kick

palletVars == <<now, locks, pending, desired, exempt, cooldown, offlineCount,
                offlineThisSession, equivocationThisSession, currencyLock, lastKick>>
vars == <<palletVars, keys>>

\* The runtime's configurations satisfy this: renewal is on and shorter than the
\* lock (configs/mod.rs, mainnet and zombienet).
RenewalOn == RenewInterval \in 1..(LockDuration - 1)

MaxOf(x, y) == IF x >= y THEN x ELSE y

IsActive(l, a) == l[a] # None /\ l[a].status = "Active"

WithStatus(l, S, st) ==
  [a \in Accounts |-> IF a \in S /\ l[a] # None
                      THEN [l[a] EXCEPT !.status = st] ELSE l[a]]
-----------------------------------------------------------------------------
Init ==
  LET genesis == Members(InitialValidators) IN
  /\ now = 0
  /\ locks = [a \in Accounts |->
                IF a \in genesis
                THEN [amount |-> 0, expiry |-> LockDuration, status |-> "Active"]
                ELSE None]
  /\ pending = <<>>
  /\ desired = InitialValidators
  /\ exempt = genesis
  /\ cooldown = [a \in Accounts |-> None]
  /\ offlineCount = [a \in Accounts |-> 0]
  /\ offlineThisSession = {}
  /\ equivocationThisSession = {}
  /\ currencyLock = [a \in Accounts |-> 0]
  /\ keys = genesis
  /\ lastKick = [a \in Accounts |-> None]

(***************************************************************************)
(* Block hook: release what has expired, renew what is Active and due.     *)
(***************************************************************************)
Expired(a, n) == locks[a] # None /\ locks[a].expiry <= n

DueForRenewal(a, n) ==
  /\ RenewInterval # 0
  /\ IsActive(locks, a)
  /\ MaxOf(LockDuration - (locks[a].expiry - n), 0) >= RenewInterval

\* remove_lock for every released record.
UnlockedForgotten(n) == currencyLock

Unlocked(n) == [a \in Accounts |-> IF Expired(a, n) THEN 0 ELSE currencyLock[a]]

OnInitialize ==
  /\ now < MaxBlock
  /\ now' = now + 1
  /\ locks' = [a \in Accounts |->
                 IF Expired(a, now') THEN None
                 ELSE IF DueForRenewal(a, now')
                 THEN [locks[a] EXCEPT !.expiry = now' + LockDuration]
                 ELSE locks[a]]
  /\ currencyLock' = Unlocked(now')
  /\ UNCHANGED <<pending, desired, exempt, cooldown, offlineCount, offlineThisSession,
                 equivocationThisSession, keys, lastKick>>
-----------------------------------------------------------------------------
(***************************************************************************)
(* Calls.                                                                  *)
(***************************************************************************)
required_lock(a) == IF a \in exempt THEN 0 ELSE LockAmount

\* What a (re)lock records: a refresh keeps whichever value binds harder.
RefreshedAnew(a) ==
  [amount |-> required_lock(a), expiry |-> now + LockDuration, status |-> "Active"]

Refreshed(a) ==
  LET fresh == now + LockDuration IN
  IF locks[a] = None
  THEN [amount |-> required_lock(a), expiry |-> fresh, status |-> "Active"]
  ELSE [amount |-> MaxOf(locks[a].amount, required_lock(a)),
        expiry |-> MaxOf(locks[a].expiry, fresh), status |-> "Active"]

OutOfCooldownEarly(a) == cooldown[a] # None => cooldown[a] <= now

OutOfCooldown(a) == cooldown[a] # None => cooldown[a] < now

HasRoom == Len(desired) + Len(pending) < MaxValidators

IsOutside(a) == a \notin Members(desired) \cup Members(pending)

Lock(a) ==
  /\ IsOutside(a)
  /\ HasRoom
  /\ a \in keys
  /\ OutOfCooldown(a)
  /\ cooldown' = [cooldown EXCEPT ![a] = None]
  /\ pending' = Append(pending, a)
  /\ locks' = [locks EXCEPT ![a] = Refreshed(a)]
  /\ currencyLock' = [currencyLock EXCEPT ![a] = Refreshed(a).amount]
  /\ UNCHANGED <<now, desired, exempt, offlineCount, offlineThisSession,
                 equivocationThisSession, keys, lastKick>>

RequestExit(a) ==
  /\ IsActive(locks, a)
  /\ locks' = WithStatus(locks, {a}, "ExitRequested")
  /\ pending' = SelectSeq(pending, LAMBDA c : c # a)
  /\ UNCHANGED <<now, desired, exempt, cooldown, offlineCount, offlineThisSession,
                 equivocationThisSession, currencyLock, keys, lastKick>>

SetStakeExempt(a, isExempt) ==
  /\ exempt' = IF isExempt THEN exempt \cup {a} ELSE exempt \ {a}
  /\ UNCHANGED <<now, locks, pending, desired, cooldown, offlineCount, offlineThisSession,
                 equivocationThisSession, currencyLock, keys, lastKick>>
-----------------------------------------------------------------------------
(***************************************************************************)
(* Reports.  An im-online report names a set of offenders at once.         *)
(***************************************************************************)
NoteOffline(offenders) ==
  /\ offlineThisSession' = offlineThisSession \cup {a \in offenders : locks[a] # None}
  /\ UNCHANGED <<now, locks, pending, desired, exempt, cooldown, offlineCount,
                 equivocationThisSession, currencyLock, keys, lastKick>>

NoteEquivocation(a) ==
  /\ IsActive(locks, a)
  /\ equivocationThisSession' = equivocationThisSession \cup {a}
  /\ UNCHANGED <<now, locks, pending, desired, exempt, cooldown, offlineCount,
                 offlineThisSession, currencyLock, keys, lastKick>>
-----------------------------------------------------------------------------
(***************************************************************************)
(* Session boundary.  kick_validator only touches Active records, so the   *)
(* loops of process_equivocations and process_offline_counters are sets:   *)
(* who is kicked for which reason, and who keeps a raised counter.         *)
(***************************************************************************)
KickedForEquivocationSeated ==
  {a \in equivocationThisSession \cap Members(desired) : IsActive(locks, a)}

KickedForEquivocation == {a \in equivocationThisSession : IsActive(locks, a)}

\* Seated, Active once the equivocators are out, and reported this session.
Missed == {a \in Members(desired) \cap offlineThisSession :
             IsActive(locks, a) /\ a \notin KickedForEquivocation}

KickedForOffline == {a \in Missed : offlineCount[a] + 1 >= OfflineThreshold}

Kicked == KickedForEquivocation \cup KickedForOffline

LocksAfterKicks == WithStatus(locks, Kicked, "Kicked")

\* The loop over the previous set, then the drain of the pending queue.
KeptStale == SelectSeq(desired, LAMBDA a : IsActive(locks, a))

Kept == SelectSeq(desired, LAMBDA a : IsActive(LocksAfterKicks, a))

Candidates ==
  SelectSeq(pending, LAMBDA a : IsActive(LocksAfterKicks, a) /\ a \notin Members(Kept))

Promotable == SelectSeq(Candidates, LAMBDA a : a \in keys)

NextDesired ==
  LET room == MaxValidators - Len(Kept)
  IN  Kept \o SubSeq(Promotable, 1, IF Len(Promotable) <= room THEN Len(Promotable) ELSE room)

Dropped == Members(Candidates) \ Members(NextDesired)

SessionResultEvenEmpty == IF NextDesired = desired THEN None ELSE NextDesired

\* What new_session returns: None also hides an empty set from pallet-session.
SessionResult ==
  IF NextDesired = desired \/ (NextDesired = <<>> /\ desired # <<>>)
  THEN None ELSE NextDesired

\* Seated accounts that did not miss the session, or left, start from zero.
NextCount(a) ==
  CASE a \in Missed \ KickedForOffline -> offlineCount[a] + 1
    [] a \in (Members(desired) \ Missed) \cup Kicked \cup Dropped -> 0
    [] OTHER -> offlineCount[a]

\* The loop takes the reports of seated accounts, `clear` the leftovers.
ReportsLeftUncleared == offlineThisSession \ (Members(desired) \cup Dropped)

ReportsLeft == {}

NewSession ==
  /\ locks' = WithStatus(LocksAfterKicks, Dropped, "ExitRequested")
  /\ cooldown' = [a \in Accounts |->
                    IF a \in Kicked THEN now + RejoinCooldownPeriod ELSE cooldown[a]]
  /\ lastKick' = [a \in Accounts |-> IF a \in Kicked THEN now ELSE lastKick[a]]
  /\ offlineCount' = [a \in Accounts |-> NextCount(a)]
  /\ offlineThisSession' = ReportsLeft
  /\ equivocationThisSession' = {}
  /\ desired' = NextDesired
  /\ pending' = <<>>
  /\ UNCHANGED <<now, exempt, currencyLock, keys>>
-----------------------------------------------------------------------------
(***************************************************************************)
(* pallet-session's set_keys and purge_keys, seen through has_keys.        *)
(***************************************************************************)
SetKeys(a) == a \notin keys /\ keys' = keys \cup {a} /\ UNCHANGED palletVars

PurgeKeys(a) == a \in keys /\ keys' = keys \ {a} /\ UNCHANGED palletVars

Next ==
  \/ OnInitialize
  \/ NewSession
  \/ \E S \in SUBSET Accounts : NoteOffline(S)
  \/ \E a \in Accounts : Lock(a) \/ RequestExit(a) \/ NoteEquivocation(a) \/ SetKeys(a)
  \/ \E a \in Managed, isExempt \in BOOLEAN : SetStakeExempt(a, isExempt)
  \/ \E a \in Purgers : PurgeKeys(a)

Spec == Init /\ [][Next]_vars
-----------------------------------------------------------------------------
(***************************************************************************)
(* Safety.                                                                 *)
(***************************************************************************)

\* pallet-balances holds exactly the amount the lock record says, and nothing
\* once the record is gone.
CurrencyLockMatches ==
  \A a \in Accounts :
    currencyLock[a] = IF locks[a] = None THEN 0 ELSE locks[a].amount

\* After a kick an account is not Active again before the whole rejoin cooldown
\* has passed, whether or not its lock expired meanwhile.
CooldownServed ==
  \A a \in Accounts :
    IsActive(locks, a) /\ lastKick[a] # None => now > lastKick[a] + RejoinCooldownPeriod

(***************************************************************************)
(* Action properties.                                                      *)
(***************************************************************************)

\* No step, a rejoin included, frees stake early: a record disappears only at
\* its expiry, with renewal on and shorter than the lock never while its account
\* is Active, and while it exists its amount and its expiry never go down.
StakeNeverReturnsEarly ==
  [][\A a \in Accounts : locks[a] # None =>
       IF locks'[a] = None
       THEN locks[a].expiry <= now' /\ (RenewalOn => ~IsActive(locks, a))
       ELSE locks'[a].amount >= locks[a].amount /\ locks'[a].expiry >= locks[a].expiry]_vars
=============================================================================

------------------------- MODULE ValidatorLifecycle -------------------------
(***************************************************************************)
(* What pallet-validator promises about stake and seats, without saying    *)
(* how: no queue order, no counters, no flags, no session keys.  A record  *)
(* is Active from a join until an exit, a kick or a drop, then runs to its *)
(* expiry; a seat is taken by joining and given up at a boundary.          *)
(* Validator implements this specification.                                *)
(***************************************************************************)
EXTENDS Integers, FiniteSets

CONSTANTS Accounts, Founders, MaxValidators, LockAmount, LockDuration, RenewInterval, MaxBlock, None

\* What the theorems about the lifecycle ask of its parameters.
LifecycleAssumption ==
  /\ IsFiniteSet(Founders) /\ Founders \subseteq Accounts
  /\ MaxValidators \in Nat /\ Cardinality(Founders) <= MaxValidators
  /\ LockAmount \in Nat
  /\ LockDuration \in Nat
  /\ MaxBlock \in Nat
  /\ RenewInterval \in 1..(LockDuration - 1)
  /\ None \notin [amount : Nat, expiry : Nat, status : {"Active", "ExitRequested", "Kicked"}]

VARIABLES now, locks, waiting, seated

vars == <<now, locks, waiting, seated>>

LockInfo == [amount : Nat, expiry : Nat, status : {"Active", "ExitRequested", "Kicked"}]

TypeOK ==
  /\ now \in Nat
  /\ locks \in [Accounts -> LockInfo \cup {None}]
  /\ waiting \subseteq Accounts
  /\ seated \subseteq Accounts

Active == {a \in Accounts : locks[a] # None /\ locks[a].status = "Active"}

Init ==
  /\ now = 0
  /\ locks = [a \in Accounts |->
                IF a \in Founders
                THEN [amount |-> 0, expiry |-> LockDuration, status |-> "Active"]
                ELSE None]
  /\ waiting = {}
  /\ seated = Founders

Due(a, n) == a \in Active /\ LockDuration - (locks[a].expiry - n) >= RenewInterval

\* A block passes: expired records go, Active ones inside their last
\* LockDuration - RenewInterval blocks are renewed.
Tick ==
  /\ now < MaxBlock
  /\ now' = now + 1
  /\ locks' = [a \in Accounts |->
       IF locks[a] = None \/ locks[a].expiry <= now' THEN None
       ELSE IF Due(a, now')
       THEN [locks[a] EXCEPT !.expiry = now' + LockDuration]
       ELSE locks[a]]
  /\ UNCHANGED <<waiting, seated>>

WithStatus(info, status) == [amount |-> info.amount, expiry |-> info.expiry, status |-> status]

\* The record of a join: terms no weaker than the ones the account is bound by.
Terms(a, amount) ==
  [amount |-> IF locks[a] # None /\ locks[a].amount >= amount
              THEN locks[a].amount ELSE amount,
   expiry |-> IF locks[a] # None /\ locks[a].expiry >= now + LockDuration
              THEN locks[a].expiry ELSE now + LockDuration,
   status |-> "Active"]

HasRoom == Cardinality(waiting \cup seated) < MaxValidators

\* An account takes one of the remaining seats.
Join(a) ==
  /\ a \notin waiting \cup seated
  /\ HasRoom
  /\ \E amount \in {0, LockAmount} :
       locks' = [locks EXCEPT ![a] = Terms(a, amount)]
  /\ waiting' = waiting \cup {a}
  /\ UNCHANGED <<now, seated>>

Exit(a) ==
  /\ a \in Active
  /\ UNCHANGED <<now, seated>>
  /\ waiting' = waiting \ {a}
  /\ locks' = [locks EXCEPT ![a] = WithStatus(locks[a], "ExitRequested")]

\* A session boundary: some Active accounts are kicked, some of the waiting are
\* dropped, and the seats go to the Active that remain.
Boundary(kicked, dropped) ==
  /\ UNCHANGED now
  /\ waiting' = {}
  /\ kicked \subseteq Active
  /\ dropped \subseteq (waiting \cap Active) \ kicked
  /\ seated' = ((seated \cup waiting) \cap Active) \ (kicked \cup dropped)
  /\ locks' = [a \in Accounts |->
       IF a \in kicked THEN WithStatus(locks[a], "Kicked")
       ELSE IF a \in dropped THEN WithStatus(locks[a], "ExitRequested")
       ELSE locks[a]]

Next ==
  \/ Tick
  \/ \E a \in Accounts : Join(a) \/ Exit(a)
  \/ \E kicked \in SUBSET Active :
       \E dropped \in SUBSET waiting : Boundary(kicked, dropped)

Spec == Init /\ [][Next]_vars
-----------------------------------------------------------------------------
\* The set and the queue never hold more than MaxValidators accounts (the
\* bounds of DesiredValidators and PendingValidators), and nobody is in both.
SeatBound ==
  /\ Cardinality(waiting \cup seated) <= MaxValidators
  /\ waiting \cap seated = {}

\* Exactly the accounts in the set or in the queue can be Active: everybody
\* Active has a place, everybody in the queue is Active, and no member of the set
\* is Kicked.
ActiveArePlaced ==
  /\ Active \subseteq waiting \cup seated
  /\ waiting \subseteq Active
  /\ \A a \in seated : locks[a] # None => locks[a].status # "Kicked"

\* Renewal comes in time: after every block an Active record has more than
\* LockDuration - RenewInterval blocks left, so on_initialize never finds one
\* expired.
ActiveAreFresh == \A a \in Active : locks[a].expiry > now + (LockDuration - RenewInterval)

\* No step frees stake early: a record goes only at its expiry, never while its
\* account is Active, and neither its amount nor its expiry ever decreases.
StakeKept ==
  [][\A a \in Accounts : locks[a] # None =>
       IF locks'[a] = None THEN locks[a].expiry <= now' /\ a \notin Active
       ELSE locks'[a].amount >= locks[a].amount /\ locks'[a].expiry >= locks[a].expiry]_vars
=============================================================================

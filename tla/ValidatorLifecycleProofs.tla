---------------------- MODULE ValidatorLifecycleProofs ----------------------
(***************************************************************************)
(* The seat and stake guarantees of the validator lifecycle, for any set   *)
(* of accounts, any seat limit and any lock and renewal lengths.           *)
(*                                                                         *)
(* The invariants are not inductive alone.  That everybody waiting is      *)
(* Active needs that no Active record is released, and that needs          *)
(* ActiveAreFresh: after every block such a record has more than           *)
(* LockDuration - RenewInterval blocks left.                               *)
(***************************************************************************)
EXTENDS ValidatorLifecycle, FiniteSetTheorems, TLAPS

IInv ==
  /\ LifecycleAssumption
  /\ TypeOK
  /\ IsFiniteSet(waiting \cup seated)
  /\ SeatBound
  /\ ActiveArePlaced
  /\ ActiveAreFresh

LEMMA InitEstablishes == LifecycleAssumption /\ Init => IInv
<1> SUFFICES ASSUME LifecycleAssumption, Init PROVE IInv
  OBVIOUS
<1> USE DEF LifecycleAssumption
<1>1. TypeOK
  BY DEF Init, TypeOK, LockInfo
<1>2. waiting \cup seated = Founders /\ waiting \cap seated = {}
  BY DEF Init
<1>3. Active = Founders
  BY DEF Init, Active
<1>4. ActiveArePlaced
  BY <1>3 DEF Init, ActiveArePlaced
<1>5. ActiveAreFresh
  BY <1>3 DEF Init, ActiveAreFresh
<1> QED
  BY <1>1, <1>2, <1>4, <1>5 DEF IInv, SeatBound

\* One block: who is Active and how long the record still runs.
LEMMA TickKeepsActive ==
  ASSUME IInv, Tick
  PROVE  /\ TypeOK'
         /\ Active' = Active
         /\ ActiveAreFresh'
         /\ \A a \in Accounts : locks'[a] # None =>
              /\ locks[a] # None
              /\ locks'[a].status = locks[a].status
              /\ locks'[a].amount = locks[a].amount
              /\ locks'[a].expiry >= locks[a].expiry
<1> USE DEF LifecycleAssumption, IInv, TypeOK, LockInfo, Tick, Due
<1>1. now' \in Nat /\ now' = now + 1
  OBVIOUS
<1>2. ASSUME NEW a \in Accounts
      PROVE  \/ /\ locks[a] = None \/ locks[a].expiry <= now'
                /\ locks'[a] = None
             \/ /\ locks[a] \in LockInfo /\ locks[a].expiry > now' /\ Due(a, now')
                /\ locks'[a] = [amount |-> locks[a].amount, expiry |-> now' + LockDuration,
                                status |-> locks[a].status]
             \/ /\ locks[a] \in LockInfo /\ locks[a].expiry > now' /\ ~Due(a, now')
                /\ locks'[a] = locks[a]
  BY <1>1
<1>3. ASSUME NEW a \in Active
      PROVE  a \in Accounts /\ locks[a] \in LockInfo /\ locks[a].expiry > now'
  BY <1>1 DEF ActiveAreFresh, Active
<1>4. TypeOK'
  BY <1>1, <1>2
<1>5. Active' = Active
  <2>1. ASSUME NEW a \in Active PROVE a \in Active'
    BY <1>2, <1>3 DEF Active
  <2>2. ASSUME NEW a \in Active' PROVE a \in Active
    BY <1>2 DEF Active
  <2> QED
    BY <2>1, <2>2
<1>6. ActiveAreFresh'
  BY <1>1, <1>2, <1>3, <1>5 DEF ActiveAreFresh
<1>7. ASSUME NEW a \in Accounts, locks'[a] # None
      PROVE  /\ locks[a] # None
             /\ locks'[a].status = locks[a].status
             /\ locks'[a].amount = locks[a].amount
             /\ locks'[a].expiry >= locks[a].expiry
  BY <1>1, <1>2, <1>7
<1> QED
  BY <1>4, <1>5, <1>6, <1>7

\* The terms of a join bind at least as hard as the record they replace.
LEMMA TermsBind ==
  ASSUME LifecycleAssumption, TypeOK, NEW a \in Accounts, NEW amount \in {0, LockAmount}
  PROVE  /\ Terms(a, amount) \in LockInfo
         /\ Terms(a, amount).status = "Active"
         /\ Terms(a, amount).expiry >= now + LockDuration
         /\ locks[a] # None => /\ Terms(a, amount).amount >= locks[a].amount
                               /\ Terms(a, amount).expiry >= locks[a].expiry
<1> USE DEF LifecycleAssumption, TypeOK
<1>1. CASE locks[a] = None
  BY <1>1 DEF Terms, LockInfo
<1>2. CASE locks[a] # None
  <2>1. locks[a].amount \in Nat /\ locks[a].expiry \in Nat
    BY <1>2 DEF LockInfo
  <2> QED
    BY <1>2, <2>1 DEF Terms, LockInfo
<1> QED
  BY <1>1, <1>2

\* Joining takes a free seat and leaves every other record alone.
LEMMA JoinPreserves ==
  ASSUME IInv, NEW a \in Accounts, Join(a)
  PROVE  IInv'
<1> USE DEF LifecycleAssumption, IInv, TypeOK, LockInfo
<1>1. PICK r \in LockInfo :
        /\ locks' = [locks EXCEPT ![a] = r]
        /\ r.status = "Active"
        /\ r.expiry >= now + LockDuration
  BY TermsBind DEF Join
<1>2. now' = now /\ seated' = seated /\ waiting' = waiting \cup {a}
  BY DEF Join
<1>3. a \notin waiting \cup seated /\ Cardinality(waiting \cup seated) < MaxValidators
  BY DEF Join, HasRoom
<1>4. TypeOK'
  BY <1>1, <1>2
<1>5. Active' = Active \cup {a}
  BY <1>1 DEF Active
<1>6. IsFiniteSet(waiting' \cup seated') /\ SeatBound'
  <2>1. waiting' \cup seated' = (waiting \cup seated) \cup {a}
    BY <1>2
  <2>2. /\ IsFiniteSet((waiting \cup seated) \cup {a})
        /\ Cardinality((waiting \cup seated) \cup {a}) = Cardinality(waiting \cup seated) + 1
    BY <1>3, FS_AddElement
  <2>3. Cardinality(waiting \cup seated) \in Nat
    BY FS_CardinalityType
  <2> QED
    BY <1>2, <1>3, <2>1, <2>2, <2>3 DEF SeatBound
<1>7. ActiveArePlaced'
  BY <1>1, <1>2, <1>3, <1>5 DEF ActiveArePlaced
<1>8. ActiveAreFresh'
  BY <1>1, <1>2, <1>5 DEF ActiveAreFresh, Active
<1> QED
  BY <1>4, <1>6, <1>7, <1>8

LEMMA ExitPreserves ==
  ASSUME IInv, NEW a \in Accounts, Exit(a)
  PROVE  IInv'
<1> USE DEF LifecycleAssumption, IInv, TypeOK, LockInfo, Exit
<1>1. /\ locks[a] \in LockInfo
      /\ locks' = [locks EXCEPT ![a] = [amount |-> locks[a].amount, expiry |-> locks[a].expiry,
                                        status |-> "ExitRequested"]]
  BY DEF Active, WithStatus
<1>2. TypeOK'
  BY <1>1
<1>3. Active' = Active \ {a}
  BY <1>1 DEF Active
<1>4. waiting' \cup seated' \subseteq waiting \cup seated
  OBVIOUS
<1>5. IsFiniteSet(waiting' \cup seated') /\ SeatBound'
  <2>1. /\ IsFiniteSet(waiting' \cup seated')
        /\ Cardinality(waiting' \cup seated') <= Cardinality(waiting \cup seated)
    BY <1>4, FS_Subset
  <2>2. Cardinality(waiting \cup seated) \in Nat /\ Cardinality(waiting' \cup seated') \in Nat
    BY <2>1, FS_CardinalityType
  <2> QED
    BY <2>1, <2>2 DEF SeatBound
<1>6. ActiveArePlaced'
  BY <1>1, <1>3 DEF ActiveArePlaced
<1>7. ActiveAreFresh'
  BY <1>1, <1>3 DEF ActiveAreFresh, Active
<1> QED
  BY <1>2, <1>5, <1>6, <1>7

\* A boundary: the Active that remain are exactly the new set.
LEMMA BoundaryPreserves ==
  ASSUME IInv, NEW kicked, NEW dropped, Boundary(kicked, dropped)
  PROVE  IInv'
<1> USE DEF LifecycleAssumption, IInv, TypeOK, LockInfo, Boundary
<1>1. ASSUME NEW a \in Accounts
      PROVE  \/ /\ a \in kicked \cup dropped /\ locks[a] \in LockInfo
                /\ locks'[a] \in LockInfo /\ locks'[a].status # "Active"
             \/ a \notin kicked \cup dropped /\ locks'[a] = locks[a]
  BY DEF Active, WithStatus
<1>2. TypeOK'
  BY <1>1
<1>3. Active' = Active \ (kicked \cup dropped)
  BY <1>1 DEF Active
<1>4. seated' = Active' /\ waiting' = {}
  BY <1>3 DEF ActiveArePlaced
<1>5. IsFiniteSet(waiting' \cup seated') /\ SeatBound'
  <2>1. waiting' \cup seated' \subseteq waiting \cup seated
    BY <1>4
  <2>2. /\ IsFiniteSet(waiting' \cup seated')
        /\ Cardinality(waiting' \cup seated') <= Cardinality(waiting \cup seated)
    BY <2>1, FS_Subset
  <2>3. Cardinality(waiting \cup seated) \in Nat /\ Cardinality(waiting' \cup seated') \in Nat
    BY <2>2, FS_CardinalityType
  <2> QED
    BY <1>4, <2>2, <2>3 DEF SeatBound
<1>6. ActiveArePlaced'
  BY <1>4 DEF ActiveArePlaced, Active
<1>7. ActiveAreFresh'
  BY <1>1, <1>3 DEF ActiveAreFresh, Active
<1> QED
  BY <1>2, <1>5, <1>6, <1>7

LEMMA NextPreserves == IInv /\ [Next]_vars => IInv'
<1> SUFFICES ASSUME IInv, [Next]_vars PROVE IInv'
  OBVIOUS
<1>1. CASE Tick
  <2>1. waiting' = waiting /\ seated' = seated
    BY <1>1 DEF Tick
  <2>2. IsFiniteSet(waiting' \cup seated') /\ SeatBound'
    BY <2>1 DEF IInv, SeatBound
  <2>3. ActiveArePlaced'
    BY <1>1, <2>1, TickKeepsActive DEF IInv, ActiveArePlaced, TypeOK
  <2> QED
    BY <1>1, <2>2, <2>3, TickKeepsActive DEF LifecycleAssumption, IInv
<1>2. CASE \E a \in Accounts : Join(a) \/ Exit(a)
  BY <1>2, JoinPreserves, ExitPreserves
<1>3. CASE \E kicked \in SUBSET Active : \E dropped \in SUBSET waiting : Boundary(kicked, dropped)
  BY <1>3, BoundaryPreserves
<1>4. CASE UNCHANGED vars
  BY <1>4 DEF vars, LifecycleAssumption, IInv, TypeOK, SeatBound, ActiveArePlaced, ActiveAreFresh, Active
<1> QED
  BY <1>1, <1>2, <1>3, <1>4 DEF Next

LEMMA Inductive == LifecycleAssumption /\ Spec => []IInv
  BY InitEstablishes, NextPreserves, PTL DEF Spec
-----------------------------------------------------------------------------
\* The seats of DesiredValidators and PendingValidators never run over, and no
\* account holds two of them, however joins, exits, kicks and drops interleave.
THEOREM SeatsNeverOverflow == LifecycleAssumption /\ Spec => []SeatBound
<1>1. IInv => SeatBound
  BY DEF IInv
<1> QED
  BY <1>1, Inductive, PTL

\* Active accounts and seats agree, so renewal never extends the lock of an
\* account that lost its place and no member of the set is Kicked.
THEOREM ActiveAlwaysPlaced == LifecycleAssumption /\ Spec => []ActiveArePlaced
<1>1. IInv => ActiveArePlaced
  BY DEF IInv
<1> QED
  BY <1>1, Inductive, PTL

\* The renewal in on_initialize always comes before the expiry.
THEOREM ActiveAlwaysFresh == LifecycleAssumption /\ Spec => []ActiveAreFresh
<1>1. IInv => ActiveAreFresh
  BY DEF IInv
<1> QED
  BY <1>1, Inductive, PTL

\* No interleaving of blocks, joins, exits and boundaries returns stake before
\* its expiry, releases an Active record, or weakens a record.
THEOREM StakeNeverFreedEarly == LifecycleAssumption /\ Spec => StakeKept
<1> DEFINE Kept(a) ==
      locks[a] # None =>
        IF locks'[a] = None THEN locks[a].expiry <= now' /\ a \notin Active
        ELSE locks'[a].amount >= locks[a].amount /\ locks'[a].expiry >= locks[a].expiry
<1>1. ASSUME IInv, [Next]_vars, NEW a \in Accounts PROVE Kept(a)
  <2> USE <1>1 DEF IInv
  <2>1. ASSUME locks[a] # None
        PROVE  locks[a].amount \in Nat /\ locks[a].expiry \in Nat
    BY <2>1 DEF TypeOK, LockInfo
  <2>2. CASE Tick
    <3>1. a \in Active => locks'[a] # None
      BY <2>2, TickKeepsActive DEF Active
    <3>2. locks[a] # None /\ locks'[a] = None => locks[a].expiry <= now'
      <4> SUFFICES ASSUME locks[a] # None, locks'[a] = None, ~(locks[a].expiry <= now')
                   PROVE  FALSE
        OBVIOUS
      <4>1. locks'[a] \in LockInfo
        BY <2>1, <2>2 DEF LifecycleAssumption, Tick, Due, TypeOK, LockInfo
      <4> QED
        BY <4>1 DEF LifecycleAssumption, LockInfo
    <3>3. locks'[a] # None => locks'[a].amount = locks[a].amount /\ locks'[a].expiry >= locks[a].expiry
      BY <2>2, TickKeepsActive
    <3> QED
      BY <2>1, <3>1, <3>2, <3>3
  <2>3. CASE \E b \in Accounts : Join(b)
    <3>1. PICK b \in Accounts, amount \in {0, LockAmount} :
            locks' = [locks EXCEPT ![b] = Terms(b, amount)]
      BY <2>3 DEF Join
    <3>2. locks'[a] = IF a = b THEN Terms(a, amount) ELSE locks[a]
      BY <3>1 DEF TypeOK
    <3>3. CASE a = b
      BY <2>1, <3>2, <3>3, TermsBind DEF LifecycleAssumption, LockInfo
    <3>4. CASE a # b
      BY <2>1, <3>2, <3>4
    <3> QED
      BY <3>3, <3>4
  <2>4. CASE \E b \in Accounts : Exit(b)
    BY <2>1, <2>4 DEF LifecycleAssumption, Exit, WithStatus, TypeOK, LockInfo
  <2>5. CASE \E kicked \in SUBSET Active : \E dropped \in SUBSET waiting : Boundary(kicked, dropped)
    BY <2>1, <2>5 DEF LifecycleAssumption, Boundary, WithStatus, TypeOK, LockInfo
  <2>6. CASE UNCHANGED vars
    BY <2>1, <2>6 DEF vars
  <2> QED
    BY <2>2, <2>3, <2>4, <2>5, <2>6 DEF Next
<1>2. IInv /\ [Next]_vars => [\A a \in Accounts : Kept(a)]_vars
  BY <1>1
<1> QED
  BY <1>2, Inductive, PTL DEF Spec, StakeKept
=============================================================================

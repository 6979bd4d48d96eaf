-------------------------- MODULE ValidatorSession --------------------------
(***************************************************************************)
(* pallet-validator as the runtime drives it.                              *)
(*                                                                         *)
(* runtime/src/lib.rs orders the hooks of a block: Validator (index 13)    *)
(* runs on_initialize before Session (index 15).  At a session boundary    *)
(* pallet-session rotates: im-online reports the offline validators of the *)
(* ending session, the queued set becomes the validator set, and           *)
(* new_session chooses the set to queue, in force one session later.       *)
(* Calls of users and equivocation reports follow the hooks.  `phase` is   *)
(* the position inside the block.                                          *)
(*                                                                         *)
(* pallet-session and pallet-im-online are external; they are modelled     *)
(* from how the runtime configures them.                                   *)
(***************************************************************************)
EXTENDS Validator

CONSTANT SessionPeriod   \* configs: SessionPeriod, with SessionOffset = 0

ASSUME PeriodAssumption == SessionPeriod \in Nat \ {0}

VARIABLES
  phase,        \* "calls", or at a boundary "report" and then "rotate"
  validators,   \* pallet-session Validators: the GRANDPA voters
  queued,       \* pallet-session QueuedKeys: the set of the next session
  historical,   \* accounts that were in some session's set (historical proofs)
  purged        \* history: accounts that ever purged their keys

sessionVars == <<phase, validators, queued, historical, purged>>
allVars == <<vars, sessionVars>>

SessionInit ==
  /\ Init
  /\ phase = "calls"
  /\ validators = InitialValidators
  /\ queued = InitialValidators
  /\ historical = Members(InitialValidators)
  /\ purged = {}

\* PeriodicSessions::should_end_session with a zero offset.
IsBoundary(n) == n % SessionPeriod = 0

BeginBlock ==
  /\ phase = "calls"
  /\ OnInitialize
  /\ phase' = IF IsBoundary(now') THEN "report" ELSE "calls"
  /\ UNCHANGED <<validators, queued, historical, purged>>

\* im-online at the end of a session: any of the session's validators may have
\* missed its heartbeat, and ActiveValidatorIdentification keeps the Active ones.
ReportOffline ==
  /\ phase = "report"
  /\ \E S \in SUBSET {a \in Accounts : a \in Members(validators) /\ IsActive(locks, a)} :
       NoteOffline(S)
  /\ phase' = "rotate"
  /\ UNCHANGED <<validators, queued, historical, purged>>

\* pallet-session rotate_session: on None the set now in force is queued again,
\* and only accounts with registered keys can be queued.
RotateSession ==
  /\ phase = "rotate"
  /\ NewSession
  /\ phase' = "calls"
  /\ validators' = queued
  /\ queued' = LET chosen == IF SessionResult = None THEN queued ELSE SessionResult
               IN  SelectSeq(chosen, LAMBDA a : a \in keys)
  /\ historical' = historical \cup Members(queued)
  /\ UNCHANGED purged

\* GrandpaOffenceReporter: the report carries a proof of membership in some set.
ReportEquivocation(a) == a \in historical /\ NoteEquivocation(a)

Call ==
  /\ phase = "calls"
  /\ \/ \E a \in Accounts :
          Lock(a) \/ RequestExit(a) \/ SetKeys(a) \/ ReportEquivocation(a)
     \/ \E a \in Managed, isExempt \in BOOLEAN : SetStakeExempt(a, isExempt)
  /\ UNCHANGED sessionVars

Purge ==
  /\ phase = "calls"
  /\ \E a \in Purgers : PurgeKeys(a) /\ purged' = purged \cup {a}
  /\ UNCHANGED <<phase, validators, queued, historical>>

SessionNext == BeginBlock \/ ReportOffline \/ RotateSession \/ Call \/ Purge

SessionSpec == SessionInit /\ [][SessionNext]_allVars
-----------------------------------------------------------------------------
(***************************************************************************)
(* Safety of the composition.                                              *)
(***************************************************************************)
\* While the desired set is not empty, pallet-session queues it and nobody else, in
\* the same order, less only accounts that purged their keys: the None new_session
\* returns for an unchanged set never lets the two drift apart.  Its fallback for an
\* empty set keeps authorities in the queue through exits, kicks, drops and
\* expiries; only purged keys can empty it.
QueueFollowsDesired ==
  /\ phase = "calls" /\ desired # <<>> =>
       /\ queued = SelectSeq(desired, LAMBDA a : a \in Members(queued))
       /\ Members(desired) \ Members(queued) \subseteq purged
  /\ InitialValidators # <<>> /\ queued = <<>> => purged # {}

\* A boundary counts an account as having missed the session only if
\* pallet-session had it in the validator set of that session: a candidate
\* promoted one session before it starts to vote, or one that left and
\* rejoined, is not charged with a report of an earlier session.
OnlyVotersMiss ==
  [][phase = "rotate" /\ phase' = "calls" => Missed \subseteq Members(validators)]_allVars

\* An account reported for equivocation has no seat after the boundary, whatever
\* came between: an exit, an exit and a rejoin, the flag raised while it waited
\* in the queue (process_equivocations runs before the set is recomputed).
FlaggedLoseSeat ==
  [][phase = "rotate" /\ phase' = "calls" =>
       equivocationThisSession \cap Members(desired') = {}]_allVars

(***************************************************************************)
(* Validator implements ValidatorLifecycle, seats seen as sets.            *)
(***************************************************************************)
Lifecycle == INSTANCE ValidatorLifecycle WITH
  Founders <- Members(InitialValidators),
  waiting <- Members(pending),
  seated <- Members(desired)

\* Every step of the pallet, in the order the runtime gives them, is a step of
\* the lifecycle specification or leaves its state alone.
ImplementsLifecycle == Lifecycle!Spec
=============================================================================

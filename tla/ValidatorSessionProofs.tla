----------------------- MODULE ValidatorSessionProofs -----------------------
(***************************************************************************)
(* The runtime's ordering of hooks, reports, rotations and calls is one of *)
(* the orders Validator allows, so what ValidatorProofs shows of every     *)
(* order holds in the runtime.                                             *)
(***************************************************************************)
EXTENDS ValidatorSession, ValidatorProofs

\* Each phase of a block is a step of the pallet or leaves it alone.
LEMMA SessionStepIsPalletStep == [SessionNext]_allVars => [Next]_vars
<1> SUFFICES ASSUME [SessionNext]_allVars PROVE [Next]_vars
  OBVIOUS
<1>1. CASE BeginBlock
  BY <1>1 DEF BeginBlock, Next
<1>2. CASE ReportOffline
  BY <1>2 DEF ReportOffline, Next
<1>3. CASE RotateSession
  BY <1>3 DEF RotateSession, Next
<1>4. CASE Call
  BY <1>4 DEF Call, ReportEquivocation, Next
<1>5. CASE Purge
  BY <1>5 DEF Purge, Next
<1>6. CASE UNCHANGED allVars
  BY <1>6 DEF allVars
<1> QED
  BY <1>1, <1>2, <1>3, <1>4, <1>5, <1>6 DEF SessionNext

\* pallet-validator driven by pallet-session and im-online behaves as the
\* pallet alone may.
THEOREM SessionImplementsValidator == SessionSpec => Spec
<1>1. SessionInit => Init
  BY DEF SessionInit
<1> QED
  BY <1>1, SessionStepIsPalletStep, PTL DEF SessionSpec, Spec

\* Hence, in the runtime: the balance lock always matches the record, the rejoin
\* cooldown is always served, and no step returns stake early.
THEOREM RuntimeKeepsStake ==
  SessionSpec => /\ []CurrencyLockMatches
                 /\ []CooldownServed
                 /\ StakeNeverReturnsEarly
  BY SessionImplementsValidator, CurrencyLockAlwaysMatches, CooldownAlwaysServed,
     StakeNeverReturns, PTL
=============================================================================

CONSTANTS
  a1 = a1
  a2 = a2
  a3 = a3
  Accounts = {a1, a2, a3}
  InitialValidators <- OneGenesisValidator
  MaxValidators = 2
  LockAmount = 1
  LockDuration = 3
  RenewInterval = 1
  OfflineThreshold = 2
  RejoinCooldownPeriod = 2
  SessionPeriod = 2
  Managed = {a1}
  Purgers = {a1}
  MaxBlock = 6
  None = None
SPECIFICATION SessionSpec
INVARIANTS
  CurrencyLockMatches
  CooldownServed
  QueueFollowsDesired
PROPERTIES
  StakeNeverReturnsEarly
  OnlyVotersMiss
  ImplementsLifecycle
  FlaggedLoseSeat
SYMMETRY Newcomers

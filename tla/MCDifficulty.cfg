CONSTANTS
  Width = 13
  InitialDifficulty = 40
  TargetBlockTime = 2
  Halflife = 5
  BreakThresholdSecs = 6
  TicksPerSecond = 2
  MinimumPeriod = 1
  MaxDrift = 1
  Start = 200
  Pauses = {3, 14}
  MaxClock = 230
  MaxHeight = 5
SPECIFICATION Spec
INVARIANTS
  NeverHarderLater
  
PROPERTIES
  RecordedIsVerified
CHECK_DEADLOCK FALSE

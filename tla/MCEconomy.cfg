CONSTANTS
  m1 = m1
  user = user
  Treasury = Treasury
  Nobody = Nobody
  Accounts = {m1, user, Treasury}
  Miners = {m1}
  Opening <- Balances
  InitialReward = 4
  HalvingInterval = 2
  Div = 40
  Bill = 8
  FeeAnchor = 100
  WeightFee = 200
  LengthFee = 100
  AdjustmentVariable = 20
  MaxRefTime = 10
  MaxProof = 7
  MaxLength = 9
  Loads <- Kinds
  Tips = {0, 3}
  Stored = {3, 40, 390}
  MaxBlocks = 9
  MaxTxs = 1
  MaxUpgrades = 2
SPECIFICATION Spec
INVARIANTS
  EmissionCapped
PROPERTIES
  SelfPayLoses
  UpgradeKeepsPrices
CHECK_DEADLOCK FALSE

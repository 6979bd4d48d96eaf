CONSTANTS
  u1 = u1
  u2 = u2
  Users = {u1, u2}
  Cold = Cold
  Token = Token
  Other = Other
  Root = Root
  Opening <- OpeningBalances
  Frozen <- Locked
  ExistentialDeposit = 1
  MaxBalance = 6
  MaxU256 = 8
  Amounts = {0, 2, 7}
  Values = {2}
  Spenders = {u2}
  Signable <- PermitsToSign
  MaxTime = 1
SPECIFICATION Spec
INVARIANTS
  SupplyIsBalances
  SpendingBounded
  PermitsOnce
PROPERTIES
  ProxyFaithful
CHECK_DEADLOCK FALSE

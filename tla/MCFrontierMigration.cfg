CONSTANTS
  a1 = a1
  a2 = a2
  t = t
  n1 = n1
  X = X
  Bad = Bad
  Del = Del
  Proxy = Proxy
  NoCode = NoCode
  Addresses = {a1, a2, t}
  Known = {a1, t}
  Token = t
  Frontier <- Reached
  Holdings <- OldAccounts
  Layouts <- Chains
  Refused = {Bad}
  Delegations = {Del}
  Height = 5
  Window = 3
  Hashed = {1, 2, 4}
  Natives = {n1}
  MaxSigned = 1
  ExistentialDeposit = 1
  ClaimFee = 2
  MaxVestingSchedules = 2
  Payments = {1}
  MaxPaid = 4
  MaxNonce = 3
SPECIFICATION MSpec
INVARIANTS
  SpentStaysSpent
  MigrationConserves
  ContractsKeptOnce

  
CHECK_DEADLOCK FALSE

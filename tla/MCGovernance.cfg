SPECIFICATION Spec
CONSTANTS
    p = p
    q = q
    s = s
    Accounts <- MCAccounts
    Genesis = p
    Registered = {q}
    Nameless = {p}
    SuperOf <- MCSuperOf
    Ids <- MCIds
    Proposals <- MCProposals
    Tallies <- MCTallies
    MaxBallots = 1
    MaxIdentity = 1
INVARIANTS
  CodeNeedsConsent
  SpendWithinTier
  
CHECK_DEADLOCK FALSE

SPECIFICATION Spec
CONSTANTS
    Networks = {"integration", "testnet", "mainnet"}
    a = a
    b = b
    c = c
    Users = {a, b, c}
    Infos <- MCInfos
    MaxChanges = 3
INVARIANTS
    DelegatesFenced
    QualifiedWasVouched
    
SYMMETRY UserSymmetry

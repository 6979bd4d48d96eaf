SPECIFICATION Spec
CONSTANTS
    SUBDIVISIONS = 2
    N = 4
    Authors = {a1, a2}
    Nonces = {0, 1, 2}
    Width = 6
    Features <- MCFeatures
    Unscannable <- MCUnscannable
    QUANT_STEP = 4
    Difficulties = {1, 3, 9}
    Miner = a1
    MaxBlocks = 2
INVARIANTS
    Watertight
    LookupsInside
    ExportFaithful
    WorkOwnAndEnough
    
CHECK_DEADLOCK FALSE

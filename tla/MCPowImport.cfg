CONSTANTS
  g = g
  a1 = a1
  a2 = a2
  b1 = b1
  b2 = b2
  b3 = b3
  c1 = c1
  queue = queue
  miner = miner
  Importers = {queue, miner}
  Miner = miner
  Blocks = {a1, a2, b1, b2, b3, c1}
  Genesis = g
  Parent <- Tree
  Difficulty <- Work
SPECIFICATION Spec
INVARIANTS
  
  TotalsAddUp
  HeaviestIsBest
CHECK_DEADLOCK FALSE

CONSTANTS
  c1 = c1
  c2 = c2
  Calls = {c1, c2}
  Requests <- MixedRequests
  MaxBest = 3
  MaxConnections = 2
  None = None
CONSTRAINT Unmoved
SPECIFICATION Spec
INVARIANTS
  
  SharedConnection

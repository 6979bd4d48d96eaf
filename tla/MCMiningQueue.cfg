CONSTANTS
  m1 = m1
  m2 = m2
  c1 = c1
  c2 = c2
  w1 = w1
  Miners = {m1}
  Clients = {c1}
  Watchers = {}
  MaxLiveTasks = 2
  MaxTasks = 3
  MaxNetwork = 1
  None = None
SPECIFICATION Spec
INVARIANTS
  ImportedAtMostOnce

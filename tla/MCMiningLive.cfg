CONSTANTS
  m1 = m1
  m2 = m2
  c1 = c1
  c2 = c2
  w1 = w1
  Miners = {}
  Clients = {c1, c2}
  Watchers = {w1}
  MaxLiveTasks = 2
  MaxTasks = 2
  MaxNetwork = 0
  None = None
SPECIFICATION FairSpec
PROPERTIES
  SubmitAnswered
  SubscriberCatchesUp

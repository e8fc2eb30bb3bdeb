CONSTANTS
  c1 = c1
  x1 = x1
  x2 = x2
  WorkerCount = 2
  Clients = {c1}
  Tasks = {x1, x2}
  PollInterval = 2
  Requeue = TRUE
SPECIFICATION FairSpec
PROPERTY TasksLeaveQueues
PROPERTY StopReturns
CHECK_DEADLOCK FALSE

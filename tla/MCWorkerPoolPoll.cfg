CONSTANTS
  c1 = c1
  c2 = c2
  x1 = x1
  x2 = x2
  x3 = x3
  WorkerCount = 1
  Clients = {c1, c2}
  Tasks = {x1, x2, x3}
  PollInterval = 3
  Requeue = TRUE
SPECIFICATION FairSpec
PROPERTY InjectionIsServed
CHECK_DEADLOCK FALSE

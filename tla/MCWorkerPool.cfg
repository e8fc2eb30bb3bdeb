CONSTANTS
  c1 = c1
  x1 = x1
  x2 = x2
  x3 = x3
  WorkerCount = 3
  Clients = {c1}
  Tasks = {x1, x2, x3}
  PollInterval = 1
  Requeue = FALSE
SPECIFICATION Spec
SYMMETRY Symmetry
INVARIANT TypeOK
INVARIANT NoLostWakeup
INVARIANT IdleCountExact
INVARIANT WaitersAreCalled
PROPERTY ImplementsTaskPool
CHECK_DEADLOCK FALSE

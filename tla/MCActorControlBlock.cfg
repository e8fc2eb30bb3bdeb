CONSTANTS
  w1 = w1
  w2 = w2
  c1 = c1
  c2 = c2
  m1 = m1
  m2 = m2
  Workers = {w1, w2}
  Clients = {c1, c2}
  Messages = {m1, m2}
  Budget = 2
  MaxStops = 2
  EnqueueMayFail = FALSE
  PoolMayStop = TRUE
SPECIFICATION FairSpec
INVARIANT TypeOK
INVARIANT SerialExecution
INVARIANT NoLostWakeup
INVARIANT StopIsCleanedUp
INVARIANT HandlerHasActor
INVARIANT DeadIsClean
PROPERTY NeverReopens
PROPERTY ImplementsActor
PROPERTY MessagesLeave
PROPERTY StopCompletes
CHECK_DEADLOCK FALSE

CONSTANTS
  w1 = w1
  w2 = w2
  c1 = c1
  c2 = c2
  m1 = m1
  m2 = m2
  Workers = {w1, w2}
  Clients = {c1, c2}
  Messages = {m1, m2}
  Budget = 2
  MaxStops = 2
  EnqueueMayFail = TRUE
  PoolMayStop = FALSE
SPECIFICATION ShutFairSpec
INVARIANT ShutTypeOK
INVARIANT FinalizeOnce
INVARIANT ShutdownCloses
INVARIANT DeadOrBeingFinalized
PROPERTY ImplementsActor
PROPERTY ShutdownReturns
CHECK_DEADLOCK FALSE

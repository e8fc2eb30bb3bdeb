CONSTANTS
  w1 = w1
  c1 = c1
  c2 = c2
  m1 = m1
  Workers = {w1}
  Clients = {c1, c2}
  Messages = {m1}
  Budget = 1
  MaxStops = 1
  EnqueueMayFail = FALSE
  PoolMayStop = FALSE
SPECIFICATION ShutSpec
INVARIANT ShutdownLeavesDead
CHECK_DEADLOCK FALSE

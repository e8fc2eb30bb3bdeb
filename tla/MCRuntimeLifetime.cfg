CONSTANTS
  main = main
  u = u
  Threads = {main, u, 1, 2}
  MaxCount = 1
  Main = main
  Others = {u}
  MaxWorkers = 2
  Hardware = 0
  Readers = {main, u}
  BufferUsers = {1}
  HandlersShutDown = TRUE
  StartMayFail = TRUE
SPECIFICATION FairSpec
INVARIANT LifeTypeOK
INVARIANT SnapshotBounds
INVARIANT StatsOutliveWorkers
INVARIANT NoHalfStart
CHECK_DEADLOCK FALSE
PROPERTY ExitEnds

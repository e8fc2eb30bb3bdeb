CONSTANTS
  main = main
  Threads = {main, 1}
  MaxCount = 0
  Main = main
  Others = {}
  MaxWorkers = 1
  Hardware = 0
  Readers = {}
  BufferUsers = {}
  HandlersShutDown = TRUE
  StartMayFail = FALSE
SPECIFICATION Spec
INVARIANT JoinedBeforeDestroyed
CHECK_DEADLOCK FALSE

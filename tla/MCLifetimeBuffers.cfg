CONSTANTS
  main = main
  Threads = {main, 1}
  MaxCount = 0
  Main = main
  Others = {}
  MaxWorkers = 1
  Hardware = 0
  Readers = {}
  BufferUsers = {1}
  HandlersShutDown = FALSE
  StartMayFail = FALSE
SPECIFICATION Spec
INVARIANT BuffersOutliveWorkers
CHECK_DEADLOCK FALSE

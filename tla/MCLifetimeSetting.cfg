CONSTANTS
  main = main
  u = u
  Threads = {main, u, 1, 2}
  MaxCount = 0
  Main = main
  Others = {u}
  MaxWorkers = 2
  Hardware = 0
  Readers = {}
  BufferUsers = {}
  HandlersShutDown = FALSE
  StartMayFail = FALSE
SPECIFICATION Spec
INVARIANT SettingIsUsed
CHECK_DEADLOCK FALSE

CONSTANTS
  Threads = 2
  Chunk = 2
  Tables <- MCTables
  Limits = {0, 2}
  Modes = {TRUE, FALSE}
  FanWorkers = 2
  FifoSize = 2
  MaxTable = 3
  Openers = {p1, p2}
  Asked <- MCAsked
  Devices <- MCDevices
  MaxFails = 2
  Null = null
SPECIFICATION KernelSpec
INVARIANTS
  CountedOnce ZeroErrMeansAll
  HandedOnce OnlyLateEntriesLeft
  OneOpener ScratchReady HeapAccounted
PROPERTIES Returns FanReturns

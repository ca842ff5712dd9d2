CONSTANTS
  Threads = 2
  Chunk = 2
  Tables <- MCTables
  Limits = {0, 2}
  Modes = {TRUE, FALSE}
SPECIFICATION Spec
INVARIANT FinishedBeforeUnload

SPECIFICATION Spec
CONSTANTS
  Backends <- LdiskfsOnly
  Threads = 2
  ChunkSize = 2
  MaxId = 3
  Entries <- FewEntries
  Options <- Plain
  Limits <- NoLimit
INVARIANT ZeroMeansComplete

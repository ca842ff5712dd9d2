SPECIFICATION MCFairSpec
CONSTANTS
  Backends <- Both
  Threads = 2
  ChunkSize = 2
  MaxId = 5
  Entries <- AllEntries
  Options <- FilterOptions
  Limits <- SomeLimits
INVARIANTS AtMostOnce CompleteOnZero ErrorReported LimitExact StatsExact StatsBalance
PROPERTY Terminates

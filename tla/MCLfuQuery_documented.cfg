CONSTANTS
  Word = 4096
  SizeUnit <- MCSizeUnit
  Block = 2
  KiB = 4
  StripeMin = 16
  TimeUnit <- MCTimeUnit
  MaxPred = 3
  MaxList = 3
  Commands <- DomCommands
  Targets <- DomTargets
  Files <- DomFiles
  Backends = {"ldiskfs"}
  Now = 29
SPECIFICATION Spec
INVARIANTS VerdictAsDocumented

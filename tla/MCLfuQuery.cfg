CONSTANTS
  Word = 4096
  SizeUnit <- MCSizeUnit
  Block = 2
  KiB = 4
  StripeMin = 16
  TimeUnit <- MCTimeUnit
  MaxPred = 3
  MaxList = 3
  Commands <- MCCommands
  Targets <- MCTargets
  Files <- MCFiles
  Backends = {"ldiskfs", "zfs", "kmdt_ldiskfs", "kmdt_zfs", "kmdt_noxattr", "kmdt_nodev"}
  Now = 29
SPECIFICATION Spec
INVARIANTS VerdictKleene CompiledValidates WalksAgree VerdictMeansCommand

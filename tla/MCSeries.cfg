SPECIFICATION Spec
CONSTANTS
  Rounds <- AllRounds
  N = 3
  Files <- TwoFiles
  Since <- Later
  Base = base
  Texts <- FourTexts
  MaxRuns = 2
  Branches <- ThreeBranches
  Forks <- SomeForks
  StartId = 2
  GateId = 3
  Pushed <- OnePush
  MaxCalls = 2
  MaxMoves = 1
  Rows <- FourRows
  PatchSets = {1, 2}
  Missing <- AtMostOne
  Onlys <- AllOrOne
  MaxPosts = 2
INVARIANTS
  EveryRowApplies SecondRunChangesNothing ExitZeroMeansMade
  TreesFixed ReuseUnchanged SameInputSameTip KeptBelow
  NoWorkLost FinishedMeansAll ForkStaysShared
  InThread

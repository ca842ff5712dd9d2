SPECIFICATION KSpec
CONSTANTS
  RingRecs = 2
  Batch = 1
  FilterChoices <- Filters
  MaxObjs = 3
  MaxWant = 2
  Limits = {0, 1}
INVARIANTS StreamAccounted LimitHeld ZeroMeansNoError SummaryBalances
PROPERTY KmdtExits

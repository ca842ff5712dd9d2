SPECIFICATION FairSpec
CONSTANTS
  RingRecs = 4
  Batch = 2
  FilterChoices <- Unfiltered
  MaxObjs = 5
  MaxWant = 2
INVARIANT DeliveredIsPrefix
PROPERTIES ImplementsStream ReadReturns CloseCompletes

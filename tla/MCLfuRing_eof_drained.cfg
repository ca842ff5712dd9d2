SPECIFICATION Spec
CONSTANTS
    FilterChoices <- Unfiltered
    RingRecs = 2
    Batch = 1
    MaxObjs = 2
    MaxWant = 1
INVARIANT EofMeansDrained

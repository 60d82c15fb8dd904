\* One run of a dataless image and one death of the app.
SPECIFICATION FairSpec
CONSTANTS
    MaxRuns = 1
    MaxMats = 1
    MaxCrashes = 1
    LongBurns = FALSE
INVARIANTS
    SuccessWasReported
PROPERTIES
    BurnSettles
CHECK_DEADLOCK FALSE

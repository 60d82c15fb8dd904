SPECIFICATION FairSpec
CONSTANTS
    MaxRuns = 1
    MaxMats = 0
    MaxCrashes = 0
    LongBurns = TRUE
PROPERTIES BurnSettles
CHECK_DEADLOCK FALSE

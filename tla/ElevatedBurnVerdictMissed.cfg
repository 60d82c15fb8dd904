SPECIFICATION Spec
CONSTANTS
    MaxRuns = 1
    MaxMats = 0
    MaxCrashes = 0
    LongBurns = FALSE
INVARIANTS LossIsReal
CHECK_DEADLOCK FALSE

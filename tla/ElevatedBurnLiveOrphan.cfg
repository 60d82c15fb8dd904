SPECIFICATION Spec
CONSTANTS
    MaxRuns = 1
    MaxMats = 0
    MaxCrashes = 1
    LongBurns = FALSE
INVARIANTS OrphanIsGone
CHECK_DEADLOCK FALSE

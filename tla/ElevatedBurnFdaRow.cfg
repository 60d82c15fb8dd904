SPECIFICATION Spec
CONSTANTS
    MaxRuns = 1
    MaxMats = 0
    MaxCrashes = 0
    LongBurns = FALSE
INVARIANTS ShownIsRecorded
CHECK_DEADLOCK FALSE

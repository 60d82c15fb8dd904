SPECIFICATION Spec
CONSTANTS
    MaxRuns = 1
    MaxMats = 1
    MaxCrashes = 0
    LongBurns = FALSE
INVARIANTS CancelStaysVisible
CHECK_DEADLOCK FALSE

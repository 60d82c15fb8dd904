\* Two runs of a local image, a death of the app, and burns of any length.
SPECIFICATION Spec
CONSTANTS
    MaxRuns = 2
    MaxMats = 0
    MaxCrashes = 1
    LongBurns = TRUE
INVARIANTS
    TypeOK
    OneWriter
    OneVerdict
    SuccessIsEarned
    CancelStaysVisible
    RunningIsAttended
PROPERTIES
    KeepsJob
CHECK_DEADLOCK FALSE

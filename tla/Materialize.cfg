SPECIFICATION FairSpec
CONSTANTS
    Configured = {0, 2, 5}
    MaxWorkers = 2
    MaxLength = 3
    Attempts = 3
INVARIANTS
    TypeOK
    OkMeansResident
    BlocksAccounted
    ProgressIsReal
    ErrorIsEarned
PROPERTIES
    Returns
CHECK_DEADLOCK FALSE

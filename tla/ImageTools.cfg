\* Two downloads that share a file and two scans one after the other; images
\* under up to three compression layers, as deep as the chain goes here; two
\* jobs, one of them in the cloud, two burns and one exit of the app; four
\* bytes in chunks of three, compared in groups of two, with room for two
\* mismatches; sources of up to five sectors; two snapshots of devices of one
\* block and of three.  Two threads of downloads and scans are at work at a
\* time.
SPECIFICATION Spec
CONSTANTS
    Urls = {image, plain, ftp}
    Foreign = {ftp}
    Nameless = {image, plain}
    Unsized = {plain}
    Plain = {plain}
    MaxGets = 2
    BodyBlocks = 2
    MaxScans = 2
    AtOnce = 1
    AtWork = 2
    MaxClock = 2
    Null = null
    MaxDepth = 3
    Jobs = {j1, j2}
    NoJob = none
    CloudJobs = {j2}
    MaxRuns = 2
    MaxExits = 1
    Values = {0, 1}
    ImageLength = 4
    Chunk = 3
    Group = 2
    MaxMismatches = 2
    Sectors = {0, 1}
    MaxSource = 5
    ChunkSectors = 2
    Blocks = {0, 1}
    DeviceSizes = {1, 3}
    SnapshotBlocks = 2
    MaxSnapshots = 2
INVARIANTS
    FreshIsCurrent
    StripsEnd
    ReportIsOfTheBurn
    InFlightIsTracked
    QuietExit
    CancelReachesBurn
    VerdictIsEarned
    CopyIsFaithful
    RestoreIsSafe
PROPERTIES
    CompleteIsWhole
    KeepsJobs
CHECK_DEADLOCK FALSE

\* The parallel writer: three workers over a pool of four, so that a buffer is
\* left for the producer when all three workers have died with theirs.
CONSTANTS
    Impl = "parallel"
    WorkerThreads = 3
    QueueDepth = 4
    SourceChunks = 6
SPECIFICATION FairSpec
INVARIANTS
    TypeOK
    BufferConservation
    ProducerNotStarved
    SendsNeverBlock
    OkMeansAllWritten
    ChunksHaveOneHome
PROPERTIES
    BurnEnds
    KeepsPromise
CHECK_DEADLOCK FALSE

SPECIFICATION FairSpec
CONSTANTS
    None = None
    LogEnd = 6
    BatchSize = 2
    QueueSize = 2
    InputEnds = TRUE
    NodeCatches = TRUE
    MaxFaults = 3
INVARIANTS
    CommitsAreContiguous
    NothingReadAheadIsLost
PROPERTIES
    ExitCompletes
    FailureIsRaised

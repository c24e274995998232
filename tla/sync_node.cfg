SPECIFICATION FairSpec
CONSTANTS
    None = None
    Tag = {0, 1, 2, 3, 4}
    LogEnd = 4
    BatchSize = 2
    MaxOut = 2
    Malformed = {3}
    Format = "arrow"
    StopWhenIdle = TRUE
    NodeSwallows = TRUE
    MaxFaults = 2
INVARIANTS
    CommittedIsDelivered
    NothingLeftInFlight
PROPERTIES
    EverythingCommitted
    KeepsPromise

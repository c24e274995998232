SPECIFICATION FairSpec
CONSTANTS
    None = None
    Tag = {0, 1, 2, 3, 4}
    LogEnd = 4
    BatchSize = 2
    MaxOut = 2
    Malformed = {1}
    Format = "pylist"
    StopWhenIdle = FALSE
    NodeSwallows = FALSE
    MaxFaults = 2
    MaxInFlight = 2
INVARIANTS
    CommittedIsDelivered
    OrderNeverRefused
    InFlightBounded
    HooksFollowCommits
PROPERTIES
    KeepsPromise
    RewindsToUncommitted
    StopEnds
    EverythingCommitted

SPECIFICATION Spec
CONSTANTS
    None = None
    Tag = {0, 1, 2, 3}
    LogEnd = 3
    BatchSize = 2
    MaxOut = 1
    Malformed = {}
    Format = "arrow"
    StopWhenIdle = FALSE
    NodeSwallows = TRUE
    MaxFaults = 1
    MaxInFlight = 1
INVARIANTS
    CommittedIsDelivered

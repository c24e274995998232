SPECIFICATION Spec
CONSTANTS
    k1 = k1
    k2 = k2
    None = None
    Key = {k1, k2}
    Log <- MCLog
    BucketTicks = 1
    WindowTicks = 2
    MaxTime = 2
    BatchSize = 2
    MaxInFlight = 1
    MaxFaults = 1
    MaxStops = 1
INVARIANTS
    NoEventLost
    MarkedIsDelivered
    PendingIsExact
    DedupIsExact
PROPERTY
    KeepsPromise

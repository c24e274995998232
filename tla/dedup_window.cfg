SPECIFICATION Spec
CONSTANTS
    k1 = k1
    k2 = k2
    None = None
    Key = {k1, k2}
    Log <- MCLog
    BucketTicks = 2
    WindowTicks = 4
    MaxTime = 4
    BatchSize = 2
    MaxInFlight = 1
    MaxFaults = 0
    MaxStops = 0
INVARIANTS
    WindowAsDocumented

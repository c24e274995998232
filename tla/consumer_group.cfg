SPECIFICATION FairSpec
CONSTANTS
    None = None
    Member = {m1, m2}
    Partition = {p1, p2}
    Watched = p1
    LogEnd <- Ends
    p1 = p1
    p2 = p2
    BatchSize = 2
    MaxOutstanding = 2
    MaxRebalances = 1
    MaxFaults = 1
INVARIANTS
    CommittedIsDelivered
PROPERTIES
    KeepsPromise
    AllDelivered
CHECK_DEADLOCK FALSE

SPECIFICATION FairSpec
CONSTANTS
    None = None
    Tag = {0, 1, 2}
    Message = {m1, m2, m3}
    QueueSize = 2
INVARIANTS
    CountsExact
PROPERTIES
    FlushIsComplete
    TrueMeansDelivered
    CallsReturn
CHECK_DEADLOCK FALSE

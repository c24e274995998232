SPECIFICATION FairSpec
CONSTANTS
    None = None
    Absent = Absent
    Broken = Broken
    r1 = r1
    r2 = r2
    f1 = f1
    f2 = f2
    p1 = p1
    p2 = p2
    a = a
    b = b
    Root <- Roots
    Fixed = {r1}
    File <- Files
    Fragment <- Contents
    Partition = {p1, p2}
    Disks <- InitialDisks
    Logs <- InitialLogs
    Stamps <- InitialStamps
    Time = {2}
    Offsets <- InitialOffsets
    Limit = 2
    Endpoint = {"graph", "lag", "snapshot", "topic-stats"}
    NodeId = {a}
    MaxChanges = 2
INVARIANTS
    TypeOK
    QuietIsExact
    ServedFromHeldFiles
    LagIsNeverUnderstated
PROPERTIES
    EveryRequestEnds

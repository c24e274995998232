SPECIFICATION FairSpec
CONSTANTS
    Rows = 5
    Bad = {2, 5}
    SplitFactors = {0, 1, 2, 3}
    MaxDepth = 6
    HasDlq = TRUE
    InsertAttempts = 3
    MaxFaults = 3
    MaxCalls = 4
INVARIANTS
    OnceUnlessSplit
    DlqHoldsBadRows
    ReturnedMeansPlaced
PROPERTIES
    BatchIsPlaced
CHECK_DEADLOCK FALSE

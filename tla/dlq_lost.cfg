SPECIFICATION Spec
CONSTANTS
    Rows = 5
    Bad = {2, 5}
    SplitFactors = {2}
    MaxDepth = 6
    HasDlq = TRUE
    InsertAttempts = 3
    MaxFaults = 3
    MaxCalls = 4
INVARIANTS
    DlqAtLeastOnce
CHECK_DEADLOCK FALSE

SPECIFICATION StatsSpec
CONSTANTS
    RowsIn = 2
    RowsOut = 1
    MaxBatches = 2
    MaxRecords = 2
    MaxReports = 2
    MaxScrapes = 2
INVARIANTS
    NothingLostOrTwice
    ScrapeIsCurrent
    LoggedRowsAreExact
CHECK_DEADLOCK FALSE

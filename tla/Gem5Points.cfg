SPECIFICATION FairSpec
CONSTANTS
    Tests <- MCTests
    Ranged <- MCRanged
    Fold <- MCFold
    Counts = {0, 1, 5}
    InstLimit = TRUE
    Args <- MCArgs
    MaxSweeps = 2
    Repeated <- MCRepeated
    MaxRows = 8
    MaxFailures = 2
INVARIANTS
    FinishedRowsAreOwn
    SummaryIsOfOwnCounts
PROPERTIES
    SweepEnds
CHECK_DEADLOCK FALSE

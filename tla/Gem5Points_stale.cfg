SPECIFICATION Spec
CONSTANTS
    Tests <- MCTests
    Ranged <- MCRanged
    Fold <- MCFold
    Counts = {0, 3}
    InstLimit = FALSE
    Args <- MCStaleArgs
    MaxSweeps = 2
    Repeated <- MCStaleArgs
    MaxRows = 8
    MaxFailures = 2
INVARIANT
    StatsAreAttributable
CHECK_DEADLOCK FALSE

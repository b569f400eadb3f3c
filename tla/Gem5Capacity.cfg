SPECIFICATION FairSpec
CONSTANTS
    Ranges <- MCRanges
    Curve <- MCCurve
    Args <- MCArgs
    Strangers <- MCStrangers
    BaseN = 2
    InstLimit = TRUE
    MaxFailures = 2
    MaxOthers = 2
INVARIANTS
    ColumnsAreRises
    FinishedRowsAreExact
PROPERTIES
    ScriptEnds
CHECK_DEADLOCK FALSE

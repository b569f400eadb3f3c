SPECIFICATION Spec
CONSTANTS
    Cpus = {0, 1, 2}
    Onlines <- MCOnlines
    Runs <- MCRuns
    HardCores = 2
    Wrap = 3
    Wide = 81
    Rests = {0, 1}
    FirstEnergy = 1
    MaxConsumed = 3
    MaxFaults = 1
INVARIANTS
    TypeOK
    BoostIsSet
    WrapShows
    RowsAreTheCores
    FdsHoldTheCores
PROPERTIES
    Ends

SPECIFICATION FairSpec
CONSTANTS
    NumProcs = 3
    Online <- MCOnline
    Offsets = 2
    Iter = 3
    ElapsedMs <- MCElapsed
    MaxFailures = 0
INVARIANTS
    EntriesArePinnedPairs
PROPERTIES
    Implements
    SweepTerminates

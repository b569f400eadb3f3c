SPECIFICATION Spec
CONSTANTS
    NumProcs = 2
    Online <- MCOnline
    Offsets = 1
    Iter = 2
    ElapsedMs <- MCAnyElapsed
    MaxFailures = 1
INVARIANTS
    TwoCpusBounce

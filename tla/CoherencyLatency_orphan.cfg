SPECIFICATION Spec
CONSTANTS
    NumProcs = 2
    Online <- MCOnline
    Offsets = 2
    Iter = 2
    ElapsedMs <- MCAnyElapsed
    MaxFailures = 2
INVARIANTS
    MeasuredTestIsClean
    HangsOnlyIfRobbed

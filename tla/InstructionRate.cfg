SPECIFICATION FairSpec
CONSTANTS
    Programs <- RatePrograms
    Kernels <- RateKernelsOf
    Calls <- RateCallsOf
    ClockCall <- MCClockCall
    Iterations <- MCIterations
    Scales <- MCScales
    MaxPasses <- MCMaxPasses
    Inexact <- RateInexact
    Misnamed <- RateMisnamed
INVARIANTS
    CountsTheWork
    OnlyKnownStrays
PROPERTIES
    Ends

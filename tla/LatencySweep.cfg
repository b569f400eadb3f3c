SPECIFICATION SweepSpec
CONSTANTS
    Count = 4
    LinesPerKb = 2
    MaxParallelism = 4
    Rounds <- MCRounds
    TestSizes <- MCTestSizes
    TlbSizes <- MCTlbSizes
    Beyond = {0, 2}
    Args <- MCArgs
    Word = 160
    WordKb = 4194304
    Offsets = 10
    MaxFailures = 1
INVARIANTS
    SweepTypeOK
    NoSharedLine
    PrintsWhatItMeasures
    HugeBufferHolds
PROPERTIES
    SweepReturns

SPECIFICATION FairSpec
CONSTANTS
    KbPerGb = 27
    SmallKb = 2
    LargeGb = 2
    BaseGb = 1
    Kernels <- AllKernels
    SizesKb = {1, 2, 3, 5}
    ThreadCounts = {1, 2}
    Wrap = 128
INVARIANTS
    AccessesInBounds
    PassCoversArray
    CountsWhatItMoves
    CopiesOneHalf
PROPERTIES
    Returns

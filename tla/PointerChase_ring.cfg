SPECIFICATION ChaseSpec
CONSTANTS
    Count = 7
    LineElems = 2
    PageElems = 8
    Iterations <- MCIterations
INVARIANTS
    OneCycle
    ChaseInBounds
PROPERTIES
    WalksTheRing

SPECIFICATION Spec
CONSTANTS
    MaxSeq = 7
    MaxScore = 20
    NumThreads = 3
    HeadDim = 2
    KvTile = 2
    DesiredSplits = 3
    MinSplitLen = 2
    MaxSplits = 3
    Calls <- MCCalls
    Score <- MCScore
INVARIANTS
    OutputExact
    RaceFree
CHECK_DEADLOCK FALSE

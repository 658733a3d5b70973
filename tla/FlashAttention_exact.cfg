SPECIFICATION Spec
CONSTANTS
    MaxSeq = 7
    MaxScore = 20
    NumWarps = 2
    RowsPerWarp = 2
    HeadDim = 4
    KvBlock = 2
    PStride = 3
    Calls <- MCCalls
    Score <- MCScore
INVARIANTS
    OutputExact
    RaceFree
CHECK_DEADLOCK FALSE

SPECIFICATION SamplerSpec
CONSTANTS
    Unit = 3
    Grid = 12
    Cases <- MCCases
    Draws <- Positive
INVARIANTS
    NoImpossibleToken
    Lossless
CHECK_DEADLOCK FALSE

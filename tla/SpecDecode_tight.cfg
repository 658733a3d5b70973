SPECIFICATION FairSpec
CONSTANTS
    Token = {1, 2, 3}
    NoToken = 0
    DraftVocab = {1, 2}
    Jobs <- TightJobs
    Argmax <- MCArgmax
    Support <- MCSupport
    TargetMax = 6
    DraftMax = 5
    MaxJobs = 1
INVARIANT IInv
PROPERTY EveryRequestEnds
CHECK_DEADLOCK FALSE

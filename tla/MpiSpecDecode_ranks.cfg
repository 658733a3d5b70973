SPECIFICATION FairSpec
CONSTANTS
    Token = {1, 2, 3}
    NoToken = 0
    DraftVocab = {1, 2}
    Jobs <- MCJobs
    Support <- MCSupport
    MaxSeq = 6
    EagerSets <- MCEagerSets
INVARIANTS
    ProtocolInv
    MessagesAgree
    CachesMatchText
    BudgetSuffices
    ExitCodeMeans
PROPERTIES
    RefinesLockstep
    EndsUnlessRaised
CHECK_DEADLOCK FALSE

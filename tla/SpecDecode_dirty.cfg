SPECIFICATION Spec
CONSTANTS
    Token = {1, 2, 3}
    NoToken = 0
    DraftVocab = {1, 2}
    Jobs <- DirtyJobs
    Argmax <- MCArgmax
    Support <- MCSupport
    TargetMax = 6
    DraftMax = 7
    MaxJobs = 2
INVARIANTS
    CursorsAgree
    CacheMatchesText
    RowsAligned
    OutputSanctioned
    BudgetSuffices
    ReturnsWhatWasAsked
PROPERTY RefinesAbstract
CHECK_DEADLOCK FALSE

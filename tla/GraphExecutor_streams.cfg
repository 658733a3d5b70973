SPECIFICATION Spec
CONSTANTS
    Token = {1, 2}
    NoToken = 0
    MaxSeq = 4
    MaxRows = 2
    Prompts <- MCPrompts
    WarmUps = 2
    MaxCalls = 5
INVARIANTS
    ClonesWhatEagerReturns
    SettledLikeEager
PROPERTIES
    WarmUpHarmless
CHECK_DEADLOCK FALSE

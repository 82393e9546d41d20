SPECIFICATION SplitSpec
CONSTANTS
    q = 131
    Width = 5
    MaxHalfBits = 2
    MaxSplitBits = 3
    HalfBits = {}
    Bases = {}
    Queries <- MCQueries
    Params <- AllParams
INVARIANTS
    SplitTypeOK
    SplitProgress
    SplitAnswerModWidth
    SplitAnswerExact
PROPERTIES
    SplitTerminates
    SplitStepsBounded
CHECK_DEADLOCK FALSE

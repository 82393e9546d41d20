SPECIFICATION SplitSpec
CONSTANTS
    q = 131
    Width = 5
    MaxHalfBits = 2
    MaxSplitBits = 3
    HalfBits = {}
    Bases = {}
    Queries <- MCQueries
    Params <- AllParams
INVARIANTS
    SplitRecoversAmount
CHECK_DEADLOCK FALSE

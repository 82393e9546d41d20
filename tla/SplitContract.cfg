SPECIFICATION SplitSpec
CONSTANTS
    q = 131
    Width = 5
    MaxHalfBits = 2
    MaxSplitBits = 3
    HalfBits = {}
    Bases = {}
    Queries <- MCQueries
    Params <- FittingParams
PROPERTIES
    SplitImplementsContract
CHECK_DEADLOCK FALSE

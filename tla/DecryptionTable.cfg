SPECIFICATION TableSpec
CONSTANTS
    q = 37
    Width = 4
    MaxHalfBits = 2
    HalfBits = {0, 1, 2, 3}
    Bases <- MCBases
    Queries <- MCQueries
INVARIANTS
    TableTypeOK
    BabySteps
    SearchProgress
    AnswerCorrect
PROPERTIES
    ImplementsContract
    SearchTerminates
    BuildTerminates
CHECK_DEADLOCK FALSE

SPECIFICATION Spec
CONSTANTS
    a = a
    b = b
    q = 13
    p = 7
    Flag = 8
    Vars = {a, b}
    Typings <- MCTypings
    Built <- MCBuilt
    Noise = {0, 4, 7, 13}
    MaxCalls = 5
    MaxDamage = 1
INVARIANTS
    SerTypeOK
    AcceptedReencodes
    DistinctBytesDistinctValues
    AcceptedIsSound
    UndamagedRoundTrip
    FailureSplitsReceiver
CHECK_DEADLOCK FALSE

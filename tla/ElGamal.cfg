SPECIFICATION Spec
CONSTANTS
    q = 13
    Keys = {k1, k2}
    Slots = {s1, s2}
    Amounts = {0, 1, 3}
    Rands = {0, 1, 5}
    Range = 3
    Cap = 6
    MaxCalls = 6
    OffCurve = OffCurve
    Nil = Nil
    Anyone = Anyone
    Mixed = Mixed
SYMMETRY KeySlotSymmetry
INVARIANTS
    KeyPairs
    Homomorphic
    DecryptExact
    ForeignKeyLearnsNothing
    RefusedIsPubliclyReadable
CHECK_DEADLOCK FALSE

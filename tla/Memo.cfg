SPECIFICATION MemoSpec
CONSTANTS
    alice = alice
    bob = bob
    zero = zero
    q = 7
    OffCurve = OffCurve
    Nil = Nil
    Owners = {alice, bob, zero}
    SecretKey <- MCSecretKey
    Texts <- MCTexts
    Ephemerals = {0, 2, 4}
    Nonces = {n1, n2}
    memoKDFDomain = "v1"
    OtherDomains = {"v0"}
    BadKeys = {OffCurve, Nil}
    Cuts <- MCCuts
    MaxMemos = 2
    MaxDamage = 1
    MaxOpens = 1
INVARIANTS
    MemoTypeOK
    MemoDelivered
    MemoAuthentic
    SharedSecretNotPublic
CHECK_DEADLOCK FALSE

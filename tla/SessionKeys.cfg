SPECIFICATION Spec
CONSTANTS
    q = 11
    OffCurve = OffCurve
    Nil = Nil
    Challenges = {0, 1, 4, 9}
    Contexts = {alice, bob}
    Instances <- KeyInstances
    Claims <- KeyClaims
    NonceVals = {0, 2}
    MaxProofs = 2
    MaxVerifies = 2
    MaxResets = 1
    MaxFaults = 1
SYMMETRY ContextSymmetry
INVARIANTS
    SessionTypeOK
    InOrderProofsAccepted
    AcceptedOnlyOnItsTranscript
    TranscriptsInSync
    ChallengeBindsStatement
CHECK_DEADLOCK FALSE

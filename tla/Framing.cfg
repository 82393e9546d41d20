SPECIFICATION Spec
CONSTANTS
    prover = prover
    verifier = verifier
    Base = 2
    PrefixLen = 2
    HashLen = 2
    Transcripts <- Parties
    Domains <- MCDomains
    Labels <- MCLabels
    Data <- ShortData
    MaxOps = 2
SYMMETRY PartySymmetry
INVARIANTS
    NoTwoSequencesCollide
    ScheduledRunsNeverCollide
CHECK_DEADLOCK FALSE

SPECIFICATION Spec
CONSTANTS
    prover = prover
    verifier = verifier
    Base = 2
    PrefixLen = 2
    HashLen = 2
    Transcripts <- Parties
    Domains <- Single
    Labels <- Single
    Data <- LongData
    MaxOps = 2
INVARIANT
    NoTwoSequencesCollide
CHECK_DEADLOCK FALSE

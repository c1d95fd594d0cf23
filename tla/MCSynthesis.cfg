CONSTANTS
    MaxEvidence = 3
    Sizes = {1, 2}
    Budget = 2
    MaxDigest = 2
    MaxDepth = 2
    CharsPerToken = 5
    MaxSentences = 2
SPECIFICATION Spec
CHECK_DEADLOCK FALSE
INVARIANTS
    TypeOK
    NoCitationNoClaim
    NothingLostToTheMerge
PROPERTIES
    SynthesisEnds

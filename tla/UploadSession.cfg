CONSTANTS
    Requests = {r1, r2}
    NoRequest = NoRequest
    NoObject = NoObject
    FileSize = 2
    ChunkLimit = 1
    Inputs <- TwoChunks
    Digests = {0, 2}
    MaxParts = 2
    MaxFaults = 1
SYMMETRY RequestSymmetry
SPECIFICATION Spec
INVARIANTS
    TypeOK
    PartsTile
    SingleFinalizer
    CommitsWhatItHashed
    NoObjectUnlessFinalized
PROPERTIES
    OutcomeIsFinal
    ImplementsUpload
CHECK_DEADLOCK FALSE

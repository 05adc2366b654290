CONSTANTS
    Requests = {r1, r2}
    NoRequest = NoRequest
    NoObject = NoObject
    FileSize = 3
    ChunkLimit = 2
    Inputs <- MixedSizes
    Digests = {3}
    MaxParts = 3
    MaxFaults = 0
SYMMETRY RequestSymmetry
SPECIFICATION Spec
INVARIANT ShortPartIsLast
CHECK_DEADLOCK FALSE

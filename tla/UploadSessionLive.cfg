CONSTANTS
    Requests = {r1, r2}
    NoRequest = NoRequest
    NoObject = NoObject
    FileSize = 1
    ChunkLimit = 1
    Inputs <- OneChunk
    Digests = {1}
    MaxParts = 1
    MaxFaults = 1
SPECIFICATION FairSpec
PROPERTIES
    SessionSettles
    RequestsAnswered
CHECK_DEADLOCK FALSE

CONSTANTS
    Procs = {p1}
    Blobs = {b1, b2}
    Size <- OneChunk
    Chunk = 2
    MaxAttempts = 2
    Jobs = 2
    Manifests = 2
    Sessions = {s1, s2, s3}
    NoSession = NoSession
    FaultKinds = {"crash"}
    MaxFaults = 1
SPECIFICATION Spec
PROPERTIES
    ResumesAcknowledged
CHECK_DEADLOCK FALSE

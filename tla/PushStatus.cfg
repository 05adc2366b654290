CONSTANTS
    Procs = {p1}
    Blobs = {b1}
    Size <- WithRest
    Chunk = 2
    MaxAttempts = 2
    Jobs = 1
    Manifests = 2
    Sessions = {s1, s2, s3}
    NoSession = NoSession
    FaultKinds = {"crash", "lost"}
    MaxFaults = 3
SPECIFICATION Spec
PROPERTIES
    ResumesAcknowledged
CHECK_DEADLOCK FALSE

CONSTANTS
    Procs = {p1, p2}
    Blobs = {b1}
    Size <- WithRest
    Chunk = 2
    MaxAttempts = 2
    Jobs = 1
    Manifests = 1
    Sessions = {s1, s2}
    NoSession = NoSession
    FaultKinds = {"lost", "late", "broken", "crash", "expire", "disk", "unauthorized"}
    MaxFaults = 2
SYMMETRY Symmetry
SPECIFICATION Spec
INVARIANTS
    TypeOK
    SuccessIsReal
    SessionsHoldPrefixes
PROPERTY UsesUploads
CHECK_DEADLOCK FALSE

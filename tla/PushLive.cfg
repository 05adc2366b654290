CONSTANTS
    Procs = {p1}
    Blobs = {b1}
    Size <- WithRest
    Chunk = 2
    MaxAttempts = 4
    Jobs = 1
    Manifests = 2
    Sessions = {s1, s2, s3, s4}
    NoSession = NoSession
    FaultKinds = {"lost", "late", "unauthorized", "broken", "disk", "crash", "expire"}
    MaxFaults = 3
SPECIFICATION FairSpec
INVARIANT FaultsAreSurvived
PROPERTY PushEnds
CHECK_DEADLOCK FALSE

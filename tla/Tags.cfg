CONSTANTS
    m1 = m1
    m2 = m2
    Handlers = {r1, r2}
    Names = {v1, v2, latest}
    Manifests = {m1, m2}
    Immutable = {v1}
    Initial <- AllTagged
    NoHandler = NoHandler
    NoName = NoName
    NoManifest = NoManifest
    MaxRequests = 4
    MaxFaults = 1
SPECIFICATION FairSpec
INVARIANTS TypeOK TagTargetsLive HistoryEndsAtTag DeadlocksAreOverMovedTags
PROPERTIES RequestsAnswered ImplementsStore
CHECK_DEADLOCK FALSE

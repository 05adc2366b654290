CONSTANTS
    m1 = m1
    m2 = m2
    Handlers = {r1, r2, r3}
    Names = {v1, v2}
    Manifests = {m1, m2}
    Immutable = {}
    Initial <- AllTagged
    NoHandler = NoHandler
    NoName = NoName
    NoManifest = NoManifest
    MaxRequests = 5
    MaxFaults = 0
SYMMETRY Symmetry
SPECIFICATION Spec
INVARIANTS TypeOK OnlyDeletionsDeadlock DeadlocksAreOverMovedTags
CHECK_DEADLOCK FALSE

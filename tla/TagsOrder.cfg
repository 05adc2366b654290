CONSTANTS
    m1 = m1
    m2 = m2
    Handlers = {r1, r2}
    Names = {v1}
    Manifests = {m1, m2}
    Immutable = {}
    Initial <- Untagged
    NoHandler = NoHandler
    NoName = NoName
    NoManifest = NoManifest
    MaxRequests = 4
    MaxFaults = 0
SYMMETRY Symmetry
SPECIFICATION Spec
INVARIANT HistoryInOrder
CHECK_DEADLOCK FALSE

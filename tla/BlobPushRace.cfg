CONSTANTS
    d1 = d1
    d2 = d2
    m1 = m1
    m2 = m2
    k1 = k1
    Handlers = {r1, r2}
    Repos = {a, b}
    Digests = {d1}
    Manifests = {m1}
    Layers <- OneLayer
    Keys = {k1, k2, k3}
    NoKey = NoKey
    NoDigest = NoDigest
    NoRepo = NoRepo
    NoManifest = NoManifest
    MaxFaults = 0
    Undeletable = {}
    PassLimit = 100
SYMMETRY Symmetry
SPECIFICATION Spec
INVARIANT Pullable

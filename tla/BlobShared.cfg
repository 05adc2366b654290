CONSTANTS
    d1 = d1
    d2 = d2
    m1 = m1
    m2 = m2
    k1 = k1
    Handlers = {r1, r2}
    Repos = {a}
    Digests = {d1, d2}
    Manifests = {m1, m2}
    Layers <- SharedLayer
    Keys = {k1, k2, k3}
    NoKey = NoKey
    NoDigest = NoDigest
    NoRepo = NoRepo
    NoManifest = NoManifest
    MaxFaults = 1
    Undeletable = {}
    PassLimit = 100
SYMMETRY Symmetry
SPECIFICATION Spec
INVARIANT PullableUnlessRaced

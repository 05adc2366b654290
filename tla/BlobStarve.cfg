CONSTANTS
    d1 = d1
    d2 = d2
    m1 = m1
    m2 = m2
    k1 = k1
    Handlers = {r1}
    Repos = {a}
    Digests = {d1, d2}
    Manifests = {m1}
    Layers <- OneLayer
    Keys = {k1, k2}
    Undeletable <- FirstKey
    PassLimit = 100
    NoKey = NoKey
    NoDigest = NoDigest
    NoRepo = NoRepo
    NoManifest = NoManifest
    MaxFaults = 1
SPECIFICATION FairSpec
PROPERTY OneFailureHoldsNobodyUp

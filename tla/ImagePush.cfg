CONSTANTS
    Clients = {c1, c2}
    Manifests = {image, index, both, single, old}
    Blobs = {layer}
    Names = {1, 2}
    NoManifest = NoManifest
    Descriptors <- Graph
    Archives = {both, single}
    Saved = {image}
    Earlier <- OldTag
    References = {1, image}
    Damages = {{}, {image}}
    Attempts = 2
    PageSize = 1
    MaxDeletes = 1
    image = image
    index = index
    both = both
    single = single
    old = old
    layer = layer
SPECIFICATION Spec
SYMMETRY Symmetry
INVARIANTS TypeOK OrderIsWhole RefusedOnlyWhenUndone PushedIsWhole ListingComplete
CHECK_DEADLOCK FALSE

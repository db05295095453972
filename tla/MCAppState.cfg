SPECIFICATION Spec
CONSTANTS
    Indexes = {i1, i2}
    Resyncers = {r}
    Patchers = {p}
    Nobody = nobody
    Modes <- MCModes
SYMMETRY Symmetry
INVARIANTS StoreIsServers NothingUnreported PatchHeals
CHECK_DEADLOCK FALSE

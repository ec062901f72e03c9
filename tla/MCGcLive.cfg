\* Two addresses, no symmetry: it is not sound for liveness.
CONSTANTS
    Obj = {a, b}
    None = None
    GcFrequency = 1
    CallsGc = TRUE
    MaxRoots = 2
SPECIFICATION CreatingSpec
PROPERTIES CollectionEnds GarbageIsFreed
CHECK_DEADLOCK FALSE

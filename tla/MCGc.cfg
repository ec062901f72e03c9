\* Three addresses, a collection at every object creation.
CONSTANTS
    Obj = {a, b, c}
    None = None
    GcFrequency = 0
    CallsGc = FALSE
    MaxRoots = 2
SYMMETRY Addresses
SPECIFICATION Spec
INVARIANTS TypeOK NoDangling CollectionIsExact IInv
PROPERTY ImplementsGcSpec
CHECK_DEADLOCK FALSE

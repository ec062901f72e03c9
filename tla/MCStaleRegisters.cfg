\* Frames of two sizes; no C function collects.
CONSTANTS
    Obj = {a, b, c}
    Null = Null
    RegCounts = {1, 3}
    CFunctionsCollect = FALSE
    CollectingArgs = 0
    MaxFrames = 3
    MaxCVals = 1
SYMMETRY Addresses
SPECIFICATION Spec
INVARIANT RootsAreAlive

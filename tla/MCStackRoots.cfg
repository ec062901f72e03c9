\* Frames of three sizes, so that calls have more arguments than the function has
\* registers; two script functions and a C function on the call stack; gc()
\* without arguments.
CONSTANTS
    Obj = {a, b, c}
    Null = Null
    RegCounts = {0, 1, 3}
    CFunctionsCollect = TRUE
    CollectingArgs = 0
    MaxFrames = 2
    MaxCVals = 1
SYMMETRY Addresses
SPECIFICATION Spec
INVARIANTS TypeOK ValuesInUseAreAlive
CHECK_DEADLOCK FALSE

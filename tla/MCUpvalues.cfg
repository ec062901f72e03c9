CONSTANTS
    Var = {x, y}
    Value = {v}
    Null = Null
    Garbage = Garbage
    Closure = {f, g}
    Upval = {u1, u2}
    GlobalFunc = GlobalFunc
    Storage = Storage
    RegCounts = {2}
    Chunk = 8
    MaxFrames = 3
    MaxBlocks = 2
    MaxLoopDepth = 1
    MaxUpvals = 2
    StackMoves = FALSE
    PassesOverFunctions = FALSE
    JumpsAfterLoops = FALSE
SYMMETRY Names
SPECIFICATION Spec
INVARIANTS TypeOK OpenListSound
PROPERTIES ImplementsVariableSpec OnlyAssignmentsChange
CHECK_DEADLOCK FALSE

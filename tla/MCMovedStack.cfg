CONSTANTS
    Var = {x, y}
    Value = {v}
    Null = Null
    Garbage = Garbage
    Closure = {f, g}
    Upval = {u1, u2}
    GlobalFunc = GlobalFunc
    Storage = Storage
    RegCounts = {2}
    Chunk = 3
    MaxFrames = 3
    MaxBlocks = 2
    MaxLoopDepth = 1
    MaxUpvals = 2
    StackMoves = TRUE
    PassesOverFunctions = FALSE
    JumpsAfterLoops = FALSE
SYMMETRY Names
SPECIFICATION Spec
INVARIANT MovingTheStackIsFixed

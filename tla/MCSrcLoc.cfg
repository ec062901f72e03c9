\* At most three instructions, in at most two functions at a time.
CONSTANTS
    Locations <- MCLocations
    MaxNesting = 2
    MaxInstrs = 3
SPECIFICATION Spec
INVARIANTS TypeOK ErrorLocation IInv
CHECK_DEADLOCK FALSE

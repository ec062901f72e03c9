\* Every operation ends too, so there is no symmetry: it is not sound for that.
CONSTANTS
    Key = {1, 2, 3, 4, 5}
    Value = {u, v}
    Null = Null
    Missing = Missing
    HashFunctions <- MCHashFunctions
    MaxAllocLen = 3
SPECIFICATION FairSpec
INVARIANTS TypeOK TableSound IterationVisitsEachKeyOnce
PROPERTIES OperationsEnd ImplementsMapSpec

CONSTANTS
 Inputs <- MCInputs
 MaxFiles = 2
 MaxParams = 2
SPECIFICATION FairSpec
\* A parse ends.
CHECK_DEADLOCK FALSE
INVARIANTS TypeOK TreeIsTheText TreeIsTheOneReading NotReadPastTheEnd
PROPERTIES ParseEnds

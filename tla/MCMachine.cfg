CONSTANTS
    MAX_FUNC_REGS = 16
    Fuel = 30
    Scripts <- MCScripts
    Compile <- fh_compile
    Expected <- Outcome
    MaxCalls = 2
SPECIFICATION FairSpec
CHECK_DEADLOCK FALSE
INVARIANTS CodeIsSound RunsAsWritten NothingLeftOpen OpenUpvalsInUse
PROPERTIES ScriptEnds

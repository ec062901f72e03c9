CONSTANTS
    MAX_FUNC_REGS = 16
    Fuel = 30
    Scripts <- OwnOperand
    Compile <- fh_compile
    Expected <- Outcome
    MaxCalls = 1
SPECIFICATION Spec
CHECK_DEADLOCK FALSE
INVARIANTS RunsAsWritten

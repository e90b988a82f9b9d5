CONSTANTS
    Regs <- AllRegs
    Values <- NoWords
    PsrValues <- NoWords
    Instructions <- ArithInstructions
    Groups <- ArithGroups
    MaxSteps = 1
SPECIFICATION Spec
CHECK_DEADLOCK FALSE
PROPERTY FlagFunctionsContract

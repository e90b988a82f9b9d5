CONSTANTS
    Regs <- AllRegs
    Values <- NoWords
    PsrValues <- NoWords
    Instructions <- AllInstructions
    Groups <- AllGroups
    MaxSteps = 1
SPECIFICATION Spec
CHECK_DEADLOCK FALSE
INVARIANT DpTypeOK
PROPERTY ArithmeticIsExact
PROPERTY FlagsFollowTheResult
PROPERTY ShiftsAreRepeated
PROPERTY ControlBitsKept

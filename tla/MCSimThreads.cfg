CONSTANTS
    Regs <- AllRegs
    Values <- NoWords
    PsrValues <- NoWords
    Size = 12
    AddressSpace = 32
    Bytes <- NoWords
    Halves <- NoWords
    MemWords <- NoWords
    Machines <- ThreadMachines
    Stale <- SimStale
    Commands <- ThreadCommands
    Noise <- NoNoise
    Irqs <- SomeIrqs
    MaxInput = 2
    MaxIrqs = 2
    MaxFds = 2
    MAX_ERROR_SIZE = 2
SPECIFICATION SimSpec
CHECK_DEADLOCK FALSE
INVARIANT BreakpointNotExecuted
PROPERTY CommandsComplete
PROPERTY IrqsDelivered
PROPERTY DisconnectEndsProcess

CONSTANTS
    Regs <- AllRegs
    Values <- NoWords
    PsrValues <- NoWords
    Size = 12
    AddressSpace = 32
    Bytes <- NoWords
    Halves <- NoWords
    MemWords <- NoWords
    Machines <- StoppingMachines
    Stale <- SimStale
    Commands <- ThreadCommands
    Noise <- NoNoise
    Irqs <- SomeIrqs
    MaxInput = 1
    MaxIrqs = 1
    MaxFds = 2
    MAX_ERROR_SIZE = 2
SPECIFICATION SimSpec
CHECK_DEADLOCK FALSE
INVARIANT NoUseAfterDestroy

CONSTANTS
    Regs <- AllRegs
    Values <- NoWords
    PsrValues <- NoWords
    Size = 12
    AddressSpace = 32
    Bytes <- NoWords
    Halves <- NoWords
    MemWords <- NoWords
    Machines <- LoadedMachines
    Stale <- SimStale
    Commands <- AllCommands
    Noise <- AllNoise
    Irqs <- NoIrqs
    MaxInput = 2
    MaxIrqs = 0
    MaxFds = 2
    MAX_ERROR_SIZE = 2
SPECIFICATION SimSpec
CONSTRAINT InsideMemory
CHECK_DEADLOCK FALSE
INVARIANT SimTypeOK
INVARIANT OneByteOrder
INVARIANT ErrorBufferFits
PROPERTY WrittenRegistersAreRead

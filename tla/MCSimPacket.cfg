CONSTANTS
    Regs <- AllRegs
    Values <- NoWords
    PsrValues <- NoWords
    Size = 512
    AddressSpace = 544
    Bytes <- NoWords
    Halves <- NoWords
    MemWords <- NoWords
    Machines <- EndlessMachines
    Stale <- SimStale
    Commands <- LongReads
    Noise <- NoNoise
    Irqs <- NoIrqs
    MaxInput = 1
    MaxIrqs = 0
    MaxFds = 2
    MAX_ERROR_SIZE = 2
SPECIFICATION SimSpec
CHECK_DEADLOCK FALSE
INVARIANT PacketFits

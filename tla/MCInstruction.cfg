CONSTANTS
    Regs <- AllRegs
    Values <- NoWords
    PsrValues <- NoWords
    Size = 40
    AddressSpace = 96
    Bytes <- NoWords
    Halves <- NoWords
    MemWords <- NoWords
    Machines <- AllMachines
    Stale <- MCStale
    MaxPc = 40
SPECIFICATION Spec
CONSTRAINT ShortRun
CHECK_DEADLOCK FALSE
INVARIANT ProcessorTypeOK
PROPERTY ComparisonsDecide
PROPERTY PcRunsAhead
PROPERTY BranchesLink
PROPERTY UndefinedHasNoEffect
PROPERTY AbortedTransferIsHarmless
PROPERTY MultipleLayout
PROPERTY AbortedMultipleIsPrefix

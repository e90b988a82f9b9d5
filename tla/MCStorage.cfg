CONSTANTS
    Regs <- MCRegs
    Values <- MCValues
    PsrValues <- MCPsr
    MaxDirty = 2
    Size = 4
    AddressSpace = 12
    Bytes <- MCBytes
    Halves <- MCHalves
    MemWords <- MCWords
SPECIFICATION StorageSpec
CONSTRAINT FewDirtyCells
INVARIANT RegTypeOK
INVARIANT ReadsSeeTheVisibleRegister
PROPERTY ImplementsRegisterFile
PROPERTY EachCallIsItsOperation
PROPERTY UserModeIsFinal
INVARIANT MemTypeOK
INVARIANT SizesAgree
PROPERTY WritesReadBack
PROPERTY MultiByteInside

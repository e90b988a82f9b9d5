CONSTANTS
    Requests <- StepOnly
    Handlers <- SomeHandlers
    Answer <- Answers
    Garbles <- SomeGarbles
    MAX_PACKET_SIZE = 8
    MAX_ERROR_SIZE = 2
    MaxRequests = 2
    MaxFaults = 0
    MaxStrays = 1
SPECIFICATION TxSpec
CHECK_DEADLOCK FALSE
INVARIANT AcceptedOnce

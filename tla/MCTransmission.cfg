CONSTANTS
    Requests <- SomeRequests
    Handlers <- SomeHandlers
    Answer <- Answers
    Garbles <- SomeGarbles
    MAX_PACKET_SIZE = 8
    MAX_ERROR_SIZE = 2
    MaxRequests = 3
    MaxFaults = 2
    MaxStrays = 1
SPECIFICATION TxSpec
CHECK_DEADLOCK FALSE
INVARIANT StreamIsUnderstood
PROPERTY ImplementsRequestReply
PROPERTY RequestsAnswered

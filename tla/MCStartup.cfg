CONSTANTS
    Names <- SomeNames
    MAX_FILES_NUMBER = 3
    Locations <- AllLocations
    MAX_LOCATIONS = 2
    TraceFiles <- SomeTraceFiles
    Argvs <- AllArgvs
    CACHE_DEBUG_FLAG = TRUE
    Ports = 4
    Ephemeral <- SomeEphemeral
    Commands <- SomeCommands
    MaxCommands = 2
    MaxIrqs = 1
SPECIFICATION StartSpec
CHECK_DEADLOCK FALSE
INVARIANT StartTypeOK
INVARIANT TraceIsHandedOver
INVARIANT TraceIsFaithful
INVARIANT ServersApart
INVARIANT DebugSelects
INVARIANT SearchIsRight

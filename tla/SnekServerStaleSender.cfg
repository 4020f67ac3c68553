SPECIFICATION Spec
CONSTANTS
    MaxClients = 3
    NumSpawn = 3
    MaxMsgs = 2
    MaxClosed = 1
    MaxDepth = 3
INVARIANTS
    AnyClientsMessage
CHECK_DEADLOCK FALSE

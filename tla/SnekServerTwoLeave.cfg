SPECIFICATION Spec
CONSTANTS
    MaxClients = 3
    NumSpawn = 3
    MaxMsgs = 2
    MaxClosed = 2
    MaxDepth = 3
INVARIANTS
    SeveralMayLeave
CHECK_DEADLOCK FALSE

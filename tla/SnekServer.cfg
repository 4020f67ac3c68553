SPECIFICATION MCSpec
CONSTANTS
    MaxClients = 3
    NumSpawn = 2
    MaxMsgs = 2
    MaxClosed = 2
    MaxDepth = 3
INVARIANTS
    TypeOK
    ListsAgree
    ViewsAgree
    OneLeavesSafely
    ConnectedIsKnown
    SpawnsSuffice
PROPERTIES
    HandlersReturn
    ClosedNoticed
CHECK_DEADLOCK FALSE

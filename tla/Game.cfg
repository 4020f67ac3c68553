SPECIFICATION PlayingSpec
CONSTANTS
    Width = 4
    Height = 3
    MaxClients = 3
    MaxFrames = 4
    MaxKeys = 1
    MaxLeave = 1
    PowerupCells <- MCPowerupCells
INVARIANTS
    TypeOK
    PowerupEverywhere
    SnakesAgree
    DeadAreGone
    AliveCanMove
    StartKnown
    OnlyDeathEmpties
CHECK_DEADLOCK FALSE

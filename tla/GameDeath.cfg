SPECIFICATION Spec
CONSTANTS
    Width = 4
    Height = 3
    MaxClients = 2
    MaxFrames = 3
    MaxKeys = 1
    MaxLeave = 0
    PowerupCells <- MCPowerupCells
INVARIANT DeathIsSurvived
CHECK_DEADLOCK FALSE

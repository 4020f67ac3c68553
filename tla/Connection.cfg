SPECIFICATION MCSpec
CONSTANTS
    Handshakes <- MCHandshakes
    Unset <- MCUnset
    Scramble <- Scrambled
    ClientMsgs <- MCClient
    ServerMsgs <- MCServer
    Welcome <- MCWelcome
    StartGame <- MCStartGame
    MaxBody = 1
    MaxSend = 2
    MaxBroadcast = 1
INVARIANTS
    TypeOK
    WriteChain
    FramesAligned
    SnekAdmitted
PROPERTIES
    FifoUpstream
    Delivered
    CloseNoticed
    Admitted
CHECK_DEADLOCK FALSE

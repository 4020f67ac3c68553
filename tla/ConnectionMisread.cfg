SPECIFICATION Spec
CONSTANTS
    Handshakes <- MCHandshakes
    Unset <- MCUnset
    Scramble <- Scrambled
    ClientMsgs <- MCClient
    ServerMsgs <- MCServer
    Welcome <- MCWelcome
    StartGame <- MCStartGame
    MaxBody = 1
    MaxSend = 2
    MaxBroadcast = 0
INVARIANT HeaderIsHeader
CHECK_DEADLOCK FALSE

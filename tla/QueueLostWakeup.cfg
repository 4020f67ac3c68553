SPECIFICATION FairSpec
CONSTANTS
    Producers = {a1}
    Main = main
    NoThread = none
    MaxMessages = 2
    MaxPush = 2
PROPERTIES
    ReceivedIsHandled

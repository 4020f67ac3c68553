SPECIFICATION FairSpec
CONSTANTS
    Producers = {a1, a2}
    Main = main
    NoThread = none
    MaxMessages = 2
    MaxPush = 4
INVARIANTS
    TypeOK
    PopNonEmpty
    Backlog
    LockOrder
    WakeupNotLost
PROPERTIES
    InOrder
    PushReturns
    ArrivalWakes

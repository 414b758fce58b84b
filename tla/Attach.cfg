SPECIFICATION FairSpec
CONSTANTS
    ChanCapacity = 1
    QueueLimit = 2
    SocketRoom = 1
    Signals = {"term", "winch"}
    MaxTyped = 2
    MaxOut = 2
    MaxResize = 1
CHECK_DEADLOCK FALSE
INVARIANTS TypeOK TypedInOrder StdinDelivered StatusAfterOutput NothingHeldBack
PROPERTIES EndsWithRunner EndsOnSignal

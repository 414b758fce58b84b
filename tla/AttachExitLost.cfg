SPECIFICATION Spec
CONSTANTS
    ChanCapacity = 1
    QueueLimit = 2
    SocketRoom = 1
    Signals = {}
    MaxTyped = 1
    MaxOut = 1
    MaxResize = 0
CHECK_DEADLOCK FALSE
INVARIANT ExitReported

SPECIFICATION MCSpec
CONSTANTS
    NoConn = NoConn
    Conns = {"c1", "c2"}
    Foreign <- LiveForeign
    Scripts <- LiveScripts
    ExitStatus = {"signal"}
    Signalled = "signal"
    TailCapacity = 1
    QueueLimit = 4
    InputLimit = 1
    HeaderBytes = 1
    MaxPayload = 2
    MarkerBytes = 1
    ExitBytes = 1
    IoChunk = 1
    MaxPerTick = 1
    PtyCapacity = 1
    MaxOut = 3
    Faults = {}
CHECK_DEADLOCK FALSE
INVARIANT StopHonest
PROPERTIES StopCompletes ExitCompletes OutputDrained ConnectionsServed

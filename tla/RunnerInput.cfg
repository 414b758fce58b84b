SPECIFICATION Spec
CONSTANTS
    c1 = c1
    c2 = c2
    NoConn = NoConn
    Conns = {c1, c2}
    Foreign <- NoForeign
    Scripts <- InputScripts
    ExitStatus = {"signal"}
    Signalled = "signal"
    TailCapacity = 1
    QueueLimit = 4
    InputLimit = 2
    HeaderBytes = 1
    MaxPayload = 2
    MarkerBytes = 1
    ExitBytes = 1
    IoChunk = 1
    MaxPerTick = 1
    PtyCapacity = 1
    MaxOut = 0
    Faults = {}
CHECK_DEADLOCK FALSE
SYMMETRY Symmetry
INVARIANTS AttachedTruthful InputInOrder OneOwnerAtATime

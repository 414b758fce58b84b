SPECIFICATION Spec
CONSTANTS
    c1 = c1
    c2 = c2
    NoConn = NoConn
    Conns = {c1, c2}
    Foreign <- NoForeign
    Scripts <- OutputScripts
    ExitStatus = {"code", "signal"}
    Signalled = "signal"
    TailCapacity = 2
    QueueLimit = 6
    InputLimit = 0
    HeaderBytes = 1
    MaxPayload = 2
    MarkerBytes = 1
    ExitBytes = 1
    IoChunk = 3
    MaxPerTick = 3
    PtyCapacity = 3
    MaxOut = 4
    Faults = {"error", "kill"}
CHECK_DEADLOCK FALSE
SYMMETRY Symmetry
INVARIANTS TypeOK GapFree ExitAfterRecord CompletedRecordTrue NaturalExitKeepsOutput AttachedTruthful

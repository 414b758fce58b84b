SPECIFICATION RelaySpec
CONSTANTS
    Byte <- MCByte
    Chunks <- MCChunks
    Capacities = {0, 1, 3}
    MaxFed = 6
    MaxPayload = 4
    MaxDimension = 4096
    QueueLimit = 20
    IoChunk = 4
    SockRoom = 5
    MarkerText <- MCMarker
    WaitStatuses <- MCWaitStatuses
    Frames <- MCFrames
    Records <- MCRecords
CHECK_DEADLOCK FALSE
INVARIANTS TypeOK TailIsSuffix TruncatedIffLost EndToEnd StatusFaithful Canonical

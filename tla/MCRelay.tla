------------------------------ MODULE MCRelay ------------------------------
(***************************************************************************)
(* Relay for TLC.  The output bytes are 0 and 3, which are also the bytes  *)
(* of an Output record's header; a payload holds four bytes, so a chunk or *)
(* a replay may take two records.                                          *)
(***************************************************************************)
EXTENDS Relay

MCByte == {0, 3}
MCMarker == <<9>>
MCChunks == {<<>>, <<3>>, <<3, 0>>, <<0, 0, 3>>, <<0, 3, 0, 0, 0>>}

\* exit(255), and signal 126 with a core dump.
MCWaitStatuses == {65280, 254}

\* Byte strings a peer may send, and records, for the decoder alone.
WireByte == {0, 1, 2, 6, 16, 200}
Cut == { <<k, 0, 0, 0, n>> \o p : k \in 0..7, n \in 0..5, p \in UNION {[1..m -> WireByte] : m \in 0..4} }
LongLengths == { <<k, a, b, c, 0>> : k \in 1..6, a \in 0..1, b \in 0..1, c \in 0..1 }
MCFrames == Cut \cup LongLengths
MCRecords ==
    { WithSize(k, r, c) : k \in {"attach", "resize"}, r \in {1, 2, 255, 256, MaxDimension}, c \in {1, 80, MaxDimension} }
        \cup { WithBytes(k, p) : k \in {"input", "output"}, p \in UNION {[1..m -> {0, 3}] : m \in 0..MaxPayload} }
        \cup {Bare("stop")} \cup { WithExit(s) : s \in ExitStatuses }
=============================================================================

-------------------------------- MODULE Ipc --------------------------------
(***************************************************************************)
(* The records runner and client exchange (ipc.rs): their encoding, byte   *)
(* by byte, and the step of the incremental Decoder.  A ProcessExit is a   *)
(* record [reason, value], reason 0 for Code and 1 for Signal.             *)
(***************************************************************************)
EXTENDS Integers, Sequences

CONSTANTS MaxPayload,   \* MAX_IPC_PAYLOAD_BYTES
          MaxDimension  \* MAX_TERMINAL_DIMENSION
Octet == 0..255
U16 == 256 * 256                              \* the number of values of a u16

\* 64 KiB and 4096: a length fits three of its four bytes, a dimension a u16,
\* and a payload of fixed size, at most two dimensions, the limit.
ASSUME IpcAssumption ==
    /\ MaxPayload \in Nat /\ MaxPayload < 256 * U16 /\ MaxPayload >= 4
    /\ MaxDimension \in 1..(U16 - 1)

HeaderBytes == 5                              \* IPC_HEADER_BYTES
MaxRecord == HeaderBytes + MaxPayload         \* MAX_IPC_RECORD_BYTES
KindByte == [attach |-> 1, input |-> 2, output |-> 3, resize |-> 4, stop |-> 5, exit |-> 6]

Sized(kind) == kind \in {"attach", "resize"}
Bare(kind) == [kind |-> kind]
WithBytes(kind, bytes) == [kind |-> kind, bytes |-> bytes]
WithSize(kind, rows, columns) == [kind |-> kind, rows |-> rows, columns |-> columns]
WithExit(status) == [kind |-> "exit", status |-> status]

\* ProcessExit and Record, with the values the program gives them.
ExitStatuses == [reason : {0}, value : Octet] \cup [reason : {1}, value : 1..127]
LegalRecord ==
    [kind : {"attach", "resize"}, rows : 1..MaxDimension, columns : 1..MaxDimension]
        \cup [kind : {"input", "output"}, bytes : Seq(Octet)]
        \cup {Bare("stop")}
        \cup [kind : {"exit"}, status : ExitStatuses]

\* u16::to_be_bytes and u32::to_be_bytes (lengths below 2^24).
Be16(n) == <<n \div 256, n % 256>>
Be32(n) == <<0, n \div U16>> \o Be16(n % U16)

\* ProcessExit::status_code: 128_u8.saturating_add(signal).
SignalPlain(status) == status.value           \* mutant: the signal number itself
status_code(status) ==
    IF status.reason = 0 THEN status.value
    ELSE IF status.value > 127 THEN 255 ELSE 128 + status.value

-----------------------------------------------------------------------------
Payload(r) ==
    CASE Sized(r.kind) -> Be16(r.rows) \o Be16(r.columns)
      [] r.kind \in {"input", "output"} -> r.bytes
      [] r.kind = "stop" -> <<>>
      [] r.kind = "exit" -> <<r.status.reason, r.status.value>>

\* encode fails for a larger payload.
Encodable(r) == Len(Payload(r)) <= MaxPayload
Encode(r) == <<KindByte[r.kind]>> \o Be32(Len(Payload(r))) \o Payload(r)

Nothing == Bare("none")                       \* Ok(None): not a whole record yet
Invalid == Bare("error")                      \* Err(DecodeError)

ZeroAllowed(n) == n <= MaxDimension           \* mutant: no lower bound
Dimension(n) == n \in 1..MaxDimension

decode_dimensions(kind, p) ==
    IF Len(p) # 4 THEN Invalid
    ELSE LET rows == p[1] * 256 + p[2]
             columns == p[3] * 256 + p[4]
         IN  IF Dimension(rows) /\ Dimension(columns)
               THEN WithSize(kind, rows, columns) ELSE Invalid

decode_exit(p) ==
    IF /\ Len(p) = 2
       /\ p[1] = 0 \/ (p[1] = 1 /\ p[2] \in 1..127)
      THEN WithExit([reason |-> p[1], value |-> p[2]])
      ELSE Invalid

decode_payload(kindByte, p) ==
    CASE kindByte = KindByte.attach -> decode_dimensions("attach", p)
      [] kindByte = KindByte.input -> WithBytes("input", p)
      [] kindByte = KindByte.output -> WithBytes("output", p)
      [] kindByte = KindByte.resize -> decode_dimensions("resize", p)
      [] kindByte = KindByte.stop -> IF p = <<>> THEN Bare("stop") ELSE Invalid
      [] kindByte = KindByte.exit -> decode_exit(p)
      [] OTHER -> Invalid

\* What the header in b says of its payload's length.
PayloadLength(b) == ((b[2] * 256 + b[3]) * 256 + b[4]) * 256 + b[5]

\* Decoder::next on the buffer b, and what it leaves there.
DecoderNext(b) ==
    CASE Len(b) < HeaderBytes -> Nothing
      [] Len(b) >= HeaderBytes /\ PayloadLength(b) > MaxPayload -> Invalid
      [] Len(b) >= HeaderBytes /\ PayloadLength(b) <= MaxPayload ->
           IF Len(b) < HeaderBytes + PayloadLength(b) THEN Nothing
           ELSE decode_payload(b[1], SubSeq(b, HeaderBytes + 1, HeaderBytes + PayloadLength(b)))
DecoderRest(b) == SubSeq(b, HeaderBytes + PayloadLength(b) + 1, Len(b))

-----------------------------------------------------------------------------
\* A record survives the way there and back, whatever comes behind it.
RoundTrip(r, rest) ==
    DecoderNext(Encode(r) \o rest) = r /\ DecoderRest(Encode(r) \o rest) = rest

\* A record that is cut off is taken for none.
CutOff(r) == \A n \in 0..(Len(Encode(r)) - 1) : DecoderNext(SubSeq(Encode(r), 1, n)) = Nothing

\* What the decoder accepts in b is a legal record in its one encoding: no byte
\* is ignored or read twice.
OneEncoding(b) ==
    DecoderNext(b) \notin {Nothing, Invalid} =>
        DecoderNext(b) \in LegalRecord /\ b = Encode(DecoderNext(b)) \o DecoderRest(b)

=============================================================================

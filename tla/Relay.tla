------------------------------- MODULE Relay -------------------------------
(***************************************************************************)
(* The way of the output from the PTY to the terminal of a client, byte by *)
(* byte: OutputTail::extend, enqueue_replay and enqueue_output, the        *)
(* ByteQueue of the connection, the socket, the client's read_records with *)
(* its Decoder, and the Exit record at the end.  Which client is attached  *)
(* and how a connection comes about is module Runner's; here one client    *)
(* attaches at any moment.                                                 *)
(***************************************************************************)
EXTENDS OutputTail, Ipc, SequencesExt

CONSTANTS QueueLimit,    \* MAX_ATTACHMENT_QUEUE_BYTES
          IoChunk,       \* IO_CHUNK_BYTES
          SockRoom,      \* what the kernel buffers of unread bytes
          MarkerText,    \* TRUNCATION_MARKER
          WaitStatuses,  \* the wait statuses of a child, as waitpid has them
          Frames,        \* byte strings a peer may send, and ...
          Records        \* ... records it may encode, for the codec alone

VARIABLES waitStatus,  \* the child's, once the runner has completed
          link,        \* the connection: "none", "open", "closed" by the runner
          from,        \* history: bytes lost to the client before it attached
          queue,       \* Connection::output
          sock,        \* bytes in the socket
          buf,         \* Decoder::buffer of the client
          batch,       \* records decoded from one read
          client,      \* "idle", "decode", "done", "detached" or "failed"
          printed,     \* written to the client's terminal
          reported     \* the status the client returns
tailVars == <<bytes, capacity, truncated, fed>>
wireVars == <<link, from, queue, sock>>
clientVars == <<buf, batch, client, printed, reported>>
relayVars == <<tailVars, waitStatus, wireVars, clientVars>>

Running == -1

\* The limits (limits.rs): the marker is one record, and the replay fits an
\* empty queue however much was kept.
ASSUME RelayAssumption ==
    /\ QueueLimit \in Nat /\ IoChunk \in Nat \ {0} /\ SockRoom \in Nat \ {0}
    /\ Byte \subseteq Octet /\ MarkerText \in Seq(Octet)
    /\ Len(MarkerText) \in 1..MaxPayload
    /\ \A c \in Capacities :
         HeaderBytes + Len(MarkerText) + c + HeaderBytes * ((c + MaxPayload - 1) \div MaxPayload) <= QueueLimit
    /\ WaitStatuses \subseteq 0..(U16 - 1)
    /\ \A b \in Frames : b \in Seq(Octet)
    /\ \A r \in Records : r \in LegalRecord /\ Encodable(r)

RelayInit ==
    /\ Init
    /\ waitStatus = Running
    /\ link = "none" /\ from = 0 /\ queue = <<>> /\ sock = <<>>
    /\ buf = <<>> /\ batch = <<>> /\ client = "idle" /\ printed = <<>> /\ reported = Running

-----------------------------------------------------------------------------
(* The runner.                                                              *)

\* output.chunks(MAX_IPC_PAYLOAD_BYTES)
Piece(s, i) == SubSeq(s, (i - 1) * MaxPayload + 1, IF i * MaxPayload < Len(s) THEN i * MaxPayload ELSE Len(s))
Pieces(s) == [i \in 1..((Len(s) + MaxPayload - 1) \div MaxPayload) |-> Piece(s, i)]
\* What enqueue_output pushes for s.
Wire(s) == FlattenSeq([i \in 1..Len(Pieces(s)) |-> Encode(WithBytes("output", Pieces(s)[i]))])

\* ByteQueue::push; a failing push anywhere in the chunk loses the connection.
Pushes(s) == Len(s) <= QueueLimit - Len(queue)
SkipChunk == UNCHANGED <<link, queue>>        \* mutant: the chunk is left out
DropConnection == link' = "closed" /\ queue' = <<>>

\* drain_pty, one read.
ReadPty ==
    /\ waitStatus = Running
    /\ \E incoming \in Chunks :
         /\ Extend(incoming)
         /\ \/ link # "open" /\ UNCHANGED <<link, queue>>
            \/ link = "open" /\ Pushes(Wire(incoming)) /\ queue' = queue \o Wire(incoming) /\ UNCHANGED link
            \/ link = "open" /\ ~Pushes(Wire(incoming)) /\ DropConnection
    /\ UNCHANGED <<waitStatus, from, sock, clientVars>>

\* enqueue_replay for a new connection.
Replay == (IF truncated THEN Wire(MarkerText) ELSE <<>>) \o Wire(bytes)
Attach ==
    /\ waitStatus = Running
    /\ link = "none"
    /\ Pushes(Replay)
    /\ link' = "open"
    /\ from' = Len(fed) - Len(bytes)
    /\ queue' = Replay
    /\ UNCHANGED <<tailVars, waitStatus, sock, clientVars>>

\* One write of ByteQueue::flush; with no room it would block.
Flush ==
    /\ link = "open"
    /\ \E n \in 1..Len(queue) :
         /\ Len(sock) + n <= SockRoom
         /\ sock' = sock \o SubSeq(queue, 1, n)
         /\ queue' = Drop(queue, n)
    /\ UNCHANGED <<tailVars, waitStatus, link, from, clientVars>>

\* ExitStatus::code, ExitStatus::signal (127 is that of a stopped child, which
\* nobody waits for) and process_exit of a wait status.
process_exit(w) ==
    IF w % 128 = 0 THEN [reason |-> 0, value |-> w \div 256]
    ELSE IF w % 128 # 127 THEN [reason |-> 1, value |-> w % 128]
    ELSE [reason |-> 0, value |-> 1]

\* complete_session: the Exit record behind what is queued, if it fits.
Complete ==
    /\ waitStatus = Running
    /\ \E w \in WaitStatuses :
         /\ waitStatus' = w
         /\ LET exit == Encode(WithExit(process_exit(w)))
            IN  queue' = IF link = "open" /\ Pushes(exit) THEN queue \o exit ELSE queue
    /\ UNCHANGED <<tailVars, link, from, sock, clientVars>>

\* The last flush is done or its second is over: the runner exits.
Close ==
    /\ waitStatus # Running
    /\ link = "open"
    /\ DropConnection
    /\ UNCHANGED <<tailVars, waitStatus, from, sock, clientVars>>

-----------------------------------------------------------------------------
(* The client.                                                              *)

RemainingCapacity == MaxRecord - Len(buf)     \* Decoder::remaining_capacity
ReadLength == CHOOSE n \in 0..IoChunk :
    /\ n <= RemainingCapacity /\ n <= Len(sock)
    /\ n \in {IoChunk, RemainingCapacity, Len(sock)}

\* read_records: one read, refused when the buffer is full.
ReadSocket ==
    /\ client = "idle"
    /\ sock # <<>>
    /\ IF RemainingCapacity = 0
         THEN client' = "failed" /\ UNCHANGED <<sock, buf>>
         ELSE /\ buf' = buf \o SubSeq(sock, 1, ReadLength)
              /\ sock' = Drop(sock, ReadLength)
              /\ client' = "decode"
    /\ UNCHANGED <<tailVars, waitStatus, link, from, queue, batch, printed, reported>>

\* End of file: the attachment is lost, and the client returns Code(0).
EndOfFile ==
    /\ client = "idle"
    /\ link = "closed" /\ sock = <<>>
    /\ client' = "detached"
    /\ reported' = status_code([reason |-> 0, value |-> 0])
    /\ UNCHANGED <<tailVars, waitStatus, wireVars, buf, batch, printed>>

\* One record of the loop around Decoder::next.
DecodeRecord ==
    /\ client = "decode"
    /\ DecoderNext(buf) \notin {Nothing, Invalid}
    /\ batch' = Append(batch, DecoderNext(buf))
    /\ buf' = DecoderRest(buf)
    /\ UNCHANGED <<tailVars, waitStatus, wireVars, client, printed, reported>>

\* The records before the first that is no Output; none when the decoding
\* failed, and the batch is lost with the record that does not decode.
Leading == SelectInSeq(batch, LAMBDA r : r.kind # "output")
Outputs ==
    IF DecoderNext(buf) = Invalid THEN <<>>
    ELSE IF Leading = 0 THEN batch ELSE SubSeq(batch, 1, Leading - 1)
EndsBatch == IF Leading = 0 THEN DecoderNext(buf) ELSE batch[Leading]

\* attach_live on the batch: Output is written, Exit returned, else an error.
WriteBatch ==
    /\ client = "decode"
    /\ DecoderNext(buf) \in {Nothing, Invalid}
    /\ printed' = printed \o FlattenSeq([i \in 1..Len(Outputs) |-> Outputs[i].bytes])
    /\ batch' = <<>>
    /\ client' = CASE DecoderNext(buf) = Invalid -> "failed"
                   [] EndsBatch = Nothing -> "idle"
                   [] EndsBatch.kind = "exit" -> "done"
                   [] OTHER -> "failed"
    /\ reported' = IF client' = "done" THEN status_code(EndsBatch.status) ELSE reported
    /\ UNCHANGED <<tailVars, waitStatus, wireVars, buf>>

RelayNext ==
    \/ ReadPty \/ Attach \/ Flush \/ Complete \/ Close
    \/ ReadSocket \/ EndOfFile \/ DecodeRecord \/ WriteBatch

RelaySpec == RelayInit /\ [][RelayNext]_relayVars

-----------------------------------------------------------------------------
\* What the client should see: everything since the first byte that was kept
\* when it attached, behind the marker when something before it was lost.
Expected == (IF from > 0 THEN MarkerText ELSE <<>>) \o Drop(fed, from)

\* The terminal shows the output byte for byte, never cut inside, repeated or
\* mistaken for framing, wherever a write, a read or a payload ends; all of it
\* once nothing is in transit and before a status is returned; and a client of
\* this runner never sees an invalid record (acceptance PROC-015, IPC tests).
EndToEnd ==
    /\ link # "none" => IsPrefix(printed, Expected)
    /\ client = "done" => printed = Expected
    /\ link = "open" /\ queue = <<>> /\ sock = <<>> /\ client = "idle" /\ waitStatus = Running
         => printed = Expected
    /\ client # "failed"

\* The status an attached command returns is the one a shell would give for
\* the wait status of the child: its exit code, or 128 plus the signal, core
\* dumped or not (process_exit, decode_exit, ProcessExit::status_code).
ShellCode(w) ==
    IF w % 128 = 0 THEN w \div 256 ELSE IF w % 128 # 127 THEN 128 + (w % 128) ELSE 1
StatusFaithful == client = "done" => reported = ShellCode(waitStatus)

\* Canonical is a fact about constants: once is enough to evaluate it.
AtStart == fed = <<>> /\ link = "none" /\ waitStatus = Running

\* The codec on its own (Decoder::next, decode_payload, write_record): every
\* record and nothing else is accepted, and only whole and unchanged.
Canonical == AtStart =>
    /\ \A b \in Frames : OneEncoding(b)
    /\ \A r \in Records : RoundTrip(r, <<3, 0>>) /\ CutOff(r)

=============================================================================

------------------------------- MODULE Runner -------------------------------
(***************************************************************************)
(* One runner process from its ready report to its end: run_event_loop and *)
(* complete_session of runner.rs, with the child, the PTY and the clients  *)
(* of the session socket as its environment.                               *)
(*                                                                         *)
(* The runner is single threaded; pc says where in the loop it is, and the *)
(* environment moves between any two of its steps.  A step is a system     *)
(* call or a run of code between two.  What the child prints is the byte   *)
(* numbers 1, 2, 3, ...: written were put in the PTY, nRead were taken out *)
(* of it, so a stretch of output is an interval [lo, hi].                  *)
(***************************************************************************)
EXTENDS Integers, Sequences

CONSTANTS
    Conns,         \* connections clients may open
    NoConn,        \* Option::None for a connection
    Scripts,       \* the record sequences a client may send
    Foreign,       \* the ones sent by a peer with another uid
    ExitStatus,    \* how a child may end (ProcessExit)
    Signalled,     \* the status a SIGKILL leaves
    TailCapacity,  \* OUTPUT_TAIL_BYTES
    QueueLimit,    \* MAX_ATTACHMENT_QUEUE_BYTES of a Connection::output
    InputLimit,    \* MAX_ATTACHMENT_QUEUE_BYTES of pty_input
    HeaderBytes,   \* IPC_HEADER_BYTES
    MaxPayload,    \* MAX_IPC_PAYLOAD_BYTES
    MarkerBytes,   \* length of TRUNCATION_MARKER
    ExitBytes,     \* payload of an Exit record
    IoChunk,       \* IO_CHUNK_BYTES
    MaxPerTick,    \* MAX_PTY_BYTES_PER_TICK
    PtyCapacity,   \* what the kernel buffers of unread output
    Faults,        \* which of "error" and "kill" may happen to the runner
    MaxOut         \* bound: bytes the child and its descendants print

\* Encoded size of n bytes sent as Output records (enqueue_output, encode).
Wire(n) == n + HeaderBytes * ((n + MaxPayload - 1) \div MaxPayload)

ASSUME ConnAssumption == NoConn \notin Conns /\ Foreign \subseteq Scripts
ASSUME StatusAssumption ==
    /\ Signalled \in ExitStatus
    /\ {"none", "running", "doomed"} \cap ExitStatus = {}
ASSUME SizeAssumption ==
    /\ {TailCapacity, HeaderBytes, MaxPayload, MarkerBytes, IoChunk, MaxPerTick} \subseteq Nat \ {0}
    /\ {QueueLimit, InputLimit, ExitBytes, PtyCapacity, MaxOut} \subseteq Nat
\* A replay fits in an empty queue: with the real limits, the marker and four
\* chunks of 64 KiB with their headers in 1 MiB.
ASSUME ReplayAssumption ==
    \A n \in 0..TailCapacity : Wire(n) \in Nat /\ Wire(MarkerBytes) + Wire(n) <= QueueLimit
ASSUME WireAssumption == \A n \in 0..IoChunk : Wire(n) \in Nat
\* One drain_pty empties a full PTY: 256 KiB against a few KiB in the kernel.
ASSUME PtyAssumption == PtyCapacity <= MaxPerTick
ASSUME ScriptAssumption ==
    \A s \in Scripts : s # <<>> /\ s \in Seq({"attach", "input", "resize", "stop", "other", "bad"})

VARIABLES
    pc,            \* where run_event_loop / complete_session is
    child,         \* "running", "doomed" (SIGKILL sent), or its exit status
    written, nRead, writtenAtExit,
    tail,          \* OutputTail: retained interval and truncation flag
    processed,     \* drain_pty's byte count
    had,           \* had_attachment
    active, candidate,
    joining,       \* the candidate taken while its first batch is applied
    pending,       \* decoded records of the batch still to be applied
    events,        \* what poll reported
    stopRequested, exit,
    script,        \* what each client sends; <<>> until it connects
    conn,          \* each connection, while somebody holds it
    backlog,       \* connections the listener has not accepted
    ptyInput,      \* the pty_input queue; one byte per Input record
    childIn,       \* history: input bytes the PTY took
    winsize,       \* the connection that set the PTY's dimensions
    owners,        \* history: connections that were active
    meta, outFile, liveFiles

ptyVars == <<child, written, nRead, writtenAtExit, tail, processed>>
fileVars == <<meta, outFile, liveFiles>>
inputVars == <<ptyInput, childIn, winsize>>
loopVars == <<had, events, stopRequested, exit>>
slotVars == <<active, candidate, joining, pending, owners, backlog>>
besideActive == <<candidate, joining, pending, owners, backlog>>
still == <<ptyVars, script, fileVars, inputVars, loopVars>>  \* all but pc and connections
vars == <<pc, still, conn, slotVars>>

-----------------------------------------------------------------------------
\* SessionMetadata as the runner writes it.
LiveMeta(attached) ==
    [kind |-> "live", attached |-> attached, exit |-> "none", bytes |-> 0, truncated |-> FALSE]
TailLen == tail.hi - tail.lo + 1
CompletedMeta ==
    [kind |-> "completed", attached |-> FALSE, exit |-> exit,
     bytes |-> TailLen, truncated |-> tail.truncated]
NoEvents == [ptyOut |-> FALSE, listen |-> FALSE, cand |-> FALSE,
             act |-> FALSE, actOut |-> FALSE, actIn |-> FALSE]
\* A connection: records arrived and records decoded, whether the peer closed,
\* bytes in Connection::output, and (history) all that was queued for it.
\* Dropping the Connection, or never having had one, leaves NoConnection.
NoConnection == [sent |-> 0, taken |-> 0, hup |-> FALSE, queue |-> 0, stream |-> <<>>]
NoFile == [lo |-> 0, hi |-> 0]
\* What a client is sent, in order: output bytes by their number, the
\* truncation marker, the Exit record.
Marker == 0
ExitRecord == -1
Bytes(lo, hi) == [i \in 1..(hi - lo + 1) |-> lo + i - 1]

Ends == {"completed", "failed", "killed"}
Stopping == {"term", "grace", "kill", "wait"}
Completing == {"output", "metadata", "unlink", "notify", "exit"}
Looping == {"drain", "reap", "poll", "input", "flush", "read", "apply", "settle",
            "accept", "candidate", "join", "stop"}
Ended == pc \in Ends

\* start_runner has written Live metadata and reported STARTUP_READY.
Init ==
    /\ pc = "drain"
    /\ child = "running" /\ written = 0 /\ nRead = 0 /\ writtenAtExit = 0
    /\ tail = [lo |-> 1, hi |-> 0, truncated |-> FALSE]
    /\ processed = 0 /\ had = FALSE
    /\ active = NoConn /\ candidate = NoConn /\ joining = NoConn /\ pending = 0
    /\ events = NoEvents /\ stopRequested = FALSE /\ exit = "none"
    /\ script = [c \in Conns |-> <<>>]
    /\ conn = [c \in Conns |-> NoConnection]
    /\ backlog = <<>> /\ ptyInput = <<>> /\ childIn = <<>>
    /\ winsize = NoConn /\ owners = {}
    /\ meta = LiveMeta(FALSE) /\ outFile = NoFile /\ liveFiles = TRUE

-----------------------------------------------------------------------------
(* The environment: the child and its descendants, the kernel, clients.    *)

\* The inner PTY is open until run_event_loop drops the master.
PtyOpen == pc \in Looping \cup {"final"}

\* The child or a descendant prints a byte; the PTY blocks it when full.
ChildWrites ==
    /\ PtyOpen
    /\ written < MaxOut
    /\ written - nRead < PtyCapacity
    /\ written' = written + 1
    /\ UNCHANGED <<pc, child, nRead, writtenAtExit, tail, processed, script, conn,
                   fileVars, inputVars, loopVars, slotVars>>

ChildExits ==
    /\ ~Ended
    /\ \/ child = "running" /\ child' \in ExitStatus
       \/ child = "doomed" /\ child' = Signalled
    /\ writtenAtExit' = written
    /\ UNCHANGED <<pc, written, nRead, tail, processed, script, conn, fileVars, inputVars,
                   loopVars, slotVars>>

\* A connection some process still holds the server end of.
Open(c) ==
    /\ ~Ended
    /\ \/ c \in {active, candidate, joining}
       \/ \E i \in 1..Len(backlog) : backlog[i] = c

\* A client connects to the session socket and picks what it will send.
Connect(c) ==
    /\ script[c] = <<>>
    /\ liveFiles /\ ~Ended
    /\ \E s \in Scripts : script' = [script EXCEPT ![c] = s]
    /\ backlog' = Append(backlog, c)
    /\ UNCHANGED <<pc, ptyVars, conn, fileVars, inputVars, loopVars, active, candidate,
                   joining, pending, owners>>

\* The next record of a client has arrived in full.
Send(c) ==
    /\ Open(c) /\ ~conn[c].hup
    /\ conn[c].sent < Len(script[c])
    /\ conn' = [conn EXCEPT ![c].sent = @ + 1]
    /\ UNCHANGED <<pc, still, slotVars>>

HangUp(c) ==
    /\ Open(c) /\ ~conn[c].hup
    /\ conn' = [conn EXCEPT ![c].hup = TRUE]
    /\ UNCHANGED <<pc, still, slotVars>>

\* SIGKILL or a host crash: files and socket stay as they are.
Killed ==
    /\ "kill" \in Faults /\ ~Ended
    /\ pc' = "killed"
    /\ UNCHANGED <<still, conn, slotVars>>

-----------------------------------------------------------------------------
(* The runner.                                                              *)

\* An I/O error propagated by `?` anywhere before drop(files): SessionFiles'
\* Drop removes socket and lock, the metadata stays as last written.
Fails ==
    /\ "error" \in Faults
    /\ pc \in Looping \cup Stopping \cup {"final", "output", "metadata"}
    /\ pc' = "failed"
    /\ liveFiles' = FALSE
    /\ UNCHANGED <<ptyVars, script, conn, meta, outFile, inputVars, loopVars, slotVars>>

\* OutputTail::extend with the n bytes read after byte nRead (module
\* OutputTail has it byte by byte).
TailExtend(n) ==
    IF n >= TailCapacity
      THEN [lo |-> nRead + n - TailCapacity + 1, hi |-> nRead + n,
            truncated |-> tail.truncated \/ TailLen # 0 \/ n > TailCapacity]
    ELSE IF TailLen + n > TailCapacity
      THEN [lo |-> tail.lo + (TailLen + n - TailCapacity), hi |-> tail.hi + n, truncated |-> TRUE]
    ELSE [tail EXCEPT !.hi = @ + n]

\* connection c is dropped: its socket closes.
Without(c) == IF c = NoConn THEN conn ELSE [conn EXCEPT ![c] = NoConnection]
DropActive == active' = NoConn /\ conn' = Without(active)

\* ByteQueue::push on the attachment's queue; a full queue drops it.
FitsAlways(n) == TRUE                             \* mutant: the limit is not checked
Fits(n) == conn[active].queue + Wire(n) <= QueueLimit
KeepSlow == UNCHANGED <<active, conn>>            \* mutant: its output is skipped instead
DropSlow == DropActive

\* enqueue_output for the active connection.
EnqueueLive(n) ==
    IF active # NoConn /\ Fits(n)
      THEN /\ conn' = [conn EXCEPT ![active].queue = @ + Wire(n),
                                   ![active].stream = @ \o Bytes(nRead + 1, nRead + n)]
           /\ UNCHANGED active
      ELSE DropSlow

InBudgetRoom == processed < MaxPerTick /\ (active # NoConn => Fits(1))  \* mutant: waits for the client
InBudget == processed < MaxPerTick

\* drain_pty: one successful read of the master.
DrainRead ==
    /\ pc \in {"drain", "final"}
    /\ InBudget
    /\ \E n \in 1..IoChunk :
         /\ n <= written - nRead
         /\ tail' = TailExtend(n)
         /\ EnqueueLive(n)
         /\ processed' = processed + n
         /\ nRead' = nRead + n
    /\ UNCHANGED <<pc, child, written, writtenAtExit, script, fileVars, inputVars,
                   loopVars, besideActive>>

RecordFirst == IF pc = "drain" THEN "reap" ELSE "metadata"   \* mutant: record before output
AfterDrain == IF pc = "drain" THEN "reap" ELSE "output"

\* drain_pty returns: WouldBlock, EIO, end of file, or the tick's budget.
DrainEnd ==
    /\ pc \in {"drain", "final"}
    /\ written = nRead \/ ~InBudget
    /\ processed' = 0
    /\ pc' = AfterDrain
    /\ UNCHANGED <<child, written, nRead, writtenAtExit, tail, script, conn, fileVars,
                   inputVars, loopVars, slotVars>>

\* `had_attachment && active.is_none()`, child.try_wait(), and the final drain.
NeverLost == FALSE                                \* mutant: the loss is not recorded
AttachmentLost == had /\ active = NoConn
ExitedDetached == child \in ExitStatus /\ active = NoConn  \* mutant: waits for the client
ChildExited == child \in ExitStatus
NoFinalDrain == "output"                          \* mutant: the rest of the PTY is dropped
AfterExit == "final"

\* Metadata after a drain that dropped the attachment, then child.try_wait().
Reap ==
    /\ pc = "reap"
    /\ meta' = IF AttachmentLost THEN LiveMeta(FALSE) ELSE meta
    /\ had' = FALSE
    /\ IF ChildExited
         THEN exit' = child /\ pc' = AfterExit
         ELSE UNCHANGED exit /\ pc' = "poll"
    /\ UNCHANGED <<ptyVars, script, conn, outFile, liveFiles, inputVars, events,
                   stopRequested, slotVars>>

\* IN, HUP or ERR on a connection: undecoded records or a closed peer.
Readable(c) == conn[c].sent > conn[c].taken \/ conn[c].hup

\* The blocks after poll, each skipped when its event is not set.
AfterAccept(e) == IF e.cand THEN "candidate" ELSE "stop"
AfterActive(e) == IF e.listen THEN "accept" ELSE AfterAccept(e)
AfterInput(e) == IF e.act THEN "flush" ELSE AfterActive(e)
AfterPoll(e) == IF e.ptyOut THEN "input" ELSE AfterInput(e)

PollIfNoCandidate == backlog # <<>> /\ candidate = NoConn  \* mutant: one candidate at a time
ListenerReady == backlog # <<>>

\* poll returns, by an event or after POLL_INTERVAL.  Whether the PTY and the
\* attachment take output is up to their readers.
Poll ==
    /\ pc = "poll"
    /\ \E ptyOut, actOut \in BOOLEAN :
         /\ ptyOut => ptyInput # <<>>
         /\ actOut => active # NoConn /\ conn[active].queue > 0
         /\ events' = [ptyOut |-> ptyOut, listen |-> ListenerReady,
                       cand |-> candidate # NoConn /\ Readable(candidate),
                       act |-> active # NoConn, actOut |-> actOut,
                       actIn |-> active # NoConn /\ Readable(active)]
    /\ pc' = AfterPoll(events')
    /\ UNCHANGED <<ptyVars, script, conn, fileVars, inputVars, had, stopRequested, exit,
                   slotVars>>

\* poll fails with EINTR: `continue`.
PollInterrupted ==
    /\ pc = "poll"
    /\ pc' = "drain"
    /\ had' = (active # NoConn)
    /\ UNCHANGED <<ptyVars, script, conn, fileVars, inputVars, events, stopRequested, exit,
                   slotVars>>

\* What a write of n bytes leaves in pty_input (ByteQueue::flush).
NothingLeft(n) == <<>>                            \* mutant: a partial write clears the queue
Unflushed(n) == SubSeq(ptyInput, n + 1, Len(ptyInput))

\* pty_input.flush(&mut master): any part is written; an error drops the
\* attachment but leaves the queue.
FlushInput ==
    /\ pc = "input"
    /\ \E n \in 0..Len(ptyInput) :
         /\ childIn' = childIn \o SubSeq(ptyInput, 1, n)
         /\ ptyInput' = Unflushed(n)
    /\ UNCHANGED <<active, conn>> \/ DropActive
    /\ pc' = AfterInput(events)
    /\ UNCHANGED <<ptyVars, script, fileVars, winsize, loopVars, besideActive>>

\* connection.output.flush(&mut connection.stream): EPIPE once the peer closed.
FlushActive ==
    /\ pc = "flush"
    /\ IF events.actOut /\ active # NoConn
         THEN IF conn[active].hup
                THEN DropActive
                ELSE \E n \in 0..conn[active].queue :
                       conn' = [conn EXCEPT ![active].queue = n] /\ UNCHANGED active
         ELSE UNCHANGED <<active, conn>>
    /\ pc' = "read"
    /\ UNCHANGED <<still, besideActive>>

\* read_records(c): one read and everything it completes.  A closed peer with
\* nothing left, or an undecodable record in the batch, is an error, and the
\* records decoded before it in the same batch are lost with it.
Arrived(c) == conn[c].sent - conn[c].taken
Upcoming(c, i) == script[c][conn[c].taken + i]
Decodes(c, n) == n <= Arrived(c) /\ \A i \in 1..n : Upcoming(c, i) # "bad"
ReadError(c) ==
    \/ Arrived(c) = 0 /\ conn[c].hup
    \/ \E n \in 1..Arrived(c) : ~Decodes(c, n)

ReadActive ==
    /\ pc = "read"
    /\ IF active # NoConn /\ events.actIn
         THEN \/ /\ ReadError(active)
                 /\ DropActive
                 /\ pc' = "settle"
                 /\ UNCHANGED pending
              \/ \E n \in 1..Arrived(active) :
                   /\ Decodes(active, n)
                   /\ conn' = [conn EXCEPT ![active].taken = @ + n]
                   /\ pending' = n
                   /\ pc' = "apply"
                   /\ UNCHANGED active
         ELSE pc' = "settle" /\ UNCHANGED <<active, conn, pending>>
    /\ UNCHANGED <<still, candidate, joining, owners, backlog>>

\* apply_active_records, one record of the batch: Input that fits and Resize
\* are applied, anything else makes it return false.
RecordNo(c) == conn[c].taken - pending + 1
Acceptable(c) ==
    \/ script[c][RecordNo(c)] = "resize"
    \/ script[c][RecordNo(c)] = "input" /\ Len(ptyInput) < InputLimit
ApplyRecord(c) ==
    /\ pending > 0
    /\ Acceptable(c)
    /\ pending' = pending - 1
    /\ IF script[c][RecordNo(c)] = "input"
         THEN ptyInput' = Append(ptyInput, <<c, RecordNo(c)>>) /\ UNCHANGED winsize
         ELSE winsize' = c /\ UNCHANGED ptyInput
    /\ UNCHANGED <<pc, ptyVars, script, conn, fileVars, childIn, loopVars, active,
                   candidate, joining, owners, backlog>>

ApplyActive == pc = "apply" /\ ApplyRecord(active)

ApplyActiveEnd ==
    /\ pc = "apply"
    /\ \/ pending = 0 /\ UNCHANGED <<active, conn>>
       \/ pending > 0 /\ ~Acceptable(active) /\ DropActive
    /\ pending' = 0
    /\ pc' = "settle"
    /\ UNCHANGED <<still, candidate, joining, owners, backlog>>

SettledAttached == meta                           \* mutant: still recorded as attached
Settled == IF active = NoConn THEN LiveMeta(FALSE) ELSE meta

\* The end of the active block: metadata when the attachment was lost.
Settle ==
    /\ pc = "settle"
    /\ meta' = Settled
    /\ pc' = AfterActive(events)
    /\ UNCHANGED <<ptyVars, script, conn, outFile, liveFiles, inputVars, loopVars, slotVars>>

\* accept_candidate, one accept: a foreign peer is dropped, the newest
\* connection replaces an older candidate.
Accept ==
    /\ pc = "accept"
    /\ backlog # <<>>
    /\ IF script[Head(backlog)] \in Foreign
         THEN conn' = Without(Head(backlog)) /\ UNCHANGED candidate
         ELSE conn' = Without(candidate) /\ candidate' = Head(backlog)
    /\ backlog' = Tail(backlog)
    /\ UNCHANGED <<pc, still, active, joining, pending, owners>>

AcceptEnd ==
    /\ pc = "accept"
    /\ backlog = <<>>
    /\ pc' = AfterAccept(events)
    /\ UNCHANGED <<still, conn, slotVars>>

DropCandidate ==
    /\ candidate' = NoConn
    /\ conn' = Without(candidate)
    /\ pc' = "stop"
    /\ UNCHANGED <<ptyVars, script, fileVars, inputVars, had, events, exit, active,
                   joining, pending, owners, backlog>>

\* Attach: the candidate is taken, the PTY resized, and the marker and the
\* tail are queued (enqueue_replay) before more output is read.
ReplayBytes == (IF tail.truncated THEN Wire(MarkerBytes) ELSE 0) + Wire(TailLen)
Replay == (IF tail.truncated THEN <<Marker>> ELSE <<>>) \o Bytes(tail.lo, tail.hi)
CandidateAttach(n) ==
    /\ Upcoming(candidate, 1) = "attach"
    /\ conn' = [conn EXCEPT ![candidate].taken = @ + n,
                            ![candidate].queue = ReplayBytes,
                            ![candidate].stream = Replay]
    /\ pending' = n - 1
    /\ joining' = candidate
    /\ candidate' = NoConn
    /\ winsize' = candidate
    /\ pc' = "join"
    /\ UNCHANGED <<ptyVars, script, fileVars, ptyInput, childIn, loopVars, active, owners,
                   backlog>>

\* Stop alone in its batch.
CandidateStop(n) ==
    /\ Upcoming(candidate, 1) = "stop" /\ n = 1
    /\ stopRequested' = TRUE
    /\ DropCandidate

\* Any other first record, or Stop with more behind it.
CandidateRejected(n) ==
    /\ Upcoming(candidate, 1) # "attach"
    /\ ~(Upcoming(candidate, 1) = "stop" /\ n = 1)
    /\ DropCandidate
    /\ UNCHANGED stopRequested

\* The candidate's first batch of n records, read by the event of the
\* candidate that was polled: accept_candidate may have replaced it since.
CandidateBatch ==
    /\ pc = "candidate"
    /\ \E n \in 1..Arrived(candidate) :
         /\ Decodes(candidate, n)
         /\ CandidateAttach(n) \/ CandidateStop(n) \/ CandidateRejected(n)

CandidateReadFailed ==
    /\ pc = "candidate"
    /\ ReadError(candidate)
    /\ DropCandidate
    /\ UNCHANGED stopRequested

\* The candidate that came since has sent nothing: the read would block.
CandidateNothing ==
    /\ pc = "candidate"
    /\ ~Readable(candidate)
    /\ pc' = "stop"
    /\ UNCHANGED <<still, conn, slotVars>>

\* The rest of the first batch, before the connection becomes active.
ApplyJoining == pc = "join" /\ ApplyRecord(joining)

FirstStays == IF active = NoConn THEN joining ELSE active  \* mutant: no replacement
NewActive == joining

\* It becomes the attachment; the previous one is dropped.
Activate ==
    /\ pc = "join"
    /\ pending = 0
    /\ active' = NewActive
    /\ conn' = [c \in Conns |-> IF c = active /\ c # NewActive THEN NoConnection ELSE conn[c]]
    /\ owners' = owners \cup {joining}
    /\ joining' = NoConn
    /\ meta' = LiveMeta(TRUE)
    /\ pc' = "stop"
    /\ UNCHANGED <<ptyVars, script, outFile, liveFiles, inputVars, loopVars, candidate,
                   pending, backlog>>

\* apply_active_records returned false: the connection is dropped.
JoinRejected ==
    /\ pc = "join"
    /\ pending > 0 /\ ~Acceptable(joining)
    /\ joining' = NoConn
    /\ conn' = Without(joining)
    /\ pending' = 0
    /\ pc' = "stop"
    /\ UNCHANGED <<still, active, candidate, owners, backlog>>

\* The end of a tick: loop, or drop the master and stop the child.
StopCheck ==
    /\ pc = "stop"
    /\ events' = NoEvents
    /\ IF stopRequested THEN pc' = "term" /\ UNCHANGED had
                        ELSE pc' = "drain" /\ had' = (active # NoConn)
    /\ UNCHANGED <<ptyVars, script, conn, fileVars, inputVars, stopRequested, exit, slotVars>>

\* stop_child: try_wait, SIGTERM, five seconds of try_wait, SIGKILL, wait.
Reaped ==
    /\ pc \in Stopping
    /\ child \in ExitStatus
    /\ exit' = child
    /\ pc' = "output"
    /\ UNCHANGED <<ptyVars, script, conn, fileVars, inputVars, had, events, stopRequested,
                   slotVars>>

Terminate ==
    /\ pc = "term"
    /\ child \notin ExitStatus
    /\ pc' = "grace"
    /\ UNCHANGED <<still, conn, slotVars>>

GraceOver ==
    /\ pc = "grace"
    /\ child \notin ExitStatus
    /\ pc' = "kill"
    /\ UNCHANGED <<still, conn, slotVars>>

NotSignalled == child                             \* mutant: the signal is not sent
AfterSigkill == "doomed"
KillChild ==
    /\ pc = "kill"
    /\ child \notin ExitStatus
    /\ child' = AfterSigkill
    /\ pc' = "wait"
    /\ UNCHANGED <<written, nRead, writtenAtExit, tail, processed, script, conn, fileVars,
                   inputVars, loopVars, slotVars>>

\* complete_session: output file, completion record, socket and lock.
WriteOutput ==
    /\ pc = "output"
    /\ outFile' = [lo |-> tail.lo, hi |-> tail.hi]
    /\ pc' = "metadata"
    /\ UNCHANGED <<ptyVars, script, conn, meta, liveFiles, inputVars, loopVars, slotVars>>

NotifyFirst == IF active = NoConn THEN "unlink" ELSE "notify"  \* mutant: socket removed last
AfterRecord == "unlink"
WriteCompleted ==
    /\ pc = "metadata"
    /\ meta' = CompletedMeta
    /\ pc' = AfterRecord
    /\ UNCHANGED <<ptyVars, script, conn, outFile, liveFiles, inputVars, loopVars, slotVars>>

\* remove_live_files and drop(files): the listener closes with its backlog.
RemoveLiveFiles ==
    /\ pc = "unlink"
    /\ liveFiles' = FALSE
    /\ backlog' = <<>>
    /\ pc' = IF active = NoConn THEN "completed" ELSE "notify"
    /\ UNCHANGED <<ptyVars, script, conn, meta, outFile, inputVars, loopVars, active,
                   candidate, joining, pending, owners>>

\* The blocking flush with its one-second timeout, which leaves the rest
\* queued and counts as success; a closed peer ends the attempt.
FlushLast ==
    /\ pc = "notify"
    /\ IF conn[active].hup /\ conn[active].queue > 0
         THEN pc' = "completed" /\ UNCHANGED conn
         ELSE /\ \E n \in 0..conn[active].queue : conn' = [conn EXCEPT ![active].queue = n]
              /\ pc' = "exit"
    /\ UNCHANGED <<still, slotVars>>

\* The Exit record goes behind what is still queued, if it fits.
SendExit ==
    /\ pc = "exit"
    /\ IF conn[active].queue + HeaderBytes + ExitBytes <= QueueLimit
         THEN \E n \in 0..(conn[active].queue + HeaderBytes + ExitBytes) :
                conn' = [conn EXCEPT ![active].queue = n,
                                     ![active].stream = Append(@, ExitRecord)]
         ELSE UNCHANGED conn
    /\ pc' = "completed"
    /\ UNCHANGED <<still, slotVars>>

-----------------------------------------------------------------------------
LoopStep ==
    \/ DrainRead \/ DrainEnd \/ Reap \/ Poll
    \/ FlushInput \/ FlushActive \/ ReadActive \/ ApplyActive \/ ApplyActiveEnd \/ Settle
    \/ Accept \/ AcceptEnd
    \/ CandidateBatch \/ CandidateReadFailed \/ CandidateNothing
    \/ ApplyJoining \/ Activate \/ JoinRejected \/ StopCheck
StopStep == Reaped \/ Terminate \/ GraceOver \/ KillChild
CompleteStep == WriteOutput \/ WriteCompleted \/ RemoveLiveFiles \/ FlushLast \/ SendExit
RunnerStep == LoopStep \/ StopStep \/ CompleteStep

Next ==
    \/ RunnerStep \/ PollInterrupted \/ Fails \/ Killed
    \/ ChildWrites \/ ChildExits
    \/ \E c \in Conns : Connect(c) \/ Send(c) \/ HangUp(c)

Spec == Init /\ [][Next]_vars

\* The runner process is scheduled, poll is not interrupted every time, and a
\* SIGKILL takes effect.  Nothing is assumed of the clients or the child.
Fairness ==
    /\ WF_vars(RunnerStep)
    /\ SF_vars(Poll)
    /\ WF_vars(child = "doomed" /\ ChildExits)
FairSpec == Spec /\ Fairness

-----------------------------------------------------------------------------
PcType == Looping \cup Stopping \cup Completing \cup Ends \cup {"final"}
ConnType == [sent : Nat, taken : Nat, hup : BOOLEAN, queue : 0..QueueLimit, stream : Seq(Int)]
MetaType == [kind : {"live", "completed"}, attached : BOOLEAN,
             exit : ExitStatus \cup {"none"}, bytes : 0..TailCapacity, truncated : BOOLEAN]
EventType == [ptyOut : BOOLEAN, listen : BOOLEAN, cand : BOOLEAN,
              act : BOOLEAN, actOut : BOOLEAN, actIn : BOOLEAN]

ClientType ==
    /\ script \in [Conns -> Scripts \cup {<<>>}]
    /\ conn \in [Conns -> ConnType]
PtyType ==
    /\ child \in ExitStatus \cup {"running", "doomed"}
    /\ written \in Nat /\ nRead \in Nat /\ writtenAtExit \in Nat
    /\ tail \in [lo : Nat, hi : Nat, truncated : BOOLEAN]
    /\ processed \in 0..(MaxPerTick + IoChunk)
LoopType ==
    /\ had \in BOOLEAN /\ stopRequested \in BOOLEAN
    /\ events \in EventType
    /\ exit \in ExitStatus \cup {"none"}
SlotType ==
    /\ active \in Conns \cup {NoConn}
    /\ candidate \in Conns \cup {NoConn}
    /\ joining \in Conns \cup {NoConn}
    /\ pending \in Nat
    /\ owners \subseteq Conns
    /\ backlog \in Seq(Conns)
InputType ==
    /\ ptyInput \in Seq(Conns \X Nat) /\ childIn \in Seq(Conns \X Nat)
    /\ Len(ptyInput) <= InputLimit
    /\ winsize \in Conns \cup {NoConn}
FileType ==
    /\ meta \in MetaType
    /\ outFile \in [lo : Nat, hi : Nat]
    /\ liveFiles \in BOOLEAN

\* Types, and the limits of the tail, the queues and a tick: no queue exceeds
\* its limit (ByteQueue::push), a replay into an empty one included, which by
\* ReplayAssumption has room for it (runner.rs enqueue_replay).
TypeOK ==
    /\ pc \in PcType
    /\ ClientType /\ PtyType /\ LoopType /\ SlotType /\ InputType /\ FileType

\* The output from byte lo to the last byte read, with the marker in front
\* when something before lo is missing.
From(lo) == (IF lo > 1 THEN <<Marker>> ELSE <<>>) \o Bytes(lo, nRead)

\* An attachment is sent one unbroken stretch of the output, up to the last
\* byte the runner has read, and the marker exactly when the stretch does not
\* begin at the first byte: replay before live output, no gap, no repetition,
\* whenever it attached and however slow it reads (acceptance PROC-015,
\* PROC-016; enqueue_replay against drain_pty).
GapFree ==
    \A c \in {active, joining} \ {NoConn} :
        \E lo \in 1..(nRead + 1) :
            \/ conn[c].stream = From(lo)
            \/ pc = "completed" /\ conn[c].stream = Append(From(lo), ExitRecord)

\* Whoever was sent an Exit record finds the completion record in place and
\* the socket gone: a following `afk session` cannot reach the dead runner.
ExitAfterRecord ==
    \A c \in Conns : \A i \in 1..Len(conn[c].stream) :
        conn[c].stream[i] = ExitRecord =>
            /\ meta.kind = "completed" /\ meta.exit = child
            /\ ~liveFiles

\* A completion record is only ever found together with the output file it
\* describes, whatever stopped the runner between the two writes, and says
\* the truth about it and about the child (complete_session's order).
CompletedRecordTrue ==
    meta.kind = "completed" =>
        /\ outFile = [lo |-> tail.lo, hi |-> nRead]
        /\ meta.bytes = nRead - tail.lo + 1
        /\ meta.truncated <=> tail.lo > 1
        /\ meta.exit = child

\* A child that ends by itself loses no output: everything in the PTY when it
\* exited is in the record, or was pushed out of the tail (the drain after
\* try_wait; acceptance PROC-013, PROC-014).
NaturalExitKeepsOutput ==
    meta.kind = "completed" /\ ~stopRequested => nRead >= writtenAtExit

\* `afk sessions` is told the truth about attachment: between ticks the Live
\* record says attached exactly when there is an attachment, through every
\* way of losing one (queue full, hangup, bad record, PTY error, replacement).
AttachedTruthful ==
    pc \in {"poll", "accept", "candidate"} => (meta.attached <=> active # NoConn)

\* Input the PTY took or will take.
Input == childIn \o ptyInput

\* Each connection's input reaches the PTY in the order it was sent, nothing
\* twice and nothing skipped, across replacements and partial PTY writes.
InputInOrder ==
    \A p \in 1..Len(Input) :
        /\ \A q \in 1..Len(Input) : p < q /\ Input[p][1] = Input[q][1] => Input[p][2] < Input[q][2]
        /\ \A i \in 1..(Input[p][2] - 1) :
             script[Input[p][1]][i] = "input" => \E q \in 1..(p - 1) : Input[q] = <<Input[p][1], i>>

\* Once a newer attachment's input is accepted, the one it replaced never
\* gets another byte in (acceptance PROC-010).
OneOwnerAtATime ==
    \A p, q, r \in 1..Len(Input) :
        /\ p < q /\ q < r
        /\ Input[p][1] = Input[r][1]
        /\ Input[q][1] \in owners
        => Input[q][1] = Input[p][1]

\* Liveness: what the runner must put an end to never lasts for ever.

\* A session whose child has ended is completed, whatever the clients do.
ExitCompletes == []<>(child \in ExitStatus => Ended)

\* A stop that was accepted always ends the session, also for a child that
\* ignores SIGTERM (stop_child).
StopCompletes == []<>(stopRequested => Ended)

\* The child's output is always read, with no attachment or a stuck one whose
\* queue is full, and with input the child does not take: whenever printing
\* pauses (MaxOut sees to that here) the PTY is emptied (acceptance PROC-003,
\* PROC-009).
OutputDrained == []<>(nRead = written \/ stopRequested \/ Ended)

\* Every connection is eventually taken from the listener, and a complete
\* first record of a candidate eventually acted on.
ConnectionsServed ==
    \A c \in Conns :
        /\ []<>(Ended \/ \A i \in 1..Len(backlog) : backlog[i] # c)
        /\ []<>(Ended \/ candidate # c \/ conn[c].sent = 0)

=============================================================================

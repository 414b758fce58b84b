-------------------------------- MODULE Attach --------------------------------
(***************************************************************************)
(* One live attachment: attach_live of attach.rs, its stdin reader thread  *)
(* and the bounded channel between them, with the runner at the other end  *)
(* of the socket (module Runner), the user and the kernel as environment.  *)
(*                                                                         *)
(* What the user types is the chunks 1, 2, 3, ... (one read of stdin each);*)
(* what the runner sends is the Output records 1, 2, 3, ...  A record      *)
(* crosses the socket whole; the queues count records.                     *)
(***************************************************************************)
EXTENDS Integers, Sequences

CONSTANTS
    ChanCapacity,  \* capacity of the sync_channel
    QueueLimit,    \* MAX_ATTACHMENT_QUEUE_BYTES of socket_output, in records
    SocketRoom,    \* records the kernel buffers towards the runner
    Signals,       \* which of "hup", "term", "winch" may arrive
    MaxTyped,      \* bound: chunks the user types
    MaxOut,        \* bound: Output records the runner sends
    MaxResize      \* bound: Resize records queued

ASSUME SizeAssumption ==
    /\ {ChanCapacity, QueueLimit, SocketRoom} \subseteq Nat \ {0}
    /\ {MaxTyped, MaxOut, MaxResize} \subseteq Nat
ASSUME SignalAssumption == Signals \subseteq {"hup", "term", "winch"}

VARIABLES
    pc,            \* where attach_live's loop is
    reader,        \* the stdin thread: "reading", "sending" its event, "over"
    held,          \* the event it sends: nothing, or one event
    chan,          \* the channel: events not received yet
    typed,         \* chunks read from stdin
    stdinClosed,
    flags,         \* SignalFlags that are set
    caught,        \* history: signals that ever arrived
    resized,       \* Resize records queued so far
    queue,         \* socket_output
    inFlight,      \* records in the socket, towards the runner
    received,      \* history: records the runner has read
    runner,        \* has the runner its end "open" or "closed"
    sent, exited,  \* Output records sent by the runner; Exit record sent
    arriving,      \* records in the socket, towards the client
    events,        \* what poll reported
    batch, wrote,  \* decoded records not handled yet; wrote_output
    printed,       \* Output records written to stdout
    flushed,       \* ... and past its buffer
    result

readerVars == <<reader, held, typed>>
inputVars == <<chan, stdinClosed>>
signalVars == <<flags, caught, resized>>
runnerVars == <<received, runner, sent, exited>>
screenVars == <<batch, wrote, printed, flushed>>
vars == <<pc, readerVars, inputVars, signalVars, queue, inFlight, runnerVars, arriving,
          events, screenVars, result>>

Closed == 0       \* InputEvent::Closed; InputEvent::Bytes is the chunk's number
Failed == -1      \* InputEvent::Failed
Exit == 0         \* Record::Exit among the Output records
AttachRecord == 0 \* among the Input records, which are their chunk's number
ResizeRecord == -1

\* attach_live up to its loop: the Attach record is queued.
Init ==
    /\ pc = "signals"
    /\ reader = "reading" /\ held = <<>> /\ chan = <<>> /\ typed = 0 /\ stdinClosed = FALSE
    /\ flags = {} /\ caught = {} /\ resized = 0
    /\ queue = <<AttachRecord>> /\ inFlight = <<>> /\ received = <<>>
    /\ runner = "open" /\ sent = 0 /\ exited = FALSE /\ arriving = <<>>
    /\ events = [out |-> FALSE, in |-> FALSE]
    /\ batch = <<>> /\ wrote = FALSE /\ printed = 0 /\ flushed = 0
    /\ result = "none"

-----------------------------------------------------------------------------
(* The stdin thread: read_input.                                            *)

ReadStdin ==
    /\ reader = "reading" /\ pc # "done"
    /\ \/ typed < MaxTyped /\ typed' = typed + 1 /\ held' = <<typed + 1>>
       \/ held' \in {<<Closed>>, <<Failed>>} /\ UNCHANGED typed
    /\ reader' = "sending"
    /\ UNCHANGED <<pc, inputVars, signalVars, queue, inFlight, runnerVars, arriving, events,
                   screenVars, result>>

\* sender.send blocks while the channel is full; the thread ends after an
\* event that is not Bytes.
SendEvent ==
    /\ reader = "sending" /\ pc # "done"
    /\ Len(chan) < ChanCapacity
    /\ chan' = chan \o held
    /\ held' = <<>>
    /\ reader' = IF held[1] > 0 THEN "reading" ELSE "over"
    /\ UNCHANGED <<pc, typed, stdinClosed, signalVars, queue, inFlight, runnerVars, arriving,
                   events, screenVars, result>>

-----------------------------------------------------------------------------
(* The rest of the environment, as long as the client runs.                 *)

SignalArrives(s) ==
    /\ pc # "done"
    /\ s \in Signals \ flags
    /\ s = "winch" => resized < MaxResize
    /\ flags' = flags \cup {s}
    /\ caught' = caught \cup {s}
    /\ UNCHANGED <<pc, readerVars, inputVars, resized, queue, inFlight, runnerVars, arriving,
                   events, screenVars, result>>

RunnerReads ==
    /\ pc # "done" /\ runner = "open" /\ inFlight # <<>>
    /\ received' = Append(received, Head(inFlight))
    /\ inFlight' = Tail(inFlight)
    /\ UNCHANGED <<pc, readerVars, inputVars, signalVars, queue, runner, sent, exited, arriving,
                   events, screenVars, result>>

\* To an attachment the runner sends Output records and, last, one Exit.
RunnerSends ==
    /\ pc # "done" /\ runner = "open" /\ received # <<>> /\ ~exited
    /\ \/ /\ sent < MaxOut
          /\ sent' = sent + 1
          /\ arriving' = Append(arriving, sent + 1)
          /\ UNCHANGED exited
       \/ /\ exited' = TRUE
          /\ arriving' = Append(arriving, Exit)
          /\ UNCHANGED sent
    /\ UNCHANGED <<pc, readerVars, inputVars, signalVars, queue, inFlight, received, runner,
                   events, screenVars, result>>

\* The runner drops the connection or ends; what it sent can still be read.
RunnerCloses ==
    /\ pc # "done" /\ runner = "open"
    /\ runner' = "closed"
    /\ UNCHANGED <<pc, readerVars, inputVars, signalVars, queue, inFlight, received, sent,
                   exited, arriving, events, screenVars, result>>

-----------------------------------------------------------------------------
(* The loop of attach_live.                                                 *)

Return(how) == pc' = "done" /\ result' = how
GoOn(where) == pc' = where /\ UNCHANGED result

RoomOffByOne == Len(queue) <= QueueLimit          \* mutant: one record too many
HasRoom == Len(queue) < QueueLimit
UrgentFirst(record) == <<record>> \o queue        \* mutant: a record overtakes the queue
\* queue_record: a full queue ends the attachment with an error.
Queued(record) == Append(queue, record)
QueueOr(record, where) ==
    IF HasRoom
      THEN queue' = Queued(record) /\ GoOn(where)
      ELSE UNCHANGED queue /\ Return("error")

HangupOnly == flags \cap {"hup"}                  \* mutant: SIGTERM is not looked at
EndSignals == flags \cap {"hup", "term"}

\* The SIGHUP and SIGTERM flags.
EndBySignal ==
    /\ pc = "signals"
    /\ EndSignals # {}
    /\ Return("detached")
    /\ UNCHANGED <<readerVars, inputVars, signalVars, queue, inFlight, runnerVars, arriving,
                   events, screenVars>>

\* signals.resize.swap(false), and the dimensions if there are any.
NoticeResize ==
    /\ pc = "signals"
    /\ EndSignals = {}
    /\ flags' = flags \ {"winch"}
    /\ \/ /\ "winch" \in flags
          /\ resized' = resized + 1
          /\ QueueOr(ResizeRecord, "input")
       \/ GoOn("input") /\ UNCHANGED <<queue, resized>>
    /\ UNCHANGED <<readerVars, inputVars, caught, inFlight, runnerVars, arriving, events,
                   screenVars>>

\* receive_input, at most one event a tick.
ReceiveInput ==
    /\ pc = "input"
    /\ IF stdinClosed \/ chan = <<>>
         THEN GoOn("poll") /\ UNCHANGED <<inputVars, queue>>
         ELSE /\ chan' = Tail(chan)
              /\ stdinClosed' = (Head(chan) = Closed)
              /\ CASE Head(chan) > 0 -> QueueOr(Head(chan), "poll")
                   [] Head(chan) = Closed -> GoOn("poll") /\ UNCHANGED queue
                   [] Head(chan) = Failed -> Return("error") /\ UNCHANGED queue
    /\ UNCHANGED <<readerVars, signalVars, inFlight, runnerVars, arriving, events, screenVars>>

DataOnly == arriving # <<>>                       \* mutant: HUP is not looked at
Readable == arriving # <<>> \/ runner = "closed"

\* poll returns, by an event or after POLL_INTERVAL; a closed peer is both
\* readable and writable.
Poll ==
    /\ pc = "poll"
    /\ events' = [out |-> queue # <<>> /\ (Len(inFlight) < SocketRoom \/ runner = "closed"),
                  in |-> Readable]
    /\ GoOn("write")
    /\ UNCHANGED <<readerVars, inputVars, signalVars, queue, inFlight, runnerVars, arriving,
                   screenVars>>

\* A signal handler ran: EINTR, `continue`.
PollInterrupted ==
    /\ pc = "poll"
    /\ flags # {}
    /\ GoOn("signals")
    /\ UNCHANGED <<readerVars, inputVars, signalVars, queue, inFlight, runnerVars, arriving,
                   events, screenVars>>

\* socket_output.flush: one write after the other ...
Flush ==
    /\ pc = "write"
    /\ events.out /\ queue # <<>>
    /\ runner = "open" /\ Len(inFlight) < SocketRoom
    /\ inFlight' = Append(inFlight, Head(queue))
    /\ queue' = Tail(queue)
    /\ UNCHANGED <<pc, readerVars, inputVars, signalVars, runnerVars, arriving, events,
                   screenVars, result>>

\* ... until the peer is gone (EPIPE), which counts as attachment loss ...
FlushBroken ==
    /\ pc = "write"
    /\ events.out /\ queue # <<>>
    /\ runner = "closed"
    /\ Return("detached")
    /\ UNCHANGED <<readerVars, inputVars, signalVars, queue, inFlight, runnerVars, arriving,
                   events, screenVars>>

\* mutant: the end of stdin does not wait for the queue
StdinEndsAtOnce == stdinClosed
StdinDone == stdinClosed /\ queue = <<>>

\* ... or the queue is empty or the socket full; then the end of stdin.
FlushEnds ==
    /\ pc = "write"
    /\ ~events.out \/ queue = <<>> \/ (runner = "open" /\ Len(inFlight) = SocketRoom)
    /\ IF StdinDone THEN Return("detached") ELSE GoOn("read")
    /\ UNCHANGED <<readerVars, inputVars, signalVars, queue, inFlight, runnerVars, arriving,
                   events, screenVars>>

\* read_records: one read and the records it completes; end of file or a
\* reset end the attachment.
ReadRecords ==
    /\ pc = "read"
    /\ IF ~events.in
         THEN GoOn("signals") /\ UNCHANGED <<arriving, batch, wrote>>
         ELSE IF arriving = <<>>
           THEN Return("detached") /\ UNCHANGED <<arriving, batch, wrote>>
           ELSE /\ \E n \in 1..Len(arriving) :
                     /\ batch' = SubSeq(arriving, 1, n)
                     /\ arriving' = SubSeq(arriving, n + 1, Len(arriving))
                /\ wrote' = FALSE
                /\ GoOn("records")
    /\ UNCHANGED <<readerVars, inputVars, signalVars, queue, inFlight, runnerVars, events,
                   printed, flushed>>

\* output.write_all of one Output record.  Standard output is line buffered.
WriteOutput ==
    /\ pc = "records"
    /\ batch # <<>> /\ Head(batch) # Exit
    /\ batch' = Tail(batch)
    /\ printed' = Head(batch)
    /\ flushed' \in {flushed, printed'}
    /\ wrote' = TRUE
    /\ UNCHANGED <<pc, readerVars, inputVars, signalVars, queue, inFlight, runnerVars, arriving,
                   events, result>>

\* stdout is closed or full: write_all or flush fails.
StdoutFails ==
    /\ pc = "records"
    /\ batch # <<>>
    /\ Return("error")
    /\ UNCHANGED <<readerVars, inputVars, signalVars, queue, inFlight, runnerVars, arriving,
                   events, screenVars>>

StatusUnflushed == flushed                        \* mutant: no flush before the status
AtStatus == printed
ReportStatus ==
    /\ pc = "records"
    /\ batch # <<>> /\ Head(batch) = Exit
    /\ flushed' = AtStatus
    /\ Return("status")
    /\ UNCHANGED <<readerVars, inputVars, signalVars, queue, inFlight, runnerVars, arriving,
                   events, batch, wrote, printed>>

BatchUnflushed == flushed                         \* mutant: the buffer is left to stdout
AtBatchEnd == IF wrote THEN printed ELSE flushed
BatchEnds ==
    /\ pc = "records"
    /\ batch = <<>>
    /\ flushed' = AtBatchEnd
    /\ GoOn("signals")
    /\ UNCHANGED <<readerVars, inputVars, signalVars, queue, inFlight, runnerVars, arriving,
                   events, batch, wrote, printed>>

-----------------------------------------------------------------------------
ClientStep ==
    \/ EndBySignal \/ NoticeResize \/ ReceiveInput \/ Poll \/ Flush \/ FlushBroken \/ FlushEnds
    \/ ReadRecords \/ WriteOutput \/ ReportStatus \/ BatchEnds
Environment ==
    \/ PollInterrupted \/ StdoutFails
    \/ \E s \in Signals : SignalArrives(s)
    \/ RunnerReads \/ RunnerSends \/ RunnerCloses
Next == ReadStdin \/ SendEvent \/ ClientStep \/ Environment

Spec == Init /\ [][Next]_vars

\* The client is scheduled, its writes to stdout return, and poll is not
\* interrupted every time.  The user and the runner owe nothing.
Fairness == WF_vars(ClientStep) /\ SF_vars(Poll)
FairSpec == Spec /\ Fairness

-----------------------------------------------------------------------------
Record == {AttachRecord, ResizeRecord} \cup (1..MaxTyped)
Event == {Closed, Failed} \cup (1..MaxTyped)

TypeOK ==
    /\ pc \in {"signals", "input", "poll", "write", "read", "records", "done"}
    /\ reader \in {"reading", "sending", "over"}
    /\ held \in {<<>>} \cup {<<e>> : e \in Event}
    /\ chan \in Seq(Event) /\ Len(chan) <= ChanCapacity
    /\ typed \in 0..MaxTyped /\ resized \in 0..MaxResize
    /\ stdinClosed \in BOOLEAN
    /\ flags \subseteq caught /\ caught \subseteq Signals
    /\ queue \in Seq(Record) /\ Len(queue) <= QueueLimit
    /\ inFlight \in Seq(Record) /\ Len(inFlight) <= SocketRoom
    /\ received \in Seq(Record)
    /\ runner \in {"open", "closed"}
    /\ sent \in 0..MaxOut /\ exited \in BOOLEAN
    /\ arriving \in Seq(0..MaxOut) /\ batch \in Seq(0..MaxOut)
    /\ events \in [out : BOOLEAN, in : BOOLEAN]
    /\ wrote \in BOOLEAN /\ printed \in 0..MaxOut /\ flushed \in 0..MaxOut
    /\ result \in {"none", "detached", "status", "error"}

\* The chunks in s, among other records and events, are 1..n in order.
Chunks(s, n) ==
    /\ \A i \in 1..n : \E p \in 1..Len(s) : s[p] = i
    /\ \A p \in 1..Len(s) : s[p] <= n
    /\ \A p, q \in 1..Len(s) : p < q /\ s[p] > 0 /\ s[q] > 0 => s[p] < s[q]
Signalled == caught \cap {"hup", "term"} # {}

\* What the user types passes the thread, the channel, the queue and the
\* socket in order, nothing lost and nothing twice, and Attach goes before
\* all of it, whichever of them is full and whatever resizes come between
\* (read_input, receive_input, queue_record, ByteQueue::flush).
TypedInOrder ==
    /\ Head(received \o inFlight \o queue) = AttachRecord
    /\ result # "error" =>
         Chunks(received \o inFlight \o queue \o chan \o held, typed)

\* An attachment that ends because stdin did (piped input) has handed over
\* everything that was typed: it does not end while something is queued.
StdinDelivered ==
    result = "detached" /\ ~Signalled /\ runner = "open" =>
        Chunks(received \o inFlight, typed)

\* The command's exit status is returned only when all of its output is on
\* the terminal (the flush before `return Ok(status)`).
StatusAfterOutput == result = "status" => exited /\ flushed = sent

\* A prompt is visible before the client waits for more: nothing that was
\* received stays in the line buffer of stdout over a poll (the comment at
\* the flush in attach_live).
NothingHeldBack == pc = "poll" => flushed = printed

\* The client ends when the runner is gone, whatever the user is doing.
EndsWithRunner == (runner = "closed") ~> (pc = "done")

\* SIGHUP (the SSH connection is lost) and SIGTERM end the attachment, and
\* give the terminal back, also when the runner or the socket is stuck.
EndsOnSignal == Signalled ~> (pc = "done")

\* An attached command returns the child's exit code (ARCHITECTURE.md,
\* Lifecycle): a client that was sent the Exit record, is not signalled and
\* has input open returns the status.  The code writes before it reads, and
\* takes EPIPE for a detachment with status 0.
ExitReported ==
    pc = "done" /\ exited /\ ~Signalled /\ ~stdinClosed /\ result # "error" => result = "status"
=============================================================================

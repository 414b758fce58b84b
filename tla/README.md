# afk: a verification development

`afk` keeps a terminal session alive on a host while SSH connections come and
go. `afk session ID` connects to the session or starts it, a *runner* process
owns the inner PTY and the command, `afk sessions` lists, `afk stop` ends.
There is no daemon: the processes meet in the files of `~/.afk/run` and on one
Unix socket per session. This directory models that system in TLA+,
model-checks it with TLC and proves theorems about it with TLAPS. Paths below
are relative to the repository's crate (`src/...`) and its `docs/`.

## 1. The system

| Part | State | Operations | Talks to |
| --- | --- | --- | --- |
| Output tail, `output_tail.rs` | bytes, capacity, truncation flag | `new`, `extend`, `snapshot` | owned by the runner |
| Byte queue, `byte_queue.rs` | bytes, limit | `push`, `flush` | the runner's `pty_input`, each connection's output, the client's `socket_output` |
| Runner, `runner.rs` | PTY master, child, tail, active attachment, candidate, input queue, `stop_requested` | `run_event_loop` and its helpers, `stop_child`, `complete_session` | child (PTY), clients (socket), registry files |
| Startup, `runner.rs` | the socket pair of launcher and runner | `launch_runner`, `hidden_runner`, `start_runner`, `hidden_child` | `afk session` and registry |
| Registry, `registry.rs` | per ID: metadata, socket, lock, output (and trace) file | `open` with expiry cleanup, `bind_session`, `connect`, `read_*`, `write_*`, `remove_*`, `list` | every process, through the file system |
| Connect-or-start, `session.rs` | none of its own | `connect_or_start`, `stop`, `sessions` | registry, startup, attachment |
| Attachment client, `attach.rs` | socket queue, channel from the stdin thread, signal flags, raw mode | `attach`, `attach_live`, `read_input`, `stop` | the runner (socket), the user |
| IPC records, `ipc.rs` | bytes of an incomplete record | `encode`, `Decoder` | runner and client |
| Trace, `trace.rs` | an append-only file, bytes written | `create`, `open`, `event` | nobody reads it back |
| Identity, CLI, platform, limits | none | parsing, dispatch, system-call wrappers, constants | |

What is hard about it:

* **Races on paths.** Every start reads a record, probes a socket, removes
  what looks stale and binds, in separate system calls and by *path*. Two
  starts, a start and an ending runner, a cleanup and a start interleave.
* **Crashes.** A runner may be killed between any two writes. Files stay, and
  later calls have to make sense of them.
* **Ordering in the runner.** One tick drains the PTY, reaps, polls, writes,
  reads, accepts and answers. The events polled at the start of a tick are
  used after connections were dropped or replaced by earlier blocks of it.
* **Bounded everything.** Tail, queues, channel and PTY fill up; at the limit
  output is truncated, a client dropped, a thread blocked.
* **Ends that race.** Child exit, stop, hangup, replacement, end of stdin and
  the runner's own completion may all be under way at once.

What makes each part correct: the tail is the end of the output and says
truthfully whether something is missing; a client sees one unbroken stretch of
the output; input keeps its order and one owner; the child's exit, or a stop,
always completes the session; the completion record is true and never found
without its output; one run per ID, replaced only after its retention; no call
waits for ever; the client returns the status after the output; the bytes of
the output reach the terminal unchanged, whatever cuts them; the command that
was typed is the one that runs, and a start that fails leaves none behind.

`PROJECT.json` lists the hazards, each at its line, with the properties that
cover it or the reason why none does.

## 2. The modules

| Module | Models |
| --- | --- |
| `OutputTail` | `output_tail.rs`, byte by byte |
| `Ipc` | `ipc.rs`: encoding and decoding of records, byte by byte (operators only) |
| `Relay` | extends `OutputTail` and `Ipc`: the output from the PTY over queue, socket and decoder to the terminal of one client, and its exit status |
| `Relay_proofs` | proofs: the tail, alone and inside `Relay`, and the codec |
| `RelayEnd_proofs` | extends `Relay_proofs`: the output of a session from end to end |
| `Runner` | a runner from its ready report to its end |
| `Runner_proofs` | proofs: types, limits and gap freedom |
| `RunnerEnd_proofs`, `RunnerInput_proofs` | extend `Runner_proofs`: the end of a session and its records; the order and owner of the input, and `StopCall` |
| `StopCall` | extends `Runner`: what `afk stop` on a connection returns |
| `Attach`, `Attach_proofs` | one `attach_live` with its stdin thread; its invariants, proved |
| `SessionAbs` | what the registry promises about an ID |
| `Session` | calls and runners of one ID, on its files |
| `Listing` | extends `Session`: an `afk sessions` beside them |
| `Session_proofs` | proofs about `Session` and `Listing`: the refinement of `SessionAbs` and the safety properties |
| `Cli` | `cli.rs`: the command line (operators only) |
| `Launch`, `Launch_proofs` | extends `Cli`: from the command line to the exec of the command; what the launcher may believe and what runs, proved |
| `MCRelay`, `MCRunner`, `MCStopCall`, `MCSession`, `MCListing`, `MCLaunch` | instances for TLC |

### OutputTail

The variables are the fields of the struct, and a history `fed` of all that was
ever given to `extend`. The four branches of `extend` are four operators.

### Ipc and Relay

`Encode` and `DecoderNext` work on sequences of bytes. `RoundTrip`, `CutOff` and
`OneEncoding` say what a codec owes for one record or one byte string;
`Canonical` asks it of the sets `Frames` and `Records`. `Relay` puts them where
the program does: `ReadPty` extends the tail and pushes the records of the
chunk (`Wire`: cut at the payload limit, each with its header) to the
connection's queue or drops the connection, `Attach` pushes the replay, `Flush`
moves any part of the queue that the socket takes, `ReadSocket` reads as much as
the decoder has room for, `DecodeRecord` and `WriteBatch` are the loop and the
match of the client. `Complete` turns a wait status into an Exit record
(`process_exit`), and `Close` cuts off what the last second did not send. There
is one client; who is attached when is `Runner`'s matter.

### Runner

`pc` names the place in `run_event_loop`, `stop_child` and `complete_session`;
a step is a system call or the code between two. The child, the kernel and the
clients move between any two steps. A tick goes

    drain* -> reap -> poll -> [input] -> [flush -> read -> apply* -> settle]
           -> [accept*] -> [candidate -> join*] -> stop -> drain

where a block in brackets is entered only if poll reported its event, as in the
code (`AfterPoll`, `AfterInput`, `AfterActive`, `AfterAccept`). From `reap` a
reaped child leads to the final drain, from `stop` an accepted `Stop` leads to
`stop_child` *without* one, and both end in `output -> metadata -> unlink ->
notify -> exit`.

Output is abstracted to byte numbers: the n-th byte ever printed is n, the tail
is an interval, a client's stream a sequence of numbers with `Marker` and
`ExitRecord` in it. What `enqueue_output` adds to a queue is computed with its
headers (`Wire`). A connection is the number of records that arrived and were
decoded, whether the peer closed, the bytes in its queue, and the stream. A
read takes any number of arrived records; an undecodable one fails its whole
batch, with the good records before it, as `read_records` does. Events are
those that were polled, used on whatever connection is in the slot by then.

The environment may do anything a process or a peer can: print while the PTY
has room, exit, send its script record by record, close, stop reading (a flush
takes any number of bytes). `Faults` adds I/O errors (`Fails`: every `?`) and
SIGKILL (`Killed`) at every step.

### StopCall

`afk stop` needs no state of its own in the runner: it is a client whose script
is one `Stop`. `StopCall` adds what the command returns when its connection ends
in a step of `Runner`: success on end of file, an error when it gave up, and an
error when its record was still unread, because Linux closes such a connection
with ECONNRESET. (On a system that reports end of file there, a displaced `afk
stop` would report success: the mutant of `StopHonest`.)

### Attach

`pc` goes through one iteration of the loop of `attach_live`: signal flags, at
most one event from the channel, poll, the flush (one write at a time), the end
of stdin, the read, and the records of the batch one by one. The stdin thread
(`ReadStdin`, `SendEvent`) blocks on a full channel. Queues count records. The
runner at the other end reads, sends, exits and closes when it likes.

### Session and SessionAbs

Only the files of one ID connect the processes, so the model has four paths
(`meta`, `sock`, `lock`, `out`), each described by the run that made the file
there, and one `pc` for every call and every runner. Each step is one system
call that reads or changes a path: `bind_session` alone is a read of the
record, the look for left-over files, the probe, three removals, bind, listen
and the lock. Removal is by path, whoever made the file. A call `k` begins
at any time, also in the middle of another run's start or end, and launches at
most one runner, which carries its name; `ready` is the set of reports that lie
in a launcher's pipe, to be read also when the runner is gone. `CommandEnds`
stands for all of module `Runner` between the ready report and
`complete_session`. A day may pass for a completed run at any time once its
runner is over, while any number of calls are at work (`DayPasses`).

`SessionAbs` has one record per ID: `Create` when there is none, `Finish` by the
run it records, `Age` and `Expire` a day after. `Session` implements it with
`record <- meta, used <- committed, old <- expired`.

### Listing

`Registry::open` with its cleanup, then `list`: `read_bounded_file` is the two
steps it is, a check of the path and the opening of the file. Listings begin at
any time, one after the other, and each may last for ever so long.

### Cli and Launch

A word of the command line is a string with a length in bytes; `parse` and its
helpers are operators on sequences of words, one per function. In `Launch` the
launcher writes the configuration field by field to a socket pair with little
room, the runner reads it with its checks, binds, creates the trace file, starts
`__child`, writes the record and reports; `__child` parses its own arguments
with the same `parse`. Bind's outcome is free here: module `Session` has why. An
error of `bind_session` behind the bind(2) leaves its socket (`Bind`, as
`Session`'s `Fails`), every later one drops socket and lock. Every system call may fail, and launcher and runner may be killed anywhere.

## 3. What the runs check

| Run | Checks | Instance |
| --- | --- | --- |
| `relay` | `EndToEnd`, `StatusFaithful`, `Canonical`, `TailIsSuffix`, `TruncatedIffLost`, `TypeOK` | capacities 0, 1, 3; chunks of 0 to 5 bytes, 6 bytes fed; payloads of 4, reads of 4, socket 5, queue 20 |
| `runner_output` | `GapFree`, `ExitAfterRecord`, `CompletedRecordTrue`, `NaturalExitKeepsOutput`, `AttachedTruthful`, `TypeOK` | 2 clients, 4 output bytes, tail 2, queue 6, reads of up to 3, errors and kills |
| `runner_input` | `AttachedTruthful`, `InputInOrder`, `OneOwnerAtATime` | 2 clients, 6 scripts with good and bad records, up to 3 typed bytes each, an input queue of 2 |
| `stop_calls` | `StopHonest`, `StopCompletes`, `ExitCompletes`, `OutputDrained`, `ConnectionsServed` | 2 clients in 5 pairings: one typing, attaching, stopping, of another uid; 3 output bytes, queue 4, input queue 1, 1 byte per tick |
| `attach` | `TypedInOrder`, `StdinDelivered`, `StatusAfterOutput`, `NothingHeldBack`, `EndsWithRunner`, `EndsOnSignal`, `TypeOK` | 2 chunks, 2 outputs, 1 resize; channel 1, queue 2, socket 1 |
| `session` | `ImplementsSessionAbs`, `ServingListed`, `RecordKept`, `ReplayFaithful`, `UnavailableTruthful`, `TypeOK` | 2 calls and listings without end; kills, errors, dead launchers, days; all but two schedules |
| `session_races` | `NoStaleFiles`, `CallsReturn` | 2 calls, every interleaving, kills, errors, dead launchers |
| `launch` | `CommandDelivered`, `ReadyMeansServing`, `NoStrayChild`, `LauncherReturns` | up to 5 words behind the ID; limits of 2 arguments and 8 bytes; errors and kills |

Why the bounds are enough. In `relay` the output bytes are 0 and 3, the bytes of
an Output header, so a decoder that lost its place would go on decoding; a chunk
and a replay may take two records, a header is longer than a read and a record
longer than the socket, so every cut happens; capacity 0 is the tail that keeps
nothing. `Canonical` enumerates frames of every kind with lengths below, at and
above the limit and with payloads too short and too long. In `launch` the words
"--", "--trace" and the empty one appear in every place, and the limits are met
and exceeded by one. In `runner_output` the tail wraps, a single read can
exceed it, the replay with its marker exactly fits the queue and one more read
does not, the tick's budget ends a drain, and one client can replace the other
in every state. Four bytes are two more than the tail. In `runner_input` two
clients type up to six bytes into a queue of two: a write takes one of two and
leaves the other to be followed by the next, the bytes of a replaced client are
still queued when its successor types, and the third one is refused unless the
PTY took one. In `stop_calls` each output record of one byte takes two of the
queue's four, so the third one overflows the queue of a client that does not
read; a tick reads one byte, so its budget ends a drain with output still in the
PTY; and a typed byte waits while the PTY refuses it. A client need not
send the whole of its script, so the pair of a typing client and a stop covers
an attachment and a stop; the pairs that are left out (two typing clients, one
and an attachment, one and a foreign peer) have no slot of the loop in a state
that the others do not put it in. In `session` one call
can start a run, and the other be refused, replay it, be overtaken by the end of
its day, or remove it and start the next, with listings between any two of these
steps; three calls are out of TLC's reach, but the theorems of section 4 are
about any number. Two calls are enough for each race of two starting runners. In
`attach` each of the channel, the queue and the socket fills up while another
chunk is behind it.
Symmetry is used for connections and calls, which are interchangeable, in runs
without liveness properties only.

`CHECK_DEADLOCK FALSE` is in the configurations of systems that end: the runner
completes, the calls return, the client exits, the command runs.

Four runs show where the code does something else than its documentation says;
TLC finds each one in a few steps:

* `session_two_runners` (`OneRunner`): `UnixListener::bind` is bind(2) and
  listen(2). A second runner that looks at the ID in between finds a socket
  without a record, is refused, removes the socket as stale and binds its own.
  Both take a lock (`remove_stale_live` removes the lock too) and both start
  the command.
* `session_record_lost` (`RecordKept`): a runner that read the Live record and
  probes the socket when that run has just completed removes the completion
  record as a stale live one.
* `session_unanswered` (`CompletedReplays`): a call that connects after the
  completion record was written and before the listener is closed is dropped
  without an answer and returns 0.
* `attach_exit_lost` (`ExitReported`): a client with input still queued when
  the runner has exited fails its write before it reads the Exit record, and
  returns 0.

Two differences have no run of their own. On the stop path the runner closes the
PTY without the drain that `docs/ARCHITECTURE.md` (Lifecycle) describes, so what
the child printed last is missing from the completed session:
`NaturalExitKeepsOutput` is about the other path only, and without its
`~stopRequested` TLC shows the loss. And concurrent calls for an absent ID do not
always converge on its one runner, as `docs/ARCHITECTURE.md` has it: a call whose
first attach found nothing, and which looks for a record after the run was
recorded, fails with "recorded session runner is unavailable"
(`connect_or_start`'s second look takes any Live record for that of a lost
runner). `UnavailableTruthful` allows this case, and no other, through the history
`early`, the calls that had been refused when a run was recorded; without that
disjunct TLC shows the failing call.

`ReplayFaithful` has such a disjunct too: `attach` reads the record and then the
output file, and the day may end between the two. Any process' cleanup then
removes the output, and the status is returned without it. TLC shows that when
`peer[k] \in expired` is left out.

**What `Overlap = FALSE` excludes.** The first two runs above are the reason why
`session` does not check every schedule: without the exclusion `RecordKept` and
`ImplementsSessionAbs` are false. It leaves out two schedules and no more.
(1) Two runners that start at once: a call launches none while another runner is
between its launch and its ready report (`NoneStarting`). (2) A run recorded
while a call (`NoneCleaning`) or a listing (`CleanupAlone`) is between its look
at an expired record and the removal, which is by path and would take the new
run's Live record: TLC finds that at once when the conjunct is taken out. Calls
that begin, connect, look and are refused at any point of another run's start,
service or end, listings at any time, kills, failures and the end of days are all
in. `session_races` has no exclusion.

### Fairness

Safety runs use no fairness. The liveness properties of `Runner` say of a state
that ends what it begins that it never lasts for ever: `[]<>(stopRequested =>
Ended)` is `stopRequested ~> Ended` where a request is never withdrawn, and the
same holds of an exited child, of unread output, of a connection in the backlog
and of a complete first record. `Runner!FairSpec` has weak fairness of the runner
as one process: it is a single thread that is never blocked by a client or the
PTY, since all descriptors are non-blocking and the last flush has a timeout;
strong fairness of `Poll`, because EINTR sends the loop back to the drain and
not every poll is interrupted; and that SIGKILL takes effect. Nothing is assumed
of the child and the clients: they may stop reading, writing or running.
`Session!FairSpec` has weak fairness of each process whose next step needs
nobody else, and that a client notices that its runner is gone; commands need
not end and users need not detach. `Attach!FairSpec` has weak fairness of the
client's loop, which includes that its writes to stdout return, and strong
fairness of `Poll`. `MCStopCall` uses the runner's fairness, and assumes nothing
of who stops. `Launch!Spec` has weak fairness of the launcher and of the runner
until it serves: both are single threads that wait for each other only. Nobody
need ever kill anybody, and a session need not end.

## 4. What is proved

Each theorem holds for every value of the constants that meets the assumptions
of its module; TLC evaluates those on every run. Every proof module says at its
top why the property is not inductive alone. There is one lemma per action or
group of actions, and under it a step per conjunct that the action can disturb.

**`Relay_proofs`.** `TailCorrect` is `Spec => [](TypeOK /\ TailIsSuffix /\
TruncatedIffLost)` for the tail alone; the conjunction is inductive, and the
lemmas are about dropping the front of a sequence (`DropDrop`, `DropConcatLeft`,
`DropConcatRight`), one for each branch of `extend`. `RelayRunsTail` shows that
`Relay` implements `OutputTail`, action by action, which carries the three
properties over (`RelayTypeOK`, `RelayTailIsSuffix`, `RelayTruncatedIffLost`).
The codec, for every `MaxPayload` below 2^24 and `MaxDimension` below 2^16:
`CodecRoundTrip` (each legal record that `encode` accepts comes back, and
exactly the bytes behind it are left), `CodecCutOff` (no proper beginning of it
is a record or an error) and `CodecOneEncoding` (*whatever* bytes arrive, what is
accepted is a legal record in its one encoding). They rest on `HeaderFacts` and
`HeaderBack` (a length to its four bytes and back), `PayloadFacts` and
`DecodedFacts` (payload to record and back, kind by kind), and `FrameFacts` and
`ThreeParts` (cutting header, payload and rest). `RelayCanonical` is the run's
`Canonical` from these three.

**`RelayEnd_proofs`**: `RelayEndToEnd` and `RelayStatusFaithful`. The invariant,
`RelayInv`, says of a connected client: the bytes in its decoder, in the socket
and in the queue, and those cut off when the connection was dropped, are the
encodings of some records, one after the other; these and the batch already
decoded are Output records and at most one Exit behind them; and what was
printed, followed by the payloads of these records, is what should be printed
(`Held`, `Transit`). `Shape` adds what each state of the client implies, such
as that no record is left in an idle client's buffer. A read moves the border
between buffer and socket anywhere, also into the middle of a record, and
changes none of this; that `DecoderNext` then takes the first of the records or
nothing is `DecodeStream`, from the codec theorems. That the chunks of an
output join to that output (`PiecesJoin`) and that a batch is written up to its
Exit (`BatchFacts`) are facts about any number of records. The library's
induction theorems take an operator, which no prover here instantiates;
`SetInduction` says the same of a set of numbers, and follows from the
well-founded order of the numbers.

These theorems need three assumptions on constants that the runs satisfy too:
`MaxPayload` holds an exit status, at least (`MaxPayload >= 4`; it is 65536), a
dimension fits its two bytes, and the marker and the bytes of the PTY are
octets.

**`Runner_proofs`.**

* `RunnerTypeOK`, `Spec => []TypeOK`. It contains the limits: no queue, no
  recorded size and no tick exceeds its bound. `TypeOK` is not inductive alone:
  the tail could hold more than its capacity, a batch be applied that no
  connection has. `IInv` adds `TailShape` (the tail is an interval that ends at
  the last byte read, within the capacity, truncated when it does not begin at
  1) and `SlotShape` (which of the slots are taken where in the loop, how many
  records of a batch are left). That the replay fits an empty queue comes from
  `ReplayAssumption`, which the real limits satisfy: the marker and four chunks
  of 64 KiB with headers in 1 MiB.
* `RunnerGapFree`, `Spec => []GapFree`. It needs in addition `SlotsApart`:
  no connection is in two of active, candidate, joining and backlog, and one
  that never connected is in none, so that a step on one connection leaves the
  stream of the other alone. The heart is `DrainReadGapFree`: appending what
  was read to a stream that ends at the last byte read, with `BytesConcat`.

**`RunnerEnd_proofs`**: `RunnerCompletedRecordTrue`, `RunnerExitAfterRecord`,
`RunnerNaturalExitKeepsOutput`, `RunnerAttachedTruthful`. The first three are one
invariant, `EndInv`: what is known of the child at each place (`ExitKnown`),
which files are written there (`RecordShape`), that no stream holds an Exit
before (`ExitSentLast`), and how much of the PTY's content a drain has still to
read (`DrainShape`, where `PtyAssumption` is needed: the kernel holds less of a
PTY's output than a tick reads). The last one is `AttachedShape`: after which
place the record agrees with the slot, and what `had_attachment` and the polled
events say of a difference in between.

**`RunnerInput_proofs`**: `RunnerInputInOrder`, `RunnerOneOwner` and
`StopCallHonest`. A connection
goes one way, and while it is fresh nothing of it was read (`FreshShape`);
afterwards the input that got in is its input records up to the last applied one
(`InputShape`), and the owners before the current one are done (`OwnerShape`).
A stop's success is the end of a connection whose record was read; that this was
`CandidateStop`, and not a rejection, rests on `FreshShape`.

**`Session_proofs`**, for any number of calls:

* `SessionTypeOK` and `SessionNoStaleFiles` hold for every interleaving, with
  `FileShape`: where a runner is whose socket or lock lies at the path. A runner
  that ended, gave way or failed has left no lock. Its socket it leaves only when
  it failed before it had the lock; the next start finds no listener there and
  removes it.
* `SessionRecordKept`, `SessionReplayFaithful`, `SessionUnavailableTruthful` and
  `SessionImplementsAbs` assume `~Overlap`, the exclusion of section 3. Without
  that they are not theorems: the run `session_record_lost` refutes `RecordKept`.
  `KeptInv` says that one runner at a time is at work (`OneActive`), that the
  record tells where it is (`RunShape`, `MetaShape`), that what a call is about to
  remove is expired or gone, and that a refused call finds no record, that of a
  lost run, or one of a run recorded since (`CallShape`).
* `ListingServingListed`: the same invariant holds beside listings, whose own
  cleanup removes only what is expired or gone (`LookShape`).

**`Launch_proofs`**: `LaunchNoStrayChild` and `LaunchReadyMeansServing`, from what
each place of `hidden_runner` implies (`RunnerShape`) and what an answer implies
(`AnswerShape`). `LaunchCommandDelivered`, for command lines of any length:
`SessionTyped` is what `parse` makes of a `session` call, `NothingRefused` that
the reader of the configuration takes every field of it, `ChildAccepts` that
`__child` does, and `ConfigShape` and `ChildShape` carry the command from one to
the other. That the first words have no more bytes than all of them
(`TotalFacts`) is about a fold, and by `SetInduction` like the above. The
constants must agree as they do in the code: a word has a length, one argument
is allowed, the shell fits the limit, and `window_size`'s 24 by 80 is within
`MAX_TERMINAL_DIMENSION`.

**`Attach_proofs`**: `AttachTypeOK`, `AttachTypedInOrder`, `AttachStdinDelivered`,
`AttachStatusAfterOutput`, `AttachNothingHeldBack`. Input is one pipe of five
sequences and output another; a step moves a record from one to the next. What
has to be added is where the reader holds a chunk (`ReaderShape`), that what is
still to come is numbered without a gap (`ComingShape`), where the loop has
flushed (`LoopShape`), and that a detachment leaves nothing behind (`DoneShape`).

Only model-checked is liveness (`StopCompletes`, `ExitCompletes`,
`OutputDrained`, `ConnectionsServed`, `EndsWithRunner`, `EndsOnSignal`,
`CallsReturn`, `LauncherReturns`): it is out of the prover's reach, as is
ENABLED.

## 5. What is abstracted, and what is not modelled

* In `Runner` and `Attach` a record arrives whole; that a read may end inside
  one shows as a read that completes nothing. The bytes are in `Relay`, for the
  direction of the output. The other direction has the same encoder and decoder.
* `verify_path` followed by the unlink or the open is one step, but for the
  listing; one step are also the two
  unlinks in `Drop` of `SessionFiles` on an error path. Writes through a
  temporary file and rename are atomic, which is what `atomic_write` is for.
* `Registry::open` and `list` go through every ID; the model has the one.
  Permissions, ownership and path lengths are left out: they only reject. A
  completed record that is removed while a listing looks at it makes the
  listing fail, which `ServingListed` does not speak of.
* The clock: a day passes for a completed run at any time after its runner is
  over, whatever calls and listings are in the middle of. Bound: no runner takes
  a day from its completion record to its end. A clock that is set back is not
  modelled.
* Trace events and the 1 MiB limit of a trace file, for which runner and
  attachment each count what they saw themselves: nothing reads the file back.
  Creating it is in `Launch`, where a file left by a failed start makes every
  later `--trace` start answer that the session exists.
* Terminal raw mode, which a guard restores on every path; the text of listings,
  help and errors; the digits of a session ID.
* `now_seconds` between the start of the child and its record: it fails only for
  a clock before 1970, which `Registry::open` has just excluded.
* `Attach` counts records where the code counts bytes. It assumes a runner that
  sends only Output and Exit, as `runner.rs` does.

## 6. Plan

Order: what loses or duplicates a session or its output first, then the rest.

1. Done: `OutputTail`, `Runner`, `Session` with `SessionAbs`, `Attach`, their
   runs, and the proofs of section 4.
2. Done: `Ipc` and `Relay` (bytes end to end, with the byte queue), `StopCall`,
   `Listing`, `Cli` and `Launch`.
3. Done: proofs of every safety property the passing runs check, the refinement
   of `SessionAbs`, the codec, and the output end to end.
4. What remains to be modelled: `Runner` composed with full `Attach` clients;
   more than one ID in the cleanup; two writers of one trace file.

------------------------------- MODULE Session -------------------------------
(***************************************************************************)
(* The life of one session ID: `afk session` calls (session.rs, attach.rs) *)
(* and the runners they launch (runner.rs start_runner, registry.rs        *)
(* bind_session), meeting only in the files of ~/.afk/run: metadata,       *)
(* socket, lock and output.  Each step is one system call on one file, so  *)
(* calls, starting runners and ending runners interleave as they can.      *)
(*                                                                         *)
(* A call k launches at most one runner, which is named k too.  A path is  *)
(* described by the runner that made the file there: removal is by path,   *)
(* whoever made it.                                                        *)
(***************************************************************************)
EXTENDS Integers, FiniteSets

CONSTANTS Calls,     \* `afk session` invocations for the ID, each made once
          NoRun,     \* no file at a path
          Overlap,   \* may runners start, and cleanups run, over one another?
          Faults     \* which of "kill", "error", "launcher" may happen

ASSUME CallsAssumption == NoRun \notin Calls /\ IsFiniteSet(Calls)
ASSUME OptionsAssumption == Overlap \in BOOLEAN /\ Faults \subseteq {"kill", "error", "launcher"}

VARIABLES
    meta,            \* the metadata file: kind and the runner that wrote it
    sock, lock, out, \* who made the socket, lock and output file
    listening,       \* runners whose socket accepts connections
    call,            \* where each call is
    attempt,         \* 1: first attach, 2: the metadata check, 3: second attach
    peer,            \* the runner a call is connected to, or read the record of
    result,          \* how each call ended
    run,             \* where each runner is
    ready,           \* runners whose ready report is in their launcher's pipe
    committed,       \* history: runners that wrote Live metadata
    finished,        \* history: runners that wrote their completion record
    expired,         \* finished runs whose 24 hours are over
    late,            \* history: calls begun when a completion record was there
    early            \* history: calls that were refused before a run was recorded

files == <<meta, sock, lock, out>>
callVars == <<call, attempt, peer, result, late>>
runVars == <<run, listening, ready, committed, finished, early>>
vars == <<files, callVars, runVars, expired>>

NoMeta == [kind |-> "none", by |-> NoRun]
Live(r) == [kind |-> "live", by |-> r]
Completed(r) == [kind |-> "completed", by |-> r]

Starting == {"open", "cleanOut", "cleanMeta", "read", "entries", "purgeOut",
             "purgeMeta", "probe", "staleSock", "staleLock", "staleMeta", "bind", "listen", "lock", "record", "report"}
Ending == {"output", "complete", "unlinkSock", "unlinkLock", "drop"}
Over == {"exists", "failed", "killed", "ended"}
\* k's first attach found no runner, and it has not yet acted on that.
Refused(k) ==
    \/ call[k] = "metadata" /\ attempt[k] = 1
    \/ call[k] \in {"open", "cleanOut", "cleanMeta", "check"} /\ attempt[k] = 2

Init ==
    /\ meta = NoMeta
    /\ sock = NoRun /\ lock = NoRun /\ out = NoRun
    /\ listening = {}
    /\ call = [k \in Calls |-> "idle"]
    /\ attempt = [k \in Calls |-> 1]
    /\ peer = [k \in Calls |-> NoRun]
    /\ result = [k \in Calls |-> "none"]
    /\ run = [k \in Calls |-> "none"]
    /\ ready = {} /\ committed = {} /\ finished = {} /\ expired = {} /\ late = {} /\ early = {}

-----------------------------------------------------------------------------
AnyCompleted(m) == m.kind = "completed"           \* mutant: the age is not checked
AnyRecord(m) == m.kind # "none"                   \* mutant: neither kind nor age is checked
\* is_expired: a completed record older than COMPLETED_RETENTION_SECONDS.
Expired(m) == m.kind = "completed" /\ m.by \in expired

\* connect(2) on the session socket: the path exists and its owner listens.
Reachable == sock \in listening

\* Overlap = FALSE leaves out two schedules: a call launches no runner while
\* another one is starting, and no run is recorded while a call is between its
\* look at an expired record and the removal.
NoneStarting == \A r \in Calls : run[r] \notin Starting
NoneCleaning == \A k \in Calls : call[k] \notin {"cleanOut", "cleanMeta"}

\* The day after a completion has passed, whatever calls are doing.  Bound: no
\* runner takes a day for its last steps, from the completion record on.
DayPasses(r) ==
    /\ r \in finished \ expired
    /\ run[r] \in Over
    /\ expired' = expired \cup {r}
    /\ UNCHANGED <<files, callVars, runVars>>

-----------------------------------------------------------------------------
(* A call: connect_or_start.                                                *)

Goto(k, where) == call' = [call EXCEPT ![k] = where]

Begin(k) ==
    /\ call[k] = "idle"
    /\ late' = IF meta.kind = "completed" /\ ~Expired(meta) THEN late \cup {k} ELSE late
    /\ Goto(k, "open")
    /\ UNCHANGED <<files, attempt, peer, result, runVars, expired>>

\* Registry::open: cleanup_expired reads the record, then removes output and
\* metadata by path.
Opened(k) == IF attempt[k] = 2 THEN "check" ELSE "connect"
CallOpen(k) ==
    /\ call[k] = "open"
    /\ Goto(k, IF Expired(meta) THEN "cleanOut" ELSE Opened(k))
    /\ UNCHANGED <<files, attempt, peer, result, late, runVars, expired>>
CallCleanOut(k) ==
    /\ call[k] = "cleanOut"
    /\ out' = NoRun
    /\ Goto(k, "cleanMeta")
    /\ UNCHANGED <<meta, sock, lock, attempt, peer, result, late, runVars, expired>>
CallCleanMeta(k) ==
    /\ call[k] = "cleanMeta"
    /\ meta' = NoMeta
    /\ Goto(k, Opened(k))
    /\ UNCHANGED <<sock, lock, out, attempt, peer, result, late, runVars, expired>>

\* attach: connect to the runner; one that is completing takes the connection
\* in its listener's queue but will never accept it ...
Connect(k) ==
    /\ call[k] = "connect"
    /\ IF Reachable
         THEN /\ peer' = [peer EXCEPT ![k] = sock]
              /\ Goto(k, IF run[sock] \in Ending THEN "queued" ELSE "attached")
         ELSE UNCHANGED peer /\ Goto(k, "metadata")
    /\ UNCHANGED <<files, attempt, result, late, runVars, expired>>

\* ... or else read the record, and replay a completed session.
ReadRecord(k) ==
    /\ call[k] = "metadata"
    /\ \/ /\ meta.kind = "completed"
          /\ peer' = [peer EXCEPT ![k] = meta.by]
          /\ Goto(k, "output")
          /\ UNCHANGED <<attempt, result>>
       \/ /\ meta.kind # "completed" /\ attempt[k] = 1
          /\ attempt' = [attempt EXCEPT ![k] = 2]
          /\ Goto(k, "open")
          /\ UNCHANGED <<peer, result>>
       \/ /\ meta.kind # "completed" /\ attempt[k] = 3
          /\ result' = [result EXCEPT ![k] = "error"]
          /\ Goto(k, "done")
          /\ UNCHANGED <<peer, attempt>>
    /\ UNCHANGED <<files, late, runVars, expired>>

ReplayOutput(k) ==
    /\ call[k] = "output"
    /\ result' = [result EXCEPT ![k] = IF out = peer[k] THEN "replayed" ELSE "otherOutput"]
    /\ Goto(k, "done")
    /\ UNCHANGED <<files, attempt, peer, late, runVars, expired>>

OnlyCompleted == meta.kind = "completed"          \* mutant: a lost live session is replaced
\* Any record at all fails closed; otherwise launch_runner.
FailsClosed == meta.kind # "none"
Check(k) ==
    /\ call[k] = "check"
    /\ IF FailsClosed
         THEN /\ result' = [result EXCEPT ![k] = "unavailable"]
              /\ Goto(k, "done")
              /\ UNCHANGED run
         ELSE /\ Overlap \/ NoneStarting
              /\ run' = [run EXCEPT ![k] = "open"]
              /\ Goto(k, "launch")
              /\ UNCHANGED result
    /\ UNCHANGED <<files, attempt, peer, late, listening, ready, committed, finished, early, expired>>

ReadyOnly(k) == k \in ready                       \* mutant: "exists" is not answered
\* The runner's report: ready and exists lead to the second attach, also when
\* the runner is gone by the time it is read; its end without one to an error.
Answered(k) == k \in ready \/ run[k] = "exists"
Launched(k) ==
    /\ call[k] = "launch"
    /\ \/ /\ Answered(k)
          /\ attempt' = [attempt EXCEPT ![k] = 3]
          /\ Goto(k, "open")
          /\ UNCHANGED result
       \/ /\ ~Answered(k) /\ run[k] \in {"failed", "killed"}
          /\ result' = [result EXCEPT ![k] = "error"]
          /\ Goto(k, "done")
          /\ UNCHANGED attempt
    /\ UNCHANGED <<files, peer, late, runVars, expired>>

\* attach_live ends: by end of file when the runner closes the connection, or
\* by the runner's Exit record or the user's leaving, which are one here.
AttachmentEnds(k) ==
    /\ call[k] \in {"attached", "queued"}
    /\ \E end \in {"left", "eof"} :
         /\ end = "eof" => run[peer[k]] \in Over \/ call[k] = "attached"
         /\ result' = [result EXCEPT ![k] = end]
    /\ Goto(k, "done")
    /\ UNCHANGED <<files, attempt, peer, late, runVars, expired>>

\* The launching process is killed; its runner has left its session.
LauncherKilled(k) ==
    /\ "launcher" \in Faults
    /\ call[k] = "launch"
    /\ result' = [result EXCEPT ![k] = "killed"]
    /\ Goto(k, "done")
    /\ UNCHANGED <<files, attempt, peer, late, runVars, expired>>

-----------------------------------------------------------------------------
(* A runner starts: hidden_runner, Registry::open, bind_session.            *)

RunTo(r, where) == run' = [run EXCEPT ![r] = where]

\* read_startup_config fails: the launcher died before it sent the command.
NoConfig(r) ==
    /\ run[r] = "open" /\ call[r] # "launch"
    /\ RunTo(r, "failed")
    /\ UNCHANGED <<files, callVars, listening, ready, committed, finished, early, expired>>

OpenRegistry(r) ==
    /\ run[r] = "open"
    /\ RunTo(r, IF Expired(meta) THEN "cleanOut" ELSE "read")
    /\ UNCHANGED <<files, callVars, listening, ready, committed, finished, early, expired>>

\* remove_completed, for cleanup_expired and again in bind_session.
RemoveOutput(r) ==
    /\ \/ run[r] = "cleanOut" /\ RunTo(r, "cleanMeta")
       \/ run[r] = "purgeOut" /\ RunTo(r, "purgeMeta")
    /\ out' = NoRun
    /\ UNCHANGED <<meta, sock, lock, callVars, listening, ready, committed, finished, early, expired>>
RemoveRecord(r) ==
    /\ \/ run[r] = "cleanMeta" /\ RunTo(r, "read")
       \/ run[r] = "purgeMeta" /\ RunTo(r, "bind")
    /\ meta' = NoMeta
    /\ UNCHANGED <<sock, lock, out, callVars, listening, ready, committed, finished, early, expired>>

\* What the record says of the ID; without one, what the files do.
Vacancy ==
    IF Expired(meta) THEN "purgeOut"
    ELSE IF meta.kind = "completed" THEN "exists"
    ELSE IF meta.kind = "live" THEN "probe"
    ELSE "entries"
ReadForBind(r) ==
    /\ run[r] = "read"
    /\ RunTo(r, Vacancy)
    /\ UNCHANGED <<files, callVars, listening, ready, committed, finished, early, expired>>
LookForFiles(r) ==
    /\ run[r] = "entries"
    /\ RunTo(r, IF sock # NoRun \/ lock # NoRun THEN "probe" ELSE "bind")
    /\ UNCHANGED <<files, callVars, listening, ready, committed, finished, early, expired>>

\* A reachable runner owns the ID; otherwise remove_stale_live.
ProbeOutcome == IF Reachable THEN "exists" ELSE "staleSock"
Probe(r) ==
    /\ run[r] = "probe"
    /\ RunTo(r, ProbeOutcome)
    /\ UNCHANGED <<files, callVars, listening, ready, committed, finished, early, expired>>
RemoveStaleSock(r) ==
    /\ run[r] = "staleSock"
    /\ sock' = NoRun
    /\ RunTo(r, "staleLock")
    /\ UNCHANGED <<meta, lock, out, callVars, listening, ready, committed, finished, early, expired>>
RemoveStaleLock(r) ==
    /\ run[r] = "staleLock"
    /\ lock' = NoRun
    /\ RunTo(r, "staleMeta")
    /\ UNCHANGED <<meta, sock, out, callVars, listening, ready, committed, finished, early, expired>>
RemoveStaleRecord(r) ==
    /\ run[r] = "staleMeta"
    /\ meta' = NoMeta
    /\ RunTo(r, "bind")
    /\ UNCHANGED <<sock, lock, out, callVars, listening, ready, committed, finished, early, expired>>

\* UnixListener::bind is bind(2), which makes the file, and listen(2).
BindSocket(r) ==
    /\ run[r] = "bind"
    /\ IF sock # NoRun
         THEN RunTo(r, "exists") /\ UNCHANGED sock
         ELSE RunTo(r, "listen") /\ sock' = r
    /\ UNCHANGED <<meta, lock, out, callVars, listening, ready, committed, finished, early, expired>>
Listen(r) ==
    /\ run[r] = "listen"
    /\ listening' = listening \cup {r}
    /\ RunTo(r, "lock")
    /\ UNCHANGED <<files, callVars, ready, committed, finished, early, expired>>

SockKept == sock                                  \* mutant: the loser leaves its socket
\* The lock file is created new, or the socket path is unlinked.
SockOnLostLock == NoRun
TakeLock(r) ==
    /\ run[r] = "lock"
    /\ IF lock # NoRun
         THEN /\ sock' = SockOnLostLock
              /\ listening' = listening \ {r}
              /\ RunTo(r, "exists")
              /\ UNCHANGED lock
         ELSE /\ lock' = r
              /\ RunTo(r, "record")
              /\ UNCHANGED <<sock, listening>>
    /\ UNCHANGED <<meta, out, callVars, ready, committed, finished, early, expired>>

\* start_runner: the command runs and its Live record is written ...
WriteLive(r) ==
    /\ run[r] = "record"
    /\ Overlap \/ NoneCleaning
    /\ meta' = Live(r)
    /\ committed' = committed \cup {r}
    /\ early' = early \cup {k \in Calls : Refused(k)}
    /\ RunTo(r, "report")
    /\ UNCHANGED <<sock, lock, out, callVars, listening, ready, finished, expired>>

\* mutant: the listener stays open
KeepsListening(r) == sock' = NoRun /\ lock' = NoRun /\ UNCHANGED listening
\* SessionFiles is dropped: socket and lock are unlinked by path, whoever
\* made them, and the listener closes.
DropFiles(r) ==
    /\ sock' = NoRun /\ lock' = NoRun
    /\ listening' = listening \ {r}

\* ... and reported to the launcher, without whom the command is killed.
Report(r) ==
    /\ run[r] = "report"
    /\ IF call[r] = "launch"
         THEN RunTo(r, "serving") /\ ready' = ready \cup {r} /\ UNCHANGED <<sock, lock, listening>>
         ELSE RunTo(r, "failed") /\ DropFiles(r) /\ UNCHANGED ready
    /\ UNCHANGED <<meta, out, callVars, committed, finished, early, expired>>

-----------------------------------------------------------------------------
(* A runner ends (module Runner has the event loop and what leads here).    *)

RecordOnly == "complete"                          \* mutant: the output is not written first
RecordSkipped == "unlinkSock"                     \* mutant: socket and lock go first
AfterCommand == "output"
\* The command has ended, or `afk stop` was accepted.
CommandEnds(r) ==
    /\ run[r] = "serving"
    /\ RunTo(r, AfterCommand)
    /\ UNCHANGED <<files, callVars, listening, ready, committed, finished, early, expired>>
WriteOutput(r) ==
    /\ run[r] = "output"
    /\ out' = r
    /\ RunTo(r, "complete")
    /\ UNCHANGED <<meta, sock, lock, callVars, listening, ready, committed, finished, early, expired>>
WriteCompleted(r) ==
    /\ run[r] = "complete"
    /\ meta' = Completed(r)
    /\ finished' = finished \cup {r}
    /\ RunTo(r, "unlinkSock")
    /\ UNCHANGED <<sock, lock, out, callVars, listening, ready, committed, early, expired>>

\* remove_live_files, then drop(files), which unlinks once more.
UnlinkSock(r) ==
    /\ run[r] = "unlinkSock"
    /\ sock' = NoRun
    /\ RunTo(r, "unlinkLock")
    /\ UNCHANGED <<meta, lock, out, callVars, listening, ready, committed, finished, early, expired>>
UnlinkLock(r) ==
    /\ run[r] = "unlinkLock"
    /\ lock' = NoRun
    /\ RunTo(r, "drop")
    /\ UNCHANGED <<meta, sock, out, callVars, listening, ready, committed, finished, early, expired>>
Close(r) ==
    /\ run[r] = "drop"
    /\ DropFiles(r)
    /\ RunTo(r, "ended")
    /\ UNCHANGED <<meta, out, callVars, ready, committed, finished, early, expired>>

\* An I/O error ends the runner: once it has its SessionFiles they are
\* dropped.  Before that its socket stays, unless it is the lock file that
\* could not be opened.  The record stays either way.
Fails(r) ==
    /\ "error" \in Faults
    /\ RunTo(r, "failed")
    /\ \/ run[r] \in {"record", "report", "serving", "output", "complete"} /\ DropFiles(r)
       \/ /\ run[r] \in {"bind", "listen", "lock"}
          /\ listening' = listening \ {r}
          /\ sock' \in {sock} \cup (IF run[r] = "lock" THEN {NoRun} ELSE {})
          /\ UNCHANGED lock
    /\ UNCHANGED <<meta, out, callVars, ready, committed, finished, early, expired>>

\* SIGKILL, or the machine goes down: every file stays.
Killed(r) ==
    /\ "kill" \in Faults
    /\ run[r] \in Starting \cup Ending \cup {"serving"}
    /\ listening' = listening \ {r}
    /\ RunTo(r, "killed")
    /\ UNCHANGED <<files, callVars, ready, committed, finished, early, expired>>

-----------------------------------------------------------------------------
CallStep(k) ==
    \/ CallOpen(k) \/ CallCleanOut(k) \/ CallCleanMeta(k) \/ Connect(k) \/ ReadRecord(k)
    \/ ReplayOutput(k) \/ Check(k) \/ Launched(k)
StartStep(r) ==
    \/ OpenRegistry(r) \/ RemoveOutput(r) \/ RemoveRecord(r) \/ ReadForBind(r)
    \/ LookForFiles(r) \/ Probe(r)
    \/ RemoveStaleSock(r) \/ RemoveStaleLock(r) \/ RemoveStaleRecord(r)
    \/ BindSocket(r) \/ Listen(r) \/ TakeLock(r) \/ WriteLive(r) \/ Report(r)
EndStep(r) ==
    WriteOutput(r) \/ WriteCompleted(r) \/ UnlinkSock(r) \/ UnlinkLock(r) \/ Close(r)

Next == \E k \in Calls :
    \/ Begin(k) \/ CallStep(k) \/ AttachmentEnds(k) \/ LauncherKilled(k)
    \/ NoConfig(k) \/ StartStep(k) \/ CommandEnds(k) \/ EndStep(k) \/ Fails(k) \/ Killed(k)
    \/ DayPasses(k)

Spec == Init /\ [][Next]_vars

\* Every process that can go on is scheduled; commands need not end.
Fairness == \A k \in Calls :
    WF_vars(CallStep(k)) /\ WF_vars(StartStep(k)) /\ WF_vars(EndStep(k))
    /\ WF_vars(call[k] \in {"attached", "queued"} /\ run[peer[k]] \in Over /\ AttachmentEnds(k))
FairSpec == Spec /\ Fairness

-----------------------------------------------------------------------------
CallLabels == {"idle", "open", "cleanOut", "cleanMeta", "connect", "metadata", "output",
               "check", "launch", "attached", "queued", "done"}
Results == {"none", "replayed", "otherOutput", "unavailable", "error", "left", "eof",
            "killed"}
Run == Calls \cup {NoRun}

\* Types; and only a runner between listen(2) and its end takes connections,
\* however it ended.
TypeOK ==
    /\ meta \in [kind : {"none", "live", "completed"}, by : Run]
    /\ sock \in Run /\ lock \in Run /\ out \in Run
    /\ listening \subseteq {r \in Calls : run[r] \in {"lock", "record", "report", "serving"} \cup Ending}
    /\ call \in [Calls -> CallLabels]
    /\ attempt \in [Calls -> 1..3]
    /\ peer \in [Calls -> Run]
    /\ result \in [Calls -> Results]
    /\ run \in [Calls -> Starting \cup Ending \cup Over \cup {"none", "serving"}]
    /\ ready \subseteq Calls /\ committed \subseteq Calls /\ finished \subseteq Calls
    /\ expired \subseteq Calls /\ late \subseteq Calls /\ early \subseteq Calls

\* What the registry promises, with the metadata file as the record: one run
\* per ID, completed once, replaced only after its retention, and a lost run
\* never silently replaced, whatever process is killed or fails between two
\* steps (module SessionAbs; ARCHITECTURE.md on connect-or-start).
Abs == INSTANCE SessionAbs WITH Runs <- Calls, record <- meta, used <- committed, old <- expired
ImplementsSessionAbs == Abs!Spec

\* For a day after a run completed, its record and its output are there.
RecordKept == \A r \in finished \ expired : meta = Completed(r) /\ out = r

\* A completed session is replayed with the output of the run whose exit
\* status is reported, also when a runner or a call was killed on the way.
\* The two are read one after the other (attach.rs read_metadata, read_output)
\* while others clean up: only the end of the day between them separates them.
ReplayFaithful == \A k \in Calls : result[k] = "otherOutput" => peer[k] \in expired

\* "Recorded session runner is unavailable" is only said when a run was lost,
\* its runner killed or failed before its completion record, or when the run
\* was recorded after this call had been refused: connect_or_start then finds
\* the record of a runner it did not find, and fails closed for a live one.
\* A run that was recorded before is reached or replayed, however it ends.
UnavailableTruthful ==
    \A k \in Calls : result[k] = "unavailable" =>
        k \in early \/ \E r \in committed \ finished : run[r] \in {"failed", "killed"}

\* In any race a runner that ended in order, gave way or failed leaves no lock
\* of its own, which would make the next runner give way to nobody, and no
\* socket unless it failed before it had a lock (bind_session, SessionFiles'
\* Drop): what else is left at the session's paths, a killed runner left.
NoStaleFiles == \A r \in Calls :
    /\ run[r] \in {"ended", "exists", "failed"} => lock # r
    /\ run[r] \in {"ended", "exists"} \/ (run[r] = "failed" /\ r \in committed) => sock # r

\* Every call ends or stays attached to a runner that is not over: no call
\* waits for a runner that died, gave way or completed.
CallsReturn ==
    \A k \in Calls :
        (call[k] # "idle") ~>
            \/ call[k] = "done"
            \/ call[k] \in {"attached", "queued"} /\ run[peer[k]] \notin Over

\* Concurrent calls for an absent ID converge on one runner (ARCHITECTURE.md,
\* connect-or-start step 3).  The code takes a socket that is bound but not
\* yet listening for a stale one.
OneRunner == Cardinality({r \in Calls : run[r] = "serving"}) <= 1

\* A call for a completed session returns what was recorded (ARCHITECTURE.md,
\* connect-or-start step 4).  The runner still takes connections after it
\* wrote the record and then closes them without an answer.
CompletedReplays == \A k \in late : result[k] # "eof"
=============================================================================

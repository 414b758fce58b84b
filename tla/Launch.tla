------------------------------- MODULE Launch -------------------------------
(***************************************************************************)
(* How a command gets from the user's command line to its exec: run and    *)
(* launch_runner in the calling process, hidden_runner and start_runner in *)
(* the detached runner, hidden_child in the child.  Launcher and runner    *)
(* talk over a socket pair: the startup configuration one way, field by    *)
(* field, one response byte the other way.  Either may be killed at any    *)
(* step.  What bind_session decides, and why, is module Session's.         *)
(***************************************************************************)
EXTENDS Cli

CONSTANTS CommandLines,  \* what the user may type behind `afk`
          Windows,       \* rows and columns the caller's terminal may report
          MaxDimension,  \* MAX_TERMINAL_DIMENSION
          Shell,         \* default_shell(): $SHELL when usable, else /bin/sh
          Room,          \* fields the socket pair buffers
          Faults         \* which of "error" and "kill" may happen
ASSUME LaunchAssumption ==
    /\ CommandLines \subseteq Seq(DOMAIN Sizes) /\ Windows \subseteq Nat \X Nat
    /\ MaxDimension \in Nat /\ MaxDimension >= 80    \* window_size's default is accepted
    /\ Room \in Nat \ {0} /\ Shell \in DOMAIN Sizes /\ Sizes[Shell] <= MaxBytes

VARIABLES args, window, \* the call
          launcher,     \* where run and launch_runner are
          wrote,        \* fields of the configuration written
          runner,       \* where hidden_runner is
          got,          \* fields it has read
          response,     \* the first byte it wrote back
          files,        \* which of its socket and its lock this start has left there
          traceFile,    \* is there a trace file?
          recorded,     \* history: Live metadata was written
          child, argv   \* where __child is; what it was given, then what it runs
callVars == <<args, window>>
sideVars == <<files, traceFile, recorded>>
childVars == <<child, argv>>
vars == <<callVars, launcher, wrote, runner, got, response, sideVars, childVars>>

Call == parse(args)
Returned == {"ready", "exists", "failed", "usage", "other", "killed"}
RunnerOver == {"none", "gone", "killed"}

\* A trace file may be left from an earlier start that failed.
Init ==
    /\ args \in CommandLines /\ window \in Windows
    /\ launcher = "run" /\ wrote = 0
    /\ runner = "none" /\ got = 0 /\ response = "none"
    /\ files = {} /\ traceFile \in BOOLEAN /\ recorded = FALSE
    /\ child = "none" /\ argv = <<>>

-----------------------------------------------------------------------------
(* The launcher.                                                            *)

\* window_size, or 24 by 80 when there is no usable one.
Dimension(n) == n \in 1..MaxDimension
WindowSize == IF Dimension(window[1]) /\ Dimension(window[2]) THEN window ELSE <<24, 80>>

\* write_startup_config: rows, columns, trace, count, then the arguments.
Fields == WindowSize \o <<IF Call.trace THEN 1 ELSE 0, Len(Call.command)>> \o Call.command

\* lib.rs run: only `afk session` gets here any further (for an ID that has
\* no record: module Session).
Run ==
    /\ launcher = "run"
    /\ launcher' = CASE Call.name = "session" -> "spawn"
                     [] Call.name = "error" -> "usage"
                     [] OTHER -> "other"
    /\ UNCHANGED <<callVars, wrote, runner, got, response, sideVars, childVars>>

Spawn ==
    /\ launcher = "spawn"
    /\ \/ launcher' = "write" /\ runner' = "config"
       \/ "error" \in Faults /\ launcher' = "failed" /\ UNCHANGED runner
    /\ UNCHANGED <<callVars, wrote, got, response, sideVars, childVars>>

\* The socket pair is full, or its other end is gone (EPIPE).
WriteField ==
    /\ launcher = "write"
    /\ \/ /\ runner \notin RunnerOver /\ wrote - got < Room
          /\ wrote' = wrote + 1
          /\ launcher' = IF wrote' = Len(Fields) THEN "await" ELSE "write"
       \/ /\ runner \in RunnerOver
          /\ launcher' = "failed"
          /\ UNCHANGED wrote
    /\ UNCHANGED <<callVars, runner, got, response, sideVars, childVars>>

\* End of file: nobody holds the runner's end any more.
EndKeptOpen == FALSE                          \* mutant: the launcher holds it, too
EndClosed == runner \in RunnerOver

\* read_exact of the response; every answer but ready waits for the process.
ReadResponse ==
    /\ launcher = "await"
    /\ \/ response # "none"
       \/ EndClosed
    /\ launcher' = CASE response = "ready" -> "ready"
                     [] response = "exists" -> "waitExists"
                     [] OTHER -> "waitFailed"
    /\ UNCHANGED <<callVars, wrote, runner, got, response, sideVars, childVars>>

WaitForRunner ==
    /\ runner \in RunnerOver
    /\ \/ launcher = "waitExists" /\ launcher' = "exists"
       \/ launcher = "waitFailed" /\ launcher' = "failed"
    /\ UNCHANGED <<callVars, wrote, runner, got, response, sideVars, childVars>>

LauncherKilled ==
    /\ "kill" \in Faults
    /\ launcher \notin Returned
    /\ launcher' = "killed"
    /\ UNCHANGED <<callVars, wrote, runner, got, response, sideVars, childVars>>

-----------------------------------------------------------------------------
(* The runner.                                                              *)

\* read_startup_config gives up at the n-th field.
Refuses(n) ==
    \/ n = 3 /\ (Fields[3] \notin {0, 1} \/ ~Dimension(Fields[1]) \/ ~Dimension(Fields[2]))
    \/ n = 4 /\ Fields[4] > MaxArgs
    \/ n > 4 /\ Total(SubSeq(Fields, 5, n)) > MaxBytes
Whole(n) == n >= 4 /\ n = 4 + Fields[4]

ReadField ==
    /\ runner = "config"
    /\ got < wrote
    /\ got' = got + 1
    /\ runner' = IF Refuses(got') THEN "refused" ELSE IF Whole(got') THEN "bind" ELSE "config"
    /\ UNCHANGED <<callVars, launcher, wrote, response, sideVars, childVars>>

\* The launcher is gone before the whole configuration was written.
ConfigCutOff ==
    /\ runner = "config"
    /\ got = wrote /\ launcher = "killed"
    /\ runner' = "answerFailed"
    /\ UNCHANGED <<callVars, launcher, wrote, got, response, sideVars, childVars>>

\* start_runner returns an error: SessionFiles, if any, are dropped.
Returns(answer) == runner' = answer /\ files' = {}

\* setsid, Registry::open and bind_session, which may fail behind its bind(2)
\* and before there are SessionFiles: the socket stays.
SessionFiles == {"socket", "lock"}
Bind ==
    /\ runner = "bind"
    /\ \/ runner' = "trace" /\ files' = SessionFiles
       \/ Returns("answerExists")
       \/ "error" \in Faults /\ runner' = "answerFailed" /\ files' \in {{}, {"socket"}}
    /\ UNCHANGED <<callVars, launcher, wrote, got, response, traceFile, recorded, childVars>>

\* Trace::create: create_new, so a file left over is AlreadyExists.
CreateTrace ==
    /\ runner = "trace"
    /\ IF Fields[3] = 1 /\ traceFile
         THEN Returns("answerExists") /\ UNCHANGED traceFile
         ELSE runner' = "pty" /\ traceFile' = (traceFile \/ Fields[3] = 1) /\ UNCHANGED files
    /\ UNCHANGED <<callVars, launcher, wrote, got, response, recorded, childVars>>

\* create_pty and the spawn of __child, with the shell for an empty command.
CommandOrShell(command) == IF command = <<>> THEN <<Shell>> ELSE command
SpawnChild ==
    /\ runner = "pty"
    /\ \/ /\ runner' = "record"
          /\ child' = "exec"
          /\ argv' = CommandOrShell(SubSeq(Fields, 5, got))
          /\ UNCHANGED files
       \/ "error" \in Faults /\ Returns("answerFailed") /\ UNCHANGED childVars
    /\ UNCHANGED <<callVars, launcher, wrote, got, response, traceFile, recorded>>

\* write_metadata, and then the report; without either the child is killed.
\* (now_seconds before them fails for a clock before 1970 only, and
\* Registry::open has just asked the same clock.)
ReportFirst == response = "none"              \* mutant: the report does not wait for it
RecordFirst == recorded
WriteLive ==
    /\ runner = "record" /\ ~recorded
    /\ \/ recorded' = TRUE /\ UNCHANGED runner
       \/ "error" \in Faults /\ runner' = "kill" /\ UNCHANGED recorded
    /\ UNCHANGED <<callVars, launcher, wrote, got, response, files, traceFile, childVars>>
ReportReady ==
    /\ runner = "record" /\ RecordFirst
    /\ IF launcher # "killed"
         THEN response' = "ready" /\ runner' = "serving"
         ELSE runner' = "kill" /\ UNCHANGED response
    /\ UNCHANGED <<callVars, launcher, wrote, got, sideVars, childVars>>

\* child.kill() and child.wait().
LeftAlone == child                            \* mutant: the child is only abandoned
Killed == "killed"
KillChild ==
    /\ runner = "kill"
    /\ child' = Killed
    /\ Returns("answerFailed")
    /\ UNCHANGED <<callVars, launcher, wrote, got, response, traceFile, recorded, argv>>

\* hidden_runner: the response, which a dead launcher does not take.
Answer ==
    /\ runner \in {"refused", "answerExists", "answerFailed"}
    /\ response' = IF launcher = "killed" THEN response
                   ELSE IF runner = "answerExists" THEN "exists" ELSE "failed"
    /\ runner' = "gone"
    /\ UNCHANGED <<callVars, launcher, wrote, got, sideVars, childVars>>

\* The session ends (module Runner).
ServingEnds ==
    /\ runner = "serving"
    /\ Returns("gone")
    /\ UNCHANGED <<callVars, launcher, wrote, got, response, traceFile, recorded, childVars>>

RunnerKilled ==
    /\ "kill" \in Faults
    /\ runner \notin RunnerOver
    /\ runner' = "killed"
    /\ UNCHANGED <<callVars, launcher, wrote, got, response, sideVars, childVars>>

\* hidden_child: __child parses its own arguments, then exec, which may fail.
Exec ==
    /\ child = "exec"
    /\ LET own == parse(<<"__child">> \o argv)
       IN  IF own.name = "child"
             THEN child' \in {"running", "failed"} /\ argv' = own.command
             ELSE child' = "refused" /\ UNCHANGED argv
    /\ UNCHANGED <<callVars, launcher, wrote, runner, got, response, sideVars>>

-----------------------------------------------------------------------------
LauncherStep == Run \/ Spawn \/ WriteField \/ ReadResponse \/ WaitForRunner
RunnerStep ==
    \/ ReadField \/ ConfigCutOff \/ Bind \/ CreateTrace \/ SpawnChild
    \/ WriteLive \/ ReportReady \/ KillChild \/ Answer
Next == LauncherStep \/ LauncherKilled \/ RunnerStep \/ ServingEnds \/ RunnerKilled \/ Exec

\* Launcher and runner are scheduled; a session need not end.
Spec == Init /\ [][Next]_vars /\ WF_vars(LauncherStep) /\ WF_vars(RunnerStep)

-----------------------------------------------------------------------------
\* The words of an `afk session` call the usage text allows, within limits.
WellFormed(id, trace, command) ==
    args = <<"session", id>> \o (IF trace THEN <<"--trace">> ELSE <<>>)
               \o (IF command = <<>> THEN <<>> ELSE <<"--">> \o command)

\* The command behind "--" runs as it was typed, options, separators and
\* "--trace" of its own included, and the shell when there is none.  Whatever
\* the command line accepts, the startup reader and __child accept, too: the
\* limits are checked three times and must agree (cli.rs, read_startup_config,
\* parse_hidden_child).
CommandDelivered ==
    /\ runner # "refused" /\ child # "refused"
    /\ child = "running" =>
         \E id \in Ids, trace \in BOOLEAN, command \in {<<>>, argv} :
             /\ WellFormed(id, trace, command)
             /\ command = <<>> => argv = <<Shell>>

\* When launch_runner reports success there is a session to attach to: its
\* command was started and is not killed again, its record was written, and
\* the socket is there while it is served, whoever is killed in between.
ReadyMeansServing ==
    launcher = "ready" =>
        /\ recorded
        /\ child \notin {"none", "killed"}
        /\ runner = "serving" => files = SessionFiles

\* A start that was given up leaves no command running that no runner serves,
\* and no socket or lock, at whatever step it failed or the launcher died;
\* but for a socket that bind_session itself left, before any command.
NoStrayChild ==
    runner = "gone" /\ response # "ready" =>
        /\ child \in {"none", "killed"}
        /\ \/ files = {}
           \/ files = {"socket"} /\ child = "none" /\ response # "exists"

\* The caller always gets an answer: launch_runner returns although the runner
\* may refuse, fail or be killed anywhere, also while the configuration is
\* only half written.
LauncherReturns == (launcher # "run") ~> (launcher \in Returned)

=============================================================================

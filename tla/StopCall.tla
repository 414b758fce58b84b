------------------------------ MODULE StopCall ------------------------------
(***************************************************************************)
(* `afk stop` (attach.rs stop) as a client of the runner: it connects,     *)
(* sends one Stop record and reads until the connection closes, at most    *)
(* for seven seconds.  Only the closing answers it.  Linux closes with a   *)
(* reset (ECONNRESET) a connection with bytes nobody read, so the caller   *)
(* sees end of file exactly when the runner had read its record; a read    *)
(* that times out fails with WouldBlock, which is an error as well.        *)
(***************************************************************************)
EXTENDS Runner

VARIABLE answer   \* what the `afk stop` on a connection returned, "none" before
stopVars == <<vars, answer>>

Stops(c) == script[c] = <<"stop">>

\* The runner has taken c's record from the socket in this very step.
AnyEnd(c) == TRUE                             \* mutant: a reset counts as the end, too
RecordRead(c) == pc = "candidate" /\ candidate = c /\ conn[c].sent > 0 /\ ~Ended'

\* The caller's view of a step: it gave up (timeout, or killed), or its
\* connection was closed, accepted or not.
Returned(c) ==
    CASE conn'[c].hup -> "error"
      [] ~conn'[c].hup /\ Open(c) /\ ~Open(c)' -> IF RecordRead(c) THEN "ok" ELSE "error"
      [] OTHER -> "none"

StopInit == Init /\ answer = [c \in Conns |-> "none"]
StopNext ==
    /\ Next
    /\ answer' = [c \in Conns |-> IF Stops(c) /\ answer[c] = "none" THEN Returned(c) ELSE answer[c]]
StopSpec == StopInit /\ [][StopNext]_stopVars /\ Fairness

-----------------------------------------------------------------------------
\* `afk stop` never reports success for a stop the runner has not accepted,
\* though a newer connection may displace the candidate before it is read, and
\* the session may end at any moment (with StopCompletes: a stop that
\* reported success does end the session).
StopHonest == \A c \in Conns : answer[c] = "ok" => stopRequested

=============================================================================

---------------------------- MODULE Session_proofs ----------------------------
(***************************************************************************)
(* Proofs about modules Session and Listing, for any number of calls and   *)
(* runners.                                                                *)
(*                                                                         *)
(* TypeOK and NoStaleFiles hold however calls race.  The rest holds when   *)
(* runners start one after the other and no run is recorded during a       *)
(* cleanup (~Overlap): then one runner at a time is at work, what it is    *)
(* doing is told by the metadata file, and a call that was refused finds   *)
(* no record later, that of a lost run, or one that is newer.              *)
(***************************************************************************)
EXTENDS Listing, TLAPS

\* A call has no runner before it launches one, and launches one at most.
BeforeRecord == Starting \ {"report"}
Searching == {"idle", "open", "cleanOut", "cleanMeta", "connect", "metadata", "check"}
LaunchShape == \A k \in Calls :
    /\ call[k] = "idle" => attempt[k] = 1
    /\ call[k] # "done" => result[k] = "none"
    /\ call[k] = "check" => attempt[k] = 2
    /\ call[k] \in Searching /\ attempt[k] # 3 => run[k] = "none"
    /\ run[k] = "none" \/ run[k] \in BeforeRecord => k \notin committed

\* Whose socket, and whose lock, may be found at the session's paths.
SockHolders == {"listen", "lock", "record", "report", "serving", "output", "complete",
                "unlinkSock", "failed", "killed"}
LockHolders == {"record", "report", "serving", "output", "complete", "unlinkSock",
                "unlinkLock", "killed"}
FileShape == \A r \in Calls :
    /\ sock = r => run[r] \in SockHolders /\ ~(run[r] = "failed" /\ r \in committed)
    /\ lock = r => run[r] \in LockHolders

-----------------------------------------------------------------------------
Step(k) ==
    \/ Begin(k) \/ CallStep(k) \/ AttachmentEnds(k) \/ LauncherKilled(k)
    \/ NoConfig(k) \/ StartStep(k) \/ CommandEnds(k) \/ EndStep(k) \/ Fails(k) \/ Killed(k)
    \/ DayPasses(k)

USE DEF files, callVars, runVars

\* A step is a step of one call, of its runner, or of the day.
LEMMA TypeNext ==
    ASSUME TypeOK, LaunchShape, [Next]_vars
    PROVE  TypeOK'
<1> SUFFICES ASSUME NEW k \in Calls, Step(k) PROVE TypeOK'
  BY DEF Next, vars, TypeOK, Run, Step
<1> USE CallsAssumption DEF TypeOK, Run, CallLabels, Results, Starting, Ending, Over
<1>1. CASE Begin(k) \/ CallOpen(k) \/ Connect(k)
  BY <1>1
  DEF Begin, CallOpen, Opened, Connect, Goto
<1>2. CASE CallCleanOut(k) \/ CallCleanMeta(k) \/ ReplayOutput(k)
  BY <1>2
  DEF CallCleanOut, CallCleanMeta, ReplayOutput, Opened, Goto, NoMeta
<1>3. CASE ReadRecord(k) \/ Launched(k)
  BY <1>3
  DEF ReadRecord, Launched, Goto
<1>4. CASE Check(k)
  BY <1>4
  DEF Check, Goto, LaunchShape, Searching
<1>5. CASE AttachmentEnds(k) \/ LauncherKilled(k)
  <2>1. CASE AttachmentEnds(k)
    <3>1. PICK end \in {"left", "eof"} : result' = [result EXCEPT ![k] = end]
      BY <2>1 DEF AttachmentEnds
    <3> QED BY <2>1, <3>1 DEF AttachmentEnds, Goto
  <2>2. CASE LauncherKilled(k)
    BY <2>2 DEF LauncherKilled, Goto
  <2> QED BY <1>5, <2>1, <2>2
<1>6. CASE NoConfig(k) \/ OpenRegistry(k) \/ RemoveOutput(k) \/ RemoveRecord(k)
  BY <1>6
  DEF NoConfig, OpenRegistry, RemoveOutput, RemoveRecord, RunTo, NoMeta
<1>7. CASE ReadForBind(k) \/ LookForFiles(k) \/ Probe(k)
  BY <1>7
  DEF ReadForBind, Vacancy, LookForFiles, Probe, ProbeOutcome, RunTo
<1>8. CASE RemoveStaleSock(k) \/ RemoveStaleLock(k) \/ RemoveStaleRecord(k)
  BY <1>8
  DEF RemoveStaleSock, RemoveStaleLock, RemoveStaleRecord, RunTo, NoMeta
<1>9. CASE BindSocket(k) \/ Listen(k) \/ TakeLock(k)
  BY <1>9
  DEF BindSocket, Listen, TakeLock, SockOnLostLock, RunTo
<1>10. CASE WriteLive(k) \/ Report(k)
  BY <1>10
  DEF WriteLive, Live, Report, DropFiles, RunTo
<1>11. CASE CommandEnds(k) \/ WriteOutput(k) \/ WriteCompleted(k)
  BY <1>11
  DEF CommandEnds, AfterCommand, WriteOutput, WriteCompleted, Completed, RunTo
<1>12. CASE UnlinkSock(k) \/ UnlinkLock(k) \/ Close(k)
  BY <1>12
  DEF UnlinkSock, UnlinkLock, Close, DropFiles, RunTo
<1>13. CASE Fails(k) \/ Killed(k) \/ DayPasses(k)
  BY <1>13
  DEF Fails, Killed, DayPasses, DropFiles, RunTo
<1> QED BY <1>1, <1>2, <1>3, <1>4, <1>5, <1>6, <1>7, <1>8, <1>9, <1>10, <1>11, <1>12, <1>13 DEF Step, CallStep, StartStep, EndStep

LEMMA LaunchNext ==
    ASSUME TypeOK, LaunchShape, [Next]_vars
    PROVE  LaunchShape'
<1> SUFFICES ASSUME NEW k \in Calls, Step(k) PROVE LaunchShape'
  BY DEF Next, vars, LaunchShape, Step
<1> USE DEF TypeOK, LaunchShape, Searching, BeforeRecord, Starting
<1>1. CASE Begin(k) \/ CallOpen(k) \/ Connect(k)
  BY <1>1
  DEF Begin, CallOpen, Opened, Connect, Goto
<1>2. CASE CallCleanOut(k) \/ CallCleanMeta(k) \/ ReplayOutput(k)
  BY <1>2
  DEF CallCleanOut, CallCleanMeta, ReplayOutput, Opened, Goto, NoMeta
<1>3. CASE ReadRecord(k) \/ Launched(k)
  BY <1>3
  DEF ReadRecord, Launched, Goto
<1>4. CASE Check(k)
  BY <1>4
  DEF Check, Goto
<1>5. CASE AttachmentEnds(k) \/ LauncherKilled(k)
  BY <1>5
  DEF AttachmentEnds, LauncherKilled, Goto
<1>6. CASE NoConfig(k) \/ OpenRegistry(k) \/ RemoveOutput(k) \/ RemoveRecord(k)
  BY <1>6
  DEF NoConfig, OpenRegistry, RemoveOutput, RemoveRecord, RunTo, NoMeta
<1>7. CASE ReadForBind(k) \/ LookForFiles(k) \/ Probe(k)
  BY <1>7
  DEF ReadForBind, Vacancy, LookForFiles, Probe, ProbeOutcome, RunTo
<1>8. CASE RemoveStaleSock(k) \/ RemoveStaleLock(k) \/ RemoveStaleRecord(k)
  BY <1>8
  DEF RemoveStaleSock, RemoveStaleLock, RemoveStaleRecord, RunTo, NoMeta
<1>9. CASE BindSocket(k) \/ Listen(k) \/ TakeLock(k)
  BY <1>9
  DEF BindSocket, Listen, TakeLock, SockOnLostLock, RunTo
<1>10. CASE WriteLive(k) \/ Report(k)
  BY <1>10
  DEF WriteLive, Live, Report, DropFiles, RunTo
<1>11. CASE CommandEnds(k) \/ WriteOutput(k) \/ WriteCompleted(k)
  BY <1>11
  DEF CommandEnds, AfterCommand, WriteOutput, WriteCompleted, Completed, RunTo
<1>12. CASE UnlinkSock(k) \/ UnlinkLock(k) \/ Close(k)
  BY <1>12
  DEF UnlinkSock, UnlinkLock, Close, DropFiles, RunTo
<1>13. CASE Fails(k) \/ Killed(k) \/ DayPasses(k)
  BY <1>13
  DEF Fails, Killed, DayPasses, DropFiles, RunTo, Starting, Ending
<1> QED BY <1>1, <1>2, <1>3, <1>4, <1>5, <1>6, <1>7, <1>8, <1>9, <1>10, <1>11, <1>12, <1>13 DEF Step, CallStep, StartStep, EndStep

LEMMA FileNext ==
    ASSUME TypeOK, LaunchShape, FileShape, [Next]_vars
    PROVE  FileShape'
<1> SUFFICES ASSUME NEW k \in Calls, Step(k) PROVE FileShape'
  BY DEF Next, vars, FileShape, Step
<1> USE CallsAssumption DEF TypeOK, FileShape, SockHolders, LockHolders, LaunchShape, BeforeRecord, Starting
<1>1. CASE Begin(k) \/ CallOpen(k) \/ Connect(k)
  BY <1>1
  DEF Begin, CallOpen, Opened, Connect, Goto
<1>2. CASE CallCleanOut(k) \/ CallCleanMeta(k) \/ ReplayOutput(k)
  BY <1>2
  DEF CallCleanOut, CallCleanMeta, ReplayOutput, Opened, Goto, NoMeta
<1>3. CASE ReadRecord(k) \/ Launched(k)
  BY <1>3
  DEF ReadRecord, Launched, Goto
<1>4. CASE Check(k)
  BY <1>4
  DEF Check, Goto, LaunchShape, Searching
<1>5. CASE AttachmentEnds(k) \/ LauncherKilled(k)
  BY <1>5
  DEF AttachmentEnds, LauncherKilled, Goto
<1>6. CASE NoConfig(k) \/ OpenRegistry(k) \/ RemoveOutput(k) \/ RemoveRecord(k)
  BY <1>6
  DEF NoConfig, OpenRegistry, RemoveOutput, RemoveRecord, RunTo, NoMeta
<1>7. CASE ReadForBind(k) \/ LookForFiles(k) \/ Probe(k)
  BY <1>7
  DEF ReadForBind, Vacancy, LookForFiles, Probe, ProbeOutcome, RunTo
<1>8. CASE RemoveStaleSock(k) \/ RemoveStaleLock(k) \/ RemoveStaleRecord(k)
  BY <1>8
  DEF RemoveStaleSock, RemoveStaleLock, RemoveStaleRecord, RunTo, NoMeta
<1>9. CASE BindSocket(k) \/ Listen(k) \/ TakeLock(k)
  BY <1>9
  DEF BindSocket, Listen, TakeLock, SockOnLostLock, RunTo
<1>10. CASE WriteLive(k) \/ Report(k)
  BY <1>10
  DEF WriteLive, Live, Report, DropFiles, RunTo
<1>11. CASE CommandEnds(k) \/ WriteOutput(k) \/ WriteCompleted(k)
  BY <1>11
  DEF CommandEnds, AfterCommand, WriteOutput, WriteCompleted, Completed, RunTo
<1>12. CASE UnlinkSock(k) \/ UnlinkLock(k) \/ Close(k)
  BY <1>12
  DEF UnlinkSock, UnlinkLock, Close, DropFiles, RunTo
<1>13. CASE Fails(k) \/ Killed(k) \/ DayPasses(k)
  BY <1>13
  DEF Fails, Killed, DayPasses, DropFiles, RunTo
<1> QED BY <1>1, <1>2, <1>3, <1>4, <1>5, <1>6, <1>7, <1>8, <1>9, <1>10, <1>11, <1>12, <1>13 DEF Step, CallStep, StartStep, EndStep

LEMMA SessionFiles == Spec => [](TypeOK /\ LaunchShape /\ FileShape)
<1>1. Init => TypeOK /\ LaunchShape /\ FileShape
  BY CallsAssumption
  DEF Init, TypeOK, LaunchShape, FileShape, Searching, NoMeta, Run, CallLabels, Results
<1>2. TypeOK /\ LaunchShape /\ FileShape /\ [Next]_vars => (TypeOK /\ LaunchShape /\ FileShape)'
  BY TypeNext, LaunchNext, FileNext
<1> QED BY <1>1, <1>2, PTL DEF Spec

\* A runner that ended in order, gave way or failed leaves no lock behind, and a
\* socket only if it failed before it had the lock, in any race of calls and
\* runners and whatever of them is killed (bind_session's loser unlinks the
\* socket, SessionFiles' Drop both files).
THEOREM SessionNoStaleFiles == Spec => []NoStaleFiles
<1>1. FileShape => NoStaleFiles
  BY DEF FileShape, NoStaleFiles, SockHolders, LockHolders
<1> QED BY <1>1, SessionFiles, PTL

\* States are what the code can be in, and only a runner between listen(2) and
\* its end takes connections, however it ended.
THEOREM SessionTypeOK == Spec => []TypeOK
BY SessionFiles, PTL

-----------------------------------------------------------------------------
Active(r) == run[r] \in Starting \cup Ending \cup {"serving"}
Served == {"report", "serving", "output", "complete"}
Closing == {"unlinkSock", "unlinkLock", "drop"}
Lost == meta.kind = "live" /\ run[meta.by] \in {"failed", "killed"}

OneActive == \A r, s \in Calls : Active(r) /\ Active(s) => r = s

\* What a runner at work may rely on.
RunShape == \A r \in Calls :
    /\ run[r] \notin {"cleanOut", "cleanMeta", "purgeOut", "purgeMeta"}
    /\ run[r] \in BeforeRecord => meta = NoMeta
    /\ run[r] \in Served => meta = Live(r) /\ sock = r /\ r \in listening
    /\ run[r] \in {"listen", "lock", "record"} => sock = r
    /\ run[r] \in {"lock", "record"} => r \in listening
    /\ run[r] = "complete" => out = r
    /\ run[r] \in Closing => meta = Completed(r) /\ r \notin expired
    /\ r \in finished => run[r] \in Closing \cup {"ended", "killed"}

\* What the metadata file says is so.
MetaShape ==
    /\ expired \subseteq finished
    /\ \/ meta = NoMeta
       \/ \E r \in committed \ finished : meta = Live(r) /\ run[r] \in Served \cup {"failed", "killed"}
       \/ \E r \in finished : meta = Completed(r)
    /\ meta.kind # "completed" => finished \subseteq expired
    /\ Expired(meta) => \A r \in Calls : ~Active(r)

\* What a call acts on is still so: what it is about to remove is expired or
\* gone, and what refused it was no runner that it could have found.
CallShape == \A k \in Calls :
    /\ call[k] \in {"cleanOut", "cleanMeta"} => Expired(meta) \/ meta.kind = "none"
    /\ call[k] = "output" => peer[k] \in finished
    /\ call[k] \in {"connect", "metadata"} => attempt[k] # 2
    /\ Refused(k) =>
         \/ k \in early \/ meta.kind = "none" \/ Lost
         \/ call[k] = "metadata" /\ meta.kind = "completed"

KeptInv == OneActive /\ RunShape /\ MetaShape /\ RecordKept /\ CallShape /\ ReplayFaithful /\ UnavailableTruthful

\* While there is no record and none is being made, no runner is at work.
LEMMA IdleWithoutRecord ==
    ASSUME TypeOK, KeptInv, meta.kind = "none", NoneStarting, NEW j \in Calls
    PROVE  ~Active(j)
<1>1. ~(run[j] \in Served \cup Closing)
  BY DEF KeptInv, RunShape, Live, Completed
<1>2. ~(run[j] \in Starting)
  BY DEF NoneStarting
<1> QED BY <1>1, <1>2 DEF Active, Ending, Served, Closing, Starting

LEMMA OneActiveNext ==
    ASSUME ~Overlap, TypeOK, LaunchShape, KeptInv, NEW k \in Calls, Step(k)
    PROVE  OneActive'
<1> USE CallsAssumption DEF TypeOK, KeptInv, Expired, OneActive, Active, RunShape, CallShape, LaunchShape, Searching, Lost, MetaShape, Starting, Ending, BeforeRecord
<1>1. CASE Begin(k) \/ CallOpen(k) \/ Connect(k)
  BY <1>1
  DEF Begin, CallOpen, Opened, Connect, Goto
<1>2. CASE CallCleanOut(k) \/ CallCleanMeta(k) \/ ReplayOutput(k)
  BY <1>2
  DEF CallCleanOut, CallCleanMeta, ReplayOutput, Opened, Goto, NoMeta
<1>3. CASE ReadRecord(k) \/ Launched(k)
  BY <1>3
  DEF ReadRecord, Launched, Goto
<1>4. CASE Check(k)
  <2>1. CASE FailsClosed
    BY <1>4, <2>1 DEF Check
  <2>2. CASE ~FailsClosed
    <3>1. \A j \in Calls : ~Active(j)
      BY <1>4, <2>2, IdleWithoutRecord DEF Check, FailsClosed
    <3> QED BY <1>4, <2>2, <3>1 DEF Check
  <2> QED BY <2>1, <2>2
<1>5. CASE AttachmentEnds(k) \/ LauncherKilled(k)
  BY <1>5
  DEF AttachmentEnds, LauncherKilled, Goto
<1>6. CASE NoConfig(k) \/ OpenRegistry(k) \/ RemoveOutput(k) \/ RemoveRecord(k)
  BY <1>6
  DEF NoConfig, OpenRegistry, RemoveOutput, RemoveRecord, RunTo, NoMeta
<1>7. CASE ReadForBind(k) \/ LookForFiles(k) \/ Probe(k)
  BY <1>7
  DEF ReadForBind, Vacancy, LookForFiles, Probe, ProbeOutcome, RunTo
<1>8. CASE RemoveStaleSock(k) \/ RemoveStaleLock(k) \/ RemoveStaleRecord(k)
  BY <1>8
  DEF RemoveStaleSock, RemoveStaleLock, RemoveStaleRecord, RunTo, NoMeta
<1>9. CASE BindSocket(k) \/ Listen(k) \/ TakeLock(k)
  BY <1>9
  DEF BindSocket, Listen, TakeLock, SockOnLostLock, RunTo
<1>10. CASE WriteLive(k) \/ Report(k)
  BY <1>10
  DEF WriteLive, Live, Report, DropFiles, RunTo
<1>11. CASE CommandEnds(k) \/ WriteOutput(k) \/ WriteCompleted(k)
  BY <1>11
  DEF CommandEnds, AfterCommand, WriteOutput, WriteCompleted, Completed, RunTo
<1>12. CASE UnlinkSock(k) \/ UnlinkLock(k) \/ Close(k)
  BY <1>12
  DEF UnlinkSock, UnlinkLock, Close, DropFiles, RunTo
<1>13. CASE Fails(k) \/ Killed(k) \/ DayPasses(k)
  BY <1>13
  DEF Fails, Killed, DayPasses, DropFiles, RunTo
<1> QED BY <1>1, <1>2, <1>3, <1>4, <1>5, <1>6, <1>7, <1>8, <1>9, <1>10, <1>11, <1>12, <1>13 DEF Step, CallStep, StartStep, EndStep

LEMMA RecordNext ==
    ASSUME ~Overlap, TypeOK, LaunchShape, KeptInv, NEW k \in Calls, Step(k)
    PROVE  RecordKept'
<1> USE CallsAssumption DEF TypeOK, KeptInv, Expired, RecordKept, MetaShape, RunShape, CallShape, NoMeta, Live, Completed, BeforeRecord, Starting, Served, Closing
<1>1. CASE Begin(k) \/ CallOpen(k) \/ Connect(k)
  BY <1>1
  DEF Begin, CallOpen, Opened, Connect, Goto
<1>2. CASE CallCleanOut(k) \/ CallCleanMeta(k) \/ ReplayOutput(k)
  BY <1>2
  DEF CallCleanOut, CallCleanMeta, ReplayOutput, Opened, Goto, NoMeta
<1>3. CASE ReadRecord(k) \/ Launched(k)
  BY <1>3
  DEF ReadRecord, Launched, Goto
<1>4. CASE Check(k)
  BY <1>4
  DEF Check, Goto, FailsClosed
<1>5. CASE AttachmentEnds(k) \/ LauncherKilled(k)
  BY <1>5
  DEF AttachmentEnds, LauncherKilled, Goto
<1>6. CASE NoConfig(k) \/ OpenRegistry(k) \/ RemoveOutput(k) \/ RemoveRecord(k)
  BY <1>6
  DEF NoConfig, OpenRegistry, RemoveOutput, RemoveRecord, RunTo, NoMeta
<1>7. CASE ReadForBind(k) \/ LookForFiles(k) \/ Probe(k)
  BY <1>7
  DEF ReadForBind, Vacancy, LookForFiles, Probe, ProbeOutcome, RunTo
<1>8. CASE RemoveStaleSock(k) \/ RemoveStaleLock(k) \/ RemoveStaleRecord(k)
  BY <1>8
  DEF RemoveStaleSock, RemoveStaleLock, RemoveStaleRecord, RunTo, NoMeta
<1>9. CASE BindSocket(k) \/ Listen(k) \/ TakeLock(k)
  BY <1>9
  DEF BindSocket, Listen, TakeLock, SockOnLostLock, RunTo
<1>10. CASE WriteLive(k) \/ Report(k)
  BY <1>10
  DEF WriteLive, Live, Report, DropFiles, RunTo
<1>11. CASE CommandEnds(k) \/ WriteOutput(k) \/ WriteCompleted(k)
  BY <1>11
  DEF CommandEnds, AfterCommand, WriteOutput, WriteCompleted, Completed, RunTo
<1>12. CASE UnlinkSock(k) \/ UnlinkLock(k) \/ Close(k)
  BY <1>12
  DEF UnlinkSock, UnlinkLock, Close, DropFiles, RunTo
<1>13. CASE Fails(k) \/ Killed(k) \/ DayPasses(k)
  BY <1>13
  DEF Fails, Killed, DayPasses, DropFiles, RunTo
<1> QED BY <1>1, <1>2, <1>3, <1>4, <1>5, <1>6, <1>7, <1>8, <1>9, <1>10, <1>11, <1>12, <1>13 DEF Step, CallStep, StartStep, EndStep

LEMMA MetaNext ==
    ASSUME ~Overlap, TypeOK, LaunchShape, KeptInv, NEW k \in Calls, Step(k)
    PROVE  MetaShape'
<1> USE CallsAssumption DEF TypeOK, KeptInv, Expired, RecordKept, MetaShape, RunShape, CallShape, NoMeta, Live, Completed, Active, Starting, Ending, BeforeRecord, Served, Closing, LaunchShape, Searching
<1>1. CASE Begin(k) \/ CallOpen(k) \/ Connect(k)
  BY <1>1
  DEF Begin, CallOpen, Opened, Connect, Goto
<1>2. CASE CallCleanOut(k) \/ CallCleanMeta(k) \/ ReplayOutput(k)
  BY <1>2
  DEF CallCleanOut, CallCleanMeta, ReplayOutput, Opened, Goto, NoMeta
<1>3. CASE ReadRecord(k) \/ Launched(k)
  BY <1>3
  DEF ReadRecord, Launched, Goto
<1>4. CASE Check(k)
  BY <1>4
  DEF Check, Goto, FailsClosed
<1>5. CASE AttachmentEnds(k) \/ LauncherKilled(k)
  BY <1>5
  DEF AttachmentEnds, LauncherKilled, Goto
<1>6. CASE NoConfig(k) \/ OpenRegistry(k) \/ RemoveOutput(k) \/ RemoveRecord(k)
  BY <1>6
  DEF NoConfig, OpenRegistry, RemoveOutput, RemoveRecord, RunTo, NoMeta
<1>7. CASE ReadForBind(k) \/ LookForFiles(k) \/ Probe(k)
  BY <1>7
  DEF ReadForBind, Vacancy, LookForFiles, Probe, ProbeOutcome, RunTo
<1>8. CASE RemoveStaleSock(k) \/ RemoveStaleLock(k) \/ RemoveStaleRecord(k)
  BY <1>8
  DEF RemoveStaleSock, RemoveStaleLock, RemoveStaleRecord, RunTo, NoMeta
<1>9. CASE BindSocket(k) \/ Listen(k) \/ TakeLock(k)
  BY <1>9
  DEF BindSocket, Listen, TakeLock, SockOnLostLock, RunTo
<1>10. CASE WriteLive(k) \/ Report(k)
  BY <1>10
  DEF WriteLive, Live, Report, DropFiles, RunTo
<1>11. CASE CommandEnds(k) \/ WriteOutput(k) \/ WriteCompleted(k)
  BY <1>11
  DEF CommandEnds, AfterCommand, WriteOutput, WriteCompleted, Completed, RunTo
<1>12. CASE UnlinkSock(k) \/ UnlinkLock(k) \/ Close(k)
  BY <1>12
  DEF UnlinkSock, UnlinkLock, Close, DropFiles, RunTo
<1>13. CASE Fails(k) \/ Killed(k) \/ DayPasses(k)
  <2>1. CASE Fails(k)
    BY <2>1 DEF Fails, DropFiles, RunTo
  <2>2. CASE Killed(k)
    BY <2>2 DEF Killed, RunTo
  <2>3. CASE DayPasses(k)
    <3>1. meta = Completed(k) /\ run[k] \in Over
      BY <2>3 DEF DayPasses
    <3>2. \A r \in Calls : ~Active(r)
      <4> SUFFICES ASSUME NEW r \in Calls, Active(r) PROVE FALSE
        OBVIOUS
      <4>1. run[r] \in Closing /\ r # k
        BY <3>1 DEF Over
      <4> QED BY <3>1, <4>1
    <3> QED BY <2>3, <3>1, <3>2 DEF DayPasses
  <2> QED BY <1>13, <2>1, <2>2, <2>3
<1> QED BY <1>1, <1>2, <1>3, <1>4, <1>5, <1>6, <1>7, <1>8, <1>9, <1>10, <1>11, <1>12, <1>13 DEF Step, CallStep, StartStep, EndStep

LEMMA RunNext ==
    ASSUME ~Overlap, TypeOK, LaunchShape, KeptInv, NEW k \in Calls, Step(k)
    PROVE  RunShape'
<1> USE CallsAssumption DEF TypeOK, KeptInv, Expired, OneActive, RunShape, CallShape, MetaShape, LaunchShape, Searching, Lost, Active, Starting, Ending, BeforeRecord, Served, Closing, NoMeta, Live, Completed, RecordKept, Over
<1>1. CASE Begin(k) \/ CallOpen(k) \/ Connect(k)
  BY <1>1
  DEF Begin, CallOpen, Opened, Connect, Goto
<1>2. CASE CallCleanOut(k) \/ CallCleanMeta(k) \/ ReplayOutput(k)
  BY <1>2
  DEF CallCleanOut, CallCleanMeta, ReplayOutput, Opened, Goto, NoMeta
<1>3. CASE ReadRecord(k) \/ Launched(k)
  BY <1>3
  DEF ReadRecord, Launched, Answered, Goto
<1>4. CASE Check(k)
  BY <1>4
  DEF Check, Goto, FailsClosed
<1>5. CASE AttachmentEnds(k) \/ LauncherKilled(k)
  BY <1>5
  DEF AttachmentEnds, LauncherKilled, Goto
<1>6. CASE NoConfig(k) \/ OpenRegistry(k) \/ RemoveOutput(k) \/ RemoveRecord(k)
  BY <1>6
  DEF NoConfig, OpenRegistry, RemoveOutput, RemoveRecord, RunTo, NoMeta
<1>7. CASE ReadForBind(k) \/ LookForFiles(k) \/ Probe(k)
  BY <1>7
  DEF ReadForBind, Vacancy, LookForFiles, Probe, ProbeOutcome, RunTo
<1>8. CASE RemoveStaleSock(k) \/ RemoveStaleLock(k) \/ RemoveStaleRecord(k)
  BY <1>8
  DEF RemoveStaleSock, RemoveStaleLock, RemoveStaleRecord, RunTo, NoMeta
<1>9. CASE BindSocket(k) \/ Listen(k) \/ TakeLock(k)
  BY <1>9
  DEF BindSocket, Listen, TakeLock, SockOnLostLock, RunTo
<1>10. CASE WriteLive(k) \/ Report(k)
  BY <1>10
  DEF WriteLive, Live, Report, DropFiles, RunTo
<1>11. CASE CommandEnds(k) \/ WriteOutput(k) \/ WriteCompleted(k)
  BY <1>11
  DEF CommandEnds, AfterCommand, WriteOutput, WriteCompleted, Completed, RunTo
<1>12. CASE UnlinkSock(k) \/ UnlinkLock(k) \/ Close(k)
  BY <1>12
  DEF UnlinkSock, UnlinkLock, Close, DropFiles, RunTo
<1>13. CASE Fails(k) \/ Killed(k) \/ DayPasses(k)
  BY <1>13
  DEF Fails, Killed, DayPasses, DropFiles, RunTo
<1> QED BY <1>1, <1>2, <1>3, <1>4, <1>5, <1>6, <1>7, <1>8, <1>9, <1>10, <1>11, <1>12, <1>13 DEF Step, CallStep, StartStep, EndStep

LEMMA CallNext ==
    ASSUME ~Overlap, TypeOK, LaunchShape, KeptInv, NEW k \in Calls, Step(k)
    PROVE  CallShape'
<1> USE CallsAssumption DEF TypeOK, KeptInv, Expired, OneActive, RunShape, CallShape, MetaShape, Lost, Active, Starting, Ending, BeforeRecord, Served, Closing, NoMeta, Live, Completed, RecordKept, Reachable, Refused, LaunchShape
<1>1. CASE Begin(k) \/ CallOpen(k) \/ Connect(k)
  <2>1. CASE Begin(k)
    <3>1. /\ call[k] = "idle" /\ call' = [call EXCEPT ![k] = "open"]
          /\ UNCHANGED <<meta, attempt, peer, run, finished, expired>>
      BY <2>1 DEF Begin, Goto
    <3>2. attempt[k] = 1
      BY <3>1 DEF LaunchShape
    <3> QED BY <2>1, <3>1, <3>2 DEF Begin
  <2>2. CASE CallOpen(k)
    BY <2>2 DEF CallOpen, Opened, Goto
  <2>3. CASE Connect(k)
    BY <2>3 DEF Connect, Goto
  <2> QED BY <1>1, <2>1, <2>2, <2>3
<1>2. CASE CallCleanOut(k) \/ CallCleanMeta(k) \/ ReplayOutput(k)
  BY <1>2
  DEF CallCleanOut, CallCleanMeta, ReplayOutput, Opened, Goto, NoMeta
<1>3. CASE ReadRecord(k) \/ Launched(k)
  BY <1>3
  DEF ReadRecord, Launched, Goto
<1>4. CASE Check(k)
  BY <1>4
  DEF Check, Goto, FailsClosed
<1>5. CASE AttachmentEnds(k) \/ LauncherKilled(k)
  BY <1>5
  DEF AttachmentEnds, LauncherKilled, Goto
<1>6. CASE NoConfig(k) \/ OpenRegistry(k) \/ RemoveOutput(k) \/ RemoveRecord(k)
  BY <1>6
  DEF NoConfig, OpenRegistry, RemoveOutput, RemoveRecord, RunTo, NoMeta
<1>7. CASE ReadForBind(k) \/ LookForFiles(k) \/ Probe(k)
  BY <1>7
  DEF ReadForBind, Vacancy, LookForFiles, Probe, ProbeOutcome, RunTo
<1>8. CASE RemoveStaleSock(k) \/ RemoveStaleLock(k) \/ RemoveStaleRecord(k)
  BY <1>8
  DEF RemoveStaleSock, RemoveStaleLock, RemoveStaleRecord, RunTo, NoMeta
<1>9. CASE BindSocket(k) \/ Listen(k) \/ TakeLock(k)
  BY <1>9
  DEF BindSocket, Listen, TakeLock, SockOnLostLock, RunTo
<1>10. CASE WriteLive(k) \/ Report(k)
  BY <1>10
  DEF WriteLive, NoneCleaning, Live, Report, DropFiles, RunTo
<1>11. CASE CommandEnds(k) \/ WriteOutput(k) \/ WriteCompleted(k)
  BY <1>11
  DEF CommandEnds, AfterCommand, WriteOutput, WriteCompleted, Completed, RunTo
<1>12. CASE UnlinkSock(k) \/ UnlinkLock(k) \/ Close(k)
  BY <1>12
  DEF UnlinkSock, UnlinkLock, Close, DropFiles, RunTo
<1>13. CASE Fails(k) \/ Killed(k) \/ DayPasses(k)
  BY <1>13
  DEF Fails, Killed, DayPasses, DropFiles, RunTo
<1> QED BY <1>1, <1>2, <1>3, <1>4, <1>5, <1>6, <1>7, <1>8, <1>9, <1>10, <1>11, <1>12, <1>13 DEF Step, CallStep, StartStep, EndStep

LEMMA ResultNext ==
    ASSUME ~Overlap, TypeOK, LaunchShape, KeptInv, NEW k \in Calls, Step(k)
    PROVE  (ReplayFaithful /\ UnavailableTruthful)'
<1> USE CallsAssumption DEF TypeOK, KeptInv, Expired, ReplayFaithful, UnavailableTruthful, RunShape, CallShape, MetaShape, RecordKept, Live, Completed, NoMeta, Lost, LaunchShape, Searching, Refused, Served, Closing, Starting, Ending, BeforeRecord
<1>1. CASE Begin(k) \/ CallOpen(k) \/ Connect(k)
  BY <1>1
  DEF Begin, CallOpen, Opened, Connect, Goto
<1>2. CASE CallCleanOut(k) \/ CallCleanMeta(k) \/ ReplayOutput(k)
  BY <1>2
  DEF CallCleanOut, CallCleanMeta, ReplayOutput, Opened, Goto, NoMeta
<1>3. CASE ReadRecord(k) \/ Launched(k)
  BY <1>3
  DEF ReadRecord, Launched, Goto
<1>4. CASE Check(k)
  BY <1>4
  DEF Check, Goto, FailsClosed
<1>5. CASE AttachmentEnds(k) \/ LauncherKilled(k)
  BY <1>5
  DEF AttachmentEnds, LauncherKilled, Goto
<1>6. CASE NoConfig(k) \/ OpenRegistry(k) \/ RemoveOutput(k) \/ RemoveRecord(k)
  BY <1>6
  DEF NoConfig, OpenRegistry, RemoveOutput, RemoveRecord, RunTo, NoMeta
<1>7. CASE ReadForBind(k) \/ LookForFiles(k) \/ Probe(k)
  BY <1>7
  DEF ReadForBind, Vacancy, LookForFiles, Probe, ProbeOutcome, RunTo
<1>8. CASE RemoveStaleSock(k) \/ RemoveStaleLock(k) \/ RemoveStaleRecord(k)
  BY <1>8
  DEF RemoveStaleSock, RemoveStaleLock, RemoveStaleRecord, RunTo, NoMeta
<1>9. CASE BindSocket(k) \/ Listen(k) \/ TakeLock(k)
  BY <1>9
  DEF BindSocket, Listen, TakeLock, SockOnLostLock, RunTo
<1>10. CASE WriteLive(k) \/ Report(k)
  BY <1>10
  DEF WriteLive, Live, Report, DropFiles, RunTo
<1>11. CASE CommandEnds(k) \/ WriteOutput(k) \/ WriteCompleted(k)
  BY <1>11
  DEF CommandEnds, AfterCommand, WriteOutput, WriteCompleted, Completed, RunTo
<1>12. CASE UnlinkSock(k) \/ UnlinkLock(k) \/ Close(k)
  BY <1>12
  DEF UnlinkSock, UnlinkLock, Close, DropFiles, RunTo
<1>13. CASE Fails(k) \/ Killed(k) \/ DayPasses(k)
  BY <1>13
  DEF Fails, Killed, DayPasses, DropFiles, RunTo
<1> QED BY <1>1, <1>2, <1>3, <1>4, <1>5, <1>6, <1>7, <1>8, <1>9, <1>10, <1>11, <1>12, <1>13 DEF Step, CallStep, StartStep, EndStep

LEMMA KeptInit == Init => KeptInv
BY CallsAssumption
DEF Init, KeptInv, OneActive, RunShape, MetaShape, RecordKept, CallShape, ReplayFaithful,
    UnavailableTruthful, Active, Starting, Ending, BeforeRecord, Served, Closing, Refused,
    Expired, NoMeta

LEMMA KeptNext ==
    ASSUME ~Overlap, TypeOK, LaunchShape, KeptInv, [Next]_vars
    PROVE  KeptInv'
<1>1. CASE UNCHANGED vars
  BY <1>1
  DEF vars, KeptInv, OneActive, RunShape, MetaShape, RecordKept, CallShape, ReplayFaithful,
      UnavailableTruthful, Active, Refused, Expired, Lost
<1>2. CASE Next
  <2>1. PICK k \in Calls : Step(k)
    BY <1>2 DEF Next, Step
  <2> QED
    BY <2>1, OneActiveNext, RunNext, MetaNext, RecordNext, CallNext, ResultNext DEF KeptInv
<1> QED BY <1>1, <1>2

LEMMA SessionKept ==
    ASSUME ~Overlap
    PROVE  Spec => [](TypeOK /\ LaunchShape /\ KeptInv)
<1>1. Init => TypeOK /\ LaunchShape /\ KeptInv
  BY KeptInit, CallsAssumption
  DEF Init, TypeOK, LaunchShape, Searching, NoMeta, Run, CallLabels, Results
<1>2. TypeOK /\ LaunchShape /\ KeptInv /\ [Next]_vars => (TypeOK /\ LaunchShape /\ KeptInv)'
  BY TypeNext, LaunchNext, KeptNext
<1> QED BY <1>1, <1>2, PTL DEF Spec

\* For a day after a run completed its record and its output are there,
\* whatever calls do meanwhile and whatever is killed or fails, unless two
\* runners start at once or a run is recorded during a cleanup
\* (remove_completed only for an expired record, complete_session's order).
THEOREM SessionRecordKept ==
    ASSUME ~Overlap
    PROVE  Spec => []RecordKept
BY SessionKept, PTL DEF KeptInv

\* A replay is of the run whose record was read, also when another call's
\* cleanup comes between its two reads, unless that run's day ended before the
\* second (attach's read_metadata and read_output, cleanup_expired).
THEOREM SessionReplayFaithful ==
    ASSUME ~Overlap
    PROVE  Spec => []ReplayFaithful
BY SessionKept, PTL DEF KeptInv

\* A call is told that the runner is unavailable only when a run was lost, or
\* when the run it found recorded was recorded after it had been refused, with
\* calls that begin at any moment of a start (connect_or_start's two looks).
THEOREM SessionUnavailableTruthful ==
    ASSUME ~Overlap
    PROVE  Spec => []UnavailableTruthful
BY SessionKept, PTL DEF KeptInv

-----------------------------------------------------------------------------
(* The refinement: a step that writes or removes the record is a step of   *)
(* SessionAbs, every other one a stutter.                                  *)

LEMMA RecordRemoved ==
    ASSUME KeptInv, Expired(meta) \/ meta.kind = "none", meta' = NoMeta,
           UNCHANGED <<committed, expired>>
    PROVE  Abs!Next \/ UNCHANGED <<meta, committed, expired>>
<1>1. CASE Expired(meta)
  <2>1. Abs!Expire
    BY <1>1 DEF Abs!Expire, Expired, NoMeta
  <2> QED BY <2>1 DEF Abs!Next
<1>2. CASE meta.kind = "none"
  <2>1. meta = NoMeta
    BY <1>2 DEF KeptInv, MetaShape, Live, Completed
  <2> QED BY <2>1
<1> QED BY <1>1, <1>2

LEMMA AbsStep ==
    ASSUME ~Overlap, TypeOK, LaunchShape, KeptInv, NEW k \in Calls, Step(k)
    PROVE  Abs!Next \/ UNCHANGED <<meta, committed, expired>>
<1>1. CASE WriteLive(k)
  <2>1. meta = NoMeta /\ k \notin committed
    BY <1>1 DEF WriteLive, KeptInv, RunShape, LaunchShape, BeforeRecord, Starting
  <2>2. Abs!Create(k)
    BY <1>1, <2>1 DEF WriteLive, Abs!Create, Live, NoMeta
  <2> QED BY <2>2 DEF Abs!Next
<1>2. CASE WriteCompleted(k)
  <2>1. meta = Live(k)
    BY <1>2 DEF WriteCompleted, KeptInv, RunShape, Served
  <2>2. Abs!Finish(k)
    BY <1>2, <2>1 DEF WriteCompleted, Abs!Finish, Live, Completed
  <2> QED BY <2>2 DEF Abs!Next
<1>3. CASE DayPasses(k)
  <2>1. meta = Completed(k)
    BY <1>3 DEF DayPasses, KeptInv, RecordKept
  <2>2. Abs!Age(k)
    BY <1>3, <2>1 DEF DayPasses, Abs!Age, Completed
  <2> QED BY <2>2 DEF Abs!Next
<1>4. CASE CallCleanMeta(k)
  <2>1. Expired(meta) \/ meta.kind = "none"
    BY <1>4 DEF CallCleanMeta, KeptInv, CallShape
  <2> QED BY <1>4, <2>1, RecordRemoved DEF CallCleanMeta
<1>5. CASE RemoveRecord(k)
  BY <1>5 DEF RemoveRecord, KeptInv, RunShape
<1>6. CASE RemoveStaleRecord(k)
  <2>1. meta = NoMeta
    BY <1>6 DEF RemoveStaleRecord, KeptInv, RunShape, BeforeRecord, Starting
  <2> QED BY <1>6, <2>1 DEF RemoveStaleRecord
<1>7. CASE Begin(k) \/ AttachmentEnds(k) \/ LauncherKilled(k) \/ NoConfig(k) \/ CommandEnds(k)
             \/ Fails(k) \/ Killed(k)
  BY <1>7 DEF Begin, AttachmentEnds, LauncherKilled, NoConfig, CommandEnds, Fails, Killed
<1>8. CASE CallStep(k) /\ ~CallCleanMeta(k)
  BY <1>8
  DEF CallStep, CallOpen, CallCleanOut, Connect, ReadRecord, ReplayOutput, Check, Launched
<1>9. CASE StartStep(k) /\ ~RemoveRecord(k) /\ ~RemoveStaleRecord(k) /\ ~WriteLive(k)
  BY <1>9
  DEF StartStep, OpenRegistry, RemoveOutput, ReadForBind, LookForFiles, Probe, RemoveStaleSock,
      RemoveStaleLock, BindSocket, Listen, TakeLock, Report
<1>10. CASE EndStep(k) /\ ~WriteCompleted(k)
  BY <1>10 DEF EndStep, WriteOutput, UnlinkSock, UnlinkLock, Close
<1> QED
  BY <1>1, <1>2, <1>3, <1>4, <1>5, <1>6, <1>7, <1>8, <1>9, <1>10 DEF Step

\* The registry keeps SessionAbs' promises: one run per ID, completed once,
\* replaced only after its retention, and a lost run never replaced, whatever
\* process is killed or fails between two system calls.
THEOREM SessionImplementsAbs ==
    ASSUME ~Overlap
    PROVE  Spec => ImplementsSessionAbs
<1>1. Init => Abs!Init
  BY DEF Init, Abs!Init, NoMeta
<1>2. TypeOK /\ LaunchShape /\ KeptInv /\ [Next]_vars
        => [Abs!Next]_<<meta, committed, expired>>
  <2> SUFFICES ASSUME TypeOK, LaunchShape, KeptInv, [Next]_vars
               PROVE  Abs!Next \/ UNCHANGED <<meta, committed, expired>>
    OBVIOUS
  <2>1. CASE UNCHANGED vars
    BY <2>1 DEF vars
  <2>2. CASE Next
    <3>1. PICK k \in Calls : Step(k)
      BY <2>2 DEF Next, Step
    <3> QED BY <3>1, AbsStep
  <2> QED BY <2>1, <2>2
<1> QED BY <1>1, <1>2, SessionKept, PTL DEF Spec, ImplementsSessionAbs, Abs!Spec

-----------------------------------------------------------------------------
(* The same beside listings, whose cleanup may remove what a call or a     *)
(* runner has seen.                                                        *)

\* The record a listing is about to remove is expired, or was removed since.
LookShape == look \in {"cleanOut", "cleanMeta"} => Expired(meta) \/ meta.kind = "none"

BesideInv == TypeOK /\ LaunchShape /\ KeptInv /\ LookShape

LEMMA CleanupFree ==
    ASSUME KeptInv, Expired(meta) \/ meta.kind = "none"
    PROVE  /\ finished \subseteq expired
           /\ \A r \in Calls : run[r] \notin Served \cup Closing
<1>1. finished \subseteq expired
  BY DEF KeptInv, MetaShape, RecordKept, Expired, Completed
<1>2. \A r \in Calls : run[r] \notin Served \cup Closing
  BY DEF KeptInv, RunShape, Expired, Live, Completed
<1> QED BY <1>1, <1>2

LEMMA LookKept ==
    ASSUME BesideInv, LookStep
    PROVE  (TypeOK /\ LaunchShape /\ KeptInv)'
<1>1. CASE LookBegin \/ LookClean \/ LookSkip \/ LookVerify \/ LookOpen
  BY <1>1
  DEF LookBegin, LookClean, LookSkip, LookVerify, LookOpen, vars, BesideInv, TypeOK, LaunchShape,
      KeptInv, OneActive, RunShape, MetaShape, RecordKept, CallShape, ReplayFaithful,
      UnavailableTruthful, Active, Refused, Expired, Lost
<1>2. CASE LookCleanOut
  <2>1. Expired(meta) \/ meta.kind = "none"
    BY <1>2 DEF LookCleanOut, BesideInv, LookShape
  <2>2. finished \subseteq expired /\ \A r \in Calls : run[r] \notin Served \cup Closing
    BY <2>1, CleanupFree DEF BesideInv
  <2> QED
    BY <1>2, <2>1, <2>2
    DEF LookCleanOut, BesideInv, TypeOK, Run, LaunchShape, KeptInv, OneActive, RunShape, MetaShape,
        RecordKept, CallShape, ReplayFaithful, UnavailableTruthful, Active, Refused, Expired, Lost,
        Served
<1>3. CASE LookCleanMeta
  <2>1. Expired(meta) \/ meta.kind = "none"
    BY <1>3 DEF LookCleanMeta, BesideInv, LookShape
  <2>2. finished \subseteq expired /\ \A r \in Calls : run[r] \notin Served \cup Closing
    BY <2>1, CleanupFree DEF BesideInv
  <2> QED
    BY <1>3, <2>1, <2>2
    DEF LookCleanMeta, BesideInv, TypeOK, Run, LaunchShape, KeptInv, OneActive, RunShape, MetaShape,
        RecordKept, CallShape, ReplayFaithful, UnavailableTruthful, Active, Refused, Expired, Lost,
        NoMeta
<1> QED BY <1>1, <1>2, <1>3 DEF LookStep

\* Without Overlap no run is recorded over the listing's removal, and only
\* that would put an unexpired record in its way.
LEMMA LookShapeNext ==
    ASSUME ~Overlap, BesideInv, [ListingNext]_listingVars
    PROVE  LookShape'
<1>1. CASE LookStep
  BY <1>1
  DEF LookStep, LookBegin, LookClean, LookCleanOut, LookCleanMeta, LookSkip, LookVerify, LookOpen,
      vars, BesideInv, LookShape, Expired, NoMeta
<1>2. CASE Next /\ CleanupAlone /\ UNCHANGED lookVars
  <2>1. PICK k \in Calls : Step(k)
    BY <1>2 DEF Next, Step
  <2>2. CASE look \in {"cleanOut", "cleanMeta"}
    <3>1. Expired(meta) \/ meta.kind = "none"
      BY <2>2 DEF BesideInv, LookShape
    <3>2. committed' = committed
      BY <1>2, <2>2 DEF CleanupAlone
    <3>3. ~WriteLive(k)
      BY <3>2 DEF WriteLive, BesideInv, LaunchShape, BeforeRecord, Starting
    <3>4. ~WriteCompleted(k)
      BY <3>1, CleanupFree DEF WriteCompleted, BesideInv, Served
    <3>5. meta' \in {meta, NoMeta} /\ expired \subseteq expired'
      <4>1. CASE CallStep(k)
        BY <4>1
        DEF CallStep, CallOpen, CallCleanOut, CallCleanMeta, Connect, ReadRecord, ReplayOutput,
            Check, Launched
      <4>2. CASE StartStep(k)
        BY <4>2, <3>3
        DEF StartStep, OpenRegistry, RemoveOutput, RemoveRecord, ReadForBind, LookForFiles, Probe,
            RemoveStaleSock, RemoveStaleLock, RemoveStaleRecord, BindSocket, Listen, TakeLock, Report
      <4>3. CASE EndStep(k)
        BY <4>3, <3>4 DEF EndStep, WriteOutput, UnlinkSock, UnlinkLock, Close
      <4> QED
        BY <2>1, <4>1, <4>2, <4>3
        DEF Step, Begin, AttachmentEnds, LauncherKilled, NoConfig, CommandEnds, Fails, Killed,
            DayPasses
    <3> QED BY <1>2, <3>1, <3>5 DEF LookShape, lookVars, Expired, NoMeta, BesideInv
  <2> QED BY <1>2, <2>2 DEF LookShape, lookVars, BesideInv
<1>3. CASE UNCHANGED listingVars
  BY <1>3 DEF listingVars, vars, lookVars, BesideInv, LookShape, Expired
<1> QED BY <1>1, <1>2, <1>3 DEF ListingNext

LEMMA BesideNext ==
    ASSUME ~Overlap, BesideInv, [ListingNext]_listingVars
    PROVE  BesideInv'
<1>1. CASE LookStep
  BY <1>1, LookKept, LookShapeNext DEF BesideInv
<1>2. CASE [Next]_vars
  BY <1>2, TypeNext, LaunchNext, KeptNext, LookShapeNext DEF BesideInv
<1> QED BY <1>1, <1>2 DEF ListingNext, listingVars

LEMMA ListingKept ==
    ASSUME ~Overlap
    PROVE  ListingSpec => []BesideInv
<1>1. ListingInit => BesideInv
  BY KeptInit, CallsAssumption
  DEF ListingInit, BesideInv, LookShape, Init, TypeOK, LaunchShape, Searching, NoMeta, Run,
      CallLabels, Results
<1>2. BesideInv /\ [ListingNext]_listingVars => BesideInv'
  BY BesideNext
<1> QED BY <1>1, <1>2, PTL DEF ListingSpec

\* A session that is served throughout a listing is in it, and the listing
\* does not fail over it (read_bounded_file's two looks at the record).
THEOREM ListingServingListed ==
    ASSUME ~Overlap
    PROVE  ListingSpec => ServingListed
<1>1. BesideInv /\ [ListingNext]_listingVars
        => [look' = "over" /\ look # "over" /\ since \in Calls /\ run[since] = "serving" =>
              look = "open" /\ meta = Live(since)]_listingVars
  <2> SUFFICES ASSUME BesideInv, ListingNext, look' = "over", look # "over",
                      since \in Calls, run[since] = "serving"
               PROVE  look = "open" /\ meta = Live(since)
    OBVIOUS
  <2>1. LookSkip \/ LookOpen
    BY DEF ListingNext, lookVars, LookStep, LookBegin, LookClean, LookCleanOut, LookCleanMeta,
           LookVerify
  <2>2. meta = Live(since)
    BY DEF BesideInv, KeptInv, RunShape, Served
  <2> QED BY <2>1, <2>2 DEF LookSkip, LookOpen, Live
<1> QED BY <1>1, ListingKept, PTL DEF ListingSpec, ServingListed

=============================================================================

--------------------------- MODULE RunnerEnd_proofs ---------------------------
(***************************************************************************)
(* Proofs about module Runner: what is on disk and what clients were told  *)
(* when a session ends, and that its record tells the truth about the      *)
(* attachment while it lives.                                              *)
(*                                                                         *)
(* Each part of EndInv is a place of the loop made explicit: what is known *)
(* of the child and of the bytes in the PTY there, which files are written *)
(* and what had_attachment and the poll's events say of the attachment.    *)
(***************************************************************************)
EXTENDS Runner_proofs

Recorded == {"unlink", "notify", "exit", "completed"}

\* Behind the loop the child's status is known, and a SIGTERM was asked for.
ExitKnown ==
    /\ pc \in {"final", "completed"} \cup Completing => exit = child /\ child \in ExitStatus
    /\ pc \in Stopping => stopRequested

\* complete_session: which of its writes are done at each place of it.
RecordShape ==
    /\ meta.kind = "completed" => pc \in Recorded \cup {"killed"}
    /\ pc \in Recorded => meta.kind = "completed"
    /\ pc = "metadata" => outFile = [lo |-> tail.lo, hi |-> tail.hi]
    /\ pc \in {"notify", "exit", "completed"} => ~liveFiles

\* No Exit record is queued before the last step.
NoExitIn(stream) == \A i \in 1..Len(stream) : stream[i] # ExitRecord
ExitSentLast == pc # "completed" => \A c \in Conns : NoExitIn(conn[c].stream)

\* What the PTY can still hold when the child has exited, and what the final
\* drain has left of it.
DrainShape ==
    /\ nRead <= written /\ written - nRead <= PtyCapacity /\ writtenAtExit <= written
    /\ processed # 0 => pc \in {"drain", "final", "failed", "killed"}
    /\ pc = "final" => writtenAtExit <= nRead - processed + PtyCapacity
    /\ pc \in {"completed"} \cup Completing /\ ~stopRequested => writtenAtExit <= nRead

\* The record against the attachment, place by place: the drain is judged by
\* had_attachment, the PTY write by what poll saw, the active block by Settle.
AttachedShape ==
    /\ pc \in {"drain", "reap"} => (meta.attached <=> had) /\ (active # NoConn => had)
    /\ pc \in {"poll", "accept", "candidate", "join", "stop"} => (meta.attached <=> active # NoConn)
    /\ pc = "input" => (meta.attached <=> events.act) /\ (active # NoConn => events.act)
    /\ pc \in {"flush", "read", "apply", "settle"} => meta.attached

EndInv ==
    ExitKnown /\ RecordShape /\ CompletedRecordTrue /\ ExitSentLast /\ DrainShape
        /\ NaturalExitKeepsOutput

USE DEF still, ptyVars, fileVars, inputVars, loopVars, slotVars, besideActive

-----------------------------------------------------------------------------
(* Frames: what a group of steps can change.                                *)

\* A step of the loop stays in the loop, except where the child is found to
\* have exited and where a stop was asked for; it writes no completion record.
LEMMA LoopFrame ==
    ASSUME LoopStep
    PROVE  /\ pc \in Looping \cup {"final"}
           /\ UNCHANGED <<child, written, writtenAtExit, outFile, liveFiles>>
           /\ stopRequested => stopRequested'
           /\ meta' = meta \/ meta'.kind = "live"
           /\ DrainRead \/ UNCHANGED <<nRead, tail>>
           /\ \/ pc' \in Looping /\ exit' = exit
              \/ DrainRead /\ pc = "final" /\ pc' = "final" /\ exit' = exit
              \/ DrainEnd /\ pc = "final" /\ pc' = "output" /\ exit' = exit
              \/ Reap /\ child \in ExitStatus /\ exit' = child /\ pc' = "final"
              \/ StopCheck /\ stopRequested /\ pc' = "term" /\ exit' = exit
<1>1. CASE DrainRead
  BY <1>1 DEF DrainRead, Looping
<1>2. CASE DrainEnd
  BY <1>2 DEF DrainEnd, AfterDrain, Looping
<1>3. CASE Reap
  BY <1>3 DEF Reap, ChildExited, AfterExit, Looping, LiveMeta
<1>4. CASE Poll
  BY <1>4 DEF Poll, AfterPoll, AfterInput, AfterActive, AfterAccept, Looping
<1>5. CASE FlushInput \/ FlushActive \/ ReadActive
  BY <1>5 DEF FlushInput, FlushActive, ReadActive, AfterInput, AfterActive, AfterAccept, Looping
<1>6. CASE ApplyActive \/ ApplyActiveEnd \/ Settle
  BY <1>6 DEF ApplyActive, ApplyRecord, ApplyActiveEnd, Settle, Settled, LiveMeta, AfterActive,
     AfterAccept, Looping
<1>7. CASE Accept \/ AcceptEnd
  BY <1>7 DEF Accept, AcceptEnd, AfterAccept, Looping
<1>8. CASE CandidateBatch \/ CandidateReadFailed \/ CandidateNothing
  <2>1. CASE CandidateNothing
    BY <2>1 DEF CandidateNothing, Looping
  <2>2. ASSUME pc = "candidate", DropCandidate, stopRequested => stopRequested'
        PROVE  pc' = "stop" /\ UNCHANGED <<ptyVars, fileVars, exit>>
    BY <2>2 DEF DropCandidate
  <2>3. ASSUME NEW n, CandidateAttach(n)
        PROVE  pc' = "join" /\ UNCHANGED <<ptyVars, fileVars, exit, stopRequested>>
    BY <2>3 DEF CandidateAttach
  <2> QED
    BY <1>8, <2>1, <2>2, <2>3 DEF CandidateBatch, CandidateStop, CandidateRejected,
       CandidateReadFailed, Looping
<1>9. CASE ApplyJoining \/ Activate \/ JoinRejected
  BY <1>9 DEF ApplyJoining, ApplyRecord, Activate, JoinRejected, LiveMeta, Looping
<1>10. CASE StopCheck
  BY <1>10 DEF StopCheck, Looping
<1> QED BY <1>1, <1>2, <1>3, <1>4, <1>5, <1>6, <1>7, <1>8, <1>9, <1>10 DEF LoopStep

\* A client or a signal changes no file and nothing of the child or the PTY.
LEMMA OutsideFrame ==
    ASSUME PollInterrupted \/ Killed \/ \E c \in Conns : Connect(c) \/ Send(c) \/ HangUp(c)
    PROVE  /\ UNCHANGED <<ptyVars, fileVars, stopRequested, exit>>
           /\ \/ pc' = pc
              \/ pc = "poll" /\ pc' = "drain"
              \/ pc \notin Ends /\ pc' = "killed"
BY DEF PollInterrupted, Killed, Connect, Send, HangUp, Ended

-----------------------------------------------------------------------------
(* The end of a session.                                                    *)

LEMMA ExitKnownNext ==
    ASSUME IInv, ExitKnown, [Next]_vars
    PROVE  ExitKnown'
<1>1. CASE LoopStep
  BY <1>1, LoopFrame DEF ExitKnown, Looping, Stopping, Completing, DrainEnd
<1>2. CASE StopStep
  BY <1>2 DEF StopStep, Reaped, Terminate, GraceOver, KillChild, ExitKnown, Stopping, Completing
<1>3. CASE CompleteStep
  BY <1>3 DEF CompleteStep, WriteOutput, WriteCompleted, AfterRecord, RemoveLiveFiles, FlushLast,
     SendExit, ExitKnown, Stopping, Completing
<1>4. CASE PollInterrupted \/ Killed \/ \E c \in Conns : Connect(c) \/ Send(c) \/ HangUp(c)
  BY <1>4, OutsideFrame DEF ExitKnown, Stopping, Completing
<1>5. CASE Fails \/ ChildWrites
  BY <1>5 DEF Fails, ChildWrites, ExitKnown, Stopping, Completing
<1>6. CASE ChildExits
  BY <1>6, StatusAssumption DEF ChildExits, ExitKnown, Stopping, Completing
<1>7. CASE UNCHANGED vars
  BY <1>7 DEF vars, ExitKnown
<1> QED BY <1>1, <1>2, <1>3, <1>4, <1>5, <1>6, <1>7 DEF Next, RunnerStep

LEMMA RecordShapeNext ==
    ASSUME IInv, ExitKnown, RecordShape, [Next]_vars
    PROVE  RecordShape'
<1>1. CASE LoopStep
  BY <1>1, LoopFrame DEF RecordShape, Recorded, Looping
<1>2. CASE StopStep
  BY <1>2 DEF StopStep, Reaped, Terminate, GraceOver, KillChild, RecordShape, Recorded, Stopping
<1>3. CASE CompleteStep
  BY <1>3 DEF CompleteStep, WriteOutput, WriteCompleted, CompletedMeta, AfterRecord,
     RemoveLiveFiles, FlushLast, SendExit, RecordShape, Recorded
<1>4. CASE PollInterrupted \/ Killed \/ \E c \in Conns : Connect(c) \/ Send(c) \/ HangUp(c)
  BY <1>4, OutsideFrame DEF RecordShape, Recorded, Ends
<1>5. CASE Fails \/ ChildWrites \/ ChildExits
  BY <1>5 DEF Fails, ChildWrites, ChildExits, RecordShape, Recorded, Looping, Stopping
<1>6. CASE UNCHANGED vars
  BY <1>6 DEF vars, RecordShape
<1> QED BY <1>1, <1>2, <1>3, <1>4, <1>5, <1>6 DEF Next, RunnerStep

LEMMA RecordTrueNext ==
    ASSUME IInv, ExitKnown, RecordShape, CompletedRecordTrue, [Next]_vars
    PROVE  CompletedRecordTrue'
<1>1. CASE LoopStep
  BY <1>1, LoopFrame DEF RecordShape, Recorded, Looping, CompletedRecordTrue
<1>2. CASE StopStep
  BY <1>2 DEF StopStep, Reaped, Terminate, GraceOver, KillChild, RecordShape, Recorded, Stopping,
     CompletedRecordTrue
<1>3. CASE WriteCompleted
  BY <1>3 DEF WriteCompleted, CompletedMeta, TailLen, IInv, TailShape, RecordShape, ExitKnown,
     Completing, CompletedRecordTrue
<1>4. CASE WriteOutput
  BY <1>4 DEF WriteOutput, RecordShape, Recorded, CompletedRecordTrue
<1>5. CASE RemoveLiveFiles \/ FlushLast \/ SendExit
  BY <1>5 DEF RemoveLiveFiles, FlushLast, SendExit, CompletedRecordTrue
<1>6. CASE PollInterrupted \/ Killed \/ \E c \in Conns : Connect(c) \/ Send(c) \/ HangUp(c)
  BY <1>6, OutsideFrame DEF CompletedRecordTrue
<1>7. CASE Fails \/ ChildWrites
  BY <1>7 DEF Fails, ChildWrites, CompletedRecordTrue
<1>8. CASE ChildExits
  <2>1. child \notin ExitStatus /\ pc \notin Ends
    BY <1>8, StatusAssumption DEF ChildExits, Ended
  <2>2. meta.kind # "completed"
    BY <2>1 DEF RecordShape, Recorded, ExitKnown, Completing, Ends
  <2> QED BY <1>8, <2>2 DEF ChildExits, CompletedRecordTrue
<1>9. CASE UNCHANGED vars
  BY <1>9 DEF vars, CompletedRecordTrue
<1> QED
  BY <1>1, <1>2, <1>3, <1>4, <1>5, <1>6, <1>7, <1>8, <1>9 DEF Next, RunnerStep, CompleteStep

-----------------------------------------------------------------------------
(* The Exit record.                                                         *)

\* Output, marked or not, is no Exit record.
LEMMA NoExitInBytes ==
    ASSUME NEW lo \in Nat, NEW hi \in Nat, lo <= hi + 1
    PROVE  NoExitIn(Bytes(lo, hi))
<1>1. hi - lo + 1 \in Nat
  OBVIOUS
<1>2. Len(Bytes(lo, hi)) = hi - lo + 1
  BY <1>1 DEF Bytes
<1>3. \A i \in 1..(hi - lo + 1) : Bytes(lo, hi)[i] = lo + i - 1 /\ lo + i - 1 \in Nat
  BY DEF Bytes
<1> QED BY <1>2, <1>3 DEF NoExitIn, ExitRecord

LEMMA NoExitInConcat ==
    ASSUME NEW s \in Seq(Int), NEW t \in Seq(Int), NoExitIn(s), NoExitIn(t)
    PROVE  NoExitIn(s \o t)
<1>1. /\ Len(s) \in Nat /\ Len(t) \in Nat /\ Len(s \o t) = Len(s) + Len(t)
      /\ \A i \in 1..(Len(s) + Len(t)) :
           (s \o t)[i] = IF i <= Len(s) THEN s[i] ELSE t[i - Len(s)]
  BY ConcatProperties, LenProperties
<1> SUFFICES ASSUME NEW i \in 1..(Len(s) + Len(t)) PROVE (s \o t)[i] # ExitRecord
  BY <1>1 DEF NoExitIn
<1>2. CASE i <= Len(s)
  BY <1>1, <1>2 DEF NoExitIn
<1>3. CASE i > Len(s)
  BY <1>1, <1>3 DEF NoExitIn
<1> QED BY <1>1, <1>2, <1>3

LEMMA NoExitInReplay ==
    ASSUME IInv
    PROVE  NoExitIn(Replay)
<1>1. tail.lo \in Nat /\ tail.hi \in Nat /\ tail.lo <= tail.hi + 1
  BY DEF IInv, TypeOK, PtyType, TailShape
<1>2. NoExitIn(Bytes(tail.lo, tail.hi)) /\ Bytes(tail.lo, tail.hi) \in Seq(Int)
  BY <1>1, NoExitInBytes, BytesType
<1>3. NoExitIn(<<>>) /\ NoExitIn(<<Marker>>)
  BY DEF NoExitIn, Marker, ExitRecord
<1>4. <<>> \in Seq(Int) /\ <<Marker>> \in Seq(Int)
  BY DEF Marker
<1> QED BY <1>2, <1>3, <1>4, NoExitInConcat DEF Replay

\* Steps that leave a stream, or drop it, queue no Exit record.
LEMMA StreamsKeptNoExit ==
    ASSUME ExitSentLast, pc # "completed",
           \A c \in Conns : \/ conn'[c].stream = conn[c].stream
                            \/ conn'[c].stream = <<>>
    PROVE  ExitSentLast'
<1>1. NoExitIn(<<>>)
  BY DEF NoExitIn
<1> QED BY <1>1 DEF ExitSentLast, NoExitIn

\* Connections dropped or left alone.
LEMMA DroppedNoExit ==
    ASSUME IInv, ExitSentLast, pc # "completed", NEW c,
           conn' = conn \/ conn' = Without(c)
    PROVE  ExitSentLast'
<1>1. conn \in [Conns -> ConnType]
  BY DEF IInv, TypeOK, ClientType
<1>2. \A d \in Conns : conn'[d].stream = conn[d].stream \/ conn'[d].stream = <<>>
  BY <1>1 DEF Without, NoConnection
<1> QED BY <1>2, StreamsKeptNoExit

LEMMA DrainReadNoExit ==
    ASSUME IInv, ExitSentLast, DrainRead
    PROVE  ExitSentLast'
<1>1. pc # "completed" /\ conn \in [Conns -> ConnType] /\ active \in Conns \cup {NoConn}
  BY DEF DrainRead, IInv, TypeOK, ClientType, SlotType
<1>2. PICK n \in 1..IoChunk : EnqueueLive(n)
  BY DEF DrainRead
<1>3. CASE DropActive
  BY <1>1, <1>3, DroppedNoExit DEF DropActive
<1>4. CASE active # NoConn /\ Fits(n) /\ conn' = [conn EXCEPT ![active].queue = @ + Wire(n),
               ![active].stream = @ \o Bytes(nRead + 1, nRead + n)]
  <2>1. active \in Conns /\ NoExitIn(conn[active].stream) /\ conn[active].stream \in Seq(Int)
    BY <1>1, <1>4, ConnFields DEF ExitSentLast
  <2>2. nRead \in Nat /\ n \in Nat
    BY SizeFacts DEF IInv, TypeOK, PtyType
  <2>3. /\ NoExitIn(Bytes(nRead + 1, nRead + n))
        /\ Bytes(nRead + 1, nRead + n) \in Seq(Int)
    BY <2>2, NoExitInBytes, BytesType
  <2>4. NoExitIn(conn[active].stream \o Bytes(nRead + 1, nRead + n))
    BY <2>1, <2>3, NoExitInConcat
  <2>5. /\ conn'[active].stream = conn[active].stream \o Bytes(nRead + 1, nRead + n)
        /\ \A d \in Conns \ {active} : conn'[d] = conn[d]
    BY <1>1, <1>4, <2>1 DEF ConnType
  <2> QED BY <1>1, <2>4, <2>5 DEF ExitSentLast, NoExitIn
<1> QED BY <1>2, <1>3, <1>4 DEF EnqueueLive, DropSlow

LEMMA CandidateAttachNoExit ==
    ASSUME IInv, ExitSentLast, pc = "candidate", NEW n, CandidateAttach(n)
    PROVE  ExitSentLast'
<1>1. conn \in [Conns -> ConnType] /\ candidate \in Conns
  BY DEF IInv, TypeOK, ClientType, SlotShape
<1>2. /\ conn'[candidate].stream = Replay
      /\ \A d \in Conns \ {candidate} : conn'[d] = conn[d]
  BY <1>1 DEF CandidateAttach, ConnType
<1> QED BY <1>2, NoExitInReplay DEF ExitSentLast, NoExitIn

\* The loop queues output and replays, and drops connections.
LEMMA LoopNoExit ==
    ASSUME IInv, ExitSentLast, LoopStep
    PROVE  ExitSentLast'
<1>1. pc # "completed" /\ conn \in [Conns -> ConnType] /\ active \in Conns \cup {NoConn}
  BY LoopFrame DEF Looping, IInv, TypeOK, ClientType, SlotType
<1>2. CASE DrainRead
  BY <1>2, DrainReadNoExit
<1>3. CASE conn' = conn
  BY <1>1, <1>3, DroppedNoExit
<1>4. CASE DropActive \/ DropCandidate
  BY <1>1, <1>4, DroppedNoExit DEF DropActive, DropCandidate
<1>5. CASE Accept \/ JoinRejected
  BY <1>1, <1>5, DroppedNoExit DEF Accept, JoinRejected
<1>6. CASE Activate
  <2>1. \A d \in Conns : conn'[d].stream = conn[d].stream \/ conn'[d].stream = <<>>
    BY <1>6 DEF Activate, NoConnection
  <2> QED BY <1>1, <2>1, StreamsKeptNoExit
<1>7. CASE FlushActive
  <2>1. ASSUME active # NoConn, NEW n, conn' = [conn EXCEPT ![active].queue = n]
        PROVE  \A d \in Conns : conn'[d].stream = conn[d].stream
    BY <1>1, <2>1 DEF ConnType
  <2> QED BY <1>1, <1>3, <1>4, <1>7, <2>1, StreamsKeptNoExit DEF FlushActive
<1>8. CASE ReadActive
  <2>1. ASSUME active # NoConn, NEW n, conn' = [conn EXCEPT ![active].taken = @ + n]
        PROVE  \A d \in Conns : conn'[d].stream = conn[d].stream
    BY <1>1, <2>1 DEF ConnType
  <2> QED BY <1>1, <1>3, <1>4, <1>8, <2>1, StreamsKeptNoExit DEF ReadActive
<1>9. CASE CandidateBatch
  <2>1. pc = "candidate"
    BY <1>9 DEF CandidateBatch
  <2> QED BY <1>4, <1>9, <2>1, CandidateAttachNoExit DEF CandidateBatch, CandidateStop,
         CandidateRejected
<1>10. CASE DrainEnd \/ Reap \/ Poll \/ Settle \/ AcceptEnd \/ CandidateNothing \/ StopCheck
  BY <1>3, <1>10 DEF DrainEnd, Reap, Poll, Settle, AcceptEnd, CandidateNothing, StopCheck
<1>11. CASE FlushInput \/ ApplyActiveEnd \/ CandidateReadFailed
  BY <1>3, <1>4, <1>11 DEF FlushInput, ApplyActiveEnd, CandidateReadFailed
<1>12. CASE ApplyActive \/ ApplyJoining
  BY <1>3, <1>12 DEF ApplyActive, ApplyJoining, ApplyRecord
<1> QED BY <1>2, <1>5, <1>6, <1>7, <1>8, <1>9, <1>10, <1>11, <1>12 DEF LoopStep

LEMMA ExitSentNext ==
    ASSUME IInv, RecordShape, ExitSentLast, [Next]_vars
    PROVE  ExitSentLast'
<1>1. conn \in [Conns -> ConnType]
  BY DEF IInv, TypeOK, ClientType
<1>2. CASE LoopStep
  BY <1>2, LoopNoExit
<1>3. CASE StopStep
  BY <1>3, DroppedNoExit DEF StopStep, Reaped, Terminate, GraceOver, KillChild, Stopping
<1>4. CASE WriteOutput \/ WriteCompleted \/ RemoveLiveFiles
  BY <1>4, DroppedNoExit DEF WriteOutput, WriteCompleted, RemoveLiveFiles
<1>5. CASE FlushLast
  <2>1. pc # "completed"
    BY <1>5 DEF FlushLast
  <2>2. ASSUME NEW n, conn' = [conn EXCEPT ![active].queue = n]
        PROVE  \A d \in Conns : conn'[d].stream = conn[d].stream
    BY <1>1, <2>2 DEF ConnType
  <2> QED BY <1>5, <2>1, <2>2, StreamsKeptNoExit DEF FlushLast
<1>6. CASE SendExit
  BY <1>6 DEF SendExit, ExitSentLast
<1>7. CASE PollInterrupted \/ Fails \/ ChildWrites \/ ChildExits \/ Killed
  BY <1>7, DroppedNoExit DEF PollInterrupted, Fails, ChildWrites, ChildExits, Killed, PtyOpen,
     Looping, Stopping, Ended, Ends
<1>8. ASSUME NEW c \in Conns, Connect(c) \/ Send(c) \/ HangUp(c)
      PROVE  ExitSentLast'
  <2>1. pc # "completed"
    BY <1>8 DEF Connect, Send, HangUp, Open, Ended, Ends
  <2>2. \A d \in Conns : conn'[d].stream = conn[d].stream
    BY <1>1, <1>8 DEF Connect, Send, HangUp, ConnType
  <2> QED BY <2>1, <2>2, StreamsKeptNoExit
<1>9. CASE UNCHANGED vars
  BY <1>9 DEF vars, ExitSentLast, NoExitIn
<1> QED
  BY <1>2, <1>3, <1>4, <1>5, <1>6, <1>7, <1>8, <1>9 DEF Next, RunnerStep, CompleteStep

LEMMA ExitRecordTrue ==
    ASSUME ExitKnown, RecordShape, CompletedRecordTrue, ExitSentLast
    PROVE  ExitAfterRecord
<1>1. CASE pc # "completed"
  BY <1>1 DEF ExitSentLast, NoExitIn, ExitAfterRecord
<1>2. CASE pc = "completed"
  BY <1>2 DEF RecordShape, Recorded, CompletedRecordTrue, ExitAfterRecord
<1> QED BY <1>1, <1>2

-----------------------------------------------------------------------------
(* The output a child leaves in the PTY when it exits.                      *)

\* processed counts the bytes of one drain: it is zero between drains.
LEMMA ProcessedNext ==
    ASSUME IInv, DrainShape, LoopStep
    PROVE  \/ DrainRead
           \/ processed' = 0 /\ pc' # "final"
           \/ processed' = 0 /\ Reap
<1>1. CASE DrainRead \/ Reap
  BY <1>1 DEF DrainShape, Reap
<1>2. CASE DrainEnd
  BY <1>2 DEF DrainEnd, AfterDrain
<1>3. CASE Poll \/ Settle \/ AcceptEnd \/ CandidateNothing \/ StopCheck
  BY <1>3 DEF DrainShape, Poll, AfterPoll, AfterInput, AfterActive, AfterAccept, Settle,
     AcceptEnd, CandidateNothing, StopCheck
<1>4. CASE FlushInput \/ FlushActive \/ ReadActive
  BY <1>4 DEF DrainShape, FlushInput, FlushActive, ReadActive, AfterInput, AfterActive,
     AfterAccept
<1>5. CASE ApplyActive \/ ApplyActiveEnd \/ ApplyJoining \/ Activate \/ JoinRejected \/ Accept
  BY <1>5 DEF DrainShape, ApplyActive, ApplyRecord, ApplyActiveEnd, ApplyJoining, Activate,
     JoinRejected, Accept
<1>6. CASE CandidateBatch \/ CandidateReadFailed
  <2>1. ASSUME NEW n, CandidateAttach(n)
        PROVE  processed' = processed /\ pc' = "join"
    BY <2>1 DEF CandidateAttach
  <2>2. CASE DropCandidate
    BY <1>6, <2>2 DEF DropCandidate, DrainShape, CandidateBatch, CandidateReadFailed
  <2> QED
    BY <1>6, <2>1, <2>2 DEF DrainShape, CandidateBatch, CandidateReadFailed, CandidateStop,
       CandidateRejected
<1> QED BY <1>1, <1>2, <1>3, <1>4, <1>5, <1>6 DEF LoopStep

LEMMA DrainShapeNext ==
    ASSUME IInv, ExitKnown, DrainShape, [Next]_vars
    PROVE  DrainShape'
<1>1. /\ written \in Nat /\ nRead \in Nat /\ writtenAtExit \in Nat /\ PtyCapacity \in Nat
      /\ processed \in Nat /\ MaxPerTick \in Nat /\ PtyCapacity <= MaxPerTick
  BY SizeFacts, PtyAssumption DEF IInv, TypeOK, PtyType
<1>2. CASE DrainRead
  <2>1. PICK n \in 1..IoChunk :
          n <= written - nRead /\ processed' = processed + n /\ nRead' = nRead + n
    BY <1>2 DEF DrainRead
  <2>2. n \in Nat \ {0} /\ pc' = pc /\ pc \in {"drain", "final"}
    BY <1>2, SizeFacts DEF DrainRead
  <2>3. UNCHANGED <<written, writtenAtExit, stopRequested>>
    BY <1>2 DEF DrainRead
  <2> QED BY <1>1, <2>1, <2>2, <2>3 DEF DrainShape, Completing
<1>3. CASE DrainEnd
  <2>1. CASE pc = "drain"
    BY <1>3, <2>1 DEF DrainEnd, AfterDrain, DrainShape, Completing
  <2>2. CASE pc = "final"
    <3>1. writtenAtExit <= nRead
      BY <1>1, <1>3, <2>2 DEF DrainEnd, InBudget, DrainShape
    <3> QED BY <1>3, <2>2, <3>1 DEF DrainEnd, AfterDrain, DrainShape
  <2> QED BY <1>3, <2>1, <2>2 DEF DrainEnd
<1>4. CASE Reap
  BY <1>1, <1>4 DEF Reap, DrainShape, AfterExit, Completing
<1>5. CASE LoopStep /\ ~DrainRead /\ ~DrainEnd /\ ~Reap
  <2>1. /\ processed' = 0 /\ pc' \in Looping \cup {"term"}
        /\ UNCHANGED <<written, writtenAtExit, nRead>>
    BY <1>5, LoopFrame, ProcessedNext
  <2> QED BY <2>1 DEF DrainShape, Looping, Completing
<1>6. CASE StopStep
  BY <1>6 DEF StopStep, Reaped, Terminate, GraceOver, KillChild, DrainShape, ExitKnown, Stopping,
     Completing
<1>7. CASE CompleteStep
  BY <1>7 DEF CompleteStep, WriteOutput, WriteCompleted, AfterRecord, RemoveLiveFiles, FlushLast,
     SendExit, DrainShape, Completing
<1>8. CASE PollInterrupted \/ Killed \/ \E c \in Conns : Connect(c) \/ Send(c) \/ HangUp(c)
  BY <1>8, OutsideFrame DEF DrainShape, Completing
<1>9. CASE Fails
  BY <1>9 DEF Fails, DrainShape, Completing
<1>10. CASE ChildWrites
  BY <1>1, <1>10 DEF ChildWrites, PtyOpen, Looping, DrainShape, Completing
<1>11. CASE ChildExits
  <2>1. pc \notin {"final", "completed"} \cup Completing
    BY <1>11, StatusAssumption DEF ChildExits, ExitKnown
  <2> QED BY <1>1, <1>11, <2>1 DEF ChildExits, DrainShape
<1>12. CASE UNCHANGED vars
  BY <1>12 DEF vars, DrainShape
<1> QED
  BY <1>2, <1>3, <1>4, <1>5, <1>6, <1>7, <1>8, <1>9, <1>10, <1>11, <1>12 DEF Next, RunnerStep

LEMMA NaturalExitNext ==
    ASSUME IInv, ExitKnown, RecordShape, DrainShape, NaturalExitKeepsOutput, [Next]_vars
    PROVE  NaturalExitKeepsOutput'
<1>1. CASE LoopStep
  BY <1>1, LoopFrame DEF RecordShape, Recorded, Looping, NaturalExitKeepsOutput
<1>2. CASE StopStep
  BY <1>2 DEF StopStep, Reaped, Terminate, GraceOver, KillChild, RecordShape, Recorded, Stopping,
     NaturalExitKeepsOutput
<1>3. CASE CompleteStep
  BY <1>3 DEF CompleteStep, WriteOutput, WriteCompleted, RemoveLiveFiles, FlushLast, SendExit,
     DrainShape, Completing, NaturalExitKeepsOutput, IInv, TypeOK, PtyType
<1>4. CASE PollInterrupted \/ Killed \/ \E c \in Conns : Connect(c) \/ Send(c) \/ HangUp(c)
  BY <1>4, OutsideFrame DEF NaturalExitKeepsOutput
<1>5. CASE Fails \/ ChildWrites
  BY <1>5 DEF Fails, ChildWrites, NaturalExitKeepsOutput
<1>6. CASE ChildExits
  <2>1. child \notin ExitStatus /\ pc \notin Ends
    BY <1>6, StatusAssumption DEF ChildExits, Ended
  <2>2. meta.kind # "completed"
    BY <2>1 DEF RecordShape, Recorded, ExitKnown, Completing, Ends
  <2> QED BY <1>6, <2>2 DEF ChildExits, NaturalExitKeepsOutput
<1>7. CASE UNCHANGED vars
  BY <1>7 DEF vars, NaturalExitKeepsOutput
<1> QED BY <1>1, <1>2, <1>3, <1>4, <1>5, <1>6, <1>7 DEF Next, RunnerStep

LEMMA EndInit == Init => EndInv
<1> SUFFICES ASSUME Init PROVE EndInv
  OBVIOUS
<1>1. ExitKnown /\ RecordShape /\ CompletedRecordTrue /\ NaturalExitKeepsOutput
  BY DEF Init, LiveMeta, ExitKnown, RecordShape, Recorded, CompletedRecordTrue,
     NaturalExitKeepsOutput, Completing, Stopping
<1>2. ExitSentLast
  BY DEF Init, NoConnection, ExitSentLast, NoExitIn
<1>3. DrainShape
  BY SizeFacts DEF Init, DrainShape, Completing
<1> QED BY <1>1, <1>2, <1>3 DEF EndInv

LEMMA EndNext == IInv /\ EndInv /\ [Next]_vars => EndInv'
BY ExitKnownNext, RecordShapeNext, RecordTrueNext, ExitSentNext, DrainShapeNext, NaturalExitNext
   DEF EndInv

LEMMA RunnerEnds == Spec => [](IInv /\ EndInv)
<1>1. Init => IInv /\ EndInv
  BY TypeInit, EndInit
<1>2. IInv /\ EndInv /\ [Next]_vars => (IInv /\ EndInv)'
  BY TypeNext, EndNext
<1> QED BY <1>1, <1>2, PTL DEF Spec

\* A completion record lies beside the output file it describes and says the
\* truth of both, wherever a kill or an error stops the runner
\* (complete_session writes the output first).
THEOREM RunnerCompletedRecordTrue == Spec => []CompletedRecordTrue
<1>1. IInv /\ EndInv => CompletedRecordTrue
  BY DEF EndInv
<1> QED BY <1>1, RunnerEnds, PTL

\* A client that was sent an Exit record finds the completion record written
\* and the socket gone (complete_session sends Exit last).
THEOREM RunnerExitAfterRecord == Spec => []ExitAfterRecord
<1>1. IInv /\ EndInv => ExitAfterRecord
  BY ExitRecordTrue DEF EndInv
<1> QED BY <1>1, RunnerEnds, PTL

\* What a child printed before it ended by itself was all read before the
\* record is written: one drain after try_wait empties a full PTY, its budget
\* being no less than what the PTY holds.
THEOREM RunnerNaturalExitKeepsOutput == Spec => []NaturalExitKeepsOutput
<1>1. IInv /\ EndInv => NaturalExitKeepsOutput
  BY DEF EndInv
<1> QED BY <1>1, RunnerEnds, PTL

-----------------------------------------------------------------------------
(* What `afk sessions` reads of the attachment.                             *)

LEMMA AttachedLoopNext ==
    ASSUME IInv, AttachedShape, LoopStep
    PROVE  AttachedShape'
<1>1. CASE DrainRead
  BY <1>1 DEF DrainRead, EnqueueLive, DropSlow, DropActive, AttachedShape
<1>2. CASE DrainEnd
  BY <1>2 DEF DrainEnd, AfterDrain, AttachedShape
<1>3. CASE Reap
  BY <1>3 DEF Reap, AttachmentLost, ChildExited, AfterExit, LiveMeta, AttachedShape
<1>4. CASE Poll
  BY <1>4 DEF Poll, AfterPoll, AfterInput, AfterActive, AfterAccept, AttachedShape
<1>5. CASE FlushInput
  BY <1>5 DEF FlushInput, DropActive, AfterInput, AfterActive, AfterAccept, AttachedShape
<1>6. CASE FlushActive \/ ReadActive
  BY <1>6 DEF FlushActive, ReadActive, AttachedShape
<1>7. CASE ApplyActive \/ ApplyActiveEnd \/ ApplyJoining
  BY <1>7 DEF ApplyActive, ApplyRecord, ApplyActiveEnd, ApplyJoining, AttachedShape
<1>8. CASE Settle
  BY <1>8 DEF Settle, Settled, LiveMeta, AfterActive, AfterAccept, AttachedShape
<1>9. CASE Accept \/ AcceptEnd
  BY <1>9 DEF Accept, AcceptEnd, AfterAccept, AttachedShape
<1>10. CASE CandidateBatch
  <2>1. ASSUME NEW n, CandidateAttach(n)
        PROVE  pc' = "join" /\ UNCHANGED <<meta, active>>
    BY <2>1 DEF CandidateAttach
  <2>2. CASE DropCandidate
    BY <1>10, <2>2 DEF CandidateBatch, DropCandidate, AttachedShape
  <2> QED BY <1>10, <2>1, <2>2 DEF CandidateBatch, CandidateStop, CandidateRejected, AttachedShape
<1>11. CASE CandidateReadFailed \/ CandidateNothing
  BY <1>11 DEF CandidateReadFailed, CandidateNothing, DropCandidate, AttachedShape
<1>12. CASE Activate
  BY <1>12, ConnAssumption DEF Activate, NewActive, LiveMeta, IInv, SlotShape, AttachedShape
<1>13. CASE JoinRejected
  BY <1>13 DEF JoinRejected, AttachedShape
<1>14. CASE StopCheck
  BY <1>14 DEF StopCheck, AttachedShape
<1> QED
  BY <1>1, <1>2, <1>3, <1>4, <1>5, <1>6, <1>7, <1>8, <1>9, <1>10, <1>11, <1>12, <1>13, <1>14
     DEF LoopStep

LEMMA AttachedNext == IInv /\ AttachedShape /\ [Next]_vars => AttachedShape'
<1> SUFFICES ASSUME IInv, AttachedShape, [Next]_vars PROVE AttachedShape'
  OBVIOUS
<1>1. CASE LoopStep
  BY <1>1, AttachedLoopNext
<1>2. CASE StopStep \/ CompleteStep
  BY <1>2 DEF StopStep, Reaped, Terminate, GraceOver, KillChild, CompleteStep, WriteOutput,
     WriteCompleted, AfterRecord, RemoveLiveFiles, FlushLast, SendExit, Stopping, AttachedShape
<1>3. CASE PollInterrupted
  BY <1>3 DEF PollInterrupted, AttachedShape
<1>4. CASE Killed \/ \E c \in Conns : Connect(c) \/ Send(c) \/ HangUp(c)
  <2>1. pc' \in {pc, "killed"} /\ UNCHANGED <<had, events, meta, active>>
    BY <1>4 DEF Killed, Connect, Send, HangUp
  <2> QED BY <2>1 DEF AttachedShape
<1>5. CASE Fails \/ ChildWrites \/ ChildExits
  BY <1>5 DEF Fails, ChildWrites, ChildExits, AttachedShape
<1>6. CASE UNCHANGED vars
  BY <1>6 DEF vars, AttachedShape
<1> QED BY <1>1, <1>2, <1>3, <1>4, <1>5, <1>6 DEF Next, RunnerStep

\* Between ticks the Live record says attached exactly when a client is:
\* had_attachment catches a loss in the drain, the end of the active block
\* one in it, and events.act one while the PTY is written.
THEOREM RunnerAttachedTruthful == Spec => []AttachedTruthful
<1>1. Init => IInv /\ AttachedShape
  BY TypeInit DEF Init, LiveMeta, AttachedShape
<1>2. IInv /\ AttachedShape /\ [Next]_vars => (IInv /\ AttachedShape)'
  BY TypeNext, AttachedNext
<1>3. IInv /\ AttachedShape => AttachedTruthful
  BY DEF AttachedShape, AttachedTruthful
<1> QED BY <1>1, <1>2, <1>3, PTL DEF Spec
=============================================================================

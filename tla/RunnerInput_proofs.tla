-------------------------- MODULE RunnerInput_proofs --------------------------
(***************************************************************************)
(* Proofs about the clients of module Runner: their input, in order and    *)
(* from one attachment at a time, and (module StopCall) what `afk stop`    *)
(* reports.                                                                *)
(*                                                                         *)
(* A connection goes one way: made, waiting, candidate, joining, active.   *)
(* While it is fresh nothing was read from it; from then on what is in     *)
(* Input of it are its input records up to the last one applied.           *)
(*                                                                         *)
(* `afk stop` reports no success the runner did not grant.  The caller     *)
(* sees only that its connection was closed after its record had arrived;  *)
(* that this was CandidateStop, and neither a rejection nor a failed read, *)
(* rests on the record being the first and the only one of that connection *)
(* (FreshShape, SentShape).                                                *)
(***************************************************************************)
EXTENDS StopCall, RunnerEnd_proofs

USE DEF still, ptyVars, fileVars, inputVars, loopVars, slotVars, besideActive

\* No record of a fresh connection was read and it never was the attachment.
Fresh(c) == script[c] = <<>> \/ Waiting(c) \/ c = candidate
FreshShape ==
    \A c \in Conns : Fresh(c) =>
        /\ conn[c].taken = 0 /\ c \notin owners
        /\ \A p \in 1..Len(Input) : Input[p][1] # c

\* A client has sent no more than it will.
SentShape == \A c \in Conns : conn[c].sent <= Len(script[c])

\* The connection a batch is applied for, and how many of c's records were.
Busy == IF joining # NoConn THEN joining ELSE active
Applied(c) == IF c = Busy THEN conn[c].taken - pending ELSE conn[c].taken

\* Of the attachment, and of one that is about to be it, Input holds the
\* input records that were applied.
InputShape ==
    /\ pending # 0 => pc \in {"apply", "join", "failed", "killed"}
    /\ \A c \in {active, joining} \ {NoConn} :
         /\ \A p \in 1..Len(Input) : Input[p][1] = c => Input[p][2] <= Applied(c)
         /\ \A i \in 1..Applied(c) :
              script[c][i] = "input" => \E q \in 1..Len(Input) : Input[q] = <<c, i>>

\* Behind the attachment's first byte comes none of an earlier attachment, and
\* behind the joining connection's first byte only its own.
OwnerShape ==
    /\ joining \notin owners
    /\ active # NoConn => \A p, q \in 1..Len(Input) :
         p < q /\ Input[p][1] = active /\ Input[q][1] \in owners => Input[q][1] = active
    /\ joining # NoConn => \A p, q \in 1..Len(Input) :
         p < q /\ Input[p][1] = joining => Input[q][1] = joining

-----------------------------------------------------------------------------
(* Frames: what a step does to a connection, to the slots and to Input.     *)

\* A connection is dropped, left, or served in the one way its slot allows.
LEMMA ConnFrame ==
    ASSUME IInv, SlotsApart, [Next]_vars, NEW c \in Conns
    PROVE  \/ conn'[c] = NoConnection /\ c \notin {active', joining'}
           \/ conn'[c].taken = conn[c].taken /\ conn'[c].sent = conn[c].sent
           \/ Send(c) /\ conn'[c].taken = conn[c].taken /\ conn'[c].sent = conn[c].sent + 1
           \/ ReadActive /\ c = active /\ active' = active /\ conn'[c].sent = conn[c].sent
           \/ /\ pc = "candidate" /\ c = candidate /\ joining' = candidate
              /\ conn'[c].sent = conn[c].sent
<1>1. conn \in [Conns -> ConnType] /\ active \in Conns \cup {NoConn}
  BY DEF IInv, TypeOK, ClientType, SlotType
<1>2. CASE conn' = conn
  BY <1>2
<1>3. ASSUME NEW d, conn' = Without(d)
      PROVE  (conn'[c] = NoConnection /\ c = d) \/ conn'[c] = conn[c]
  BY <1>1, <1>3 DEF Without
<1>4. ASSUME NEW n, active # NoConn, conn' = [conn EXCEPT ![active].queue = n]
      PROVE  conn'[c].taken = conn[c].taken /\ conn'[c].sent = conn[c].sent
  BY <1>1, <1>4 DEF ConnType
<1>5. CASE DropActive /\ joining' = joining
  BY <1>3, <1>5, ConnAssumption DEF DropActive, SlotsApart
<1>6. CASE DropCandidate
  BY <1>3, <1>6, ConnAssumption DEF DropCandidate, SlotsApart
<1>7. CASE DrainRead
  <2>1. PICK n \in 1..IoChunk : EnqueueLive(n)
    BY <1>7 DEF DrainRead
  <2>2. CASE DropActive
    BY <1>7, <1>5, <2>2 DEF DrainRead
  <2>3. CASE active # NoConn /\ conn' = [conn EXCEPT ![active].queue = @ + Wire(n),
               ![active].stream = @ \o Bytes(nRead + 1, nRead + n)]
    BY <1>1, <2>3 DEF ConnType
  <2> QED BY <2>1, <2>2, <2>3 DEF EnqueueLive, DropSlow
<1>8. CASE FlushInput \/ ApplyActiveEnd
  BY <1>2, <1>8, <1>5 DEF FlushInput, ApplyActiveEnd
<1>9. CASE FlushActive
  BY <1>2, <1>4, <1>9, <1>5 DEF FlushActive
<1>10. CASE ReadActive
  <2>1. ASSUME NEW n, active # NoConn, conn' = [conn EXCEPT ![active].taken = @ + n]
        PROVE  conn'[c].sent = conn[c].sent /\ (c # active => conn'[c] = conn[c])
    BY <1>1, <2>1 DEF ConnType
  <2> QED BY <1>2, <1>10, <1>5, <2>1 DEF ReadActive
<1>11. CASE Accept \/ JoinRejected \/ CandidateReadFailed
  <2>1. CASE Accept
    <3>1. conn' = Without(Head(backlog)) \/ conn' = Without(candidate)
      BY <2>1 DEF Accept
    <3>2. active' = active /\ joining' = joining /\ backlog # <<>>
      BY <2>1 DEF Accept
    <3>3. Waiting(Head(backlog))
      <4>1. backlog \in Seq(Conns)
        BY DEF IInv, TypeOK, SlotType
      <4>2. 1 \in 1..Len(backlog) /\ Head(backlog) = backlog[1]
        BY <3>2, <4>1, LenProperties, EmptySeq
      <4> QED BY <4>2 DEF Waiting
    <3>4. c \in {active', joining'} => c # Head(backlog) /\ c # candidate
      BY <3>2, <3>3, ConnAssumption DEF SlotsApart
    <3> QED BY <1>3, <3>1, <3>4
  <2>2. CASE JoinRejected
    BY <1>3, <2>2, ConnAssumption DEF JoinRejected, SlotsApart
  <2> QED BY <1>11, <1>6, <2>1, <2>2 DEF CandidateReadFailed
<1>12. CASE CandidateBatch
  <2>1. ASSUME NEW n, CandidateAttach(n), pc = "candidate"
        PROVE  /\ conn'[c].sent = conn[c].sent /\ joining' = candidate
               /\ c # candidate => conn'[c] = conn[c]
    <3>1. candidate \in Conns
      BY <2>1 DEF IInv, SlotShape
    <3> QED BY <1>1, <2>1, <3>1 DEF CandidateAttach, ConnType
  <2> QED
    BY <1>12, <1>6, <2>1 DEF CandidateBatch, CandidateStop, CandidateRejected
<1>13. CASE Activate
  BY <1>13, ConnAssumption DEF Activate, NewActive
<1>14. CASE FlushLast \/ SendExit
  <2>1. active # NoConn
    BY <1>14, ConnAssumption DEF FlushLast, SendExit, IInv, SlotShape
  <2>2. CASE FlushLast
    BY <1>2, <1>4, <2>1, <2>2 DEF FlushLast
  <2>3. ASSUME NEW n, NEW t, conn' = [conn EXCEPT ![active].queue = n, ![active].stream = t]
        PROVE  conn'[c].taken = conn[c].taken /\ conn'[c].sent = conn[c].sent
    BY <1>1, <2>3 DEF ConnType
  <2>4. CASE SendExit
    <3>1. CASE conn' # conn
      <4>1. PICK n : conn' = [conn EXCEPT ![active].queue = n,
                                          ![active].stream = Append(@, ExitRecord)]
        BY <2>4, <3>1 DEF SendExit
      <4>2. conn' = [conn EXCEPT ![active].queue = n,
                                 ![active].stream = Append(conn[active].stream, ExitRecord)]
        BY <1>1, <2>1, <4>1 DEF ConnType
      <4> QED BY <2>3, <4>2
    <3> QED BY <1>2, <3>1
  <2> QED BY <1>14, <2>2, <2>4
<1>15. ASSUME NEW d \in Conns, Connect(d) \/ Send(d) \/ HangUp(d)
       PROVE  \/ conn'[c].taken = conn[c].taken /\ conn'[c].sent = conn[c].sent
              \/ Send(c) /\ conn'[c].taken = conn[c].taken /\ conn'[c].sent = conn[c].sent + 1
  <2>1. CASE Send(d)
    BY <1>1, <2>1 DEF Send, ConnType
  <2>2. CASE HangUp(d)
    BY <1>1, <2>2 DEF HangUp, ConnType
  <2> QED BY <1>2, <1>15, <2>1, <2>2 DEF Connect
<1>16. CASE DrainEnd \/ Reap \/ Poll \/ Settle \/ AcceptEnd \/ CandidateNothing \/ StopCheck
  BY <1>2, <1>16 DEF DrainEnd, Reap, Poll, Settle, AcceptEnd, CandidateNothing, StopCheck
<1>17. CASE ApplyActive \/ ApplyJoining
  BY <1>2, <1>17 DEF ApplyActive, ApplyJoining, ApplyRecord
<1>18. CASE StopStep \/ WriteOutput \/ WriteCompleted \/ RemoveLiveFiles
  BY <1>2, <1>18 DEF StopStep, Reaped, Terminate, GraceOver, KillChild, WriteOutput,
     WriteCompleted, RemoveLiveFiles
<1>19. CASE PollInterrupted \/ Fails \/ Killed \/ ChildWrites \/ ChildExits \/ UNCHANGED vars
  BY <1>2, <1>19 DEF PollInterrupted, Fails, Killed, ChildWrites, ChildExits, vars
<1> QED
  BY <1>7, <1>8, <1>9, <1>10, <1>11, <1>12, <1>13, <1>14, <1>15, <1>16, <1>17, <1>18, <1>19
     DEF Next, RunnerStep, LoopStep, CompleteStep

\* The steps that work on a batch or fill a slot; the others at most drop the
\* attachment, and leave a batch only when the runner ends.
LEMMA SlotFrame ==
    ASSUME IInv, [Next]_vars
    PROVE  \/ ApplyActive \/ ApplyJoining \/ ReadActive \/ ApplyActiveEnd \/ JoinRejected
           \/ Activate
           \/ pc = "candidate" /\ \E n \in 1..Arrived(candidate) : CandidateAttach(n)
           \/ /\ active' \in {active, NoConn} /\ joining' = joining /\ owners' = owners
              /\ pending' = pending
              /\ pc' \in {pc, "failed", "killed"} \/ pc \notin {"apply", "join", "failed", "killed"}
<1>1. CASE LoopStep
  <2>1. CASE CandidateBatch
    <3>1. CASE DropCandidate
      BY <2>1, <3>1 DEF CandidateBatch, DropCandidate
    <3> QED BY <2>1, <3>1 DEF CandidateBatch, CandidateStop, CandidateRejected
  <2>2. CASE DrainRead \/ DrainEnd \/ Reap \/ Poll
    BY <2>2 DEF DrainRead, EnqueueLive, DropSlow, DropActive, DrainEnd, Reap, Poll
  <2>3. CASE FlushInput \/ FlushActive
    BY <2>3 DEF FlushInput, FlushActive, DropActive
  <2>4. CASE Settle \/ Accept \/ AcceptEnd \/ CandidateReadFailed \/ CandidateNothing \/ StopCheck
    BY <2>4 DEF Settle, Accept, AcceptEnd, CandidateReadFailed, CandidateNothing, DropCandidate,
       StopCheck
  <2> QED BY <1>1, <2>1, <2>2, <2>3, <2>4 DEF LoopStep
<1>2. CASE StopStep \/ CompleteStep
  BY <1>2 DEF StopStep, Reaped, Terminate, GraceOver, KillChild, CompleteStep, WriteOutput,
     WriteCompleted, RemoveLiveFiles, FlushLast, SendExit, Stopping
<1>3. CASE PollInterrupted \/ Fails \/ Killed \/ ChildWrites \/ ChildExits
  BY <1>3 DEF PollInterrupted, Fails, Killed, ChildWrites, ChildExits
<1>4. CASE (\E c \in Conns : Connect(c) \/ Send(c) \/ HangUp(c)) \/ UNCHANGED vars
  BY <1>4 DEF Connect, Send, HangUp, vars
<1> QED BY <1>1, <1>2, <1>3, <1>4 DEF Next, RunnerStep

\* Only connecting sets what a client will send.
LEMMA ScriptFrame ==
    ASSUME IInv, [Next]_vars, NEW c \in Conns, script'[c] # script[c]
    PROVE  Connect(c)
<1>1. CASE LoopStep
  <2>1. CASE CandidateBatch
    <3>1. ASSUME NEW n, CandidateAttach(n) PROVE script' = script
      BY <3>1 DEF CandidateAttach
    <3>2. CASE DropCandidate
      BY <3>2 DEF DropCandidate
    <3> QED BY <2>1, <3>1, <3>2 DEF CandidateBatch, CandidateStop, CandidateRejected
  <2>2. CASE DrainRead \/ DrainEnd \/ Reap \/ Poll \/ FlushInput \/ FlushActive
    BY <2>2 DEF DrainRead, DrainEnd, Reap, Poll, FlushInput, FlushActive
  <2>3. CASE ReadActive \/ ApplyActive \/ ApplyActiveEnd \/ ApplyJoining \/ JoinRejected
    BY <2>3 DEF ReadActive, ApplyActive, ApplyJoining, ApplyRecord, ApplyActiveEnd, JoinRejected
  <2>4. CASE Settle \/ Accept \/ AcceptEnd \/ CandidateReadFailed \/ CandidateNothing
    BY <2>4 DEF Settle, Accept, AcceptEnd, CandidateReadFailed, CandidateNothing, DropCandidate
  <2>5. CASE Activate \/ StopCheck
    BY <2>5 DEF Activate, StopCheck
  <2> QED BY <1>1, <2>1, <2>2, <2>3, <2>4, <2>5 DEF LoopStep
<1>2. CASE StopStep \/ CompleteStep
  BY <1>2 DEF StopStep, Reaped, Terminate, GraceOver, KillChild, CompleteStep, WriteOutput,
     WriteCompleted, RemoveLiveFiles, FlushLast, SendExit
<1>3. CASE PollInterrupted \/ Fails \/ Killed \/ ChildWrites \/ ChildExits \/ UNCHANGED vars
  BY <1>3 DEF PollInterrupted, Fails, Killed, ChildWrites, ChildExits, vars
<1>4. CASE \E d \in Conns : Connect(d) \/ Send(d) \/ HangUp(d)
  <2>1. script \in [Conns -> Scripts \cup {<<>>}]
    BY DEF IInv, TypeOK, ClientType
  <2> QED BY <1>4, <2>1 DEF Connect, Send, HangUp
<1> QED BY <1>1, <1>2, <1>3, <1>4 DEF Next, RunnerStep

\* Connections are taken from the front of the backlog and put at its end.
LEMMA FreshBack ==
    ASSUME IInv, SlotsApart, [Next]_vars, NEW c \in Conns, Fresh(c)'
    PROVE  Fresh(c)
<1>1. /\ script \in [Conns -> Scripts \cup {<<>>}] /\ backlog \in Seq(Conns)
  BY DEF IInv, TypeOK, ClientType, SlotType
<1>2. CASE /\ script' = script /\ backlog' = backlog /\ candidate' \in {candidate, NoConn}
  BY <1>2, ConnAssumption DEF Fresh, Waiting
<1>3. ASSUME NEW d \in Conns, Connect(d)
      PROVE  Fresh(c)
  <2>1. /\ script[d] = <<>> /\ backlog' = Append(backlog, d) /\ candidate' = candidate
        /\ c # d => script'[c] = script[c]
    BY <1>1, <1>3 DEF Connect
  <2>2. Len(backlog) \in Nat /\ Len(backlog') = Len(backlog) + 1
    BY <1>1, <2>1, AppendProperties, LenProperties
  <2>3. \A i \in 1..Len(backlog') : backlog'[i] = d \/ (i \in 1..Len(backlog) /\ backlog'[i] = backlog[i])
    <3> SUFFICES ASSUME NEW i \in 1..Len(backlog')
                 PROVE  backlog'[i] = d \/ (i \in 1..Len(backlog) /\ backlog'[i] = backlog[i])
      OBVIOUS
    <3>1. i \in 1..Len(backlog) \/ i = Len(backlog) + 1
      BY <2>2
    <3> QED BY <1>1, <2>1, <3>1, AppendProperties
  <2> QED BY <2>1, <2>3 DEF Fresh, Waiting
<1>4. CASE Accept
  <2>1. /\ backlog # <<>> /\ backlog' = Tail(backlog) /\ script' = script
        /\ candidate' \in {candidate, Head(backlog)}
    BY <1>4 DEF Accept
  <2>2. /\ Len(backlog) \in Nat \ {0} /\ Head(backlog) = backlog[1]
        /\ Len(backlog') = Len(backlog) - 1
        /\ \A i \in 1..Len(backlog') : backlog'[i] = backlog[i + 1] /\ i + 1 \in 1..Len(backlog)
    BY <1>1, <2>1, HeadTailProperties, LenProperties, EmptySeq
  <2>3. Waiting(Head(backlog))
    BY <2>2 DEF Waiting
  <2>4. Waiting(c)' => Waiting(c)
    BY <2>2 DEF Waiting
  <2> QED BY <2>1, <2>3, <2>4 DEF Fresh
<1>5. CASE RemoveLiveFiles
  BY <1>5 DEF RemoveLiveFiles, Fresh, Waiting
<1>6. CASE LoopStep /\ ~Accept
  <2>1. CASE CandidateBatch \/ CandidateReadFailed
    BY <1>2, <2>1 DEF CandidateBatch, CandidateAttach, CandidateStop, CandidateRejected,
       CandidateReadFailed, DropCandidate
  <2>2. CASE DrainRead \/ DrainEnd \/ Reap \/ Poll
    BY <1>2, <2>2 DEF DrainRead, DrainEnd, Reap, Poll
  <2>3. CASE FlushInput \/ FlushActive \/ ReadActive
    BY <1>2, <2>3 DEF FlushInput, FlushActive, ReadActive
  <2>4. CASE ApplyActive \/ ApplyActiveEnd \/ ApplyJoining \/ JoinRejected
    BY <1>2, <2>4 DEF ApplyActive, ApplyActiveEnd, ApplyJoining, ApplyRecord, JoinRejected
  <2>5. CASE Settle \/ AcceptEnd \/ CandidateNothing \/ Activate \/ StopCheck
    BY <1>2, <2>5 DEF Settle, AcceptEnd, CandidateNothing, Activate, StopCheck
  <2> QED BY <1>6, <2>1, <2>2, <2>3, <2>4, <2>5 DEF LoopStep
<1>7. CASE StopStep \/ WriteOutput \/ WriteCompleted \/ FlushLast \/ SendExit
  BY <1>2, <1>7 DEF StopStep, Reaped, Terminate, GraceOver, KillChild, WriteOutput,
     WriteCompleted, FlushLast, SendExit
<1>8. CASE PollInterrupted \/ Fails \/ Killed \/ ChildWrites \/ ChildExits
  BY <1>2, <1>8 DEF PollInterrupted, Fails, Killed, ChildWrites, ChildExits
<1>9. CASE (\E d \in Conns : Send(d) \/ HangUp(d)) \/ UNCHANGED vars
  BY <1>2, <1>9 DEF Send, HangUp, vars
<1> QED
  BY <1>3, <1>4, <1>5, <1>6, <1>7, <1>8, <1>9 DEF Next, RunnerStep, CompleteStep

\* Bytes moved from the front of one queue to the end of another.
LEMMA MovedFront ==
    ASSUME NEW S, NEW a \in Seq(S), NEW s \in Seq(S), NEW n \in 0..Len(s)
    PROVE  (a \o SubSeq(s, 1, n)) \o SubSeq(s, n + 1, Len(s)) = a \o s
<1> DEFINE front == SubSeq(s, 1, n)
<1> DEFINE rest == SubSeq(s, n + 1, Len(s))
<1>1. Len(s) \in Nat /\ \A i \in 1..Len(s) : s[i] \in S
  BY LenProperties, ElementOfSeq
<1>2. front \in Seq(S) /\ rest \in Seq(S)
  BY <1>1, SubSeqProperties
<1>3. front \o rest = s
  <2>1. 1 \in 1..Len(s) + 1 /\ n \in (1 - 1)..Len(s) /\ Len(s) \in n..Len(s)
    BY <1>1
  <2>2. front \o rest = SubSeq(s, 1, Len(s))
    BY <2>1, ConcatAdjacentSubSeq
  <2> QED BY <2>2, SubSeqFull
<1> HIDE DEF front, rest
<1>4. (a \o front) \o rest = a \o (front \o rest)
  BY <1>2, ConcatAssociative
<1> QED BY <1>3, <1>4 DEF front, rest

\* A write to the PTY moves bytes from pty_input to the child and loses none.
LEMMA FlushKeepsInput ==
    ASSUME IInv, FlushInput
    PROVE  Input' = Input
<1>1. PICK n \in 0..Len(ptyInput) :
        /\ childIn' = childIn \o SubSeq(ptyInput, 1, n)
        /\ ptyInput' = SubSeq(ptyInput, n + 1, Len(ptyInput))
  BY DEF FlushInput, Unflushed
<1> DEFINE S == Conns \X Nat
<1>2. ptyInput \in Seq(S) /\ childIn \in Seq(S) /\ Len(ptyInput) \in Nat
  BY LenProperties DEF IInv, TypeOK, InputType
<1> HIDE DEF S
<1>3. (childIn \o ptyInput)' = childIn \o ptyInput
  BY <1>1, <1>2, MovedFront
<1> QED BY <1>3 DEF Input

\* One record of c's batch was applied, an input record at the end of Input.
Applies(c) ==
    /\ pending > 0 /\ pending' = pending - 1
    /\ \/ script[c][RecordNo(c)] = "input" /\ Input' = Append(Input, <<c, RecordNo(c)>>)
       \/ script[c][RecordNo(c)] # "input" /\ Input' = Input
    /\ UNCHANGED <<pc, script, conn, active, candidate, joining, owners, backlog>>

LEMMA RecordApplied ==
    ASSUME IInv, NEW c \in Conns, ApplyRecord(c), pending <= conn[c].taken
    PROVE  Applies(c)
<1> DEFINE S == Conns \X Nat
<1>1. ptyInput \in Seq(S) /\ childIn \in Seq(S) /\ ptyInput' \in Seq(S)
  BY ApplyRecordInput DEF IInv, TypeOK, InputType
<1>2. CASE script[c][RecordNo(c)] = "input"
  <2>1. ptyInput' = Append(ptyInput, <<c, RecordNo(c)>>) /\ childIn' = childIn
    BY <1>2 DEF ApplyRecord
  <2>2. <<c, RecordNo(c)>> \in S
    <3>1. pending \in Nat /\ conn[c].taken \in Nat
      BY ConnFields DEF IInv, TypeOK, SlotType, ClientType
    <3>2. RecordNo(c) \in Nat
      BY <3>1 DEF RecordNo
    <3> QED BY <3>2
  <2> DEFINE last == <<c, RecordNo(c)>>
  <2>3. last \in S
    BY <2>2
  <2> HIDE DEF last, S
  <2>4. <<last>> \in Seq(S)
    BY <2>3
  <2>5. /\ Append(ptyInput, last) = ptyInput \o <<last>>
        /\ childIn \o (ptyInput \o <<last>>) = (childIn \o ptyInput) \o <<last>>
        /\ childIn \o ptyInput \in Seq(S)
    BY <1>1, <2>3, <2>4, AppendIsConcat, ConcatAssociative, ConcatProperties
  <2>6. (childIn \o ptyInput) \o <<last>> = Append(childIn \o ptyInput, last)
    BY <2>3, <2>5, AppendIsConcat
  <2>7. Input' = Append(Input, last)
    BY <2>1, <2>5, <2>6 DEF Input, last
  <2> QED BY <1>2, <2>7 DEF ApplyRecord, Applies, last
<1>3. CASE script[c][RecordNo(c)] # "input"
  BY <1>3 DEF ApplyRecord, Applies, Input
<1> QED BY <1>2, <1>3

\* Only applying a record adds to Input.
LEMMA InputFrame ==
    ASSUME IInv, [Next]_vars
    PROVE  \/ pc = "apply" /\ active \in Conns /\ Applies(active)
           \/ pc = "join" /\ joining \in Conns /\ Applies(joining)
           \/ Input' = Input /\ ~ApplyActive /\ ~ApplyJoining
<1>1. CASE ApplyActive
  BY <1>1, RecordApplied DEF ApplyActive, IInv, SlotShape
<1>2. CASE ApplyJoining
  BY <1>2, RecordApplied DEF ApplyJoining, IInv, SlotShape
<1>3. CASE FlushInput /\ ~ApplyActive /\ ~ApplyJoining
  BY <1>3, FlushKeepsInput
<1>4. ASSUME ~ApplyActive, ~ApplyJoining, ~FlushInput
      PROVE  UNCHANGED <<ptyInput, childIn>>
  <2>1. CASE LoopStep
    <3>1. CASE CandidateBatch
      <4>1. ASSUME NEW n, CandidateAttach(n) PROVE UNCHANGED <<ptyInput, childIn>>
        BY <4>1 DEF CandidateAttach
      <4>2. CASE DropCandidate
        BY <4>2 DEF DropCandidate
      <4> QED BY <3>1, <4>1, <4>2 DEF CandidateBatch, CandidateStop, CandidateRejected
    <3>2. CASE DrainRead \/ DrainEnd \/ Reap \/ Poll \/ FlushActive \/ ReadActive
      BY <3>2 DEF DrainRead, DrainEnd, Reap, Poll, FlushActive, ReadActive
    <3>3. CASE ApplyActiveEnd \/ JoinRejected \/ Activate \/ Settle \/ Accept \/ AcceptEnd
      BY <3>3 DEF ApplyActiveEnd, JoinRejected, Activate, Settle, Accept, AcceptEnd
    <3>4. CASE CandidateReadFailed \/ CandidateNothing \/ StopCheck
      BY <3>4 DEF CandidateReadFailed, CandidateNothing, DropCandidate, StopCheck
    <3> QED BY <1>4, <2>1, <3>1, <3>2, <3>3, <3>4 DEF LoopStep
  <2>2. CASE StopStep \/ CompleteStep
    BY <2>2 DEF StopStep, Reaped, Terminate, GraceOver, KillChild, CompleteStep, WriteOutput,
       WriteCompleted, RemoveLiveFiles, FlushLast, SendExit
  <2>3. CASE PollInterrupted \/ Fails \/ Killed \/ ChildWrites \/ ChildExits
    BY <2>3 DEF PollInterrupted, Fails, Killed, ChildWrites, ChildExits
  <2>4. CASE (\E c \in Conns : Connect(c) \/ Send(c) \/ HangUp(c)) \/ UNCHANGED vars
    BY <2>4 DEF Connect, Send, HangUp, vars
  <2> QED BY <2>1, <2>2, <2>3, <2>4 DEF Next, RunnerStep
<1> QED BY <1>1, <1>2, <1>3, <1>4 DEF Input

-----------------------------------------------------------------------------
(* What was read of whom.                                                   *)

LEMMA InputTyped ==
    ASSUME IInv
    PROVE  /\ Input \in Seq(Conns \X Nat) /\ Len(Input) \in Nat
           /\ \A p \in 1..Len(Input) : Input[p][1] \in Conns /\ Input[p][2] \in Nat
           /\ \A p \in 1..Len(Input) : Input[p] = <<Input[p][1], Input[p][2]>>
<1>1. Input \in Seq(Conns \X Nat)
  BY ConcatProperties DEF Input, IInv, TypeOK, InputType
<1>2. \A p \in 1..Len(Input) : Input[p] \in Conns \X Nat
  BY <1>1, ElementOfSeq
<1> QED BY <1>1, <1>2, LenProperties

\* Applying a record leaves Input or puts the record behind it.
LEMMA Appended ==
    ASSUME IInv, NEW c \in Conns, Applies(c), pending <= conn[c].taken
    PROVE  /\ pending \in Nat /\ conn[c].taken \in Nat /\ RecordNo(c) \in Nat \ {0}
           /\ \/ script[c][RecordNo(c)] # "input" /\ Input' = Input
              \/ /\ script[c][RecordNo(c)] = "input"
                 /\ Len(Input') = Len(Input) + 1
                 /\ \A p \in 1..Len(Input) : Input'[p] = Input[p]
                 /\ Input'[Len(Input) + 1] = <<c, RecordNo(c)>>
<1>1. pending \in Nat /\ conn[c].taken \in Nat
  BY ConnFields DEF IInv, TypeOK, SlotType, ClientType
<1>2. RecordNo(c) \in Nat \ {0}
  BY <1>1 DEF RecordNo
<1>3. CASE Input' = Append(Input, <<c, RecordNo(c)>>) /\ script[c][RecordNo(c)] = "input"
  <2>1. <<c, RecordNo(c)>> \in Conns \X Nat
    BY <1>2
  <2>2. /\ Len(Input') = Len(Input) + 1
        /\ \A p \in 1..Len(Input) : Input'[p] = Input[p]
        /\ Input'[Len(Input) + 1] = <<c, RecordNo(c)>>
    BY <1>3, <2>1, InputTyped, AppendProperties
  <2> QED BY <1>1, <1>2, <1>3, <2>2
<1> QED BY <1>1, <1>2, <1>3 DEF Applies

\* Who can add to Input: the attachment, or who is about to be it.
LEMMA WhoApplies ==
    ASSUME IInv, [Next]_vars, Input' # Input
    PROVE  \E c \in Conns : /\ c \in {active, joining} /\ c = Busy
                            /\ pending <= conn[c].taken /\ Applies(c)
<1>1. CASE pc = "apply" /\ active \in Conns /\ Applies(active)
  <2>1. joining = NoConn /\ pending <= conn[active].taken
    BY <1>1 DEF IInv, SlotShape
  <2> QED BY <1>1, <2>1 DEF Busy
<1>2. CASE pc = "join" /\ joining \in Conns /\ Applies(joining)
  <2>1. pending <= conn[joining].taken /\ joining # NoConn
    BY <1>2, ConnAssumption DEF IInv, SlotShape
  <2> QED BY <1>2, <2>1 DEF Busy
<1> QED BY <1>1, <1>2, InputFrame

LEMMA FreshNext ==
    ASSUME IInv, SlotsApart, FreshShape, [Next]_vars
    PROVE  FreshShape'
<1> SUFFICES ASSUME NEW c \in Conns, Fresh(c)'
             PROVE  /\ conn'[c].taken = 0 /\ c \notin owners'
                    /\ \A p \in 1..Len(Input') : Input'[p][1] # c
  BY DEF FreshShape
<1>1. SlotsApart'
  BY ApartNext
<1>2. /\ Fresh(c) /\ conn[c].taken = 0 /\ c \notin owners
      /\ \A p \in 1..Len(Input) : Input[p][1] # c
  BY FreshBack DEF FreshShape
<1>3. c \notin {active, joining} /\ c \notin {active', joining'}
  BY <1>1, <1>2, ConnAssumption DEF SlotsApart, Fresh, Waiting
<1>4. conn'[c].taken = 0
  BY <1>2, <1>3, ConnFrame DEF NoConnection
<1>5. c \notin owners'
  <2>1. CASE Activate
    BY <2>1, <1>2, <1>3 DEF Activate
  <2>2. CASE owners' = owners
    BY <2>2, <1>2
  <2>3. ASSUME NEW n, CandidateAttach(n) PROVE owners' = owners
    BY <2>3 DEF CandidateAttach
  <2>4. CASE ApplyActive \/ ApplyJoining \/ ReadActive \/ ApplyActiveEnd \/ JoinRejected
    BY <2>4, <1>2 DEF ApplyActive, ApplyJoining, ApplyRecord, ReadActive, ApplyActiveEnd, JoinRejected
  <2> QED BY <2>1, <2>2, <2>3, <2>4, SlotFrame
<1>6. \A p \in 1..Len(Input') : Input'[p][1] # c
  <2>1. CASE Input' = Input
    BY <2>1, <1>2
  <2>2. CASE Input' # Input
    <3>1. PICK d \in Conns : /\ d \in {active, joining} /\ pending <= conn[d].taken
                            /\ Applies(d)
      BY <2>2, WhoApplies
    <3>2. /\ Len(Input') = Len(Input) + 1 /\ Len(Input) \in Nat
          /\ \A p \in 1..Len(Input) : Input'[p] = Input[p]
          /\ Input'[Len(Input) + 1] = <<d, RecordNo(d)>>
      BY <2>2, <3>1, Appended, InputTyped
    <3>3. d # c
      BY <1>3, <3>1
    <3> SUFFICES ASSUME NEW p \in 1..Len(Input') PROVE Input'[p][1] # c
      OBVIOUS
    <3>4. CASE p \in 1..Len(Input)
      BY <3>2, <3>4, <1>2
    <3>5. CASE p = Len(Input) + 1
      BY <3>2, <3>3, <3>5
    <3> QED BY <3>2, <3>4, <3>5
  <2> QED BY <2>1, <2>2
<1> QED BY <1>4, <1>5, <1>6

LEMMA SentNext ==
    ASSUME IInv, SlotsApart, SentShape, [Next]_vars
    PROVE  SentShape'
<1> SUFFICES ASSUME NEW c \in Conns PROVE conn'[c].sent <= Len(script'[c])
  BY DEF SentShape
<1>1. /\ conn[c].sent \in Nat /\ conn[c].sent <= Len(script[c])
      /\ script \in [Conns -> Scripts \cup {<<>>}]
  BY ConnFields DEF IInv, TypeOK, ClientType, SentShape
<1>2. Len(script[c]) \in Nat /\ Len(script'[c]) \in Nat
  <2>1. script' \in [Conns -> Scripts \cup {<<>>}]
    BY TypeNext DEF IInv, TypeOK, ClientType
  <2>2. \A s \in Scripts \cup {<<>>} : Len(s) \in Nat
    BY ScriptAssumption, LenProperties
  <2> QED BY <1>1, <2>1, <2>2
<1>3. CASE script'[c] = script[c]
  BY <1>1, <1>2, <1>3, ConnFrame DEF NoConnection, Send
<1>4. CASE script'[c] # script[c]
  <2>1. Connect(c)
    BY <1>4, ScriptFrame
  <2>2. script[c] = <<>> /\ conn' = conn
    BY <2>1 DEF Connect
  <2> QED BY <1>1, <1>2, <2>2
<1> QED BY <1>3, <1>4

-----------------------------------------------------------------------------
(* Applied records.                                                         *)

\* A batch is worked on in two places only.
LEMMA PendingNext ==
    ASSUME IInv, InputShape, [Next]_vars
    PROVE  (pending # 0 => pc \in {"apply", "join", "failed", "killed"})'
<1>1. pending \in Nat /\ (pending # 0 => pc \in {"apply", "join", "failed", "killed"})
  BY DEF InputShape, IInv, TypeOK, SlotType
<1>2. CASE ApplyActive \/ ApplyJoining
  BY <1>2 DEF ApplyActive, ApplyJoining, ApplyRecord
<1>3. CASE ReadActive
  BY <1>1, <1>3 DEF ReadActive
<1>4. CASE ApplyActiveEnd \/ JoinRejected \/ Activate
  BY <1>1, <1>4 DEF ApplyActiveEnd, JoinRejected, Activate
<1>5. ASSUME NEW n, CandidateAttach(n) PROVE pc' = "join"
  BY <1>5 DEF CandidateAttach
<1> QED BY <1>1, <1>2, <1>3, <1>4, <1>5, SlotFrame

\* InputShape for one connection, and what carries it over a step.
Holds(c) ==
    /\ \A p \in 1..Len(Input) : Input[p][1] = c => Input[p][2] <= Applied(c)
    /\ \A i \in 1..Applied(c) :
         script[c][i] = "input" => \E q \in 1..Len(Input) : Input[q] = <<c, i>>

LEMMA HoldsKept ==
    ASSUME NEW c \in Conns, Holds(c), Input' = Input, script'[c] = script[c],
           Applied(c)' = Applied(c)
    PROVE  Holds(c)'
BY DEF Holds

LEMMA HoldsApplied ==
    ASSUME IInv, NEW c \in Conns, NEW d \in Conns, Holds(d), c = Busy,
           d \in {active, joining}, pending <= conn[c].taken, Applies(c)
    PROVE  Holds(d)'
<1>1. /\ pending \in Nat /\ pending > 0 /\ pending' = pending - 1
      /\ UNCHANGED <<script, conn, active, joining>>
  BY Appended DEF Applies
<1>2. conn[c].taken \in Nat /\ conn[d].taken \in Nat
  BY ConnFields DEF IInv, TypeOK, ClientType
<1>3. /\ Applied(c) = conn[c].taken - pending /\ RecordNo(c) = Applied(c) + 1
      /\ Applied(c)' = Applied(c) + 1 /\ Applied(c) \in Nat
  BY <1>1, <1>2 DEF Applied, Busy, RecordNo
<1>4. d # c => Applied(d)' = Applied(d)
  BY <1>1 DEF Applied, Busy
<1>5. CASE script[c][RecordNo(c)] # "input" /\ Input' = Input
  <2>1. CASE d # c
    BY <1>1, <1>4, <1>5, <2>1 DEF Holds
  <2>2. CASE d = c
    <3>1. ASSUME NEW p \in 1..Len(Input), Input[p][1] = c
          PROVE  Input[p][2] <= Applied(c) + 1
      <4>1. Input[p][2] \in Nat /\ Input[p][2] <= Applied(c)
        BY <2>2, <3>1, InputTyped DEF Holds
      <4> QED BY <1>3, <4>1
    <3>2. ASSUME NEW i \in 1..(Applied(c) + 1), script[c][i] = "input"
          PROVE  \E q \in 1..Len(Input) : Input[q] = <<c, i>>
      <4>1. i \in 1..Applied(c)
        BY <1>3, <1>5, <3>2
      <4> QED BY <2>2, <3>2, <4>1 DEF Holds
    <3> QED BY <1>1, <1>3, <1>5, <2>2, <3>1, <3>2 DEF Holds
  <2> QED BY <2>1, <2>2
<1>6. CASE /\ script[c][RecordNo(c)] = "input"
           /\ Len(Input') = Len(Input) + 1
           /\ \A p \in 1..Len(Input) : Input'[p] = Input[p]
           /\ Input'[Len(Input) + 1] = <<c, RecordNo(c)>>
  <2>1. Len(Input) \in Nat
    BY InputTyped
  <2>2. \A p : p \in 1..Len(Input') <=> p \in 1..Len(Input) \/ p = Len(Input) + 1
    BY <1>6, <2>1
  <2>3. CASE d # c
    <3>1. ASSUME NEW p \in 1..Len(Input'), Input'[p][1] = d
          PROVE  Input'[p][2] <= Applied(d)'
      BY <1>4, <1>6, <2>2, <2>3, <3>1 DEF Holds
    <3>2. ASSUME NEW i \in 1..Applied(d)', script'[d][i] = "input"
          PROVE  \E q \in 1..Len(Input') : Input'[q] = <<d, i>>
      BY <1>1, <1>4, <1>6, <2>2, <2>3, <3>2 DEF Holds
    <3> QED BY <3>1, <3>2 DEF Holds
  <2>4. CASE d = c
    <3>1. ASSUME NEW p \in 1..Len(Input'), Input'[p][1] = c
          PROVE  Input'[p][2] <= Applied(c)'
      <4>1. CASE p \in 1..Len(Input)
        <5>1. Input[p][2] \in Nat /\ Input[p][2] <= Applied(c) /\ Input'[p] = Input[p]
          BY <1>6, <2>4, <3>1, <4>1, InputTyped DEF Holds
        <5> QED BY <1>3, <5>1
      <4>2. CASE p = Len(Input) + 1
        BY <1>3, <1>6, <4>2
      <4> QED BY <2>2, <4>1, <4>2
    <3>2. ASSUME NEW i \in 1..Applied(c)', script'[c][i] = "input"
          PROVE  \E q \in 1..Len(Input') : Input'[q] = <<c, i>>
      <4>1. CASE i \in 1..Applied(c)
        BY <1>1, <1>6, <2>2, <2>4, <3>2, <4>1 DEF Holds
      <4>2. CASE i = RecordNo(c)
        BY <1>6, <2>2, <4>2
      <4> QED BY <1>3, <4>1, <4>2
    <3> QED BY <2>4, <3>1, <3>2 DEF Holds
  <2> QED BY <2>3, <2>4
<1> QED BY <1>5, <1>6, Appended

LEMMA InputShapeNext ==
    ASSUME IInv, SlotsApart, FreshShape, InputShape, [Next]_vars
    PROVE  InputShape'
<1> SUFFICES ASSUME NEW c \in {active', joining'}, c # NoConn
             PROVE  Holds(c)'
  BY PendingNext DEF InputShape, Holds
<1>1. IInv' /\ SlotsApart'
  BY TypeNext, ApartNext
<1>2. c \in Conns /\ conn[c].taken \in Nat /\ pending \in Nat
  BY <1>1, ConnFields DEF IInv, TypeOK, SlotType, ClientType
<1>3. \A d \in {active, joining} : d # NoConn => Holds(d)
  BY DEF InputShape, Holds
<1>4. script[c] # <<>> => script'[c] = script[c]
  BY <1>2, ScriptFrame DEF Connect
<1>5. c \in {active, joining} => script'[c] = script[c]
  BY <1>2, <1>4 DEF SlotsApart
<1>6. CASE Input' # Input
  <2>1. PICK d \in Conns : /\ d = Busy /\ pending <= conn[d].taken /\ Applies(d)
    BY <1>6, WhoApplies
  <2>2. c \in {active, joining}
    BY <2>1 DEF Applies
  <2> QED BY <1>2, <1>3, <2>1, <2>2, HoldsApplied
<1>7. CASE ApplyActive \/ ApplyJoining
  <2>1. PICK d \in Conns : /\ d = Busy /\ pending <= conn[d].taken /\ Applies(d)
    <3>1. CASE ApplyActive
      BY <3>1, RecordApplied DEF ApplyActive, IInv, SlotShape, Busy
    <3>2. CASE ApplyJoining
      BY <3>2, RecordApplied, ConnAssumption DEF ApplyJoining, IInv, SlotShape, Busy
    <3> QED BY <1>7, <3>1, <3>2
  <2>2. c \in {active, joining}
    BY <2>1 DEF Applies
  <2> QED BY <1>2, <1>3, <2>1, <2>2, HoldsApplied
<1>8. CASE Input' = Input /\ ReadActive
  <2>1. joining = NoConn /\ joining' = NoConn /\ c = active /\ active' = active
    BY <1>8, ConnAssumption DEF ReadActive, DropActive, IInv, SlotShape
  <2>2. pending = 0
    BY <1>8 DEF ReadActive, InputShape
  <2>3. Applied(c) = conn[c].taken
    BY <1>2, <2>1, <2>2 DEF Applied
  <2>4. Applied(c)' = conn[c].taken
    <3>1. conn \in [Conns -> ConnType]
      BY DEF IInv, TypeOK, ClientType
    <3>2. CASE conn' = conn /\ pending' = pending
      BY <1>2, <2>1, <2>2, <3>2 DEF Applied, Busy
    <3>3. ASSUME NEW n \in 1..Arrived(active), pending' = n,
                 conn' = [conn EXCEPT ![active].taken = @ + n]
          PROVE  Applied(c)' = conn[c].taken
      <4>1. conn'[c].taken = conn[c].taken + n
        BY <1>2, <2>1, <3>1, <3>3 DEF ConnType
      <4>2. n \in Int
        OBVIOUS
      <4> QED BY <1>2, <2>1, <3>3, <4>1, <4>2 DEF Applied, Busy
    <3>4. ~DropActive
      BY <1>2, <2>1, ConnAssumption DEF DropActive
    <3> QED BY <1>8, <3>2, <3>3, <3>4 DEF ReadActive
  <2> QED BY <1>2, <1>3, <1>5, <1>8, <2>1, <2>3, <2>4, HoldsKept
<1>9. CASE Input' = Input /\ ApplyActiveEnd
  <2>1. joining = NoConn /\ joining' = NoConn /\ c = active /\ active' = active
    BY <1>9, ConnAssumption DEF ApplyActiveEnd, DropActive, IInv, SlotShape
  <2>2. pending = 0 /\ pending' = 0 /\ conn' = conn
    BY <1>2, <1>9, <2>1, ConnAssumption DEF ApplyActiveEnd, DropActive
  <2>3. Applied(c)' = Applied(c)
    BY <2>1, <2>2 DEF Applied, Busy
  <2> QED BY <1>2, <1>3, <1>5, <1>9, <2>1, <2>3, HoldsKept
<1>10. CASE Input' = Input /\ JoinRejected
  <2>1. /\ joining \in Conns /\ joining' = NoConn /\ active' = active /\ c = active
        /\ pending' = 0 /\ conn' = Without(joining)
    BY <1>2, <1>10, ConnAssumption DEF JoinRejected, IInv, SlotShape
  <2>2. active # joining
    BY <1>2, <2>1, ConnAssumption DEF SlotsApart
  <2>3. conn'[c] = conn[c]
    BY <1>2, <2>1, <2>2, ConnAssumption DEF Without, IInv, TypeOK, ClientType
  <2>4. Applied(c) = conn[c].taken /\ Applied(c)' = conn[c].taken
    BY <1>2, <2>1, <2>2, <2>3, ConnAssumption DEF Applied, Busy
  <2> QED BY <1>2, <1>3, <1>5, <1>10, <2>1, <2>4, HoldsKept
<1>11. CASE Input' = Input /\ Activate
  <2>1. /\ joining \in Conns /\ joining' = NoConn /\ active' = joining /\ c = joining
        /\ pending = 0 /\ pending' = 0 /\ conn'[c] = conn[c]
    BY <1>2, <1>11, ConnAssumption DEF Activate, NewActive, IInv, SlotShape
  <2>2. Applied(c) = conn[c].taken /\ Applied(c)' = conn[c].taken
    BY <1>2, <2>1, ConnAssumption DEF Applied, Busy
  <2> QED BY <1>2, <1>3, <1>5, <1>11, <2>1, <2>2, HoldsKept
<1>12. CASE Input' = Input /\ pc = "candidate" /\ \E n \in 1..Arrived(candidate) : CandidateAttach(n)
  <2>1. PICK n \in 1..Arrived(candidate) : CandidateAttach(n) /\ pc = "candidate"
    BY <1>12
  <2>2. /\ candidate \in Conns /\ joining = NoConn /\ pending = 0
        /\ conn \in [Conns -> ConnType]
    BY <2>1 DEF IInv, SlotShape, InputShape, TypeOK, ClientType
  <2>3. /\ joining' = candidate /\ active' = active /\ pending' = n - 1 /\ script' = script
        /\ script[candidate][conn[candidate].taken + 1] = "attach"
        /\ conn' = [conn EXCEPT ![candidate].taken = @ + n,
                                ![candidate].queue = ReplayBytes,
                                ![candidate].stream = Replay]
    BY <2>1 DEF CandidateAttach, Upcoming
  <2>4. /\ conn'[candidate].taken = conn[candidate].taken + n
        /\ \A d \in Conns \ {candidate} : conn'[d] = conn[d]
    BY <2>2, <2>3 DEF ConnType
  <2>5. CASE c = candidate
    <3>1. /\ conn[c].taken = 0
          /\ \A p \in 1..Len(Input) : Input[p][1] # c
      BY <1>2, <2>5 DEF FreshShape, Fresh
    <3>2. n \in Int
      OBVIOUS
    <3>3. Applied(c)' = 1
      BY <2>2, <2>3, <2>4, <2>5, <3>1, <3>2, ConnAssumption DEF Applied, Busy
    <3> QED BY <1>12, <2>3, <2>5, <3>1, <3>3 DEF Holds
  <2>6. CASE c # candidate
    <3>1. c = active
      BY <2>3, <2>6
    <3>2. Applied(c) = conn[c].taken /\ Applied(c)' = conn[c].taken
      BY <1>2, <2>2, <2>3, <2>4, <2>6, <3>1, ConnAssumption DEF Applied, Busy
    <3> QED BY <1>2, <1>3, <1>5, <1>12, <3>1, <3>2, HoldsKept
  <2> QED BY <2>5, <2>6
<1>13. CASE /\ Input' = Input
            /\ active' \in {active, NoConn} /\ joining' = joining /\ pending' = pending
            /\ ~ReadActive
  <2>1. c \in {active, joining} /\ (c = active => active' = active)
    BY <1>2, <1>13, ConnAssumption DEF SlotsApart
  <2>2. c # candidate
    BY <1>2, <2>1, ConnAssumption DEF SlotsApart
  <2>3. conn'[c].taken = conn[c].taken
    BY <1>2, <1>13, <2>1, <2>2, ConnFrame
  <2>4. Applied(c)' = Applied(c)
    BY <1>13, <2>1, <2>3 DEF Applied, Busy
  <2> QED BY <1>2, <1>3, <1>5, <1>13, <2>1, <2>4, HoldsKept
<1> QED
  BY <1>6, <1>7, <1>8, <1>9, <1>10, <1>11, <1>12, <1>13, SlotFrame

\* A step leaves Input and the owners, adds a byte of the busy connection, or
\* makes the joining connection the attachment.
LEMMA InputCases ==
    ASSUME IInv, [Next]_vars
    PROVE  \/ Input' = Input /\ owners' = owners /\ ~Activate
           \/ Input' = Input /\ Activate
           \/ \E c \in Conns :
                /\ c \in {active, joining} /\ c = Busy /\ pending <= conn[c].taken
                /\ Applies(c) /\ RecordNo(c) \in Nat \ {0} /\ Len(Input') = Len(Input) + 1
                /\ \A p \in 1..Len(Input) : Input'[p] = Input[p]
                /\ Input'[Len(Input) + 1] = <<c, RecordNo(c)>>
<1>1. CASE Input' # Input
  BY <1>1, WhoApplies, Appended
<1>2. CASE Input' = Input
  <2>1. CASE ApplyActive \/ ApplyJoining
    BY <1>2, <2>1 DEF ApplyActive, ApplyJoining, ApplyRecord
  <2>2. CASE ReadActive \/ ApplyActiveEnd \/ JoinRejected
    BY <1>2, <2>2 DEF ReadActive, ApplyActiveEnd, JoinRejected
  <2>3. ASSUME NEW n, CandidateAttach(n) PROVE owners' = owners
    BY <2>3 DEF CandidateAttach
  <2> QED BY <1>2, <2>1, <2>2, <2>3, SlotFrame
<1> QED BY <1>1, <1>2

LEMMA InOrderNext ==
    ASSUME IInv, SlotsApart, FreshShape, InputShape, InputInOrder, [Next]_vars
    PROVE  InputInOrder'
<1>1. Len(Input) \in Nat /\ \A p \in 1..Len(Input) : Input[p][1] \in Conns /\ Input[p][2] \in Nat
  BY InputTyped
<1>2. \A p \in 1..Len(Input) : script'[Input[p][1]] = script[Input[p][1]]
  BY <1>1, ScriptFrame DEF Connect, FreshShape, Fresh
<1>3. CASE Input' = Input
  BY <1>1, <1>2, <1>3, ZenonT(60) DEF InputInOrder
<1>4. ASSUME NEW c \in Conns, c \in {active, joining}, c = Busy, pending <= conn[c].taken,
             Applies(c), RecordNo(c) \in Nat \ {0}, Len(Input') = Len(Input) + 1,
             \A p \in 1..Len(Input) : Input'[p] = Input[p],
             Input'[Len(Input) + 1] = <<c, RecordNo(c)>>
      PROVE  InputInOrder'
  <2>1. /\ Applied(c) = RecordNo(c) - 1 /\ script'[c] = script[c]
        /\ c # NoConn
    <3>1. pending \in Nat /\ conn[c].taken \in Nat
      BY <1>4, Appended
    <3> QED BY <1>4, <3>1, ConnAssumption DEF Applied, RecordNo, Applies
  <2>2. /\ \A p \in 1..Len(Input) : Input[p][1] = c => Input[p][2] <= RecordNo(c) - 1
        /\ \A i \in 1..(RecordNo(c) - 1) :
             script[c][i] = "input" => \E q \in 1..Len(Input) : Input[q] = <<c, i>>
    BY <1>4, <2>1 DEF InputShape
  <2>3. ASSUME NEW p \in 1..Len(Input'), NEW q \in 1..Len(Input'),
               p < q, Input'[p][1] = Input'[q][1]
        PROVE  Input'[p][2] < Input'[q][2]
    <3>1. p \in 1..Len(Input)
      BY <1>1, <1>4, <2>3
    <3>2. CASE q \in 1..Len(Input)
      BY <1>4, <2>3, <3>1, <3>2 DEF InputInOrder
    <3>3. CASE q = Len(Input) + 1
      <4>1. Input[p][1] = c /\ Input[p][2] \in Nat /\ Input'[p] = Input[p]
        BY <1>1, <1>4, <2>3, <3>1, <3>3
      <4>2. Input[p][2] <= RecordNo(c) - 1
        BY <2>2, <3>1, <4>1
      <4> QED BY <1>4, <3>3, <4>1, <4>2
    <3> QED BY <1>1, <1>4, <3>2, <3>3
  <2>4. ASSUME NEW p \in 1..Len(Input'), NEW i \in 1..(Input'[p][2] - 1),
               script'[Input'[p][1]][i] = "input"
        PROVE  \E q \in 1..(p - 1) : Input'[q] = <<Input'[p][1], i>>
    <3>1. CASE p \in 1..Len(Input)
      <4>1. Input'[p] = Input[p] /\ script[Input[p][1]][i] = "input"
        BY <1>2, <1>4, <2>4, <3>1
      <4>2. PICK q \in 1..(p - 1) : Input[q] = <<Input[p][1], i>>
        BY <2>4, <3>1, <4>1 DEF InputInOrder
      <4>3. q \in 1..Len(Input)
        BY <1>1, <3>1
      <4> QED BY <1>4, <4>1, <4>2, <4>3
    <3>2. CASE p = Len(Input) + 1
      <4>1. i \in 1..(RecordNo(c) - 1) /\ script[c][i] = "input"
        BY <1>4, <2>1, <2>4, <3>2
      <4>2. PICK q \in 1..Len(Input) : Input[q] = <<c, i>>
        BY <2>2, <4>1
      <4>3. q \in 1..(p - 1) /\ Input'[q] = <<c, i>> /\ Input'[p][1] = c
        BY <1>1, <1>4, <3>2, <4>2
      <4> QED BY <4>3
    <3> QED BY <1>1, <1>4, <3>1, <3>2
  <2> QED BY <2>3, <2>4 DEF InputInOrder
<1> QED BY <1>3, <1>4, InputCases

-----------------------------------------------------------------------------
(* One attachment at a time.                                                *)

LEMMA OwnerNext ==
    ASSUME IInv, SlotsApart, FreshShape, OwnerShape, [Next]_vars
    PROVE  OwnerShape'
<1>1. IInv' /\ owners' \subseteq Conns /\ owners \subseteq Conns
  BY TypeNext DEF IInv, TypeOK, SlotType
<1>2. Len(Input) \in Nat /\ \A p \in 1..Len(Input) : Input[p][1] \in Conns
  BY InputTyped
<1>3. CASE Activate /\ Input' = Input
  <2>1. /\ joining \in Conns /\ joining' = NoConn /\ active' = joining
        /\ owners' = owners \cup {joining}
    BY <1>3 DEF Activate, NewActive, IInv, SlotShape
  <2>2. joining # NoConn
    BY <2>1, ConnAssumption
  <2> QED BY <1>1, <1>3, <2>1, <2>2, ConnAssumption DEF OwnerShape
<1>4. CASE Input' = Input /\ owners' = owners /\ ~Activate
  <2>1. CASE active' \in {active, NoConn} /\ joining' \in {joining, NoConn}
    BY <1>1, <1>4, <2>1, ConnAssumption DEF OwnerShape
  <2>2. ASSUME NEW n, CandidateAttach(n), pc = "candidate"
        PROVE  OwnerShape'
    <3>1. candidate \in Conns /\ active' = active /\ joining' = candidate
      BY <2>2 DEF CandidateAttach, IInv, SlotShape
    <3>2. candidate \notin owners /\ \A p \in 1..Len(Input) : Input[p][1] # candidate
      BY <3>1 DEF FreshShape, Fresh
    <3> QED BY <1>4, <3>1, <3>2 DEF OwnerShape
  <2>3. CASE ApplyActive \/ ApplyJoining \/ ReadActive \/ ApplyActiveEnd \/ JoinRejected
    BY <2>1, <2>3 DEF ApplyActive, ApplyJoining, ApplyRecord, ReadActive, ApplyActiveEnd,
       DropActive, JoinRejected
  <2> QED BY <1>4, <2>1, <2>2, <2>3, SlotFrame
<1>5. ASSUME NEW c \in Conns, c = Busy, Applies(c), Len(Input') = Len(Input) + 1,
             \A p \in 1..Len(Input) : Input'[p] = Input[p],
             Input'[Len(Input) + 1] = <<c, RecordNo(c)>>
      PROVE  OwnerShape'
  <2>1. UNCHANGED <<active, joining, owners>>
    BY <1>5 DEF Applies
  <2>2. \A p : p \in 1..Len(Input') <=> p \in 1..Len(Input) \/ p = Len(Input) + 1
    BY <1>2, <1>5
  <2>3. \A p, q \in 1..Len(Input') : p < q => p \in 1..Len(Input)
    BY <1>2, <1>5
  <2>4. ASSUME active # NoConn, NEW p \in 1..Len(Input'), NEW q \in 1..Len(Input'), p < q,
               Input'[p][1] = active, Input'[q][1] \in owners
        PROVE  Input'[q][1] = active
    <3>1. CASE q \in 1..Len(Input)
      BY <1>5, <2>3, <2>4, <3>1 DEF OwnerShape
    <3>2. CASE q = Len(Input) + 1
      BY <1>5, <2>4, <3>2 DEF OwnerShape, Busy
    <3> QED BY <2>2, <3>1, <3>2
  <2>5. ASSUME joining # NoConn, NEW p \in 1..Len(Input'), NEW q \in 1..Len(Input'), p < q,
               Input'[p][1] = joining
        PROVE  Input'[q][1] = joining
    <3>1. CASE q \in 1..Len(Input)
      BY <1>5, <2>3, <2>5, <3>1 DEF OwnerShape
    <3>2. CASE q = Len(Input) + 1
      BY <1>5, <2>5, <3>2 DEF Busy
    <3> QED BY <2>2, <3>1, <3>2
  <2> QED BY <2>1, <2>4, <2>5 DEF OwnerShape
<1> QED BY <1>3, <1>4, <1>5, InputCases

LEMMA OneOwnerNext ==
    ASSUME IInv, SlotsApart, OwnerShape, OneOwnerAtATime, [Next]_vars
    PROVE  OneOwnerAtATime'
<1>1. Len(Input) \in Nat
  BY InputTyped
<1>2. CASE Input' = Input /\ owners' = owners
  BY <1>2 DEF OneOwnerAtATime
<1>3. CASE Activate /\ Input' = Input
  <2>1. joining # NoConn /\ owners' = owners \cup {joining}
    BY <1>3, ConnAssumption DEF Activate, IInv, SlotShape
  <2> SUFFICES ASSUME NEW p \in 1..Len(Input), NEW q \in 1..Len(Input), NEW r \in 1..Len(Input),
                      p < q, q < r, Input[p][1] = Input[r][1], Input[q][1] \in owners'
               PROVE  Input[q][1] = Input[p][1]
    BY <1>3 DEF OneOwnerAtATime
  <2>2. CASE Input[q][1] = joining
    BY <2>1, <2>2 DEF OwnerShape
  <2>3. CASE Input[q][1] \in owners
    BY <2>3 DEF OneOwnerAtATime
  <2> QED BY <2>1, <2>2, <2>3
<1>4. ASSUME NEW c \in Conns, c = Busy, Applies(c), Len(Input') = Len(Input) + 1,
             \A p \in 1..Len(Input) : Input'[p] = Input[p],
             Input'[Len(Input) + 1] = <<c, RecordNo(c)>>
      PROVE  OneOwnerAtATime'
  <2> SUFFICES ASSUME NEW p \in 1..Len(Input'), NEW q \in 1..Len(Input'),
                      NEW r \in 1..Len(Input'), p < q, q < r,
                      Input'[p][1] = Input'[r][1], Input'[q][1] \in owners'
               PROVE  Input'[q][1] = Input'[p][1]
    BY DEF OneOwnerAtATime
  <2>1. /\ p \in 1..Len(Input) /\ q \in 1..Len(Input) /\ owners' = owners
        /\ Input'[p] = Input[p] /\ Input'[q] = Input[q]
    <3>1. p \in 1..Len(Input) /\ q \in 1..Len(Input)
      BY <1>1, <1>4
    <3> QED BY <1>4, <3>1 DEF Applies
  <2>2. CASE r \in 1..Len(Input)
    BY <1>4, <2>1, <2>2 DEF OneOwnerAtATime
  <2>3. CASE r = Len(Input) + 1
    <3>1. Input[p][1] = c
      BY <1>4, <2>1, <2>3
    <3>2. CASE joining # NoConn
      BY <1>4, <2>1, <3>1, <3>2 DEF Busy, OwnerShape
    <3>3. CASE joining = NoConn
      BY <1>4, <2>1, <3>1, <3>3, ConnAssumption DEF Busy, OwnerShape
    <3> QED BY <3>2, <3>3
  <2> QED BY <1>1, <1>4, <2>2, <2>3
<1> QED BY <1>2, <1>3, <1>4, InputCases

-----------------------------------------------------------------------------
ClientInv == SlotsApart /\ FreshShape /\ SentShape
OrderInv == InputShape /\ OwnerShape /\ InputInOrder /\ OneOwnerAtATime

LEMMA ClientInit == Init => ClientInv
<1> SUFFICES ASSUME Init PROVE ClientInv
  OBVIOUS
<1>1. Input = <<>>
  <2>1. <<>> \in Seq(Conns \X Nat)
    BY EmptySeq
  <2> QED BY <2>1, ConcatEmptySeq DEF Init, Input
<1>2. FreshShape
  BY <1>1 DEF Init, FreshShape, NoConnection
<1>3. SentShape
  <2>1. \A c \in Conns : conn[c].sent = 0 /\ script[c] = <<>>
    BY DEF Init, NoConnection
  <2>2. \A c \in Conns : conn[c].sent <= Len(script[c])
    <3> TAKE c \in Conns
    <3>1. conn[c].sent = 0 /\ script[c] = <<>>
      BY <2>1
    <3> QED BY <3>1
  <2> QED BY <2>2 DEF SentShape
<1> QED BY <1>2, <1>3, ApartInit DEF ClientInv

LEMMA OrderInit == Init => OrderInv
<1> SUFFICES ASSUME Init PROVE OrderInv
  OBVIOUS
<1>1. Input = <<>>
  <2>1. <<>> \in Seq(Conns \X Nat)
    BY EmptySeq
  <2> QED BY <2>1, ConcatEmptySeq DEF Init, Input
<1>2. \A p : p \notin 1..Len(Input)
  BY <1>1
<1>3. active = NoConn /\ joining = NoConn /\ owners = {} /\ pending = 0
  BY DEF Init
<1>4. InputShape
  BY <1>3 DEF InputShape
<1>5. OwnerShape
  BY <1>3 DEF OwnerShape
<1>6. InputInOrder /\ OneOwnerAtATime
  BY <1>2 DEF InputInOrder, OneOwnerAtATime
<1> QED BY <1>4, <1>5, <1>6 DEF OrderInv

LEMMA ClientNext == IInv /\ ClientInv /\ [Next]_vars => ClientInv'
BY ApartNext, FreshNext, SentNext DEF ClientInv

LEMMA OrderNext == IInv /\ ClientInv /\ OrderInv /\ [Next]_vars => OrderInv'
BY InputShapeNext, OwnerNext, InOrderNext, OneOwnerNext DEF ClientInv, OrderInv

LEMMA RunnerInputs == Spec => [](IInv /\ ClientInv /\ OrderInv)
<1>1. Init => IInv /\ ClientInv /\ OrderInv
  BY TypeInit, ClientInit, OrderInit
<1>2. IInv /\ ClientInv /\ OrderInv /\ [Next]_vars => (IInv /\ ClientInv /\ OrderInv)'
  BY TypeNext, ClientNext, OrderNext
<1> QED BY <1>1, <1>2, PTL DEF Spec

\* What a client types reaches the command in the order typed, none of it
\* twice or left out, however its records are batched, the PTY takes them and
\* attachments come and go (apply_active_records, ByteQueue::flush).
THEOREM RunnerInputInOrder == Spec => []InputInOrder
<1>1. IInv /\ ClientInv /\ OrderInv => InputInOrder
  BY DEF OrderInv
<1> QED BY <1>1, RunnerInputs, PTL

\* A replaced attachment has typed its last byte: no input of its comes behind
\* input of the one that replaced it (candidate_event activates a connection
\* after its batch was applied and drops the one before).
THEOREM RunnerOneOwner == Spec => []OneOwnerAtATime
<1>1. IInv /\ ClientInv /\ OrderInv => OneOwnerAtATime
  BY DEF OrderInv
<1> QED BY <1>1, RunnerInputs, PTL

-----------------------------------------------------------------------------

\* A stop once accepted stays accepted.
LEMMA StopRequestedKept ==
    ASSUME [Next]_vars, stopRequested
    PROVE  stopRequested'
<1>1. CASE LoopStep
  BY <1>1, LoopFrame
<1>2. CASE StopStep
  BY <1>2 DEF StopStep, Reaped, Terminate, GraceOver, KillChild
<1>3. CASE CompleteStep
  BY <1>3 DEF CompleteStep, WriteOutput, WriteCompleted, RemoveLiveFiles, FlushLast, SendExit
<1>4. CASE PollInterrupted \/ Fails \/ Killed \/ ChildWrites \/ ChildExits
  BY <1>4 DEF PollInterrupted, Fails, Killed, ChildWrites, ChildExits
<1>5. ASSUME NEW c \in Conns, Connect(c) \/ Send(c) \/ HangUp(c)
      PROVE  stopRequested'
  BY <1>5 DEF Connect, Send, HangUp
<1>6. CASE UNCHANGED vars
  BY <1>6 DEF vars
<1> QED
  BY <1>1, <1>2, <1>3, <1>4, <1>5, <1>6 DEF Next, RunnerStep

\* While the candidate's event is handled only that handler lets go of it, or
\* the runner ends.
LEMMA CandidateHeld ==
    ASSUME pc = "candidate", Next, NEW c, c = candidate, ~Ended', ~Open(c)'
    PROVE  CandidateBatch \/ CandidateReadFailed
<1>1. CASE LoopStep
  <2>1. CASE CandidateNothing
    BY <2>1 DEF CandidateNothing, Open
  <2> QED
    BY <1>1, <2>1
    DEF LoopStep, DrainRead, DrainEnd, Reap, Poll, FlushInput, FlushActive, ReadActive,
        ApplyActive, ApplyActiveEnd, Settle, Accept, AcceptEnd, ApplyJoining, Activate,
        JoinRejected, StopCheck
<1>2. CASE StopStep \/ CompleteStep \/ PollInterrupted
  BY <1>2
  DEF StopStep, Reaped, Terminate, GraceOver, KillChild, CompleteStep, WriteOutput,
      WriteCompleted, RemoveLiveFiles, FlushLast, SendExit, PollInterrupted, Stopping
<1>3. CASE Fails \/ Killed
  BY <1>3 DEF Fails, Killed, Ended, Ends
<1>4. CASE ChildWrites \/ ChildExits
  BY <1>4 DEF ChildWrites, ChildExits, Open
<1>5. ASSUME NEW d \in Conns, Connect(d) \/ Send(d) \/ HangUp(d)
      PROVE  FALSE
  BY <1>5 DEF Connect, Send, HangUp, Open
<1> QED
  BY <1>1, <1>2, <1>3, <1>4, <1>5 DEF Next, RunnerStep

\* The only record of a `stop` client, once it has arrived, is taken alone.
LEMMA StopGranted ==
    ASSUME IInv, ClientInv, NEW c \in Conns, Stops(c), pc = "candidate", c = candidate,
           conn[c].sent > 0, CandidateBatch \/ CandidateReadFailed
    PROVE  stopRequested'
<1>1. conn[c].sent \in Nat /\ conn[c].taken = 0 /\ conn[c].sent <= Len(script[c])
  BY DEF IInv, TypeOK, ClientType, ConnType, ClientInv, FreshShape, Fresh, SentShape
<1>2. Len(script[c]) = 1 /\ script[c][1] = "stop"
  BY DEF Stops
<1>3. conn[c].sent = 1 /\ Arrived(c) = 1 /\ Upcoming(c, 1) = "stop"
  BY <1>1, <1>2 DEF Arrived, Upcoming
<1>4. ~CandidateReadFailed
  <2>1. \A n \in 1..Arrived(c) : Decodes(c, n)
    BY <1>3 DEF Decodes
  <2> QED BY <1>3, <2>1 DEF CandidateReadFailed, ReadError
<1>5. PICK n \in 1..Arrived(c) : CandidateAttach(n) \/ CandidateStop(n) \/ CandidateRejected(n)
  BY <1>4 DEF CandidateBatch
<1>6. n = 1
  BY <1>3, <1>5
<1> QED BY <1>3, <1>5, <1>6 DEF CandidateAttach, CandidateStop, CandidateRejected

LEMMA HonestNext ==
    ASSUME IInv, ClientInv, StopHonest, [StopNext]_stopVars
    PROVE  StopHonest'
<1>1. CASE StopNext
  <2> SUFFICES ASSUME NEW c \in Conns, answer'[c] = "ok"
               PROVE  stopRequested'
    BY DEF StopHonest
  <2>1. CASE answer[c] = "ok"
    BY <1>1, <2>1, StopRequestedKept DEF StopNext, StopHonest
  <2>2. CASE answer[c] # "ok"
    <3>1. Stops(c) /\ Returned(c) = "ok"
      BY <1>1, <2>2 DEF StopNext
    <3>2. RecordRead(c) /\ ~Open(c)'
      BY <3>1 DEF Returned
    <3>3. pc = "candidate" /\ c = candidate /\ conn[c].sent > 0 /\ ~Ended'
      BY <3>2 DEF RecordRead
    <3>4. CandidateBatch \/ CandidateReadFailed
      BY <1>1, <3>2, <3>3, CandidateHeld DEF StopNext
    <3> QED BY <3>1, <3>3, <3>4, StopGranted
  <2> QED BY <2>1, <2>2
<1>2. CASE UNCHANGED stopVars
  BY <1>2 DEF stopVars, vars, StopHonest
<1> QED BY <1>1, <1>2

\* An `afk stop` that reported success was accepted by the runner, whatever
\* displaces its connection and however the session ends in the meantime
\* (attach.rs stop against candidate_event).
THEOREM StopCallHonest == StopSpec => []StopHonest
<1>1. StopInit => IInv /\ ClientInv /\ StopHonest
  <2> SUFFICES ASSUME StopInit PROVE IInv /\ ClientInv /\ StopHonest
    OBVIOUS
  <2>1. \A c \in Conns : answer[c] = "none"
    BY DEF StopInit
  <2> QED BY <2>1, TypeInit, ClientInit DEF StopInit, StopHonest
<1>2. IInv /\ ClientInv /\ StopHonest /\ [StopNext]_stopVars => (IInv /\ ClientInv /\ StopHonest)'
  <2> SUFFICES ASSUME IInv, ClientInv, StopHonest, [StopNext]_stopVars
               PROVE  (IInv /\ ClientInv /\ StopHonest)'
    OBVIOUS
  <2>1. [Next]_vars
    BY DEF StopNext, stopVars
  <2> QED BY <2>1, TypeNext, ClientNext, HonestNext
<1> QED BY <1>1, <1>2, PTL DEF StopSpec

=============================================================================

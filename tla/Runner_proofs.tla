---------------------------- MODULE Runner_proofs ----------------------------
(***************************************************************************)
(* Proofs about module Runner, for any number of clients, any scripts and  *)
(* any limits that meet its assumptions.                                   *)
(*                                                                         *)
(* TypeOK is not inductive: the limits in it rest on the tail being the    *)
(* end of what was read (TailShape), and the places where the loop uses a  *)
(* connection on the slot being filled there (SlotShape).                  *)
(***************************************************************************)
EXTENDS Runner, SequenceTheorems, TLAPS

\* The retained interval ends at the last byte read, is no longer than the
\* ring, and is flagged truncated exactly when it does not begin at byte 1.
TailShape ==
    /\ tail.hi = nRead
    /\ tail.lo \in 1..(nRead + 1)
    /\ nRead - tail.lo + 1 <= TailCapacity
    /\ tail.truncated <=> tail.lo > 1

AfterPollPcs == {"input", "flush", "read", "apply", "settle", "accept"}

\* The unwraps of run_event_loop: the slot a step works on is filled.
SlotShape ==
    /\ pc = "apply" => active \in Conns /\ pending <= conn[active].taken
    /\ pc = "join" => joining \in Conns /\ pending <= conn[joining].taken
    /\ pc \in {"notify", "exit"} => active \in Conns
    /\ pc = "candidate" => candidate \in Conns
    /\ pc \in AfterPollPcs /\ events.cand => candidate \in Conns
    /\ joining # NoConn => pc \in {"join", "failed", "killed"}

\* A connection is in one place only, and in none before it was made.
Waiting(c) == \E i \in 1..Len(backlog) : backlog[i] = c
SlotsApart ==
    /\ active # NoConn => active # candidate /\ active # joining /\ ~Waiting(active)
    /\ candidate # NoConn => candidate # joining /\ ~Waiting(candidate)
    /\ joining # NoConn => ~Waiting(joining)
    /\ \A i, j \in 1..Len(backlog) : backlog[i] = backlog[j] => i = j
    /\ \A c \in Conns : script[c] = <<>> => c \notin {active, candidate, joining} /\ ~Waiting(c)

IInv == TypeOK /\ TailShape /\ SlotShape

\* The groups of variables that UNCHANGED names.
USE DEF still, ptyVars, fileVars, inputVars, loopVars, slotVars, besideActive

-----------------------------------------------------------------------------
(* Types.                                                                   *)

LEMMA SizeFacts ==
    /\ TailCapacity \in Nat \ {0} /\ HeaderBytes \in Nat \ {0} /\ MaxPayload \in Nat \ {0}
    /\ MarkerBytes \in Nat \ {0} /\ IoChunk \in Nat \ {0} /\ MaxPerTick \in Nat \ {0}
    /\ QueueLimit \in Nat /\ InputLimit \in Nat /\ ExitBytes \in Nat
    /\ PtyCapacity \in Nat /\ MaxOut \in Nat
BY SizeAssumption

LEMMA BytesType ==
    ASSUME NEW lo \in Nat, NEW hi \in Nat, lo <= hi + 1
    PROVE  Bytes(lo, hi) \in Seq(Int)
<1> hi - lo + 1 \in Nat
  OBVIOUS
<1> QED
  BY DEF Bytes

\* What a step leaves alone keeps its type.
LEMMA Untouched ==
    ASSUME IInv
    PROVE  /\ UNCHANGED <<script, conn>> => ClientType'
           /\ UNCHANGED ptyVars => PtyType' /\ TailShape'
           /\ UNCHANGED loopVars => LoopType'
           /\ UNCHANGED slotVars => SlotType'
           /\ UNCHANGED inputVars => InputType'
           /\ UNCHANGED fileVars => FileType'
<1>1. UNCHANGED <<script, conn>> => ClientType'
  BY DEF IInv, TypeOK, ClientType
<1>2. UNCHANGED ptyVars => PtyType' /\ TailShape'
  BY DEF IInv, TypeOK, PtyType, TailShape
<1>3. UNCHANGED loopVars => LoopType'
  BY DEF IInv, TypeOK, LoopType
<1>4. UNCHANGED slotVars => SlotType'
  BY DEF IInv, TypeOK, SlotType
<1>5. UNCHANGED inputVars => InputType'
  BY DEF IInv, TypeOK, InputType
<1>6. UNCHANGED fileVars => FileType'
  BY DEF IInv, TypeOK, FileType
<1> QED BY <1>1, <1>2, <1>3, <1>4, <1>5, <1>6

LEMMA NoConnectionType == NoConnection \in ConnType
BY SizeFacts DEF NoConnection, ConnType

\* Dropping a connection, or none.
LEMMA WithoutType ==
    ASSUME conn \in [Conns -> ConnType], NEW c \in Conns \cup {NoConn}
    PROVE  Without(c) \in [Conns -> ConnType]
BY NoConnectionType DEF Without

\* A connection whose fields are set keeps its type.
LEMMA ConnUpdate ==
    ASSUME conn \in [Conns -> ConnType], NEW c \in Conns,
           NEW sent \in Nat, NEW taken \in Nat, NEW hup \in BOOLEAN,
           NEW queue \in 0..QueueLimit, NEW stream \in Seq(Int)
    PROVE  [conn EXCEPT ![c] = [sent |-> sent, taken |-> taken, hup |-> hup,
                                queue |-> queue, stream |-> stream]] \in [Conns -> ConnType]
BY DEF ConnType

\* The fields of a connection.
LEMMA ConnFields ==
    ASSUME conn \in [Conns -> ConnType], NEW c \in Conns
    PROVE  /\ conn[c].sent \in Nat /\ conn[c].taken \in Nat /\ conn[c].hup \in BOOLEAN
           /\ conn[c].queue \in 0..QueueLimit /\ conn[c].stream \in Seq(Int)
           /\ conn[c] = [sent |-> conn[c].sent, taken |-> conn[c].taken, hup |-> conn[c].hup,
                         queue |-> conn[c].queue, stream |-> conn[c].stream]
BY DEF ConnType

\* Part of a queue can be written out, or more put in below its limit.
LEMMA QueueUpdate ==
    ASSUME conn \in [Conns -> ConnType], NEW c \in Conns, NEW n \in 0..QueueLimit
    PROVE  [conn EXCEPT ![c].queue = n] \in [Conns -> ConnType]
BY DEF ConnType

\* The retained output is at most the ring, so a replay fits an empty queue.
LEMMA ReplayFits ==
    ASSUME IInv
    PROVE  /\ TailLen \in 0..TailCapacity
           /\ ReplayBytes \in 0..QueueLimit
           /\ Replay \in Seq(Int)
<1>1. TailLen \in 0..TailCapacity
  BY SizeFacts DEF IInv, TypeOK, TailShape, PtyType, TailLen
<1>2. ReplayBytes \in 0..QueueLimit
  <2>1. Wire(TailLen) \in Nat /\ Wire(MarkerBytes) + Wire(TailLen) <= QueueLimit
    BY <1>1, ReplayAssumption
  <2>2. Wire(MarkerBytes) \in Nat
    <3>1. \A a, b \in Nat \ {0} : (a + b - 1) \div b \in Nat
      OBVIOUS
    <3>2. (MarkerBytes + MaxPayload - 1) \div MaxPayload \in Nat
      BY <3>1, SizeFacts
    <3> QED BY <3>2, SizeFacts DEF Wire
  <2> HIDE DEF Wire
  <2> QED BY <2>1, <2>2, SizeFacts DEF ReplayBytes
<1>3. Replay \in Seq(Int)
  <2>1. Bytes(tail.lo, tail.hi) \in Seq(Int)
    BY BytesType DEF IInv, TypeOK, TailShape, PtyType
  <2> QED BY <2>1, ConcatProperties DEF Replay, Marker
<1> QED BY <1>1, <1>2, <1>3

\* A Live record, attached or not.
LEMMA LiveMetaType == \A attached \in BOOLEAN : LiveMeta(attached) \in MetaType
BY SizeFacts DEF LiveMeta, MetaType

LEMMA TypeInit == Init => IInv
<1> SUFFICES ASSUME Init PROVE IInv
  OBVIOUS
<1>1. ClientType
  BY NoConnectionType DEF Init, ClientType
<1>2. PtyType /\ TailShape
  BY SizeFacts DEF Init, PtyType, TailShape
<1>3. LoopType /\ SlotType
  <2>1. LoopType
    BY DEF Init, LoopType, EventType, NoEvents
  <2>2. <<>> \in Seq(Conns)
    OBVIOUS
  <2> QED BY <2>1, <2>2 DEF Init, SlotType
<1>4. InputType
  BY SizeFacts DEF Init, InputType
<1>5. FileType
  BY SizeFacts DEF Init, FileType, MetaType, LiveMeta, NoFile
<1>6. pc \in PcType /\ SlotShape
  BY DEF Init, PcType, Looping, SlotShape, AfterPollPcs, NoEvents
<1> QED BY <1>1, <1>2, <1>3, <1>4, <1>5, <1>6 DEF IInv, TypeOK

\* One record of a batch: input is queued while there is room, and the
\* dimensions come from the connection the batch is of.
LEMMA ApplyRecordInput ==
    ASSUME IInv, NEW c \in Conns, pending <= conn[c].taken, ApplyRecord(c)
    PROVE  InputType'
<1>1. /\ ptyInput \in Seq(Conns \X Nat) /\ childIn \in Seq(Conns \X Nat)
      /\ Len(ptyInput) \in Nat /\ Len(ptyInput) <= InputLimit /\ winsize \in Conns \cup {NoConn}
  BY LenProperties DEF IInv, TypeOK, InputType
<1>2. childIn' = childIn
  BY DEF ApplyRecord
<1>3. CASE ptyInput' = Append(ptyInput, <<c, RecordNo(c)>>) /\ winsize' = winsize
           /\ script[c][RecordNo(c)] = "input"
  <2>1. pending \in Nat /\ conn[c].taken \in Nat
    BY ConnFields DEF IInv, TypeOK, SlotType, ClientType
  <2>2. RecordNo(c) \in Nat
    BY <2>1 DEF RecordNo
  <2>3. Len(ptyInput) < InputLimit
    BY <1>3 DEF ApplyRecord, Acceptable
  <2>4. <<c, RecordNo(c)>> \in Conns \X Nat
    BY <2>2
  <2>5. ptyInput' \in Seq(Conns \X Nat) /\ Len(ptyInput') = Len(ptyInput) + 1
    BY <1>1, <1>3, <2>4, AppendProperties
  <2>6. Len(ptyInput') <= InputLimit
    BY <1>1, <2>3, <2>5, SizeFacts
  <2> QED BY <1>1, <1>2, <1>3, <2>5, <2>6 DEF InputType
<1>4. CASE ptyInput' = ptyInput /\ winsize' = c
  BY <1>1, <1>2, <1>4 DEF InputType
<1> QED BY <1>3, <1>4 DEF ApplyRecord

\* One read of the PTY.
LEMMA DrainReadPty ==
    ASSUME IInv, DrainRead
    PROVE  PtyType' /\ TailShape'
<1>1. PICK n \in 1..IoChunk :
        /\ n <= written - nRead
        /\ tail' = TailExtend(n)
        /\ processed' = processed + n
        /\ nRead' = nRead + n
  BY DEF DrainRead
<1>2. /\ child' = child /\ written' = written /\ writtenAtExit' = writtenAtExit
      /\ processed < MaxPerTick
  BY DEF DrainRead, InBudget
<1>3. /\ nRead \in Nat /\ tail.lo \in 1..(nRead + 1) /\ tail.hi = nRead
      /\ nRead - tail.lo + 1 <= TailCapacity /\ TailLen = nRead - tail.lo + 1
      /\ tail \in [lo : Nat, hi : Nat, truncated : BOOLEAN]
      /\ (tail.truncated <=> tail.lo > 1)
  BY DEF IInv, TypeOK, PtyType, TailShape, TailLen
<1>4. n \in Nat \ {0} /\ n <= IoChunk
  BY SizeFacts
<1>5. processed' \in 0..(MaxPerTick + IoChunk)
  BY <1>1, <1>2, <1>4, SizeFacts DEF IInv, TypeOK, PtyType
<1>6. CASE n >= TailCapacity
  <2>1. tail' = [lo |-> nRead + n - TailCapacity + 1, hi |-> nRead + n,
                 truncated |-> tail.truncated \/ TailLen # 0 \/ n > TailCapacity]
    BY <1>1, <1>6 DEF TailExtend
  <2>2. (tail.truncated \/ TailLen # 0 \/ n > TailCapacity) <=> nRead + n - TailCapacity + 1 > 1
    BY <1>3, <1>4, <1>6, SizeFacts
  <2>3. (tail.truncated \/ TailLen # 0 \/ n > TailCapacity) \in BOOLEAN
    OBVIOUS
  <2>4. /\ nRead + n - TailCapacity + 1 \in 1..(nRead + n + 1)
        /\ (nRead + n) - (nRead + n - TailCapacity + 1) + 1 <= TailCapacity
        /\ nRead + n \in Nat /\ nRead + n - TailCapacity + 1 \in Nat
    BY <1>3, <1>4, <1>6, SizeFacts
  <2>5. TailShape'
    <3> DEFINE cut == tail.truncated \/ TailLen # 0 \/ n > TailCapacity
    <3> DEFINE new == nRead + n - TailCapacity + 1
    <3>1. tail'.lo = new /\ tail'.hi = nRead + n /\ tail'.truncated = cut
      BY <2>1
    <3>2. /\ cut <=> new > 1
          /\ new \in 1..(nRead + n + 1) /\ (nRead + n) - new + 1 <= TailCapacity
      BY <2>2, <2>4
    <3> HIDE DEF cut, new
    <3> QED BY <1>1, <3>1, <3>2 DEF TailShape
  <2>6. tail' \in [lo : Nat, hi : Nat, truncated : BOOLEAN]
    BY <2>1, <2>3, <2>4
  <2> QED BY <1>1, <1>2, <1>5, <2>4, <2>5, <2>6 DEF IInv, TypeOK, PtyType
<1>7. CASE n < TailCapacity /\ TailLen + n > TailCapacity
  <2>1. tail' = [lo |-> tail.lo + (TailLen + n - TailCapacity), hi |-> tail.hi + n, truncated
     |-> TRUE]
    BY <1>1, <1>3, <1>4, <1>7, SizeFacts DEF TailExtend
  <2>2. /\ tail.lo + (TailLen + n - TailCapacity) \in 1..(nRead + n + 1)
        /\ tail.lo + (TailLen + n - TailCapacity) > 1
        /\ tail.lo + (TailLen + n - TailCapacity) \in Nat
        /\ (nRead + n) - (tail.lo + (TailLen + n - TailCapacity)) + 1 <= TailCapacity
        /\ nRead + n \in Nat
    BY <1>3, <1>4, <1>7, SizeFacts
  <2>3. TailShape'
    BY <1>1, <1>3, <2>1, <2>2 DEF TailShape
  <2> QED BY <1>1, <1>2, <1>3, <1>5, <2>1, <2>2, <2>3 DEF IInv, TypeOK, PtyType
<1>8. CASE n < TailCapacity /\ TailLen + n <= TailCapacity
  <2>1. tail' = [lo |-> tail.lo, hi |-> tail.hi + n, truncated |-> tail.truncated]
    BY <1>1, <1>3, <1>4, <1>8, SizeFacts DEF TailExtend
  <2>2. /\ nRead + n \in Nat /\ tail.lo \in 1..(nRead + n + 1)
        /\ (nRead + n) - tail.lo + 1 <= TailCapacity
    BY <1>3, <1>4, <1>8, SizeFacts
  <2>3. TailShape'
    BY <1>1, <1>3, <2>1, <2>2 DEF TailShape
  <2> QED BY <1>1, <1>2, <1>3, <1>5, <2>1, <2>2, <2>3 DEF IInv, TypeOK, PtyType
<1> QED BY <1>3, <1>4, <1>6, <1>7, <1>8, SizeFacts

LEMMA ChildWritesInv ==
    ASSUME IInv, ChildWrites
    PROVE  IInv'
<1>1. ClientType' /\ LoopType' /\ SlotType' /\ InputType' /\ FileType'
  BY Untouched DEF ChildWrites
<1>2. PtyType'
  BY SizeFacts DEF IInv, TypeOK, PtyType, TailShape, ChildWrites, PtyOpen
<1>3. TailShape'
  BY SizeFacts DEF IInv, TypeOK, TailShape, PtyType, ChildWrites, PtyOpen
<1>4. (pc \in PcType)' /\ SlotShape'
  BY ConnAssumption DEF IInv, TypeOK, PcType, Looping, Stopping, Completing, Ends, SlotShape,
     AfterPollPcs, SlotType, ClientType, ConnType, LoopType, EventType, ChildWrites, PtyOpen
<1> QED BY <1>1, <1>2, <1>3, <1>4 DEF IInv, TypeOK

LEMMA ChildExitsInv ==
    ASSUME IInv, ChildExits
    PROVE  IInv'
<1>1. ClientType' /\ LoopType' /\ SlotType' /\ InputType' /\ FileType'
  BY Untouched DEF ChildExits
<1>2. PtyType'
  BY StatusAssumption DEF IInv, TypeOK, PtyType, ChildExits
<1>3. TailShape'
  BY SizeFacts DEF IInv, TypeOK, TailShape, PtyType, ChildExits
<1>4. (pc \in PcType)' /\ SlotShape'
  BY ConnAssumption DEF IInv, TypeOK, PcType, Looping, Stopping, Completing, Ends, SlotShape,
     AfterPollPcs, SlotType, ClientType, ConnType, LoopType, EventType, ChildExits
<1> QED BY <1>1, <1>2, <1>3, <1>4 DEF IInv, TypeOK

LEMMA ConnectInv ==
    ASSUME NEW c \in Conns, IInv, Connect(c)
    PROVE  IInv'
<1>1. PtyType' /\ LoopType' /\ InputType' /\ FileType' /\ TailShape'
  BY Untouched DEF Connect
<1>2. SlotType'
  BY DEF IInv, TypeOK, SlotType, SlotShape, Connect
<1>3. ClientType'
  BY DEF IInv, TypeOK, ClientType, ConnType, Connect
<1>4. (pc \in PcType)' /\ SlotShape'
  BY ConnAssumption DEF IInv, TypeOK, PcType, Looping, Stopping, Completing, Ends, SlotShape,
     AfterPollPcs, SlotType, ClientType, ConnType, LoopType, EventType, Connect
<1> QED BY <1>1, <1>2, <1>3, <1>4 DEF IInv, TypeOK

LEMMA SendInv ==
    ASSUME NEW c \in Conns, IInv, Send(c)
    PROVE  IInv'
<1>1. PtyType' /\ LoopType' /\ SlotType' /\ InputType' /\ FileType' /\ TailShape'
  BY Untouched DEF Send
<1>2. ClientType'
  <2>1. conn \in [Conns -> ConnType] /\ script' = script
    BY DEF IInv, TypeOK, ClientType, Send
  <2>2. conn[c].sent + 1 \in Nat
    BY <2>1, ConnFields
  <2> QED BY <2>1, <2>2 DEF IInv, TypeOK, ClientType, ConnType, Send
<1>3. (pc \in PcType)' /\ SlotShape'
  BY ConnAssumption DEF IInv, TypeOK, PcType, Looping, Stopping, Completing, Ends, SlotShape,
     AfterPollPcs, SlotType, ClientType, ConnType, LoopType, EventType, Send, Open
<1> QED BY <1>1, <1>2, <1>3 DEF IInv, TypeOK

LEMMA HangUpInv ==
    ASSUME NEW c \in Conns, IInv, HangUp(c)
    PROVE  IInv'
<1>1. PtyType' /\ LoopType' /\ SlotType' /\ InputType' /\ FileType' /\ TailShape'
  BY Untouched DEF HangUp
<1>2. ClientType'
  BY DEF IInv, TypeOK, ClientType, ConnType, HangUp, Open
<1>3. (pc \in PcType)' /\ SlotShape'
  BY ConnAssumption DEF IInv, TypeOK, PcType, Looping, Stopping, Completing, Ends, SlotShape,
     AfterPollPcs, SlotType, ClientType, ConnType, LoopType, EventType, HangUp, Open
<1> QED BY <1>1, <1>2, <1>3 DEF IInv, TypeOK

LEMMA KilledInv ==
    ASSUME IInv, Killed
    PROVE  IInv'
<1>1. ClientType' /\ PtyType' /\ LoopType' /\ SlotType' /\ InputType' /\ FileType' /\ TailShape'
  BY Untouched DEF Killed
<1>2. (pc \in PcType)' /\ SlotShape'
  BY ConnAssumption DEF IInv, TypeOK, PcType, Looping, Stopping, Completing, Ends, SlotShape,
     AfterPollPcs, SlotType, ClientType, ConnType, LoopType, EventType, Killed
<1> QED BY <1>1, <1>2 DEF IInv, TypeOK

LEMMA FailsInv ==
    ASSUME IInv, Fails
    PROVE  IInv'
<1>1. ClientType' /\ PtyType' /\ LoopType' /\ SlotType' /\ InputType' /\ TailShape'
  BY Untouched DEF Fails
<1>2. FileType'
  BY DEF IInv, TypeOK, FileType, MetaType, PtyType, LoopType, Fails
<1>3. (pc \in PcType)' /\ SlotShape'
  BY ConnAssumption DEF IInv, TypeOK, PcType, Looping, Stopping, Completing, Ends, SlotShape,
     AfterPollPcs, SlotType, ClientType, ConnType, LoopType, EventType, Fails
<1> QED BY <1>1, <1>2, <1>3 DEF IInv, TypeOK

LEMMA DrainReadInv ==
    ASSUME IInv, DrainRead
    PROVE  IInv'
<1>1. LoopType' /\ InputType' /\ FileType'
  BY Untouched DEF DrainRead
<1>2. PtyType'
  BY DrainReadPty
<1>3. SlotType'
  BY DEF IInv, TypeOK, SlotType, SlotShape, DrainRead, InBudget, TailExtend, TailLen,
     EnqueueLive, Fits, DropSlow, DropActive, Without, NoConnection
<1>4. ClientType'
  <2>1. PICK n \in 1..IoChunk : n <= written - nRead /\ EnqueueLive(n)
    BY DEF DrainRead
  <2>2. script' = script /\ conn \in [Conns -> ConnType] /\ active \in Conns \cup {NoConn}
    BY DEF IInv, TypeOK, ClientType, SlotType, DrainRead
  <2>3. CASE DropActive
    BY <2>2, <2>3, WithoutType DEF IInv, TypeOK, ClientType, DropActive
  <2>4. CASE active # NoConn /\ Fits(n) /\ conn' = [conn EXCEPT ![active].queue = @ + Wire(n),
                 ![active].stream = @ \o Bytes(nRead + 1, nRead + n)]
    <3>1. active \in Conns
      BY <2>2, <2>4
    <3>2. Wire(n) \in Nat
      BY SizeFacts, WireAssumption
    <3>3. conn[active].queue \in 0..QueueLimit /\ conn[active].stream \in Seq(Int)
      BY <2>2, <3>1, ConnFields
    <3>4. conn[active].queue + Wire(n) \in 0..QueueLimit
      <4> DEFINE wire == Wire(n)
      <4> DEFINE queued == conn[active].queue
      <4>1. wire \in Nat /\ queued \in 0..QueueLimit /\ queued + wire <= QueueLimit
        BY <2>4, <3>2, <3>3 DEF Fits
      <4> HIDE DEF wire, queued
      <4>2. queued + wire \in 0..QueueLimit
        BY <4>1, SizeFacts
      <4> QED BY <4>2 DEF wire, queued
    <3>5. Bytes(nRead + 1, nRead + n) \in Seq(Int)
      BY BytesType DEF IInv, TypeOK, PtyType
    <3>6. conn[active].stream \o Bytes(nRead + 1, nRead + n) \in Seq(Int)
      BY <3>3, <3>5, ConcatProperties
    <3> DEFINE new == [conn[active] EXCEPT !.queue = conn[active].queue + Wire(n),
                                           !.stream = conn[active].stream \o Bytes(nRead + 1,
     nRead + n)]
    <3>7. new \in ConnType
      BY <2>2, <3>1, <3>4, <3>6 DEF ConnType
    <3>8. conn' = [conn EXCEPT ![active] = new]
      BY <2>2, <2>4, <3>1 DEF ConnType
    <3> HIDE DEF new
    <3> QED BY <2>2, <3>1, <3>7, <3>8 DEF IInv, TypeOK, ClientType
  <2> QED BY <2>1, <2>3, <2>4 DEF EnqueueLive, DropSlow
<1>5. TailShape'
  BY DrainReadPty
<1>6. (pc \in PcType)' /\ SlotShape'
  BY ConnAssumption DEF IInv, TypeOK, PcType, Looping, Stopping, Completing, Ends, SlotShape,
     AfterPollPcs, SlotType, ClientType, ConnType, LoopType, EventType, DrainRead, InBudget,
     TailExtend, TailLen, EnqueueLive, Fits, DropSlow, DropActive, Without, NoConnection
<1> QED BY <1>1, <1>2, <1>3, <1>4, <1>5, <1>6 DEF IInv, TypeOK

LEMMA DrainEndInv ==
    ASSUME IInv, DrainEnd
    PROVE  IInv'
<1>1. ClientType' /\ LoopType' /\ SlotType' /\ InputType' /\ FileType'
  BY Untouched DEF DrainEnd
<1>2. PtyType'
  <2>1. 0 \in 0..(MaxPerTick + IoChunk)
    BY SizeFacts
  <2> QED BY <2>1 DEF IInv, TypeOK, PtyType, DrainEnd
<1>3. TailShape'
  BY SizeFacts DEF IInv, TypeOK, TailShape, PtyType, DrainEnd, AfterDrain
<1>4. (pc \in PcType)' /\ SlotShape'
  BY ConnAssumption DEF IInv, TypeOK, PcType, Looping, Stopping, Completing, Ends, SlotShape,
     AfterPollPcs, SlotType, ClientType, ConnType, LoopType, EventType, DrainEnd, AfterDrain
<1> QED BY <1>1, <1>2, <1>3, <1>4 DEF IInv, TypeOK

LEMMA ReapInv ==
    ASSUME IInv, Reap
    PROVE  IInv'
<1>1. ClientType' /\ PtyType' /\ SlotType' /\ InputType' /\ TailShape'
  BY Untouched DEF Reap
<1>2. FileType'
  BY LiveMetaType DEF IInv, TypeOK, FileType, Reap
<1>3. LoopType'
  BY DEF IInv, TypeOK, LoopType, EventType, PtyType, Reap, AfterExit, ChildExited,
     AttachmentLost, LiveMeta
<1>4. (pc \in PcType)' /\ SlotShape'
  BY ConnAssumption DEF IInv, TypeOK, PcType, Looping, Stopping, Completing, Ends, SlotShape,
     AfterPollPcs, SlotType, ClientType, ConnType, LoopType, EventType, Reap, AfterExit,
     ChildExited, AttachmentLost, LiveMeta
<1> QED BY <1>1, <1>2, <1>3, <1>4 DEF IInv, TypeOK

LEMMA PollInv ==
    ASSUME IInv, Poll
    PROVE  IInv'
<1>1. ClientType' /\ PtyType' /\ SlotType' /\ InputType' /\ FileType' /\ TailShape'
  BY Untouched DEF Poll
<1>2. LoopType'
  BY DEF IInv, TypeOK, LoopType, EventType, PtyType, Poll, AfterPoll, AfterInput, AfterActive,
     AfterAccept, ListenerReady, Readable
<1>3. (pc \in PcType)' /\ SlotShape'
  <2>1. PICK ptyOut, actOut \in BOOLEAN :
          events' = [ptyOut |-> ptyOut, listen |-> ListenerReady,
                     cand |-> candidate # NoConn /\ Readable(candidate),
                     act |-> active # NoConn, actOut |-> actOut,
                     actIn |-> active # NoConn /\ Readable(active)]
    BY DEF Poll
  <2>2. events'.cand => candidate # NoConn
    BY <2>1
  <2>3. pc' \in {"input", "flush", "accept", "candidate", "stop"} /\ (pc' = "candidate" =>
     events'.cand)
    BY DEF Poll, AfterPoll, AfterInput, AfterActive, AfterAccept
  <2>4. candidate' = candidate /\ joining' = joining /\ candidate \in Conns \cup {NoConn} /\
     joining = NoConn
    BY DEF IInv, TypeOK, SlotType, SlotShape, Poll
  <2> QED BY <2>2, <2>3, <2>4 DEF PcType, Looping, SlotShape, AfterPollPcs
<1> QED BY <1>1, <1>2, <1>3 DEF IInv, TypeOK

LEMMA PollInterruptedInv ==
    ASSUME IInv, PollInterrupted
    PROVE  IInv'
<1>1. ClientType' /\ PtyType' /\ SlotType' /\ InputType' /\ FileType' /\ TailShape'
  BY Untouched DEF PollInterrupted
<1>2. LoopType'
  BY DEF IInv, TypeOK, LoopType, EventType, PtyType, PollInterrupted
<1>3. (pc \in PcType)' /\ SlotShape'
  BY ConnAssumption DEF IInv, TypeOK, PcType, Looping, Stopping, Completing, Ends, SlotShape,
     AfterPollPcs, SlotType, ClientType, ConnType, LoopType, EventType, PollInterrupted
<1> QED BY <1>1, <1>2, <1>3 DEF IInv, TypeOK

LEMMA FlushInputInv ==
    ASSUME IInv, FlushInput
    PROVE  IInv'
<1>1. PtyType' /\ LoopType' /\ FileType' /\ TailShape'
  BY Untouched DEF FlushInput
<1>2. InputType'
  <2>1. PICK n \in 0..Len(ptyInput) :
          /\ childIn' = childIn \o SubSeq(ptyInput, 1, n)
          /\ ptyInput' = SubSeq(ptyInput, n + 1, Len(ptyInput))
    BY DEF FlushInput, Unflushed
  <2>2. ptyInput \in Seq(Conns \X Nat) /\ childIn \in Seq(Conns \X Nat)
        /\ Len(ptyInput) <= InputLimit /\ Len(ptyInput) \in Nat
    BY LenProperties DEF IInv, TypeOK, InputType
  <2>3. SubSeq(ptyInput, 1, n) \in Seq(Conns \X Nat)
    BY <2>2, SubSeqProperties
  <2>4. childIn' \in Seq(Conns \X Nat)
    BY <2>1, <2>2, <2>3, ConcatProperties
  <2>5. ptyInput' \in Seq(Conns \X Nat)
    BY <2>1, <2>2, SubSeqProperties
  <2>6. Len(ptyInput') <= Len(ptyInput)
    <3>1. Len(SubSeq(ptyInput, n + 1, Len(ptyInput))) = IF n + 1 <= Len(ptyInput) THEN
     Len(ptyInput) - (n + 1) + 1 ELSE 0
      BY <2>2, SubSeqProperties
    <3> QED BY <3>1, <2>1, <2>2
  <2>7. Len(ptyInput') <= InputLimit
    BY <2>2, <2>5, <2>6, LenProperties, SizeFacts
  <2> QED BY <2>4, <2>5, <2>7 DEF IInv, TypeOK, InputType, FlushInput
<1>3. SlotType'
  BY DEF IInv, TypeOK, SlotType, SlotShape, FlushInput, Unflushed, AfterInput, AfterActive,
     AfterAccept, DropActive, Without, NoConnection
<1>4. ClientType'
  BY WithoutType DEF IInv, TypeOK, ClientType, SlotType, FlushInput, DropActive
<1>5. (pc \in PcType)' /\ SlotShape'
  BY ConnAssumption DEF IInv, TypeOK, PcType, Looping, Stopping, Completing, Ends, SlotShape,
     AfterPollPcs, SlotType, ClientType, ConnType, LoopType, EventType, FlushInput, Unflushed,
     AfterInput, AfterActive, AfterAccept, DropActive, Without, NoConnection
<1> QED BY <1>1, <1>2, <1>3, <1>4, <1>5 DEF IInv, TypeOK

LEMMA FlushActiveInv ==
    ASSUME IInv, FlushActive
    PROVE  IInv'
<1>1. PtyType' /\ LoopType' /\ InputType' /\ FileType' /\ TailShape'
  BY Untouched DEF FlushActive
<1>2. SlotType'
  BY DEF IInv, TypeOK, SlotType, SlotShape, FlushActive, DropActive, Without, NoConnection
<1>3. ClientType'
  <2>2. active \in Conns \cup {NoConn} /\ conn \in [Conns -> ConnType] /\ script' = script
    BY DEF IInv, TypeOK, ClientType, SlotType, FlushActive
  <2>3. CASE conn' = conn \/ DropActive
    BY <2>2, <2>3, WithoutType DEF IInv, TypeOK, ClientType, DropActive
  <2>4. ASSUME active # NoConn, NEW n \in 0..conn[active].queue,
               conn' = [conn EXCEPT ![active].queue = n]
        PROVE  ClientType'
    <3>1. active \in Conns
      BY <2>2, <2>4
    <3>2. n \in 0..QueueLimit
      BY <2>2, <3>1, ConnFields, SizeFacts, SMTT(60)
    <3> QED BY <2>2, <2>4, <3>1, <3>2, QueueUpdate DEF IInv, TypeOK, ClientType
  <2> QED BY <2>3, <2>4 DEF FlushActive
<1>4. (pc \in PcType)' /\ SlotShape'
  BY ConnAssumption DEF IInv, TypeOK, PcType, Looping, Stopping, Completing, Ends, SlotShape,
     AfterPollPcs, SlotType, ClientType, ConnType, LoopType, EventType, FlushActive,
     DropActive, Without, NoConnection
<1> QED BY <1>1, <1>2, <1>3, <1>4 DEF IInv, TypeOK

LEMMA ReadActiveInv ==
    ASSUME IInv, ReadActive
    PROVE  IInv'
<1>1. PtyType' /\ LoopType' /\ InputType' /\ FileType' /\ TailShape'
  BY Untouched DEF ReadActive
<1>2. SlotType'
  BY DEF IInv, TypeOK, SlotType, SlotShape, ReadActive, DropActive, Without, NoConnection,
     Arrived, Decodes, ReadError
<1>3. ClientType'
  <2>1. active \in Conns \cup {NoConn} /\ conn \in [Conns -> ConnType] /\ script' = script
    BY DEF IInv, TypeOK, ClientType, SlotType, ReadActive
  <2>2. CASE conn' = conn
    BY <2>1, <2>2 DEF IInv, TypeOK, ClientType
  <2>3. CASE DropActive
    BY <2>1, <2>3, WithoutType DEF IInv, TypeOK, ClientType, DropActive
  <2>4. ASSUME active # NoConn, NEW n \in 1..Arrived(active),
               conn' = [conn EXCEPT ![active].taken = @ + n]
        PROVE  ClientType'
    <3>1. active \in Conns
      BY <2>1, <2>4
    <3>2. conn[active].taken + n \in Nat
      BY <2>1, <3>1, ConnFields DEF Arrived
    <3> QED BY <2>1, <2>4, <3>1, <3>2 DEF IInv, TypeOK, ClientType, ConnType
  <2> QED BY <2>2, <2>3, <2>4 DEF ReadActive
<1>4. (pc \in PcType)' /\ SlotShape'
  <2>1. CASE pc' = "settle"
    BY <2>1 DEF IInv, TypeOK, PcType, Looping, SlotShape, AfterPollPcs, ReadActive
  <2>2. ASSUME active # NoConn, NEW n \in 1..Arrived(active), pc' = "apply",
               conn' = [conn EXCEPT ![active].taken = @ + n], pending' = n, active' = active
        PROVE  (pc \in PcType)' /\ SlotShape'
    <3>1. active \in Conns /\ conn \in [Conns -> ConnType]
      BY <2>2 DEF IInv, TypeOK, ClientType, SlotType
    <3>2. conn'[active].taken = conn[active].taken + n
      BY <2>2, <3>1 DEF ConnType
    <3>3. n <= conn[active].taken + n
      BY <3>1, ConnFields DEF Arrived
    <3> QED BY <2>2, <3>1, <3>2, <3>3 DEF IInv, TypeOK, PcType, Looping, SlotShape,
       AfterPollPcs, ReadActive
  <2> QED BY <2>1, <2>2 DEF ReadActive
<1> QED BY <1>1, <1>2, <1>3, <1>4 DEF IInv, TypeOK

LEMMA ApplyActiveInv ==
    ASSUME IInv, ApplyActive
    PROVE  IInv'
<1>1. ClientType' /\ PtyType' /\ LoopType' /\ FileType' /\ TailShape'
  BY Untouched DEF ApplyActive, ApplyRecord
<1>2. SlotType'
  BY DEF IInv, TypeOK, SlotType, SlotShape, ApplyActive, ApplyRecord, RecordNo, Acceptable
<1>3. InputType'
  BY ApplyRecordInput DEF IInv, SlotShape, ApplyActive
<1>4. (pc \in PcType)' /\ SlotShape'
  BY ConnAssumption DEF IInv, TypeOK, PcType, Looping, Stopping, Completing, Ends, SlotShape,
     AfterPollPcs, SlotType, ClientType, ConnType, LoopType, EventType, ApplyActive,
     ApplyRecord, RecordNo, Acceptable
<1> QED BY <1>1, <1>2, <1>3, <1>4 DEF IInv, TypeOK

LEMMA ApplyJoiningInv ==
    ASSUME IInv, ApplyJoining
    PROVE  IInv'
<1>1. ClientType' /\ PtyType' /\ LoopType' /\ FileType' /\ TailShape'
  BY Untouched DEF ApplyJoining, ApplyRecord
<1>2. SlotType'
  BY DEF IInv, TypeOK, SlotType, SlotShape, ApplyJoining, ApplyRecord, RecordNo, Acceptable
<1>3. InputType'
  BY ApplyRecordInput DEF IInv, SlotShape, ApplyJoining
<1>4. (pc \in PcType)' /\ SlotShape'
  BY ConnAssumption DEF IInv, TypeOK, PcType, Looping, Stopping, Completing, Ends, SlotShape,
     AfterPollPcs, SlotType, ClientType, ConnType, LoopType, EventType, ApplyJoining,
     ApplyRecord, RecordNo, Acceptable
<1> QED BY <1>1, <1>2, <1>3, <1>4 DEF IInv, TypeOK

LEMMA ApplyActiveEndInv ==
    ASSUME IInv, ApplyActiveEnd
    PROVE  IInv'
<1>1. PtyType' /\ LoopType' /\ InputType' /\ FileType' /\ TailShape'
  BY Untouched DEF ApplyActiveEnd
<1>2. SlotType'
  BY DEF IInv, TypeOK, SlotType, SlotShape, ApplyActiveEnd, DropActive, Without, NoConnection
<1>3. ClientType'
  BY WithoutType DEF IInv, TypeOK, ClientType, SlotType, ApplyActiveEnd, DropActive
<1>4. (pc \in PcType)' /\ SlotShape'
  BY ConnAssumption DEF IInv, TypeOK, PcType, Looping, Stopping, Completing, Ends, SlotShape,
     AfterPollPcs, SlotType, ClientType, ConnType, LoopType, EventType, ApplyActiveEnd,
     DropActive, Without, NoConnection
<1> QED BY <1>1, <1>2, <1>3, <1>4 DEF IInv, TypeOK

LEMMA SettleInv ==
    ASSUME IInv, Settle
    PROVE  IInv'
<1>1. ClientType' /\ PtyType' /\ LoopType' /\ SlotType' /\ InputType' /\ TailShape'
  BY Untouched DEF Settle
<1>2. FileType'
  BY LiveMetaType DEF IInv, TypeOK, FileType, Settle, Settled
<1>3. (pc \in PcType)' /\ SlotShape'
  BY ConnAssumption DEF IInv, TypeOK, PcType, Looping, Stopping, Completing, Ends, SlotShape,
     AfterPollPcs, SlotType, ClientType, ConnType, LoopType, EventType, Settle, Settled,
     LiveMeta, AfterActive, AfterAccept
<1> QED BY <1>1, <1>2, <1>3 DEF IInv, TypeOK

LEMMA AcceptInv ==
    ASSUME IInv, Accept
    PROVE  IInv'
<1>1. PtyType' /\ LoopType' /\ InputType' /\ FileType' /\ TailShape'
  BY Untouched DEF Accept
<1>2. SlotType'
  BY DEF IInv, TypeOK, SlotType, SlotShape, Accept, Without, NoConnection
<1>3. ClientType'
  <2>1. Head(backlog) \in Conns
    BY DEF IInv, TypeOK, SlotType, Accept
  <2> QED BY <2>1, WithoutType DEF IInv, TypeOK, ClientType, SlotType, Accept
<1>4. (pc \in PcType)' /\ SlotShape'
  BY ConnAssumption DEF IInv, TypeOK, PcType, Looping, Stopping, Completing, Ends, SlotShape,
     AfterPollPcs, SlotType, ClientType, ConnType, LoopType, EventType, Accept, Without,
     NoConnection
<1> QED BY <1>1, <1>2, <1>3, <1>4 DEF IInv, TypeOK

LEMMA AcceptEndInv ==
    ASSUME IInv, AcceptEnd
    PROVE  IInv'
<1>1. ClientType' /\ PtyType' /\ LoopType' /\ SlotType' /\ InputType' /\ FileType' /\ TailShape'
  BY Untouched DEF AcceptEnd
<1>2. (pc \in PcType)' /\ SlotShape'
  BY ConnAssumption DEF IInv, TypeOK, PcType, Looping, Stopping, Completing, Ends, SlotShape,
     AfterPollPcs, SlotType, ClientType, ConnType, LoopType, EventType, AcceptEnd, AfterAccept
<1> QED BY <1>1, <1>2 DEF IInv, TypeOK

LEMMA CandidateBatchInv ==
    ASSUME IInv, CandidateBatch
    PROVE  IInv'
<1>1. PtyType' /\ FileType' /\ TailShape'
  BY Untouched DEF CandidateBatch, CandidateAttach, CandidateStop, CandidateRejected,
     DropCandidate
<1>2. SlotType'
  <2>1. PICK n \in 1..Arrived(candidate) :
          CandidateAttach(n) \/ CandidateStop(n) \/ CandidateRejected(n)
    BY DEF CandidateBatch
  <2>2. conn \in [Conns -> ConnType] /\ candidate \in Conns
    BY DEF IInv, TypeOK, ClientType, SlotShape, CandidateBatch
  <2>3. n - 1 \in Nat
    BY <2>2, ConnFields DEF Arrived
  <2> QED BY <2>1, <2>2, <2>3 DEF IInv, TypeOK, SlotType, CandidateAttach, CandidateStop,
     CandidateRejected, DropCandidate
<1>3. ClientType'
  <2>1. PICK n \in 1..Arrived(candidate) :
          CandidateAttach(n) \/ CandidateStop(n) \/ CandidateRejected(n)
    BY DEF CandidateBatch
  <2>2. conn \in [Conns -> ConnType] /\ candidate \in Conns
    BY DEF IInv, TypeOK, ClientType, SlotShape, CandidateBatch
  <2>3. CASE DropCandidate
    BY <2>2, <2>3, WithoutType DEF IInv, TypeOK, ClientType, DropCandidate
  <2>4. CASE CandidateAttach(n)
    <3>1. conn[candidate].taken + n \in Nat
      BY <2>2, ConnFields DEF Arrived
    <3> DEFINE new == [conn[candidate] EXCEPT !.taken = conn[candidate].taken + n,
                                              !.queue = ReplayBytes, !.stream = Replay]
    <3>2. new \in ConnType
      BY <2>2, <3>1, ReplayFits DEF ConnType
    <3>3. conn' = [conn EXCEPT ![candidate] = new] /\ script' = script
      BY <2>2, <2>4 DEF CandidateAttach, ConnType
    <3> HIDE DEF new
    <3> QED BY <2>2, <3>2, <3>3 DEF IInv, TypeOK, ClientType
  <2> QED BY <2>1, <2>3, <2>4 DEF CandidateStop, CandidateRejected
<1>4. InputType'
  <2>1. candidate \in Conns
    BY DEF IInv, SlotShape, CandidateBatch
  <2>2. ptyInput' = ptyInput /\ childIn' = childIn /\ (winsize' = winsize \/ winsize' =
     candidate)
    BY DEF CandidateBatch, CandidateAttach, CandidateStop, CandidateRejected, DropCandidate
  <2> QED BY <2>1, <2>2 DEF IInv, TypeOK, InputType
<1>5. LoopType'
  <2>1. /\ had' = had /\ events' = events /\ exit' = exit
        /\ stopRequested' = stopRequested \/ stopRequested' = TRUE
    BY DEF CandidateBatch, CandidateAttach, CandidateStop, CandidateRejected, DropCandidate
  <2> QED BY <2>1 DEF IInv, TypeOK, LoopType
<1>6. (pc \in PcType)' /\ SlotShape'
  <2>1. PICK n \in 1..Arrived(candidate) :
          CandidateAttach(n) \/ CandidateStop(n) \/ CandidateRejected(n)
    BY DEF CandidateBatch
  <2>2. conn \in [Conns -> ConnType] /\ candidate \in Conns
    BY DEF IInv, TypeOK, ClientType, SlotShape, CandidateBatch
  <2>3. CASE CandidateAttach(n)
    <3>1. conn'[candidate].taken = conn[candidate].taken + n
      BY <2>2, <2>3 DEF CandidateAttach, ConnType
    <3>2. n - 1 <= conn[candidate].taken + n
      BY <2>2, ConnFields DEF Arrived
    <3> QED BY <2>2, <2>3, <3>1, <3>2 DEF CandidateAttach, PcType, Looping, SlotShape,
       AfterPollPcs
  <2>4. CASE DropCandidate
    BY <2>4 DEF IInv, DropCandidate, CandidateBatch, PcType, Looping, SlotShape, AfterPollPcs
  <2> QED BY <2>1, <2>3, <2>4 DEF CandidateStop, CandidateRejected
<1> QED BY <1>1, <1>2, <1>3, <1>4, <1>5, <1>6 DEF IInv, TypeOK

LEMMA CandidateReadFailedInv ==
    ASSUME IInv, CandidateReadFailed
    PROVE  IInv'
<1>1. PtyType' /\ LoopType' /\ InputType' /\ FileType' /\ TailShape'
  BY Untouched DEF CandidateReadFailed, DropCandidate
<1>2. SlotType'
  BY DEF IInv, TypeOK, SlotType, SlotShape, CandidateReadFailed, DropCandidate, Without,
     NoConnection
<1>3. ClientType'
  BY WithoutType DEF IInv, TypeOK, ClientType, SlotType, CandidateReadFailed, DropCandidate
<1>4. (pc \in PcType)' /\ SlotShape'
  BY ConnAssumption DEF IInv, TypeOK, PcType, Looping, Stopping, Completing, Ends, SlotShape,
     AfterPollPcs, SlotType, ClientType, ConnType, LoopType, EventType, CandidateReadFailed,
     DropCandidate, Without, NoConnection
<1> QED BY <1>1, <1>2, <1>3, <1>4 DEF IInv, TypeOK

LEMMA CandidateNothingInv ==
    ASSUME IInv, CandidateNothing
    PROVE  IInv'
<1>1. ClientType' /\ PtyType' /\ LoopType' /\ SlotType' /\ InputType' /\ FileType' /\ TailShape'
  BY Untouched DEF CandidateNothing
<1>2. (pc \in PcType)' /\ SlotShape'
  BY ConnAssumption DEF IInv, TypeOK, PcType, Looping, Stopping, Completing, Ends, SlotShape,
     AfterPollPcs, SlotType, ClientType, ConnType, LoopType, EventType, CandidateNothing
<1> QED BY <1>1, <1>2 DEF IInv, TypeOK

LEMMA ActivateInv ==
    ASSUME IInv, Activate
    PROVE  IInv'
<1>1. PtyType' /\ LoopType' /\ InputType' /\ TailShape'
  BY Untouched DEF Activate
<1>2. SlotType'
  BY DEF IInv, TypeOK, SlotType, SlotShape, Activate, NewActive, NoConnection, LiveMeta
<1>3. ClientType'
  BY NoConnectionType DEF IInv, TypeOK, ClientType, Activate
<1>4. FileType'
  BY LiveMetaType DEF IInv, TypeOK, FileType, Activate
<1>5. (pc \in PcType)' /\ SlotShape'
  BY ConnAssumption DEF IInv, TypeOK, PcType, Looping, Stopping, Completing, Ends, SlotShape,
     AfterPollPcs, SlotType, ClientType, ConnType, LoopType, EventType, Activate, NewActive,
     NoConnection, LiveMeta
<1> QED BY <1>1, <1>2, <1>3, <1>4, <1>5 DEF IInv, TypeOK

LEMMA JoinRejectedInv ==
    ASSUME IInv, JoinRejected
    PROVE  IInv'
<1>1. PtyType' /\ LoopType' /\ InputType' /\ FileType' /\ TailShape'
  BY Untouched DEF JoinRejected
<1>2. SlotType'
  BY DEF IInv, TypeOK, SlotType, SlotShape, JoinRejected, Without, NoConnection
<1>3. ClientType'
  BY WithoutType DEF IInv, TypeOK, ClientType, SlotType, JoinRejected
<1>4. (pc \in PcType)' /\ SlotShape'
  BY ConnAssumption DEF IInv, TypeOK, PcType, Looping, Stopping, Completing, Ends, SlotShape,
     AfterPollPcs, SlotType, ClientType, ConnType, LoopType, EventType, JoinRejected, Without,
     NoConnection
<1> QED BY <1>1, <1>2, <1>3, <1>4 DEF IInv, TypeOK

LEMMA StopCheckInv ==
    ASSUME IInv, StopCheck
    PROVE  IInv'
<1>1. ClientType' /\ PtyType' /\ SlotType' /\ InputType' /\ FileType' /\ TailShape'
  BY Untouched DEF StopCheck
<1>2. LoopType'
  BY DEF IInv, TypeOK, LoopType, EventType, PtyType, StopCheck, NoEvents
<1>3. (pc \in PcType)' /\ SlotShape'
  BY ConnAssumption DEF IInv, TypeOK, PcType, Looping, Stopping, Completing, Ends, SlotShape,
     AfterPollPcs, SlotType, ClientType, ConnType, LoopType, EventType, StopCheck, NoEvents
<1> QED BY <1>1, <1>2, <1>3 DEF IInv, TypeOK

LEMMA ReapedInv ==
    ASSUME IInv, Reaped
    PROVE  IInv'
<1>1. ClientType' /\ PtyType' /\ SlotType' /\ InputType' /\ FileType' /\ TailShape'
  BY Untouched DEF Reaped
<1>2. LoopType'
  BY DEF IInv, TypeOK, LoopType, EventType, PtyType, Reaped
<1>3. (pc \in PcType)' /\ SlotShape'
  BY ConnAssumption DEF IInv, TypeOK, PcType, Looping, Stopping, Completing, Ends, SlotShape,
     AfterPollPcs, SlotType, ClientType, ConnType, LoopType, EventType, Reaped
<1> QED BY <1>1, <1>2, <1>3 DEF IInv, TypeOK

LEMMA TerminateInv ==
    ASSUME IInv, Terminate
    PROVE  IInv'
<1>1. ClientType' /\ PtyType' /\ LoopType' /\ SlotType' /\ InputType' /\ FileType' /\ TailShape'
  BY Untouched DEF Terminate
<1>2. (pc \in PcType)' /\ SlotShape'
  BY ConnAssumption DEF IInv, TypeOK, PcType, Looping, Stopping, Completing, Ends, SlotShape,
     AfterPollPcs, SlotType, ClientType, ConnType, LoopType, EventType, Terminate
<1> QED BY <1>1, <1>2 DEF IInv, TypeOK

LEMMA GraceOverInv ==
    ASSUME IInv, GraceOver
    PROVE  IInv'
<1>1. ClientType' /\ PtyType' /\ LoopType' /\ SlotType' /\ InputType' /\ FileType' /\ TailShape'
  BY Untouched DEF GraceOver
<1>2. (pc \in PcType)' /\ SlotShape'
  BY ConnAssumption DEF IInv, TypeOK, PcType, Looping, Stopping, Completing, Ends, SlotShape,
     AfterPollPcs, SlotType, ClientType, ConnType, LoopType, EventType, GraceOver
<1> QED BY <1>1, <1>2 DEF IInv, TypeOK

LEMMA KillChildInv ==
    ASSUME IInv, KillChild
    PROVE  IInv'
<1>1. ClientType' /\ LoopType' /\ SlotType' /\ InputType' /\ FileType'
  BY Untouched DEF KillChild
<1>2. PtyType'
  BY SizeFacts DEF IInv, TypeOK, PtyType, TailShape, KillChild, AfterSigkill
<1>3. TailShape'
  BY SizeFacts DEF IInv, TypeOK, TailShape, PtyType, KillChild, AfterSigkill
<1>4. (pc \in PcType)' /\ SlotShape'
  BY ConnAssumption DEF IInv, TypeOK, PcType, Looping, Stopping, Completing, Ends, SlotShape,
     AfterPollPcs, SlotType, ClientType, ConnType, LoopType, EventType, KillChild, AfterSigkill
<1> QED BY <1>1, <1>2, <1>3, <1>4 DEF IInv, TypeOK

LEMMA WriteOutputInv ==
    ASSUME IInv, WriteOutput
    PROVE  IInv'
<1>1. ClientType' /\ PtyType' /\ LoopType' /\ SlotType' /\ InputType' /\ TailShape'
  BY Untouched DEF WriteOutput
<1>2. FileType'
  BY DEF IInv, TypeOK, FileType, MetaType, PtyType, LoopType, WriteOutput
<1>3. (pc \in PcType)' /\ SlotShape'
  BY ConnAssumption DEF IInv, TypeOK, PcType, Looping, Stopping, Completing, Ends, SlotShape,
     AfterPollPcs, SlotType, ClientType, ConnType, LoopType, EventType, WriteOutput
<1> QED BY <1>1, <1>2, <1>3 DEF IInv, TypeOK

LEMMA WriteCompletedInv ==
    ASSUME IInv, WriteCompleted
    PROVE  IInv'
<1>1. ClientType' /\ PtyType' /\ LoopType' /\ SlotType' /\ InputType' /\ TailShape'
  BY Untouched DEF WriteCompleted
<1>2. FileType'
  <2>1. TailLen \in 0..TailCapacity /\ tail.truncated \in BOOLEAN /\ exit \in ExitStatus \cup
     {"none"}
    BY ReplayFits DEF IInv, TypeOK, PtyType, LoopType
  <2>2. CompletedMeta \in MetaType
    BY <2>1 DEF CompletedMeta, MetaType
  <2> QED BY <2>2 DEF IInv, TypeOK, FileType, WriteCompleted
<1>3. (pc \in PcType)' /\ SlotShape'
  BY ConnAssumption DEF IInv, TypeOK, PcType, Looping, Stopping, Completing, Ends, SlotShape,
     AfterPollPcs, SlotType, ClientType, ConnType, LoopType, EventType, WriteCompleted,
     CompletedMeta, AfterRecord, TailLen
<1> QED BY <1>1, <1>2, <1>3 DEF IInv, TypeOK

LEMMA RemoveLiveFilesInv ==
    ASSUME IInv, RemoveLiveFiles
    PROVE  IInv'
<1>1. ClientType' /\ PtyType' /\ LoopType' /\ InputType' /\ TailShape'
  BY Untouched DEF RemoveLiveFiles
<1>2. FileType'
  BY DEF IInv, TypeOK, FileType, MetaType, PtyType, LoopType, RemoveLiveFiles
<1>3. SlotType'
  BY DEF IInv, TypeOK, SlotType, SlotShape, RemoveLiveFiles
<1>4. (pc \in PcType)' /\ SlotShape'
  BY ConnAssumption DEF IInv, TypeOK, PcType, Looping, Stopping, Completing, Ends, SlotShape,
     AfterPollPcs, SlotType, ClientType, ConnType, LoopType, EventType, RemoveLiveFiles
<1> QED BY <1>1, <1>2, <1>3, <1>4 DEF IInv, TypeOK

LEMMA FlushLastInv ==
    ASSUME IInv, FlushLast
    PROVE  IInv'
<1>1. PtyType' /\ LoopType' /\ SlotType' /\ InputType' /\ FileType' /\ TailShape'
  BY Untouched DEF FlushLast
<1>2. ClientType'
  <2>1. active \in Conns /\ conn \in [Conns -> ConnType] /\ script' = script
    BY DEF IInv, TypeOK, ClientType, SlotShape, FlushLast
  <2>2. conn[active].queue \in 0..QueueLimit
    BY <2>1, ConnFields
  <2>3. ASSUME NEW n \in 0..conn[active].queue PROVE n \in 0..QueueLimit
    BY <2>2, SizeFacts
  <2> QED BY <2>1, <2>3, QueueUpdate DEF IInv, TypeOK, ClientType, FlushLast
<1>3. (pc \in PcType)' /\ SlotShape'
  BY ConnAssumption DEF IInv, TypeOK, PcType, Looping, Stopping, Completing, Ends, SlotShape,
     AfterPollPcs, SlotType, ClientType, ConnType, LoopType, EventType, FlushLast
<1> QED BY <1>1, <1>2, <1>3 DEF IInv, TypeOK

LEMMA SendExitInv ==
    ASSUME IInv, SendExit
    PROVE  IInv'
<1>1. PtyType' /\ LoopType' /\ SlotType' /\ InputType' /\ FileType' /\ TailShape'
  BY Untouched DEF SendExit
<1>2. ClientType'
  <2>1. active \in Conns /\ conn \in [Conns -> ConnType] /\ script' = script
    BY DEF IInv, TypeOK, ClientType, SlotShape, SendExit
  <2>2. conn[active].queue \in 0..QueueLimit /\ Append(conn[active].stream, ExitRecord) \in
     Seq(Int)
    BY <2>1, ConnFields DEF ExitRecord
  <2>3. CASE conn[active].queue + HeaderBytes + ExitBytes <= QueueLimit
    <3>1. PICK n \in 0..(conn[active].queue + HeaderBytes + ExitBytes) :
            conn' = [conn EXCEPT ![active].queue = n,
                                 ![active].stream = Append(@, ExitRecord)]
      BY <2>3 DEF SendExit
    <3>2. n \in 0..QueueLimit
      BY <2>2, <2>3, SizeFacts
    <3> QED BY <2>1, <2>2, <3>1, <3>2 DEF IInv, TypeOK, ClientType, ConnType
  <2>4. CASE ~(conn[active].queue + HeaderBytes + ExitBytes <= QueueLimit)
    BY <2>1, <2>4 DEF IInv, TypeOK, ClientType, SendExit
  <2> QED BY <2>3, <2>4
<1>3. (pc \in PcType)' /\ SlotShape'
  BY ConnAssumption DEF IInv, TypeOK, PcType, Looping, Stopping, Completing, Ends, SlotShape,
     AfterPollPcs, SlotType, ClientType, ConnType, LoopType, EventType, SendExit, ExitRecord
<1> QED BY <1>1, <1>2, <1>3 DEF IInv, TypeOK

LEMMA TypeNext == IInv /\ [Next]_vars => IInv'
<1> SUFFICES ASSUME IInv, [Next]_vars PROVE IInv'
  OBVIOUS
<1>1. CASE LoopStep
  BY <1>1, DrainReadInv, DrainEndInv, ReapInv, PollInv, FlushInputInv, FlushActiveInv,
     ReadActiveInv, ApplyActiveInv, ApplyActiveEndInv, SettleInv, AcceptInv, AcceptEndInv,
     CandidateBatchInv, CandidateReadFailedInv, CandidateNothingInv, ApplyJoiningInv,
     ActivateInv, JoinRejectedInv, StopCheckInv DEF LoopStep
<1>2. CASE StopStep
  BY <1>2, ReapedInv, TerminateInv, GraceOverInv, KillChildInv DEF StopStep
<1>3. CASE CompleteStep
  BY <1>3, WriteOutputInv, WriteCompletedInv, RemoveLiveFilesInv, FlushLastInv, SendExitInv DEF
     CompleteStep
<1>4. CASE PollInterrupted \/ Fails \/ Killed \/ ChildWrites \/ ChildExits
  BY <1>4, PollInterruptedInv, FailsInv, KilledInv, ChildWritesInv, ChildExitsInv
<1>5. CASE \E c \in Conns : Connect(c) \/ Send(c) \/ HangUp(c)
  BY <1>5, ConnectInv, SendInv, HangUpInv
<1>6. CASE UNCHANGED vars
  <2>1. ClientType' /\ PtyType' /\ TailShape' /\ LoopType' /\ SlotType' /\ InputType' /\
     FileType'
    BY <1>6, Untouched DEF vars
  <2>2. (pc \in PcType)' /\ SlotShape'
    BY <1>6 DEF IInv, TypeOK, SlotShape, vars
  <2> QED BY <2>1, <2>2 DEF IInv, TypeOK
<1> QED BY <1>1, <1>2, <1>3, <1>4, <1>5, <1>6 DEF Next, RunnerStep

\* Types and limits, always: no queue, tail or tick outgrows its limit, and a
\* replay always fits the queue it is put in (enqueue_replay, ByteQueue::push).
THEOREM RunnerTypeOK == Spec => []TypeOK
<1>1. IInv => TypeOK
  BY DEF IInv
<1> QED BY TypeInit, TypeNext, <1>1, PTL DEF Spec

-----------------------------------------------------------------------------
(* One connection, one place.                                               *)

\* Dropping connections, or leaving them, keeps the others apart.
LEMMA ApartKept ==
    ASSUME SlotsApart, script' = script, backlog' = backlog,
           active' \in {active, NoConn}, candidate' \in {candidate, NoConn},
           joining' \in {joining, NoConn}
    PROVE  SlotsApart'
BY ConnAssumption DEF SlotsApart, Waiting

LEMMA ConnectApart ==
    ASSUME IInv, SlotsApart, NEW c \in Conns, Connect(c)
    PROVE  SlotsApart'
<1>1. /\ script[c] = <<>> /\ backlog' = Append(backlog, c)
      /\ active' = active /\ candidate' = candidate /\ joining' = joining
  BY DEF Connect
<1>2. PICK s \in Scripts : script' = [script EXCEPT ![c] = s]
  BY DEF Connect
<1>3. s # <<>>
  BY ScriptAssumption
<1>4. /\ backlog \in Seq(Conns) /\ script \in [Conns -> Scripts \cup {<<>>}]
      /\ active \in Conns \cup {NoConn} /\ candidate \in Conns \cup {NoConn}
      /\ joining \in Conns \cup {NoConn}
  BY DEF IInv, TypeOK, ClientType, SlotType
<1>5. c \notin {active, candidate, joining} /\ ~Waiting(c)
  BY <1>1 DEF SlotsApart
<1>6. Len(backlog) \in Nat
  BY <1>4, LenProperties
<1>7. /\ Len(backlog') = Len(backlog) + 1 /\ backlog'[Len(backlog) + 1] = c
      /\ \A i \in 1..Len(backlog) : backlog'[i] = backlog[i]
  BY <1>1, <1>4, AppendProperties
<1>8. \A d : (\E i \in 1..Len(backlog') : backlog'[i] = d) <=> (Waiting(d) \/ d = c)
  <2> SUFFICES ASSUME NEW d
               PROVE  (\E i \in 1..Len(backlog') : backlog'[i] = d) <=> (Waiting(d) \/ d = c)
    OBVIOUS
  <2>1. \A i : i \in 1..Len(backlog') <=> (i \in 1..Len(backlog) \/ i = Len(backlog) + 1)
    BY <1>6, <1>7
  <2> QED BY <1>7, <2>1 DEF Waiting
<1>9. \A i, j \in 1..Len(backlog') : backlog'[i] = backlog'[j] => i = j
  <2> SUFFICES ASSUME NEW i \in 1..Len(backlog'), NEW j \in 1..Len(backlog'),
                      backlog'[i] = backlog'[j]
               PROVE  i = j
    OBVIOUS
  <2>1. CASE i \in 1..Len(backlog) /\ j \in 1..Len(backlog)
    BY <2>1, <1>7 DEF SlotsApart
  <2>2. CASE i = Len(backlog) + 1 /\ j \in 1..Len(backlog)
    BY <2>2, <1>5, <1>7 DEF Waiting
  <2>3. CASE j = Len(backlog) + 1 /\ i \in 1..Len(backlog)
    BY <2>3, <1>5, <1>7 DEF Waiting
  <2>4. i \in 1..Len(backlog) \/ i = Len(backlog) + 1
    BY <1>6, <1>7
  <2>5. j \in 1..Len(backlog) \/ j = Len(backlog) + 1
    BY <1>6, <1>7
  <2> QED BY <2>1, <2>2, <2>3, <2>4, <2>5
<1>10. \A d \in Conns : script'[d] = <<>> => script[d] = <<>> /\ d # c
  BY <1>2, <1>3, <1>4
<1> QED BY <1>1, <1>5, <1>8, <1>9, <1>10 DEF SlotsApart, Waiting

LEMMA AcceptApart ==
    ASSUME IInv, SlotsApart, Accept
    PROVE  SlotsApart'
<1> DEFINE first == Head(backlog)
<1>1. /\ backlog # <<>> /\ backlog' = Tail(backlog) /\ script' = script
      /\ active' = active /\ joining' = joining /\ candidate' \in {candidate, first}
  BY DEF Accept
<1>2. backlog \in Seq(Conns)
  BY DEF IInv, TypeOK, SlotType
<1>3. /\ Len(backlog) \in Nat \ {0} /\ first = backlog[1] /\ first \in Conns
      /\ Len(backlog') = Len(backlog) - 1
      /\ \A i \in 1..Len(backlog') : backlog'[i] = backlog[i + 1] /\ i + 1 \in 1..Len(backlog)
  BY <1>1, <1>2, HeadTailProperties, LenProperties, EmptySeq
<1>4. joining = NoConn
  BY DEF IInv, SlotShape, Accept
<1>5. Waiting(first)
  BY <1>3 DEF Waiting
<1>6. \A d : (\E i \in 1..Len(backlog') : backlog'[i] = d) => Waiting(d) /\ d # first
  <2> SUFFICES ASSUME NEW i \in 1..Len(backlog')
               PROVE  Waiting(backlog'[i]) /\ backlog'[i] # first
    OBVIOUS
  <2>1. backlog'[i] = backlog[i + 1] /\ i + 1 \in 1..Len(backlog) /\ i + 1 # 1
    BY <1>3
  <2>2. 1 \in 1..Len(backlog)
    BY <1>3
  <2> QED BY <1>3, <2>1, <2>2 DEF Waiting, SlotsApart
<1>7. \A i, j \in 1..Len(backlog') : backlog'[i] = backlog'[j] => i = j
  <2> SUFFICES ASSUME NEW i \in 1..Len(backlog'), NEW j \in 1..Len(backlog'),
                      backlog'[i] = backlog'[j]
               PROVE  i = j
    OBVIOUS
  <2>1. i + 1 = j + 1
    BY <1>3 DEF SlotsApart
  <2> QED BY <2>1
<1> HIDE DEF first
<1> QED BY <1>1, <1>3, <1>4, <1>5, <1>6, <1>7, ConnAssumption DEF SlotsApart, Waiting

LEMMA CandidateAttachApart ==
    ASSUME IInv, SlotsApart, NEW n, pc = "candidate", CandidateAttach(n)
    PROVE  SlotsApart'
<1>1. /\ candidate' = NoConn /\ joining' = candidate /\ active' = active
      /\ backlog' = backlog /\ script' = script
  BY DEF CandidateAttach
<1>2. joining = NoConn /\ candidate \in Conns
  BY DEF IInv, SlotShape
<1> QED BY <1>1, <1>2, ConnAssumption DEF SlotsApart, Waiting

LEMMA ActivateApart ==
    ASSUME IInv, SlotsApart, Activate
    PROVE  SlotsApart'
<1>1. /\ active' = joining /\ joining' = NoConn /\ candidate' = candidate
      /\ backlog' = backlog /\ script' = script
  BY DEF Activate, NewActive
<1> QED BY <1>1, ConnAssumption DEF SlotsApart, Waiting

LEMMA RemoveLiveFilesApart ==
    ASSUME SlotsApart, RemoveLiveFiles
    PROVE  SlotsApart'
<1>1. /\ active' = active /\ candidate' = candidate /\ joining' = joining
      /\ backlog' = <<>> /\ script' = script
  BY DEF RemoveLiveFiles
<1>2. \A i : i \notin 1..Len(backlog')
  BY <1>1
<1> QED BY <1>1, <1>2 DEF SlotsApart, Waiting

LEMMA ApartInit == Init => SlotsApart
<1> SUFFICES ASSUME Init PROVE SlotsApart
  OBVIOUS
<1>1. \A i : i \notin 1..Len(backlog)
  BY DEF Init
<1> QED BY <1>1, ConnAssumption DEF Init, SlotsApart, Waiting

LEMMA ApartNext == IInv /\ SlotsApart /\ [Next]_vars => SlotsApart'
<1> SUFFICES ASSUME IInv, SlotsApart, [Next]_vars PROVE SlotsApart'
  OBVIOUS
<1>1. CASE LoopStep
  <2>1. CASE Accept
    BY <2>1, AcceptApart
  <2>2. CASE CandidateBatch
    <3>1. PICK n \in 1..Arrived(candidate) :
            CandidateAttach(n) \/ CandidateStop(n) \/ CandidateRejected(n)
      BY <2>2 DEF CandidateBatch
    <3>2. CASE CandidateAttach(n)
      BY <2>2, <3>2, CandidateAttachApart DEF CandidateBatch
    <3>3. CASE DropCandidate
      BY <3>3, ApartKept DEF DropCandidate
    <3> QED BY <3>1, <3>2, <3>3 DEF CandidateStop, CandidateRejected
  <2>3. CASE Activate
    BY <2>3, ActivateApart
  <2>4. CASE DrainRead
    BY <2>4, ApartKept DEF DrainRead, EnqueueLive, DropSlow, DropActive
  <2>5. CASE DrainEnd \/ Reap \/ Poll
    BY <2>5, ApartKept DEF DrainEnd, Reap, Poll
  <2>6. CASE FlushInput \/ FlushActive \/ ReadActive
    BY <2>6, ApartKept DEF FlushInput, FlushActive, ReadActive, DropActive
  <2>7. CASE ApplyActive \/ ApplyActiveEnd \/ ApplyJoining
    BY <2>7, ApartKept DEF ApplyActive, ApplyActiveEnd, ApplyJoining, ApplyRecord, DropActive
  <2>8. CASE Settle \/ AcceptEnd \/ CandidateReadFailed \/ CandidateNothing
    BY <2>8, ApartKept DEF Settle, AcceptEnd, CandidateReadFailed, CandidateNothing,
       DropCandidate
  <2>9. CASE JoinRejected \/ StopCheck
    BY <2>9, ApartKept DEF JoinRejected, StopCheck
  <2> QED BY <1>1, <2>1, <2>2, <2>3, <2>4, <2>5, <2>6, <2>7, <2>8, <2>9 DEF LoopStep
<1>2. CASE StopStep
  BY <1>2, ApartKept DEF StopStep, Reaped, Terminate, GraceOver, KillChild
<1>3. CASE CompleteStep
  BY <1>3, ApartKept, RemoveLiveFilesApart DEF CompleteStep, WriteOutput, WriteCompleted,
     FlushLast, SendExit
<1>4. CASE PollInterrupted \/ Fails \/ Killed \/ ChildWrites \/ ChildExits
  BY <1>4, ApartKept DEF PollInterrupted, Fails, Killed, ChildWrites, ChildExits
<1>5. CASE \E c \in Conns : Connect(c) \/ Send(c) \/ HangUp(c)
  BY <1>5, ApartKept, ConnectApart DEF Send, HangUp
<1>6. CASE UNCHANGED vars
  BY <1>6, ApartKept DEF vars
<1> QED BY <1>1, <1>2, <1>3, <1>4, <1>5, <1>6 DEF Next, RunnerStep

-----------------------------------------------------------------------------
(* One unbroken stretch of output.                                          *)

\* Two stretches that meet make one.
LEMMA BytesConcat ==
    ASSUME NEW lo \in Nat, NEW m \in Nat, NEW hi \in Nat, lo <= m + 1, m <= hi
    PROVE  Bytes(lo, m) \o Bytes(m + 1, hi) = Bytes(lo, hi)
<1> DEFINE a == m - lo + 1
<1> DEFINE b == hi - m
<1>1. a \in Nat /\ b \in Nat /\ hi - lo + 1 = a + b /\ hi - (m + 1) + 1 = b
  OBVIOUS
<1>2. Bytes(lo, m) = [i \in 1..a |-> lo + i - 1]
  BY DEF Bytes
<1>3. Bytes(m + 1, hi) = [i \in 1..b |-> m + 1 + i - 1]
  BY <1>1 DEF Bytes
<1>4. Bytes(lo, hi) = [i \in 1..(a + b) |-> lo + i - 1]
  BY <1>1 DEF Bytes
<1>5. Bytes(lo, m) \in Seq(Int) /\ Bytes(m + 1, hi) \in Seq(Int) /\ Bytes(lo, hi) \in Seq(Int)
  <2>1. m + 1 \in Nat /\ m + 1 <= hi + 1 /\ lo <= hi + 1
    OBVIOUS
  <2>2. Bytes(lo, m) \in Seq(Int)
    BY BytesType
  <2>3. Bytes(m + 1, hi) \in Seq(Int)
    BY <2>1, BytesType
  <2>4. Bytes(lo, hi) \in Seq(Int)
    BY <2>1, BytesType
  <2> QED BY <2>2, <2>3, <2>4
<1>6. Len(Bytes(lo, m)) = a /\ Len(Bytes(m + 1, hi)) = b /\ Len(Bytes(lo, hi)) = a + b
  <2> HIDE DEF a, b
  <2>1. a + b \in Nat
    BY <1>1
  <2> QED BY <1>1, <1>2, <1>3, <1>4, <1>5, <2>1, LenProperties
<1> DEFINE both == Bytes(lo, m) \o Bytes(m + 1, hi)
<1>7. /\ both \in Seq(Int) /\ Len(both) = a + b
      /\ \A i \in 1..(a + b) :
           both[i] = IF i <= a THEN Bytes(lo, m)[i] ELSE Bytes(m + 1, hi)[i - a]
  <2> HIDE DEF a, b
  <2> QED BY <1>5, <1>6, ConcatProperties
<1>8. ASSUME NEW i \in 1..(a + b) PROVE both[i] = Bytes(lo, hi)[i]
  <2>1. CASE i <= a
    <3>1. i \in 1..a
      BY <1>1, <2>1
    <3> QED BY <1>2, <1>4, <1>7, <2>1, <3>1
  <2>2. CASE ~(i <= a)
    <3>1. i - a \in 1..b
      BY <1>1, <2>2
    <3>2. m + 1 + (i - a) - 1 = lo + i - 1
      OBVIOUS
    <3>3. Bytes(m + 1, hi)[i - a] = m + 1 + (i - a) - 1
      BY <1>3, <3>1
    <3>4. Bytes(lo, hi)[i] = lo + i - 1
      BY <1>4
    <3>5. both[i] = Bytes(m + 1, hi)[i - a]
      <4> HIDE DEF a, b, both
      <4> QED BY <1>7, <2>2
    <3> QED BY <3>2, <3>3, <3>4, <3>5
  <2> QED BY <2>1, <2>2
<1> HIDE DEF both
<1>9. both = Bytes(lo, hi)
  BY <1>5, <1>6, <1>7, <1>8, SeqEqual
<1> QED BY <1>9 DEF both

LEMMA FromType ==
    ASSUME IInv, NEW lo \in 1..(nRead + 1)
    PROVE  From(lo) \in Seq(Int)
<1>1. Bytes(lo, nRead) \in Seq(Int)
  BY BytesType DEF IInv, TypeOK, PtyType
<1> QED BY <1>1, ConcatProperties DEF From, Marker

\* Streams stay as they are, of connections that stay where they are.
LEMMA StreamsKept ==
    ASSUME GapFree, nRead' = nRead, pc # "completed",
           \A c \in {active', joining'} \ {NoConn} :
               c \in {active, joining} /\ conn'[c].stream = conn[c].stream
    PROVE  GapFree'
BY DEF GapFree, From

LEMMA DrainReadGapFree ==
    ASSUME IInv, GapFree, DrainRead
    PROVE  GapFree'
<1>1. PICK n \in 1..IoChunk : nRead' = nRead + n /\ EnqueueLive(n)
  BY DEF DrainRead
<1>2. joining = NoConn /\ joining' = NoConn /\ pc # "completed"
  BY DEF IInv, SlotShape, DrainRead
<1>3. CASE active' = NoConn
  BY <1>2, <1>3 DEF GapFree
<1>4. CASE active # NoConn /\ active' = active
           /\ conn' = [conn EXCEPT ![active].queue = @ + Wire(n),
                                   ![active].stream = @ \o Bytes(nRead + 1, nRead + n)]
  <2>1. active \in Conns /\ conn \in [Conns -> ConnType] /\ nRead \in Nat /\ n \in Nat
    <3>1. n \in Nat
      BY SizeFacts
    <3> QED BY <1>4, <3>1 DEF IInv, TypeOK, ClientType, SlotType, PtyType
  <2>2. PICK lo \in 1..(nRead + 1) : conn[active].stream = From(lo)
    BY <1>2, <1>4 DEF GapFree
  <2>3. conn'[active].stream = From(lo) \o Bytes(nRead + 1, nRead + n)
    BY <1>4, <2>1, <2>2 DEF ConnType
  <2> DEFINE front == IF lo > 1 THEN <<Marker>> ELSE <<>>
  <2>4. /\ front \in Seq(Int)
        /\ Bytes(lo, nRead) \in Seq(Int)
        /\ Bytes(nRead + 1, nRead + n) \in Seq(Int)
    <3>1. nRead + 1 \in Nat /\ nRead + n \in Nat /\ nRead + 1 <= nRead + n + 1
          /\ lo \in Nat /\ lo <= nRead + 1
      BY <2>1
    <3>2. Bytes(lo, nRead) \in Seq(Int)
      BY <2>1, <3>1, BytesType
    <3>3. Bytes(nRead + 1, nRead + n) \in Seq(Int)
      BY <3>1, BytesType
    <3>4. <<Marker>> \in Seq(Int) /\ <<>> \in Seq(Int)
      BY DEF Marker
    <3> QED BY <3>2, <3>3, <3>4
  <2>5. Bytes(lo, nRead) \o Bytes(nRead + 1, nRead + n) = Bytes(lo, nRead + n)
    <3>1. /\ lo \in Nat /\ nRead + n \in Nat
          /\ lo <= nRead + 1 /\ nRead <= nRead + n
      BY <2>1
    <3> QED BY <2>1, <3>1, BytesConcat
  <2>6. (front \o Bytes(lo, nRead)) \o Bytes(nRead + 1, nRead + n) = front \o Bytes(lo, nRead +
     n)
    <3> HIDE DEF front
    <3>1. (front \o Bytes(lo, nRead)) \o Bytes(nRead + 1, nRead + n)
            = front \o (Bytes(lo, nRead) \o Bytes(nRead + 1, nRead + n))
      BY <2>4, ConcatAssociative, SMTT(60)
    <3> QED BY <2>5, <3>1
  <2>7. conn'[active].stream = From(lo)'
    BY <1>1, <2>3, <2>6 DEF From
  <2>8. lo \in 1..(nRead' + 1)
    BY <1>1, <2>1
  <2> QED BY <1>2, <1>4, <2>7, <2>8 DEF GapFree
<1> QED BY <1>1, <1>3, <1>4 DEF EnqueueLive, DropSlow, DropActive

LEMMA CandidateAttachGapFree ==
    ASSUME IInv, SlotsApart, GapFree, NEW n, pc = "candidate", CandidateAttach(n)
    PROVE  GapFree'
<1>1. candidate \in Conns /\ conn \in [Conns -> ConnType] /\ active \in Conns \cup {NoConn}
  BY DEF IInv, TypeOK, ClientType, SlotType, SlotShape
<1>2. /\ active' = active /\ joining' = candidate /\ nRead' = nRead /\ tail' = tail
      /\ conn'[candidate].stream = Replay
      /\ \A c \in Conns \ {candidate} : conn'[c] = conn[c]
  BY <1>1 DEF CandidateAttach, ConnType
<1>3. Replay = From(tail.lo) /\ tail.lo \in 1..(nRead + 1)
  BY DEF IInv, TailShape, Replay, From
<1>4. active # candidate
  BY <1>1, ConnAssumption DEF SlotsApart
<1>5. \A lo : From(lo)' = From(lo)
  BY <1>2 DEF From
<1>6. conn'[candidate].stream = From(tail.lo)'
  BY <1>2, <1>3, <1>5
<1>7. active # NoConn =>
        \E lo \in 1..(nRead + 1) : conn'[active].stream = From(lo)'
  BY <1>1, <1>2, <1>4, <1>5 DEF GapFree
<1> QED BY <1>2, <1>3, <1>6, <1>7 DEF GapFree

LEMMA SendExitGapFree ==
    ASSUME IInv, GapFree, SendExit
    PROVE  GapFree'
<1>1. /\ active \in Conns /\ conn \in [Conns -> ConnType] /\ joining = NoConn
  BY DEF IInv, TypeOK, ClientType, SlotShape, SendExit
<1>2. /\ pc = "exit" /\ pc' = "completed" /\ active' = active /\ joining' = joining
      /\ nRead' = nRead
  BY DEF SendExit
<1>3. active # NoConn
  BY <1>1, ConnAssumption
<1>4. PICK lo \in 1..(nRead + 1) : conn[active].stream = From(lo)
  BY <1>2, <1>3 DEF GapFree
<1>5. From(lo)' = From(lo)
  BY <1>2 DEF From
<1>6. \/ conn'[active].stream = Append(conn[active].stream, ExitRecord)
      \/ conn' = conn
  BY <1>1 DEF SendExit, ConnType
<1> QED BY <1>1, <1>2, <1>4, <1>5, <1>6 DEF GapFree

\* The steps that change a connection's queue or counters only.
LEMMA QueueStepGapFree ==
    ASSUME IInv, GapFree, FlushActive \/ ReadActive \/ FlushLast
    PROVE  GapFree'
<1>1. /\ conn \in [Conns -> ConnType] /\ active \in Conns \cup {NoConn} /\ joining = NoConn
      /\ pc # "completed"
  BY DEF IInv, TypeOK, ClientType, SlotType, SlotShape, FlushActive, ReadActive, FlushLast
<1>2. nRead' = nRead /\ joining' = joining
  BY DEF FlushActive, ReadActive, FlushLast
<1>3. CASE active' = NoConn
  BY <1>1, <1>2, <1>3 DEF GapFree
<1>4. CASE active' = active /\ active # NoConn /\ conn'[active].stream = conn[active].stream
  BY <1>1, <1>2, <1>4, StreamsKept
<1>5. \/ active' = NoConn
      \/ active' = active /\ active # NoConn /\ conn'[active].stream = conn[active].stream
  <2>1. CASE FlushActive
    BY <1>1, <2>1 DEF FlushActive, DropActive, ConnType
  <2>2. CASE ReadActive
    <3>1. CASE DropActive \/ (active' = active /\ conn' = conn)
      BY <3>1, <1>1 DEF DropActive
    <3>2. ASSUME active # NoConn, active' = active, NEW n,
                 conn' = [conn EXCEPT ![active].taken = @ + n]
          PROVE  conn'[active].stream = conn[active].stream
      BY <1>1, <3>2 DEF ConnType
    <3> QED BY <2>2, <3>1, <3>2 DEF ReadActive
  <2>3. CASE FlushLast
    BY <1>1, <2>3 DEF FlushLast, ConnType
  <2> QED BY <2>1, <2>2, <2>3
<1> QED BY <1>3, <1>4, <1>5

LEMMA ClientStepGapFree ==
    ASSUME IInv, GapFree, NEW c \in Conns, Connect(c) \/ Send(c) \/ HangUp(c)
    PROVE  GapFree'
<1>1. conn \in [Conns -> ConnType]
  BY DEF IInv, TypeOK, ClientType
<1>2. /\ nRead' = nRead /\ joining' = joining /\ active' = active /\ pc # "completed"
  BY DEF Connect, Send, HangUp, Open, Ended, Ends
<1>3. \A d \in Conns : conn'[d].stream = conn[d].stream
  BY <1>1 DEF Connect, Send, HangUp, ConnType
<1>4. active \in Conns \cup {NoConn} /\ joining \in Conns \cup {NoConn}
  BY DEF IInv, TypeOK, SlotType
<1> QED BY <1>2, <1>3, <1>4, StreamsKept

LEMMA AcceptGapFree ==
    ASSUME IInv, SlotsApart, GapFree, Accept
    PROVE  GapFree'
<1> DEFINE first == Head(backlog)
<1>1. /\ joining = NoConn /\ joining' = joining /\ active' = active /\ nRead' = nRead
      /\ pc # "completed"
  BY DEF IInv, SlotShape, Accept
<1>2. /\ conn \in [Conns -> ConnType] /\ active \in Conns \cup {NoConn}
      /\ backlog \in Seq(Conns) /\ backlog # <<>>
  BY DEF IInv, TypeOK, ClientType, SlotType, Accept
<1>3. Waiting(first)
  <2>1. 1 \in 1..Len(backlog) /\ first = backlog[1]
    BY <1>2, LenProperties, EmptySeq
  <2> QED BY <2>1 DEF Waiting
<1>4. active # NoConn => active # candidate /\ active # first
  BY <1>3 DEF SlotsApart
<1>5. conn' = Without(first) \/ conn' = Without(candidate)
  BY DEF Accept
<1>6. active # NoConn => conn'[active] = conn[active]
  <2> HIDE DEF first
  <2> QED BY <1>2, <1>4, <1>5 DEF Without
<1> QED BY <1>1, <1>6, StreamsKept

\* Dropping the candidate, or the connection that was joining, leaves the
\* attachment's stream.
LEMMA OtherDroppedGapFree ==
    ASSUME IInv, SlotsApart, GapFree, pc \in {"candidate", "join"},
           active' = active, joining' = NoConn, nRead' = nRead,
           NEW c \in {candidate, joining}, conn' = Without(c)
    PROVE  GapFree'
<1>1. conn \in [Conns -> ConnType] /\ active \in Conns \cup {NoConn}
  BY DEF IInv, TypeOK, ClientType, SlotType
<1>2. active # NoConn => active # c
  BY DEF SlotsApart
<1>3. active # NoConn => conn'[active] = conn[active]
  BY <1>1, <1>2 DEF Without
<1> QED BY <1>3, StreamsKept

LEMMA ActivateGapFree ==
    ASSUME IInv, GapFree, Activate
    PROVE  GapFree'
<1>1. joining \in Conns /\ conn \in [Conns -> ConnType]
  BY DEF IInv, TypeOK, ClientType, SlotShape, Activate
<1>2. /\ active' = joining /\ joining' = NoConn /\ nRead' = nRead /\ pc # "completed"
      /\ conn'[joining] = conn[joining]
  BY <1>1 DEF Activate, NewActive
<1> QED BY <1>2, StreamsKept

\* The other steps leave every connection, or drop the attachment.
LEMMA ConnKeptGapFree ==
    ASSUME IInv, GapFree, nRead' = nRead, pc # "completed",
           \/ active' = active /\ joining' = joining /\ conn' = conn
           \/ active' = NoConn /\ joining' = NoConn
    PROVE  GapFree'
<1>1. CASE active' = active /\ joining' = joining /\ conn' = conn
  BY <1>1, StreamsKept
<1>2. CASE active' = NoConn /\ joining' = NoConn
  BY <1>2 DEF GapFree
<1> QED BY <1>1, <1>2

LEMMA GapFreeInit == Init => GapFree
BY DEF Init, GapFree

LEMMA GapFreeNext == IInv /\ SlotsApart /\ GapFree /\ [Next]_vars => GapFree'
<1> SUFFICES ASSUME IInv, SlotsApart, GapFree, [Next]_vars PROVE GapFree'
  OBVIOUS
<1>1. CASE LoopStep
  <2>1. CASE DrainRead
    BY <2>1, DrainReadGapFree
  <2>2. CASE DrainEnd \/ Reap \/ Poll \/ Settle \/ AcceptEnd \/ CandidateNothing \/ StopCheck
    BY <2>2, ConnKeptGapFree DEF DrainEnd, Reap, Poll, Settle, AcceptEnd, CandidateNothing,
       StopCheck
  <2>3. CASE FlushInput \/ ApplyActiveEnd
    <3>1. joining = NoConn
      BY <2>3 DEF IInv, SlotShape, FlushInput, ApplyActiveEnd
    <3> QED BY <2>3, <3>1, ConnKeptGapFree DEF FlushInput, ApplyActiveEnd, DropActive
  <2>4. CASE FlushActive \/ ReadActive
    BY <2>4, QueueStepGapFree
  <2>5. CASE ApplyActive \/ ApplyJoining
    BY <2>5, ConnKeptGapFree DEF ApplyActive, ApplyJoining, ApplyRecord
  <2>6. CASE Accept
    BY <2>6, AcceptGapFree
  <2>7. CASE CandidateBatch \/ CandidateReadFailed
    <3>1. pc = "candidate" /\ joining = NoConn
      BY <2>7 DEF CandidateBatch, CandidateReadFailed, IInv, SlotShape
    <3>2. CASE DropCandidate
      BY <3>1, <3>2, OtherDroppedGapFree DEF DropCandidate
    <3>3. ASSUME NEW n, CandidateAttach(n) PROVE GapFree'
      BY <3>1, <3>3, CandidateAttachGapFree
    <3> QED BY <2>7, <3>2, <3>3 DEF CandidateBatch, CandidateReadFailed, CandidateStop,
       CandidateRejected
  <2>8. CASE Activate
    BY <2>8, ActivateGapFree
  <2>9. CASE JoinRejected
    BY <2>9, OtherDroppedGapFree DEF JoinRejected
  <2> QED BY <1>1, <2>1, <2>2, <2>3, <2>4, <2>5, <2>6, <2>7, <2>8, <2>9 DEF LoopStep
<1>2. CASE StopStep
  BY <1>2, ConnKeptGapFree DEF StopStep, Stopping, Reaped, Terminate, GraceOver, KillChild
<1>3. CASE CompleteStep
  BY <1>3, ConnKeptGapFree, QueueStepGapFree, SendExitGapFree DEF CompleteStep, WriteOutput,
     WriteCompleted, RemoveLiveFiles
<1>4. CASE PollInterrupted \/ Fails \/ Killed \/ ChildWrites \/ ChildExits
  BY <1>4, ConnKeptGapFree DEF PollInterrupted, Fails, Killed, ChildWrites, ChildExits,
     PtyOpen, Looping, Stopping, Ended, Ends
<1>5. CASE \E c \in Conns : Connect(c) \/ Send(c) \/ HangUp(c)
  BY <1>5, ClientStepGapFree
<1>6. CASE UNCHANGED vars
  BY <1>6 DEF vars, GapFree, From
<1> QED BY <1>1, <1>2, <1>3, <1>4, <1>5, <1>6 DEF Next, RunnerStep

\* Whatever the clients send, however slowly they read and whenever they come
\* and go, an attachment is sent one unbroken stretch of the child's output
\* that reaches the last byte read (enqueue_replay against drain_pty).
THEOREM RunnerGapFree == Spec => []GapFree
<1>1. Init => IInv /\ SlotsApart /\ GapFree
  BY TypeInit, ApartInit, GapFreeInit
<1>2. IInv /\ SlotsApart /\ GapFree /\ [Next]_vars => (IInv /\ SlotsApart /\ GapFree)'
  BY TypeNext, ApartNext, GapFreeNext
<1> QED BY <1>1, <1>2, PTL DEF Spec
=============================================================================

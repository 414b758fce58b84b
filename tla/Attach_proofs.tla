---------------------------- MODULE Attach_proofs ----------------------------
(***************************************************************************)
(* Proofs about module Attach, for any capacity of the channel, the queue  *)
(* and the socket and any amount of input and output.                      *)
(*                                                                         *)
(* Input is one pipe of five sequences, from the reader thread's hand to   *)
(* the runner; output another one, of which the client has taken printed.  *)
(* A step moves a record from one sequence to the next, so it leaves the   *)
(* pipe as it is, or works at an end of it.                                *)
(***************************************************************************)
EXTENDS Attach, SequenceTheorems, TLAPS

\* The reader holds an event exactly while it sends it, and has ended once the
\* event was the last one; behind that one the channel holds nothing.
ReaderShape ==
    /\ reader = "sending" <=> held # <<>>
    /\ \A i \in 1..Len(chan) : chan[i] <= 0 => i = Len(chan) /\ reader = "over"
    /\ stdinClosed => chan = <<>> /\ reader = "over"

\* A resize that is flagged still has room, and only flags that were caught are set.
ResizeShape == "winch" \in flags => resized < MaxResize

\* The Attach record is in front of all that was queued.
Sent == received \o inFlight \o queue
FrontShape == Len(Sent) > 0 /\ Sent[1] = AttachRecord

\* Output that is on its way: what follows the records printed, and the Exit.
Coming == batch \o arriving
ComingShape ==
    /\ Len(Coming) = sent - printed + (IF exited THEN 1 ELSE 0)
    /\ \A i \in 1..Len(Coming) : Coming[i] = IF printed + i <= sent THEN printed + i ELSE Exit
    /\ pc \notin {"records", "done"} => batch = <<>>

\* Where the loop flushes, and what poll saw of the peer.
LoopShape ==
    /\ pc \in {"signals", "input", "poll", "write", "read"} => flushed = printed
    /\ pc = "records" /\ ~wrote => flushed = printed
    /\ pc \in {"write", "read"} /\ events.in => arriving # <<>> \/ runner = "closed"
    /\ result = "none" <=> pc # "done"

\* Detached without a signal and with the runner there: stdin ended, and
\* nothing that was typed is left on this side.
DoneShape ==
    result = "detached" /\ ~Signalled /\ runner = "open" =>
        queue = <<>> /\ chan = <<>> /\ held = <<>>

AttachInv ==
    /\ TypeOK /\ ResizeShape
    /\ ReaderShape /\ LoopShape /\ FrontShape /\ TypedInOrder /\ DoneShape
    /\ ComingShape /\ StatusAfterOutput

USE DEF readerVars, inputVars, signalVars, runnerVars, screenVars

-----------------------------------------------------------------------------
(* Types.                                                                   *)

LEMMA TypeInit == Init => TypeOK /\ ResizeShape
<1> SUFFICES ASSUME Init PROVE TypeOK /\ ResizeShape
  OBVIOUS
<1>1. AttachRecord \in Record
  BY DEF Record
<1>2. <<AttachRecord>> \in Seq(Record) /\ Len(<<AttachRecord>>) = 1
  BY <1>1
<1>3. \A S : <<>> \in Seq(S)
  BY EmptySeq
<1>4. Len(<<>>) = 0
  OBVIOUS
<1>5. queue \in Seq(Record) /\ Len(queue) <= QueueLimit
  BY <1>2, SizeAssumption DEF Init
<1>6. /\ chan \in Seq(Event) /\ inFlight \in Seq(Record) /\ received \in Seq(Record)
      /\ arriving \in Seq(0..MaxOut) /\ batch \in Seq(0..MaxOut)
  BY <1>3 DEF Init
<1>7. Len(chan) <= ChanCapacity /\ Len(inFlight) <= SocketRoom
  BY <1>4, SizeAssumption DEF Init
<1>8. MaxTyped \in Nat /\ MaxOut \in Nat /\ MaxResize \in Nat
  BY SizeAssumption
<1>9. held \in {<<>>} \cup {<<e>> : e \in Event}
  BY DEF Init
<1>10. /\ pc = "signals" /\ reader = "reading" /\ typed \in 0..MaxTyped
       /\ resized \in 0..MaxResize /\ stdinClosed \in BOOLEAN
       /\ flags \subseteq caught /\ caught \subseteq Signals
       /\ runner = "open" /\ sent \in 0..MaxOut /\ exited \in BOOLEAN
       /\ events \in [out : BOOLEAN, in : BOOLEAN]
       /\ wrote \in BOOLEAN /\ printed \in 0..MaxOut /\ flushed \in 0..MaxOut
       /\ result = "none"
  <2>1. /\ pc = "signals" /\ reader = "reading" /\ runner = "open" /\ result = "none"
        /\ typed = 0 /\ resized = 0 /\ sent = 0 /\ printed = 0 /\ flushed = 0
    BY DEF Init
  <2>2. /\ stdinClosed = FALSE /\ exited = FALSE /\ wrote = FALSE
        /\ events = [out |-> FALSE, in |-> FALSE]
        /\ flags = {} /\ caught = {}
    BY DEF Init
  <2>3. /\ stdinClosed \in BOOLEAN /\ exited \in BOOLEAN /\ wrote \in BOOLEAN
        /\ flags \subseteq caught /\ caught \subseteq Signals
    BY <2>2
  <2>4. events \in [out : BOOLEAN, in : BOOLEAN]
    BY <2>2
  <2> QED BY <1>8, <2>1, <2>3, <2>4
<1>11. TypeOK
  BY <1>5, <1>6, <1>7, <1>9, <1>10 DEF TypeOK
<1>12. ResizeShape
  BY DEF Init, ResizeShape
<1> QED BY <1>11, <1>12

\* queue_record keeps the queue within its limit.
LEMMA QueueOrType ==
    ASSUME queue \in Seq(Record), Len(queue) <= QueueLimit, NEW record \in Record, NEW where,
           QueueOr(record, where)
    PROVE  /\ queue' \in Seq(Record) /\ Len(queue') <= QueueLimit
           /\ \/ pc' = where /\ UNCHANGED result
              \/ pc' = "done" /\ result' = "error"
<1>1. QueueLimit \in Nat /\ Len(queue) \in Nat
  BY SizeAssumption, LenProperties
<1>2. CASE HasRoom
  BY <1>1, <1>2, AppendProperties DEF QueueOr, HasRoom, Queued, GoOn
<1>3. CASE ~HasRoom
  BY <1>3 DEF QueueOr, Return
<1> QED BY <1>2, <1>3

LEMMA ReceiveInputType ==
    ASSUME TypeOK, ReceiveInput
    PROVE  /\ chan' \in Seq(Event) /\ Len(chan') <= ChanCapacity
           /\ stdinClosed' \in BOOLEAN
           /\ queue' \in Seq(Record) /\ Len(queue') <= QueueLimit
           /\ pc' \in {"poll", "done"} /\ result' \in {result, "error"}
<1> USE DEF TypeOK
<1>1. CASE stdinClosed \/ chan = <<>>
  BY <1>1 DEF ReceiveInput, GoOn
<1>2. CASE ~(stdinClosed \/ chan = <<>>)
  <2>1. chan' = Tail(chan) /\ stdinClosed' = (Head(chan) = Closed)
    BY <1>2 DEF ReceiveInput
  <2>2. Head(chan) \in Event /\ Tail(chan) \in Seq(Event) /\ Len(Tail(chan)) = Len(chan) - 1
    BY <1>2, HeadTailProperties
  <2>3. chan' \in Seq(Event) /\ Len(chan') <= ChanCapacity
    BY <2>1, <2>2, SizeAssumption, LenProperties, SMTT(60)
  <2>4. stdinClosed' \in BOOLEAN
    BY <2>1
  <2>5. CASE Head(chan) > 0
    <3>1. Head(chan) \in Record
      BY <2>2, <2>5 DEF Event, Closed, Failed, Record
    <3>2. QueueOr(Head(chan), "poll")
      <4>1. Head(chan) \in Int /\ Head(chan) # 0 /\ Head(chan) # -1
        BY <2>2, <2>5 DEF Event, Closed, Failed
      <4> QED BY <1>2, <2>5, <4>1 DEF ReceiveInput, Closed, Failed
    <3> QED BY <2>3, <2>4, <3>1, <3>2, QueueOrType
  <2>6. CASE ~(Head(chan) > 0)
    <3>1. Head(chan) = Closed \/ Head(chan) = Failed
      BY <2>2, <2>6, SizeAssumption, SMTT(60) DEF Event
    <3>2. UNCHANGED queue /\ (GoOn("poll") \/ Return("error"))
      BY <1>2, <2>6, <3>1 DEF ReceiveInput, Closed, Failed
    <3> QED BY <2>3, <2>4, <3>2 DEF GoOn, Return
  <2> QED BY <2>5, <2>6
<1> QED BY <1>1, <1>2

LEMMA TypeNext ==
    ASSUME TypeOK, ResizeShape, [Next]_vars
    PROVE  (TypeOK /\ ResizeShape)'
<1> USE DEF TypeOK, ResizeShape
<1>0. MaxTyped \in Nat /\ MaxOut \in Nat /\ MaxResize \in Nat
  BY SizeAssumption
<1>1. CASE ReadStdin
  BY <1>0, <1>1 DEF ReadStdin, Event
<1>2. CASE SendEvent
  <2>1. held \in Seq(Event) /\ Len(held) <= 1
    <3>1. CASE held = <<>>
      BY <3>1, EmptySeq
    <3>2. ASSUME NEW e \in Event, held = <<e>>
          PROVE  held \in Seq(Event) /\ Len(held) <= 1
      BY <3>2
    <3> QED BY <3>1, <3>2
  <2>2. chan \o held \in Seq(Event) /\ Len(chan \o held) <= ChanCapacity
    BY <1>2, <2>1, SizeAssumption, ConcatProperties, LenProperties, SMTT(60) DEF SendEvent
  <2> QED BY <1>2, <2>2 DEF SendEvent
<1>3. CASE \E s \in Signals : SignalArrives(s)
  BY <1>3 DEF SignalArrives
<1>4. CASE RunnerReads
  <2>1. Head(inFlight) \in Record /\ Tail(inFlight) \in Seq(Record)
        /\ Len(Tail(inFlight)) = Len(inFlight) - 1
    BY <1>4, HeadTailProperties DEF RunnerReads
  <2>2. Append(received, Head(inFlight)) \in Seq(Record)
    BY <2>1, AppendProperties
  <2> QED BY <1>4, <2>1, <2>2, SizeAssumption, LenProperties, SMTT(60) DEF RunnerReads
<1>5. CASE RunnerSends
  <2>1. \A r \in 0..MaxOut : Append(arriving, r) \in Seq(0..MaxOut)
    BY AppendProperties
  <2>2. CASE sent < MaxOut /\ sent' = sent + 1 /\ arriving' = Append(arriving, sent + 1)
             /\ UNCHANGED exited
    BY <1>0, <1>5, <2>1, <2>2 DEF RunnerSends
  <2>3. CASE exited' = TRUE /\ arriving' = Append(arriving, Exit) /\ UNCHANGED sent
    BY <1>0, <1>5, <2>1, <2>3 DEF RunnerSends, Exit
  <2> QED BY <1>5, <2>2, <2>3 DEF RunnerSends
<1>6. CASE RunnerCloses \/ PollInterrupted
  BY <1>6, SMTT(60) DEF RunnerCloses, PollInterrupted, GoOn
<1>7. CASE StdoutFails \/ EndBySignal \/ FlushBroken \/ FlushEnds
  BY <1>7, SMTT(60) DEF StdoutFails, EndBySignal, FlushBroken, FlushEnds, Return, GoOn
<1>8. CASE NoticeResize
  <2>1. CASE "winch" \in flags /\ resized' = resized + 1 /\ QueueOr(ResizeRecord, "input")
    <3>1. ResizeRecord \in Record
      BY DEF Record
    <3>2. /\ queue' \in Seq(Record) /\ Len(queue') <= QueueLimit
          /\ pc' \in {"input", "done"} /\ result' \in {result, "error"}
      BY <2>1, <3>1, QueueOrType
    <3> QED BY <1>0, <1>8, <2>1, <3>2 DEF NoticeResize
  <2>2. CASE GoOn("input") /\ UNCHANGED <<queue, resized>>
    BY <1>8, <2>2 DEF NoticeResize, GoOn
  <2> QED BY <1>8, <2>1, <2>2 DEF NoticeResize
<1>9. CASE ReceiveInput
  <2>1. /\ chan' \in Seq(Event) /\ Len(chan') <= ChanCapacity
        /\ stdinClosed' \in BOOLEAN
        /\ queue' \in Seq(Record) /\ Len(queue') <= QueueLimit
        /\ pc' \in {"poll", "done"} /\ result' \in {result, "error"}
    BY <1>9, ReceiveInputType
  <2> QED BY <1>9, <2>1 DEF ReceiveInput
<1>10. CASE Poll
  BY <1>10 DEF Poll, Readable, GoOn
<1>11. CASE Flush
  <2>1. Head(queue) \in Record /\ Tail(queue) \in Seq(Record) /\ Len(Tail(queue)) = Len(queue) - 1
    BY <1>11, HeadTailProperties DEF Flush
  <2>2. /\ Append(inFlight, Head(queue)) \in Seq(Record)
        /\ Len(Append(inFlight, Head(queue))) = Len(inFlight) + 1
    BY <2>1, AppendProperties
  <2> QED BY <1>11, <2>1, <2>2, SizeAssumption, LenProperties, SMTT(60) DEF Flush
<1>12. CASE ReadRecords
  <2>1. ASSUME NEW n \in 1..Len(arriving)
        PROVE  /\ SubSeq(arriving, 1, n) \in Seq(0..MaxOut)
               /\ SubSeq(arriving, n + 1, Len(arriving)) \in Seq(0..MaxOut)
    <3>1. Len(arriving) \in Nat /\ \A i \in 1..Len(arriving) : arriving[i] \in 0..MaxOut
      BY LenProperties, ElementOfSeq
    <3> QED BY <3>1, SubSeqProperties, SMTT(60)
  <2>2. /\ arriving' \in Seq(0..MaxOut) /\ batch' \in Seq(0..MaxOut) /\ wrote' \in BOOLEAN
        /\ pc' \in {"signals", "records", "done"} /\ result' \in {result, "detached"}
    <3>1. CASE ~events.in \/ arriving = <<>>
      BY <1>12, <3>1 DEF ReadRecords, GoOn, Return
    <3>2. CASE ~(~events.in \/ arriving = <<>>)
      BY <1>12, <2>1, <3>2 DEF ReadRecords, GoOn
    <3> QED BY <3>1, <3>2
  <2> QED BY <1>12, <2>2 DEF ReadRecords
<1>13. CASE WriteOutput
  <2>1. Head(batch) \in 0..MaxOut /\ Tail(batch) \in Seq(0..MaxOut)
    BY <1>13, HeadTailProperties DEF WriteOutput
  <2> QED BY <1>13, <2>1, SMTT(60) DEF WriteOutput
<1>14. CASE ReportStatus \/ BatchEnds
  BY <1>14, SMTT(60) DEF ReportStatus, BatchEnds, AtStatus, AtBatchEnd, Return, GoOn
<1>15. CASE UNCHANGED vars
  BY <1>15 DEF vars
<1> QED
  BY <1>1, <1>2, <1>3, <1>4, <1>5, <1>6, <1>7, <1>8, <1>9, <1>10, <1>11, <1>12, <1>13, <1>14, <1>15
  DEF Next, ClientStep, Environment

-----------------------------------------------------------------------------
(* Sequences: a record that moves on, one that is no chunk, and a new one.  *)

LEMMA Headed ==
    ASSUME NEW S, NEW s \in Seq(S), NEW t \in Seq(S), t # <<>>
    PROVE  Append(s, Head(t)) \o Tail(t) = s \o t
<1>1. Head(t) \in S /\ Tail(t) \in Seq(S)
  BY HeadTailProperties
<1>2. <<Head(t)>> \in Seq(S) /\ Append(s, Head(t)) = s \o <<Head(t)>>
  BY <1>1, AppendIsConcat
<1>3. <<Head(t)>> \o Tail(t) = t
  <2>1. Len(t) \in Nat \ {0} /\ \A i \in 1..Len(t) : t[i] \in S
    BY EmptySeq, ElementOfSeq
  <2>2. 1 \in 1..Len(t) /\ Len(t) \in 1..Len(t)
    BY <2>1
  <2>3. SubSeq(t, 1, Len(t)) = <<t[1]>> \o SubSeq(t, 1 + 1, Len(t))
    BY <2>2, SubSeqRecursiveFirst
  <2>4. Head(t) = t[1] /\ Tail(t) = SubSeq(t, 2, Len(t))
    BY TailIsSubSeq
  <2> QED BY <2>3, <2>4, SubSeqFull
<1>4. (s \o <<Head(t)>>) \o Tail(t) = s \o (<<Head(t)>> \o Tail(t))
  BY <1>1, <1>2, ConcatAssociative
<1> QED BY <1>2, <1>3, <1>4

LEMMA Grouped == \A x, y, z \in Seq(Int) : (x \o y) \o z = x \o (y \o z)
BY ConcatAssociative, SMTT(60)

LEMMA MovedOn ==
    ASSUME NEW a \in Seq(Int), NEW s \in Seq(Int), NEW t \in Seq(Int), t # <<>>
    PROVE  (a \o Append(s, Head(t))) \o Tail(t) = (a \o s) \o t
<1>1. Head(t) \in Int /\ Tail(t) \in Seq(Int)
  BY HeadTailProperties
<1>2. Append(s, Head(t)) \in Seq(Int)
  BY <1>1, AppendProperties
<1>3. \A u, v \in Seq(Int) : (a \o u) \o v = a \o (u \o v)
  BY Grouped, Zenon
<1>4. Append(s, Head(t)) \o Tail(t) = s \o t
  BY Headed
<1> DEFINE f == Append(s, Head(t))
<1> DEFINE r == Tail(t)
<1>5. f \in Seq(Int) /\ r \in Seq(Int) /\ f \o r = s \o t
  BY <1>1, <1>2, <1>4
<1> HIDE DEF f, r
<1>6. (a \o f) \o r = a \o (f \o r) /\ (a \o s) \o t = a \o (s \o t)
  <2>1. s \in Seq(Int) /\ t \in Seq(Int)
    OBVIOUS
  <2> QED BY <1>3, <1>5, <2>1, Zenon
<1>7. (a \o f) \o r = (a \o s) \o t
  BY <1>5, <1>6, Zenon
<1> QED BY <1>7 DEF f, r

\* What is no chunk makes no difference where it is.
LEMMA Between ==
    ASSUME NEW a \in Seq(Int), NEW b \in Seq(Int), NEW r \in Int, r <= 0, NEW n \in Nat
    PROVE  Chunks((a \o <<r>>) \o b, n) <=> Chunks(a \o b, n)
<1> DEFINE x == (a \o <<r>>) \o b
<1> DEFINE y == a \o b
<1>1. Len(a) \in Nat /\ Len(b) \in Nat
  BY LenProperties
<1>2. /\ a \o <<r>> \in Seq(Int) /\ Len(a \o <<r>>) = Len(a) + 1
      /\ \A i \in 1..Len(a) : (a \o <<r>>)[i] = a[i]
      /\ (a \o <<r>>)[Len(a) + 1] = r
  BY <1>1, AppendIsConcat, AppendProperties
<1>3. /\ x \in Seq(Int) /\ Len(x) = Len(a) + 1 + Len(b)
      /\ \A i \in 1..Len(a) : x[i] = a[i]
      /\ x[Len(a) + 1] = r
      /\ \A i \in 1..Len(b) : x[Len(a) + 1 + i] = b[i]
  BY <1>1, <1>2, ConcatProperties
<1>4. /\ y \in Seq(Int) /\ Len(y) = Len(a) + Len(b)
      /\ \A i \in 1..Len(a) : y[i] = a[i]
      /\ \A i \in 1..Len(b) : y[Len(a) + i] = b[i]
  BY <1>1, ConcatProperties
<1> DEFINE up(p) == IF p <= Len(a) THEN p ELSE p + 1
<1> DEFINE down(p) == IF p <= Len(a) THEN p ELSE p - 1
<1>5. \A p \in 1..Len(y) : up(p) \in 1..Len(x) /\ x[up(p)] = y[p]
  <2> SUFFICES ASSUME NEW p \in 1..Len(y) PROVE up(p) \in 1..Len(x) /\ x[up(p)] = y[p]
    OBVIOUS
  <2>1. CASE p <= Len(a)
    BY <1>1, <1>3, <1>4, <2>1
  <2>2. CASE ~(p <= Len(a))
    <3>1. p - Len(a) \in 1..Len(b)
      BY <1>1, <1>4, <2>2
    <3>2. y[Len(a) + (p - Len(a))] = b[p - Len(a)] /\ x[Len(a) + 1 + (p - Len(a))] = b[p - Len(a)]
      BY <1>3, <1>4, <3>1
    <3>3. Len(a) + (p - Len(a)) = p /\ Len(a) + 1 + (p - Len(a)) = p + 1
      BY <1>1, <1>4
    <3> QED BY <1>1, <1>3, <1>4, <2>2, <3>2, <3>3
  <2> QED BY <2>1, <2>2
<1>6. \A p \in 1..Len(x) : p # Len(a) + 1 =>
        down(p) \in 1..Len(y) /\ p = up(down(p))
  BY <1>1, <1>3, <1>4
<1>7. Len(x) \in Nat /\ Len(y) \in Nat
      /\ (\A p \in 1..Len(x) : x[p] \in Int) /\ (\A p \in 1..Len(y) : y[p] \in Int)
  BY <1>1, <1>3, <1>4, ElementOfSeq
<1> HIDE DEF x, y
<1>8. ASSUME Chunks(y, n) PROVE Chunks(x, n)
  <2>1. \A i \in 1..n : \E p \in 1..Len(x) : x[p] = i
    BY <1>5, <1>8 DEF Chunks
  <2>2. ASSUME NEW p \in 1..Len(x), x[p] > 0
        PROVE  down(p) \in 1..Len(y) /\ p = up(down(p)) /\ x[p] = y[down(p)]
    <3>1. p # Len(a) + 1
      BY <1>3, <2>2
    <3>2. down(p) \in 1..Len(y) /\ p = up(down(p))
      BY <1>6, <3>1
    <3> HIDE DEF up, down
    <3> QED BY <1>5, <3>2
  <2>3. \A p \in 1..Len(x) : x[p] <= n
    <3> SUFFICES ASSUME NEW p \in 1..Len(x), x[p] > 0 PROVE x[p] <= n
      BY <1>7
    <3> HIDE DEF up, down
    <3> QED BY <1>8, <2>2 DEF Chunks
  <2>4. ASSUME NEW p \in 1..Len(x), NEW q \in 1..Len(x), p < q, x[p] > 0, x[q] > 0
        PROVE  x[p] < x[q]
    <3>1. down(p) \in 1..Len(y) /\ down(q) \in 1..Len(y) /\ x[p] = y[down(p)] /\ x[q] = y[down(q)]
          /\ p = up(down(p)) /\ q = up(down(q))
      BY <2>2, <2>4
    <3>2. down(p) < down(q)
      BY <1>1, <1>7, <2>4, <3>1
    <3> QED BY <1>8, <2>4, <3>1, <3>2 DEF Chunks
  <2> QED BY <2>1, <2>3, <2>4 DEF Chunks
<1>9. ASSUME Chunks(x, n) PROVE Chunks(y, n)
  <2>1. ASSUME NEW i \in 1..n PROVE \E p \in 1..Len(y) : y[p] = i
    <3>1. PICK p \in 1..Len(x) : x[p] = i
      BY <1>9 DEF Chunks
    <3>2. p # Len(a) + 1
      BY <1>3, <3>1
    <3> QED BY <1>5, <1>6, <3>1, <3>2
  <2>2. \A p \in 1..Len(y) : y[p] <= n
    BY <1>5, <1>9 DEF Chunks
  <2>3. ASSUME NEW p \in 1..Len(y), NEW q \in 1..Len(y), p < q, y[p] > 0, y[q] > 0
        PROVE  y[p] < y[q]
    <3>1. up(p) < up(q)
      BY <1>1, <1>7, <2>3
    <3> QED BY <1>5, <1>9, <2>3, <3>1 DEF Chunks
  <2> QED BY <2>1, <2>2, <2>3 DEF Chunks
<1> QED BY <1>8, <1>9 DEF x, y

LEMMA NextChunk ==
    ASSUME NEW a \in Seq(Int), NEW n \in Nat, Chunks(a, n)
    PROVE  Chunks(a \o <<n + 1>>, n + 1)
<1> DEFINE x == a \o <<n + 1>>
<1>1. Len(a) \in Nat
  BY LenProperties
<1>2. Len(x) = Len(a) + 1 /\ x[Len(a) + 1] = n + 1 /\ \A i \in 1..Len(a) : x[i] = a[i]
  BY <1>1, AppendIsConcat, AppendProperties
<1>3. \A i \in 1..Len(a) : a[i] \in Int
  BY ElementOfSeq
<1> HIDE DEF x
<1>4. \A i \in 1..(n + 1) : \E p \in 1..Len(x) : x[p] = i
  <2> SUFFICES ASSUME NEW i \in 1..(n + 1) PROVE \E p \in 1..Len(x) : x[p] = i
    OBVIOUS
  <2>1. CASE i = n + 1
    BY <1>1, <1>2, <2>1
  <2>2. CASE i # n + 1
    <3>1. PICK p \in 1..Len(a) : a[p] = i
      BY <2>2 DEF Chunks
    <3> QED BY <1>1, <1>2, <3>1
  <2> QED BY <2>1, <2>2
<1>5. \A p \in 1..Len(x) : x[p] <= n + 1 /\ (p # Len(a) + 1 => p \in 1..Len(a) /\ x[p] <= n)
  BY <1>1, <1>2, <1>3 DEF Chunks
<1>6. ASSUME NEW p \in 1..Len(x), NEW q \in 1..Len(x), p < q, x[p] > 0, x[q] > 0
      PROVE  x[p] < x[q]
  <2>1. p \in 1..Len(a) /\ x[p] = a[p] /\ x[p] <= n
    BY <1>1, <1>2, <1>5, <1>6
  <2>2. CASE q = Len(a) + 1
    BY <1>2, <1>3, <2>1, <2>2
  <2>3. CASE q # Len(a) + 1
    <3>1. q \in 1..Len(a) /\ x[q] = a[q]
      BY <1>1, <1>2, <1>5, <2>3
    <3> QED BY <1>6, <2>1, <3>1 DEF Chunks
  <2> QED BY <2>2, <2>3
<1> QED BY <1>4, <1>5, <1>6 DEF Chunks, x

-----------------------------------------------------------------------------
(* The reader and the loop.                                                 *)

LEMMA ReaderShapeInit == Init => ReaderShape
<1> SUFFICES ASSUME Init PROVE ReaderShape
  OBVIOUS
<1>1. reader = "reading" /\ held = <<>> /\ chan = <<>> /\ stdinClosed = FALSE
  BY DEF Init
<1>2. Len(chan) = 0
  BY <1>1
<1> QED BY <1>1, <1>2 DEF ReaderShape

LEMMA ReaderShapeNext ==
    ASSUME TypeOK, ReaderShape, [Next]_vars
    PROVE  ReaderShape'
<1> USE DEF ReaderShape
<1>1. CASE ReadStdin
  <2>1. /\ held' # <<>> /\ reader' = "sending" /\ reader = "reading"
        /\ UNCHANGED <<chan, stdinClosed>>
    BY <1>1 DEF ReadStdin
  <2> QED BY <2>1
<1>2. CASE SendEvent
  <2>1. PICK e \in Event : held = <<e>>
    BY <1>2 DEF SendEvent, TypeOK
  <2>2. /\ chan' = Append(chan, e) /\ held' = <<>> /\ UNCHANGED stdinClosed
        /\ reader' = IF e > 0 THEN "reading" ELSE "over"
    <3>1. chan' = chan \o <<e>>
      BY <1>2, <2>1 DEF SendEvent
    <3>2. chan \o <<e>> = Append(chan, e)
      BY AppendIsConcat DEF TypeOK
    <3>3. held[1] = e
      BY <2>1
    <3> QED BY <1>2, <3>1, <3>2, <3>3 DEF SendEvent
  <2>3. Len(chan) \in Nat /\ Len(chan') = Len(chan) + 1 /\ chan'[Len(chan) + 1] = e
        /\ \A i \in 1..Len(chan) : chan'[i] = chan[i]
    BY <2>2, AppendProperties, LenProperties DEF TypeOK
  <2>4. e \in Int /\ \A i \in 1..Len(chan) : ~(chan[i] <= 0)
    BY <1>2, <2>1, SizeAssumption DEF SendEvent, Event, Closed, Failed
  <2>5. \A i \in 1..Len(chan') : chan'[i] <= 0 => i = Len(chan') /\ reader' = "over"
    BY <2>2, <2>3, <2>4
  <2>6. ~stdinClosed
    BY <1>2 DEF SendEvent
  <2> QED BY <2>2, <2>5, <2>6
<1>3. CASE ReceiveInput
  <2>1. CASE stdinClosed \/ chan = <<>>
    BY <1>3, <2>1 DEF ReceiveInput
  <2>2. CASE ~(stdinClosed \/ chan = <<>>)
    <3>1. chan' = Tail(chan) /\ stdinClosed' = (Head(chan) = Closed) /\ UNCHANGED <<reader, held>>
      BY <1>3, <2>2 DEF ReceiveInput
    <3>2. Len(chan) \in Nat \ {0} /\ Head(chan) = chan[1]
      BY <2>2, EmptySeq DEF TypeOK
    <3>3. Len(chan') = Len(chan) - 1 /\ \A i \in 1..Len(chan') : chan'[i] = chan[i + 1]
      BY <2>2, <3>1, HeadTailProperties DEF TypeOK
    <3>4. \A i \in 1..Len(chan') : chan'[i] <= 0 => i = Len(chan') /\ reader = "over"
      BY <3>2, <3>3
    <3>5. ASSUME stdinClosed' PROVE Len(chan') = 0 /\ reader = "over"
      <4>1. chan[1] = 0
        BY <3>1, <3>2, <3>5 DEF Closed
      <4>2. 1 \in 1..Len(chan) /\ chan[1] <= 0
        BY <3>2, <4>1
      <4>3. 1 = Len(chan) /\ reader = "over"
        BY <4>2
      <4> QED BY <3>3, <4>3, SMTT(60)
    <3>6. chan' \in Seq(Event)
      BY <1>3, ReceiveInputType
    <3>7. stdinClosed' => chan' = <<>>
      BY <3>5, <3>6, EmptySeq
    <3> QED BY <3>1, <3>4, <3>5, <3>7
  <2> QED BY <2>1, <2>2
<1>4. CASE UNCHANGED <<readerVars, inputVars>>
  BY <1>4
<1>5. UNCHANGED <<readerVars, inputVars>> \/ ReadStdin \/ SendEvent \/ ReceiveInput
  BY DEF Next, ClientStep, Environment, vars, EndBySignal, NoticeResize, Poll, Flush,
     FlushBroken, FlushEnds, ReadRecords, WriteOutput, ReportStatus, BatchEnds, PollInterrupted,
     StdoutFails, SignalArrives, RunnerReads, RunnerSends, RunnerCloses
<1> QED BY <1>1, <1>2, <1>3, <1>4, <1>5

LEMMA LoopShapeInit == Init => LoopShape
<1> SUFFICES ASSUME Init PROVE LoopShape
  OBVIOUS
<1> QED BY DEF Init, LoopShape

LEMMA LoopShapeNext ==
    ASSUME TypeOK, LoopShape, [Next]_vars
    PROVE  LoopShape'
<1> USE DEF LoopShape
<1>1. CASE ReadStdin \/ SendEvent \/ \E s \in Signals : SignalArrives(s)
  BY <1>1 DEF ReadStdin, SendEvent, SignalArrives
<1>2. CASE RunnerReads \/ RunnerCloses
  BY <1>2 DEF RunnerReads, RunnerCloses
<1>3. CASE RunnerSends
  <2>1. \E r \in Int : arriving' = Append(arriving, r)
    BY <1>3, SizeAssumption, SMTT(60) DEF RunnerSends, TypeOK, Exit
  <2>2. arriving' # <<>>
    <3>1. PICK r \in Int : arriving' = Append(arriving, r)
      BY <2>1
    <3>2. arriving \in Seq(Int)
      <4>1. 0..MaxOut \subseteq Int
        OBVIOUS
      <4> QED BY <4>1, SeqMonotonic DEF TypeOK
    <3> QED BY <3>1, <3>2, AppendProperties
  <2> QED BY <1>3, <2>2 DEF RunnerSends
<1>4. CASE PollInterrupted \/ StdoutFails \/ EndBySignal \/ FlushBroken
  BY <1>4 DEF PollInterrupted, StdoutFails, EndBySignal, FlushBroken, GoOn, Return
<1>5. CASE NoticeResize
  BY <1>5 DEF NoticeResize, QueueOr, GoOn, Return
<1>6. CASE ReceiveInput
  <2>1. /\ pc' \in {"poll", "done"} /\ (pc' = "poll" => UNCHANGED result)
        /\ (pc' = "done" => result' = "error")
    <3>1. CASE stdinClosed \/ chan = <<>>
      BY <1>6, <3>1 DEF ReceiveInput, GoOn
    <3>2. CASE ~(stdinClosed \/ chan = <<>>)
      <4>1. Head(chan) \in Event
        BY <3>2, HeadTailProperties DEF TypeOK
      <4>2. CASE Head(chan) > 0
        <5>1. Head(chan) # Closed /\ Head(chan) # Failed
          BY <4>1, <4>2 DEF Event, Closed, Failed
        <5>2. QueueOr(Head(chan), "poll")
          BY <1>6, <3>2, <4>2, <5>1 DEF ReceiveInput
        <5> QED BY <5>2 DEF QueueOr, GoOn, Return
      <4>3. CASE ~(Head(chan) > 0)
        <5>1. Head(chan) = Closed \/ Head(chan) = Failed
          BY <4>1, <4>3, SizeAssumption DEF Event
        <5>2. GoOn("poll") \/ Return("error")
          BY <1>6, <3>2, <4>3, <5>1 DEF ReceiveInput, Closed, Failed
        <5> QED BY <5>2 DEF GoOn, Return
      <4> QED BY <4>2, <4>3
    <3> QED BY <3>1, <3>2
  <2> QED BY <1>6, <2>1 DEF ReceiveInput
<1>7. CASE Poll
  BY <1>7 DEF Poll, Readable, GoOn
<1>8. CASE Flush \/ FlushEnds
  BY <1>8 DEF Flush, FlushEnds, GoOn, Return
<1>9. CASE ReadRecords
  BY <1>9 DEF ReadRecords, GoOn, Return
<1>10. CASE WriteOutput \/ ReportStatus \/ BatchEnds
  BY <1>10 DEF WriteOutput, ReportStatus, BatchEnds, AtBatchEnd, GoOn, Return, TypeOK
<1>11. CASE UNCHANGED vars
  BY <1>11 DEF vars
<1> QED
  BY <1>1, <1>2, <1>3, <1>4, <1>5, <1>6, <1>7, <1>8, <1>9, <1>10, <1>11
  DEF Next, ClientStep, Environment

-----------------------------------------------------------------------------
(* The input pipe.                                                          *)

\* A record that is no chunk, added behind s or taken off the front of c,
\* leaves the chunks as they are.
LEMMA Slipped ==
    ASSUME NEW s \in Seq(Int), NEW c \in Seq(Int), NEW h \in Seq(Int),
           NEW r \in Int, r <= 0, NEW n \in Nat
    PROVE  Chunks((Append(s, r) \o c) \o h, n) <=> Chunks((s \o c) \o h, n)
<1>1. c \o h \in Seq(Int) /\ Append(s, r) \in Seq(Int) /\ Append(s, r) = s \o <<r>>
  BY ConcatProperties, AppendProperties, AppendIsConcat
<1>2. (Append(s, r) \o c) \o h = Append(s, r) \o (c \o h) /\ (s \o c) \o h = s \o (c \o h)
  BY <1>1, Grouped, ZenonT(60)
<1>3. Chunks((s \o <<r>>) \o (c \o h), n) <=> Chunks(s \o (c \o h), n)
  BY <1>1, Between
<1> QED BY <1>1, <1>2, <1>3

LEMMA Dropped ==
    ASSUME NEW s \in Seq(Int), NEW c \in Seq(Int), NEW h \in Seq(Int),
           c # <<>>, Head(c) <= 0, NEW n \in Nat
    PROVE  Chunks((s \o c) \o h, n) <=> Chunks((s \o Tail(c)) \o h, n)
<1>1. Head(c) \in Int /\ Tail(c) \in Seq(Int)
  BY HeadTailProperties
<1>2. Append(s, Head(c)) \o Tail(c) = s \o c
  BY Headed
<1> QED BY <1>1, <1>2, Slipped

LEMMA Ints ==
    ASSUME TypeOK
    PROVE  /\ received \in Seq(Int) /\ inFlight \in Seq(Int) /\ queue \in Seq(Int)
           /\ chan \in Seq(Int) /\ held \in Seq(Int) /\ Sent \in Seq(Int)
           /\ received \o inFlight \in Seq(Int)
           /\ typed \in Nat
<1>1. Record \subseteq Int /\ Event \subseteq Int /\ MaxTyped \in Nat
  BY SizeAssumption DEF Record, Event, AttachRecord, ResizeRecord, Closed, Failed
<1>2. Seq(Record) \subseteq Seq(Int) /\ Seq(Event) \subseteq Seq(Int)
  BY <1>1, SeqMonotonic
<1>3. received \in Seq(Int) /\ inFlight \in Seq(Int) /\ queue \in Seq(Int) /\ chan \in Seq(Int)
  BY <1>2 DEF TypeOK
<1>4. held \in Seq(Int)
  <2>1. CASE held = <<>>
    BY <2>1, EmptySeq
  <2>2. ASSUME NEW e \in Event, held = <<e>> PROVE held \in Seq(Int)
    BY <1>1, <2>2
  <2> QED BY <2>1, <2>2 DEF TypeOK
<1>5. received \o inFlight \in Seq(Int) /\ Sent \in Seq(Int)
  BY <1>3, ConcatProperties DEF Sent
<1>6. typed \in Nat
  BY <1>1 DEF TypeOK
<1> QED BY <1>3, <1>4, <1>5, <1>6

\* A record queued is appended to what was sent; one that is read or flushed
\* only moves on.
LEMMA QueueOrSends ==
    ASSUME TypeOK, NEW r \in Int, NEW where, QueueOr(r, where), UNCHANGED <<received, inFlight>>
    PROVE  \/ Sent' = Append(Sent, r) /\ UNCHANGED result
           \/ Sent' = Sent /\ result' = "error"
<1>1. CASE HasRoom
  <2>1. queue' = Append(queue, r) /\ UNCHANGED result
    BY <1>1 DEF QueueOr, Queued, GoOn
  <2>2. /\ queue \in Seq(Int) /\ received \o inFlight \in Seq(Int) /\ Sent \in Seq(Int)
        /\ <<r>> \in Seq(Int)
    BY Ints
  <2> DEFINE x == received \o inFlight
  <2>3. x \o (queue \o <<r>>) = (x \o queue) \o <<r>>
    BY <2>2, Grouped, ZenonT(60)
  <2>4. Append(queue, r) = queue \o <<r>> /\ Append(Sent, r) = Sent \o <<r>>
    BY <2>2, AppendIsConcat
  <2>5. Sent' = x \o Append(queue, r)
    BY <2>1 DEF Sent
  <2> HIDE DEF x
  <2>6. Sent = x \o queue
    BY DEF Sent, x
  <2> QED BY <2>1, <2>3, <2>4, <2>5, <2>6, Zenon
<1>2. CASE ~HasRoom
  BY <1>2 DEF QueueOr, Return, Sent
<1> QED BY <1>1, <1>2

LEMMA MoveOnSends ==
    ASSUME TypeOK, RunnerReads \/ Flush
    PROVE  Sent' = Sent
<1>1. received \in Seq(Int) /\ inFlight \in Seq(Int) /\ queue \in Seq(Int)
  BY Ints
<1>2. CASE RunnerReads
  <2>1. Append(received, Head(inFlight)) \o Tail(inFlight) = received \o inFlight
    BY <1>1, <1>2, Headed DEF RunnerReads
  <2> QED BY <1>2, <2>1 DEF RunnerReads, Sent
<1>3. CASE Flush
  <2>1. (received \o Append(inFlight, Head(queue))) \o Tail(queue) = (received \o inFlight) \o queue
    <3>1. queue # <<>>
      BY <1>3 DEF Flush
    <3> QED BY <1>1, <3>1, MovedOn
  <2> QED BY <1>3, <2>1 DEF Flush, Sent
<1> QED BY <1>2, <1>3

\* The steps that touch the pipe at all.
LEMMA PipeSteps ==
    ASSUME [Next]_vars
    PROVE  \/ ReadStdin \/ SendEvent \/ NoticeResize \/ ReceiveInput \/ RunnerReads \/ Flush
           \/ UNCHANGED <<received, inFlight, queue, chan, held, typed>>
BY DEF Next, ClientStep, Environment, vars, EndBySignal, Poll, FlushBroken, FlushEnds, ReadRecords,
   WriteOutput, ReportStatus, BatchEnds, PollInterrupted, StdoutFails, SignalArrives, RunnerSends,
   RunnerCloses

\* What receive_input does with the event it takes.
LEMMA EventTaken ==
    ASSUME TypeOK, ReceiveInput, ~(stdinClosed \/ chan = <<>>)
    PROVE  /\ chan' = Tail(chan) /\ Head(chan) \in Int /\ UNCHANGED <<received, inFlight, held, typed>>
           /\ \/ Head(chan) > 0 /\ QueueOr(Head(chan), "poll")
              \/ Head(chan) <= 0 /\ UNCHANGED queue
<1>1. Head(chan) \in Event
  BY HeadTailProperties DEF TypeOK
<1>2. Head(chan) \in Int
  BY <1>1, SizeAssumption DEF Event, Closed, Failed
<1>3. CASE Head(chan) > 0
  <2>1. Head(chan) # Closed /\ Head(chan) # Failed
    BY <1>2, <1>3 DEF Closed, Failed
  <2> QED BY <1>2, <1>3, <2>1 DEF ReceiveInput
<1>4. CASE ~(Head(chan) > 0)
  <2>1. Head(chan) = Closed \/ Head(chan) = Failed
    BY <1>1, <1>4, SizeAssumption DEF Event
  <2>2. Head(chan) = Closed => UNCHANGED queue
    BY <1>4 DEF ReceiveInput, Closed, Failed
  <2>3. Head(chan) = Failed => UNCHANGED queue
    <3>1. Failed # Closed
      BY DEF Closed, Failed
    <3> QED BY <1>4, <3>1 DEF ReceiveInput
  <2>4. UNCHANGED queue
    BY <2>1, <2>2, <2>3
  <2> QED BY <1>2, <1>4, <2>4 DEF ReceiveInput
<1> QED BY <1>3, <1>4

LEMMA FrontInit == Init => FrontShape
<1> SUFFICES ASSUME Init PROVE FrontShape
  OBVIOUS
<1>1. received = <<>> /\ inFlight = <<>> /\ queue = <<AttachRecord>>
  BY DEF Init
<1>2. received \o inFlight = <<>> /\ <<>> \o queue = queue
  BY <1>1, ConcatEmptySeq, EmptySeq DEF AttachRecord
<1>3. Sent = <<AttachRecord>>
  BY <1>1, <1>2 DEF Sent
<1> QED BY <1>3 DEF FrontShape

LEMMA FrontNext ==
    ASSUME TypeOK, FrontShape, [Next]_vars
    PROVE  FrontShape'
<1>1. Sent' = Sent \/ \E r \in Int : Sent' = Append(Sent, r)
  <2>1. CASE NoticeResize
    <3>1. CASE QueueOr(ResizeRecord, "input")
      BY <2>1, <3>1, QueueOrSends DEF NoticeResize, ResizeRecord
    <3>2. CASE UNCHANGED queue
      BY <2>1, <3>2 DEF NoticeResize, Sent
    <3> QED BY <2>1, <3>1, <3>2 DEF NoticeResize
  <2>2. CASE ReceiveInput
    <3>1. CASE stdinClosed \/ chan = <<>>
      BY <2>2, <3>1 DEF ReceiveInput, Sent
    <3>2. CASE ~(stdinClosed \/ chan = <<>>)
      <4>1. CASE QueueOr(Head(chan), "poll")
        BY <2>2, <3>2, <4>1, EventTaken, QueueOrSends
      <4>2. CASE UNCHANGED queue
        BY <2>2, <3>2, <4>2, EventTaken DEF Sent
      <4> QED BY <2>2, <3>2, <4>1, <4>2, EventTaken
    <3> QED BY <3>1, <3>2
  <2>3. CASE RunnerReads \/ Flush
    BY <2>3, MoveOnSends
  <2>4. CASE ReadStdin \/ SendEvent
    BY <2>4 DEF ReadStdin, SendEvent, Sent
  <2>5. CASE UNCHANGED <<received, inFlight, queue, chan, held, typed>>
    BY <2>5 DEF Sent
  <2> QED BY <2>1, <2>2, <2>3, <2>4, <2>5, PipeSteps
<1>2. Sent \in Seq(Int)
  BY Ints
<1>3. CASE Sent' = Sent
  BY <1>3 DEF FrontShape
<1>4. ASSUME NEW r \in Int, Sent' = Append(Sent, r) PROVE FrontShape'
  <2>1. Len(Sent) \in Nat \ {0} /\ Sent[1] = AttachRecord
    BY <1>2, LenProperties DEF FrontShape
  <2>2. Len(Sent') = Len(Sent) + 1 /\ Sent'[1] = Sent[1]
    BY <1>2, <1>4, <2>1, AppendProperties
  <2>3. Len(Sent') > 0 /\ Sent'[1] = AttachRecord
    BY <2>1, <2>2
  <2> QED BY <2>3 DEF FrontShape
<1> QED BY <1>1, <1>3, <1>4

\* The whole pipe.
Pipe == (Sent \o chan) \o held

LEMMA PipeOfProperty == TypedInOrder <=> Head(Sent) = AttachRecord /\ (result # "error" => Chunks(Pipe, typed))
BY DEF TypedInOrder, Sent, Pipe

\* No step follows the return.
LEMMA Stopped ==
    ASSUME [Next]_vars, pc = "done"
    PROVE  UNCHANGED vars
BY DEF Next, ClientStep, Environment, EndBySignal, Poll, FlushBroken, FlushEnds, ReadRecords,
   WriteOutput, ReportStatus, BatchEnds, PollInterrupted, StdoutFails, SignalArrives, RunnerSends,
   RunnerCloses, ReadStdin, SendEvent, NoticeResize, ReceiveInput, RunnerReads, Flush

LEMMA TypedInit == Init => TypedInOrder
<1> SUFFICES ASSUME Init PROVE TypedInOrder
  OBVIOUS
<1>1. /\ received = <<>> /\ inFlight = <<>> /\ queue = <<AttachRecord>> /\ chan = <<>> /\ held = <<>>
      /\ typed = 0
  BY DEF Init
<1>2. <<AttachRecord>> \in Seq(Int) /\ <<>> \in Seq(Int)
  BY EmptySeq DEF AttachRecord
<1>3. \A s \in Seq(Int) : <<>> \o s = s /\ s \o <<>> = s
  BY ConcatEmptySeq
<1>4. Sent = <<AttachRecord>> /\ Pipe = <<AttachRecord>>
  BY <1>1, <1>2, <1>3, Zenon DEF Sent, Pipe
<1>5. Chunks(<<0>>, 0)
  BY DEF Chunks
<1>6. Head(<<AttachRecord>>) = AttachRecord
  OBVIOUS
<1> QED BY <1>1, <1>4, <1>5, <1>6, PipeOfProperty DEF AttachRecord

\* What each step makes of the pipe, unless it gives up with an error.
LEMMA PipeNext ==
    ASSUME TypeOK, ReaderShape, [Next]_vars, Chunks(Pipe, typed)
    PROVE  result' = "error" \/ Chunks(Pipe, typed)'
<1>1. /\ chan \in Seq(Int) /\ held \in Seq(Int) /\ Sent \in Seq(Int) /\ typed \in Nat
      /\ Sent \o chan \in Seq(Int) /\ <<>> \in Seq(Int)
  BY Ints, ConcatProperties, EmptySeq
<1>2. \A s \in Seq(Int) : s \o <<>> = s
  BY ConcatEmptySeq
<1>3. CASE ReadStdin
  <2>1. held = <<>> /\ UNCHANGED <<Sent, chan>>
    BY <1>3 DEF ReadStdin, ReaderShape, Sent
  <2>2. Chunks(Sent \o chan, typed)
    BY <1>1, <1>2, <2>1, Zenon DEF Pipe
  <2>3. CASE typed' = typed + 1 /\ held' = <<typed + 1>>
    <3>1. Chunks((Sent \o chan) \o <<typed + 1>>, typed + 1)
      BY <1>1, <2>2, NextChunk
    <3> QED BY <2>1, <2>3, <3>1 DEF Pipe
  <2>4. CASE held' \in {<<Closed>>, <<Failed>>} /\ UNCHANGED typed
    <3>1. PICK r \in Int : r <= 0 /\ held' = <<r>>
      BY <2>4 DEF Closed, Failed
    <3>2. Chunks(((Sent \o chan) \o <<r>>) \o <<>>, typed)
      <4>1. (Sent \o chan) \o <<>> = Sent \o chan
        BY <1>1, <1>2, Zenon
      <4> QED BY <1>1, <2>2, <3>1, <4>1, Between
    <3>3. (Sent \o chan) \o <<r>> \in Seq(Int)
      BY <1>1, <3>1, ConcatProperties
    <3>4. ((Sent \o chan) \o <<r>>) \o <<>> = (Sent \o chan) \o <<r>>
      BY <1>2, <3>3, Zenon
    <3> QED BY <2>1, <2>4, <3>1, <3>2, <3>4 DEF Pipe
  <2> QED BY <1>3, <2>3, <2>4 DEF ReadStdin
<1>4. CASE SendEvent
  <2>1. chan' = chan \o held /\ held' = <<>> /\ UNCHANGED <<Sent, typed>>
    BY <1>4 DEF SendEvent, Sent
  <2>2. chan \o held \in Seq(Int) /\ Sent \o (chan \o held) \in Seq(Int)
    BY <1>1, ConcatProperties
  <2>3. (Sent \o (chan \o held)) \o <<>> = (Sent \o chan) \o held
    BY <1>1, <1>2, <2>2, Grouped, ZenonT(60)
  <2> QED BY <2>1, <2>3 DEF Pipe
<1>5. ASSUME NEW r \in Int, r <= 0, Sent' = Append(Sent, r), UNCHANGED <<chan, held, typed>>
      PROVE  Chunks(Pipe, typed)'
  <2>1. Chunks((Append(Sent, r) \o chan) \o held, typed)
    BY <1>1, <1>5, Slipped DEF Pipe
  <2> QED BY <1>5, <2>1 DEF Pipe
<1>6. CASE NoticeResize
  <2>1. UNCHANGED <<chan, held, typed>>
    BY <1>6 DEF NoticeResize
  <2>2. CASE QueueOr(ResizeRecord, "input")
    <3>1. ResizeRecord \in Int /\ ResizeRecord <= 0
      BY DEF ResizeRecord
    <3>2. Sent' = Append(Sent, ResizeRecord) \/ result' = "error"
      BY <1>6, <2>2, <3>1, QueueOrSends DEF NoticeResize
    <3> QED BY <1>5, <2>1, <3>1, <3>2
  <2>3. CASE UNCHANGED queue
    BY <1>6, <2>1, <2>3 DEF NoticeResize, Pipe, Sent
  <2> QED BY <1>6, <2>2, <2>3 DEF NoticeResize
<1>7. CASE ReceiveInput
  <2>1. CASE stdinClosed \/ chan = <<>>
    BY <1>7, <2>1 DEF ReceiveInput, Pipe, Sent
  <2>2. CASE ~(stdinClosed \/ chan = <<>>)
    <3>1. chan' = Tail(chan) /\ Head(chan) \in Int /\ UNCHANGED <<received, inFlight, held, typed>>
      BY <1>7, <2>2, EventTaken
    <3>2. CASE Head(chan) > 0 /\ QueueOr(Head(chan), "poll")
      <4>1. Sent' = Append(Sent, Head(chan)) \/ result' = "error"
        BY <3>1, <3>2, QueueOrSends
      <4>2. Append(Sent, Head(chan)) \o Tail(chan) = Sent \o chan
        BY <1>1, <2>2, Headed
      <4> QED BY <3>1, <4>1, <4>2 DEF Pipe
    <3>3. CASE Head(chan) <= 0 /\ UNCHANGED queue
      <4>1. Chunks((Sent \o Tail(chan)) \o held, typed)
        BY <1>1, <2>2, <3>3, Dropped DEF Pipe
      <4>2. UNCHANGED Sent
        BY <3>1, <3>3 DEF Sent
      <4> QED BY <3>1, <4>1, <4>2 DEF Pipe
    <3> QED BY <1>7, <2>2, <3>2, <3>3, EventTaken
  <2> QED BY <2>1, <2>2
<1>8. CASE RunnerReads \/ Flush
  <2>1. Sent' = Sent
    BY <1>8, MoveOnSends
  <2>2. UNCHANGED <<chan, held, typed>>
    BY <1>8 DEF RunnerReads, Flush
  <2> QED BY <2>1, <2>2 DEF Pipe
<1>9. CASE UNCHANGED <<received, inFlight, queue, chan, held, typed>>
  BY <1>9 DEF Pipe, Sent
<1> QED BY <1>3, <1>4, <1>6, <1>7, <1>8, <1>9, PipeSteps

LEMMA TypedNext ==
    ASSUME TypeOK, ReaderShape, LoopShape, FrontShape, TypedInOrder, [Next]_vars
    PROVE  TypedInOrder'
<1>1. (Head(Sent) = AttachRecord)'
  <2>1. FrontShape'
    BY FrontNext
  <2>2. (Head(Sent) = Sent[1])'
    OBVIOUS
  <2> QED BY <2>1, <2>2 DEF FrontShape
<1>2. CASE result = "error"
  <2>1. pc = "done"
    BY <1>2 DEF LoopShape, TypeOK
  <2>2. result' = "error"
    BY <1>2, <2>1, Stopped DEF vars
  <2> QED BY <1>1, <2>2 DEF TypedInOrder, Sent
<1>3. CASE result # "error"
  <2>1. Chunks(Pipe, typed)
    BY <1>3, PipeOfProperty
  <2>2. result' = "error" \/ Chunks(Pipe, typed)'
    BY <2>1, PipeNext
  <2> QED BY <1>1, <2>2 DEF TypedInOrder, Sent, Pipe
<1> QED BY <1>2, <1>3

-----------------------------------------------------------------------------
(* The end of an attachment.                                                *)

LEMMA Endings ==
    ASSUME TypeOK, [Next]_vars
    PROVE  \/ result' \in {result, "error"}
           \/ result' = "detached" /\ (EndBySignal \/ FlushBroken \/ FlushEnds \/ ReadRecords)
           \/ ReportStatus
<1>1. CASE NoticeResize
  BY <1>1 DEF NoticeResize, QueueOr, GoOn, Return
<1>2. CASE ReceiveInput
  BY <1>2, ReceiveInputType
<1>3. CASE EndBySignal \/ FlushBroken
  BY <1>3 DEF EndBySignal, FlushBroken, Return
<1>4. CASE FlushEnds
  BY <1>4 DEF FlushEnds, GoOn, Return
<1>5. CASE ReadRecords
  BY <1>5 DEF ReadRecords, GoOn, Return
<1>6. CASE StdoutFails \/ Poll \/ PollInterrupted \/ BatchEnds
  BY <1>6 DEF StdoutFails, Poll, PollInterrupted, BatchEnds, GoOn, Return
<1>7. CASE ReadStdin \/ SendEvent \/ (\E s \in Signals : SignalArrives(s)) \/ RunnerReads
  BY <1>7 DEF ReadStdin, SendEvent, SignalArrives, RunnerReads
<1>8. CASE RunnerSends \/ RunnerCloses \/ Flush \/ WriteOutput \/ UNCHANGED vars
  BY <1>8 DEF RunnerSends, RunnerCloses, Flush, WriteOutput, vars
<1> QED BY <1>1, <1>2, <1>3, <1>4, <1>5, <1>6, <1>7, <1>8 DEF Next, ClientStep, Environment

LEMMA DoneNext ==
    ASSUME TypeOK, ReaderShape, LoopShape, DoneShape, [Next]_vars
    PROVE  DoneShape'
<1>1. CASE pc = "done"
  <2>1. UNCHANGED vars
    BY <1>1, Stopped
  <2> QED BY <2>1 DEF DoneShape, Signalled, vars
<1>2. CASE pc # "done"
  <2>1. result = "none"
    BY <1>2 DEF LoopShape
  <2> SUFFICES ASSUME result' = "detached", ~Signalled', runner' = "open"
               PROVE  (queue = <<>> /\ chan = <<>> /\ held = <<>>)'
    BY DEF DoneShape
  <2>2. EndBySignal \/ FlushBroken \/ FlushEnds \/ ReadRecords
    <3>1. ~ReportStatus
      BY DEF ReportStatus, Return
    <3> QED BY <2>1, <3>1, Endings
  <2>3. CASE EndBySignal
    BY <2>3 DEF EndBySignal, EndSignals, Signalled, TypeOK
  <2>4. CASE FlushBroken
    BY <2>4 DEF FlushBroken
  <2>5. CASE FlushEnds
    <3>1. stdinClosed /\ queue = <<>> /\ UNCHANGED <<queue, chan, held>>
      BY <2>1, <2>5 DEF FlushEnds, StdinDone, GoOn
    <3>2. chan = <<>> /\ reader = "over"
      BY <3>1 DEF ReaderShape
    <3>3. held = <<>>
      BY <3>2 DEF ReaderShape
    <3> QED BY <3>1, <3>2, <3>3
  <2>6. CASE ReadRecords
    <3>1. events.in /\ arriving = <<>> /\ pc = "read" /\ UNCHANGED runner
      BY <2>1, <2>6 DEF ReadRecords, GoOn
    <3> QED BY <3>1 DEF LoopShape
  <2> QED BY <2>2, <2>3, <2>4, <2>5, <2>6
<1> QED BY <1>1, <1>2

-----------------------------------------------------------------------------
(* The output that is coming.                                               *)

LEMMA ComingInts ==
    ASSUME TypeOK
    PROVE  /\ batch \in Seq(Int) /\ arriving \in Seq(Int) /\ Coming \in Seq(Int)
           /\ Len(batch) \in Nat /\ Len(arriving) \in Nat /\ Len(Coming) = Len(batch) + Len(arriving)
           /\ sent \in Nat /\ printed \in Nat
<1>1. MaxOut \in Nat /\ 0..MaxOut \subseteq Int
  BY SizeAssumption
<1>2. Seq(0..MaxOut) \subseteq Seq(Int)
  BY <1>1, SeqMonotonic
<1>3. batch \in Seq(Int) /\ arriving \in Seq(Int)
  BY <1>2 DEF TypeOK
<1>4. Coming \in Seq(Int) /\ Len(Coming) = Len(batch) + Len(arriving)
  BY <1>3, ConcatProperties DEF Coming
<1>5. sent \in Nat /\ printed \in Nat
  BY <1>1 DEF TypeOK
<1> QED BY <1>3, <1>4, <1>5, LenProperties

LEMMA ComingInit == Init => ComingShape
<1> SUFFICES ASSUME Init PROVE ComingShape
  OBVIOUS
<1>1. batch = <<>> /\ arriving = <<>> /\ sent = 0 /\ printed = 0 /\ exited = FALSE
  BY DEF Init
<1>2. Coming = <<>> /\ Len(Coming) = 0
  <2>1. <<>> \in Seq(Int) /\ Len(<<>>) = 0
    BY EmptySeq
  <2>2. <<>> \o <<>> = <<>>
    BY <2>1, ConcatEmptySeq
  <2> QED BY <1>1, <2>1, <2>2 DEF Coming
<1> QED BY <1>1, <1>2 DEF ComingShape

\* A record the client takes, and one the runner sends.
LEMMA Taken ==
    ASSUME NEW b \in Seq(Int), NEW a \in Seq(Int), b # <<>>
    PROVE  /\ Len(Tail(b) \o a) = Len(b \o a) - 1
           /\ \A i \in 1..Len(Tail(b) \o a) : (Tail(b) \o a)[i] = (b \o a)[i + 1]
           /\ Len(b \o a) \in Nat \ {0} /\ (b \o a)[1] = Head(b)
<1> DEFINE t == Tail(b)
<1>1. Len(b) \in Nat \ {0} /\ Len(a) \in Nat /\ Head(b) = b[1]
  BY EmptySeq, LenProperties
<1>2. t \in Seq(Int) /\ Len(t) = Len(b) - 1 /\ \A i \in 1..Len(t) : t[i] = b[i + 1]
  BY HeadTailProperties
<1> HIDE DEF t
<1>3. /\ Len(b \o a) = Len(b) + Len(a)
      /\ \A i \in 1..Len(b) : (b \o a)[i] = b[i]
      /\ \A i \in 1..Len(a) : (b \o a)[Len(b) + i] = a[i]
  BY <1>1, ConcatProperties
<1>4. /\ Len(t \o a) = Len(t) + Len(a)
      /\ \A i \in 1..Len(t) : (t \o a)[i] = t[i]
      /\ \A i \in 1..Len(a) : (t \o a)[Len(t) + i] = a[i]
  <2>1. t \in Seq(Int)
    BY <1>2
  <2> QED BY <2>1, ConcatProperties
<1>5. ASSUME NEW i \in 1..Len(t \o a) PROVE (t \o a)[i] = (b \o a)[i + 1]
  <2>1. CASE i <= Len(t)
    <3>1. i \in 1..Len(t) /\ i + 1 \in 1..Len(b)
      BY <1>1, <1>2, <1>4, <2>1
    <3>2. (t \o a)[i] = t[i] /\ t[i] = b[i + 1] /\ (b \o a)[i + 1] = b[i + 1]
      BY <1>2, <1>3, <1>4, <3>1
    <3> QED BY <3>2
  <2>2. CASE ~(i <= Len(t))
    <3>1. i - Len(t) \in 1..Len(a)
      BY <1>1, <1>2, <1>4, <2>2
    <3>2. (t \o a)[Len(t) + (i - Len(t))] = a[i - Len(t)]
          /\ (b \o a)[Len(b) + (i - Len(t))] = a[i - Len(t)]
      BY <1>3, <1>4, <3>1
    <3>3. Len(t) + (i - Len(t)) = i /\ Len(b) + (i - Len(t)) = i + 1
      BY <1>1, <1>2, <1>4
    <3> QED BY <3>2, <3>3
  <2> QED BY <2>1, <2>2
<1>6. Len(t \o a) = Len(b \o a) - 1 /\ Len(b \o a) \in Nat \ {0} /\ (b \o a)[1] = Head(b)
  BY <1>1, <1>2, <1>3, <1>4
<1> QED BY <1>5, <1>6 DEF t

LEMMA Pushed ==
    ASSUME NEW b \in Seq(Int), NEW a \in Seq(Int), NEW r \in Int
    PROVE  b \o Append(a, r) = Append(b \o a, r)
<1>1. <<r>> \in Seq(Int) /\ b \o a \in Seq(Int)
  BY ConcatProperties
<1>2. Append(a, r) = a \o <<r>> /\ Append(b \o a, r) = (b \o a) \o <<r>>
  BY <1>1, AppendIsConcat
<1>3. (b \o a) \o <<r>> = b \o (a \o <<r>>)
  BY <1>1, Grouped, Zenon
<1> QED BY <1>2, <1>3

LEMMA Cut ==
    ASSUME NEW a \in Seq(Int), NEW n \in 1..Len(a)
    PROVE  SubSeq(a, 1, n) \o SubSeq(a, n + 1, Len(a)) = a
<1>1. Len(a) \in Nat
  BY LenProperties
<1>2. SubSeq(a, 1, n) \o SubSeq(a, n + 1, Len(a)) = SubSeq(a, 1, Len(a))
  BY <1>1, ConcatAdjacentSubSeq
<1> QED BY <1>2, SubSeqFull

LEMMA ComingNext ==
    ASSUME TypeOK, ComingShape, [Next]_vars
    PROVE  ComingShape'
<1>1. /\ batch \in Seq(Int) /\ arriving \in Seq(Int) /\ Coming \in Seq(Int)
      /\ Len(Coming) \in Nat /\ sent \in Nat /\ printed \in Nat /\ exited \in BOOLEAN
  BY ComingInts, LenProperties DEF TypeOK
<1>2. CASE RunnerSends
  <2>1. PICK r \in Int : /\ arriving' = Append(arriving, r) /\ ~exited
                         /\ \/ sent' = sent + 1 /\ r = sent + 1 /\ ~exited'
                            \/ sent' = sent /\ r = Exit /\ exited'
    BY <1>1, <1>2 DEF RunnerSends, Exit
  <2>2. Coming' = Append(Coming, r) /\ UNCHANGED <<batch, printed, pc>>
    BY <1>1, <1>2, <2>1, Pushed DEF RunnerSends, Coming
  <2>3. Len(Coming') = Len(Coming) + 1 /\ Coming'[Len(Coming) + 1] = r
        /\ \A i \in 1..Len(Coming) : Coming'[i] = Coming[i]
    BY <1>1, <2>2, AppendProperties
  <2>4. Len(Coming) = sent - printed
    BY <1>1, <2>1 DEF ComingShape
  <2>5. ASSUME NEW i \in 1..Len(Coming')
        PROVE  Coming'[i] = IF printed' + i <= sent' THEN printed' + i ELSE Exit
    <3>1. CASE i \in 1..Len(Coming)
      <4>1. Coming'[i] = printed + i
        BY <1>1, <2>3, <2>4, <3>1 DEF ComingShape
      <4>2. printed' = printed /\ printed + i <= sent /\ sent <= sent'
        BY <1>1, <2>1, <2>2, <2>4, <3>1
      <4>3. printed + i <= sent'
        BY <1>1, <2>1, <4>2
      <4> QED BY <4>1, <4>2, <4>3
    <3>2. CASE i = Len(Coming) + 1
      BY <1>1, <2>1, <2>2, <2>3, <2>4, <3>2
    <3> QED BY <1>1, <2>3, <3>1, <3>2
  <2>6. Len(Coming') = sent' - printed' + (IF exited' THEN 1 ELSE 0)
    BY <1>1, <2>1, <2>2, <2>3, <2>4
  <2> QED BY <2>2, <2>5, <2>6 DEF ComingShape
<1>3. CASE WriteOutput
  <2>1. Coming' = Tail(batch) \o arriving /\ Coming[1] = Head(batch) /\ batch # <<>>
        /\ printed' = Head(batch) /\ Head(batch) # Exit /\ UNCHANGED <<pc, sent, exited>>
    BY <1>1, <1>3, Taken DEF WriteOutput, Coming
  <2>2. /\ Len(Coming') = Len(Coming) - 1 /\ Len(Coming) \in Nat \ {0}
        /\ \A i \in 1..Len(Coming') : Coming'[i] = Coming[i + 1]
    BY <1>1, <2>1, Taken DEF Coming
  <2>3. printed' = printed + 1
    BY <1>1, <2>1, <2>2, SMTT(60) DEF ComingShape
  <2>4. ASSUME NEW i \in 1..Len(Coming')
        PROVE  Coming'[i] = IF printed' + i <= sent' THEN printed' + i ELSE Exit
    <3>1. i + 1 \in 1..Len(Coming) /\ Coming'[i] = Coming[i + 1]
      BY <2>2
    <3>2. Coming[i + 1] = IF printed + (i + 1) <= sent THEN printed + (i + 1) ELSE Exit
      BY <3>1 DEF ComingShape
    <3>3. printed' + i = printed + (i + 1) /\ sent' = sent
      BY <1>1, <2>1, <2>2, <2>3, SMTT(60)
    <3> QED BY <3>1, <3>2, <3>3
  <2>5. Len(Coming') = sent' - printed' + (IF exited' THEN 1 ELSE 0)
    BY <1>1, <2>1, <2>2, <2>3, SMTT(60) DEF ComingShape
  <2>6. pc' = "records"
    BY <1>3 DEF WriteOutput
  <2> QED BY <2>4, <2>5, <2>6 DEF ComingShape
<1>4. CASE UNCHANGED <<Coming, sent, printed, exited>> /\ (pc' \notin {"records", "done"} => batch' = <<>>)
  BY <1>4 DEF ComingShape
<1>5. CASE ReadRecords
  <2>1. UNCHANGED <<sent, printed, exited>> /\ batch = <<>>
    BY <1>5 DEF ReadRecords, ComingShape
  <2>2. CASE UNCHANGED <<arriving, batch>>
    BY <1>4, <2>1, <2>2 DEF Coming
  <2>3. ASSUME NEW n \in 1..Len(arriving), batch' = SubSeq(arriving, 1, n),
               arriving' = SubSeq(arriving, n + 1, Len(arriving)), pc' = "records"
        PROVE  ComingShape'
    <3>1. Coming' = arriving
      BY <1>1, <2>3, Cut DEF Coming
    <3>2. Coming = arriving
      BY <1>1, <2>1, ConcatEmptySeq DEF Coming
    <3> QED BY <1>4, <2>1, <2>3, <3>1, <3>2
  <2> QED BY <1>5, <2>2, <2>3 DEF ReadRecords, GoOn
<1>6. CASE BatchEnds
  BY <1>4, <1>6 DEF BatchEnds, Coming
<1>7. CASE UNCHANGED <<batch, arriving, sent, printed, exited>> /\ pc = "records" /\ pc' = "done"
  BY <1>4, <1>7 DEF Coming
<1>8. CASE UNCHANGED <<batch, arriving, sent, printed, exited>> /\ (pc' = pc \/ pc \notin {"records", "done"})
  BY <1>4, <1>8 DEF Coming, ComingShape
<1>9. \/ RunnerSends \/ WriteOutput \/ ReadRecords \/ BatchEnds
      \/ /\ UNCHANGED <<batch, arriving, sent, printed, exited>>
         /\ \/ pc = "records" /\ pc' = "done"
            \/ pc' = pc
            \/ pc \notin {"records", "done"}
  BY DEF Next, ClientStep, Environment, vars, Poll, Flush, FlushEnds, FlushBroken, EndBySignal,
     ReportStatus, PollInterrupted, StdoutFails, SignalArrives, RunnerCloses, ReadStdin,
     SendEvent, NoticeResize, ReceiveInput, RunnerReads, GoOn, Return
<1> QED BY <1>2, <1>3, <1>5, <1>6, <1>7, <1>8, <1>9

LEMMA StatusNext ==
    ASSUME TypeOK, LoopShape, ComingShape, StatusAfterOutput, [Next]_vars
    PROVE  StatusAfterOutput'
<1>1. CASE pc = "done"
  <2>1. UNCHANGED vars
    BY <1>1, Stopped
  <2> QED BY <2>1 DEF StatusAfterOutput, vars
<1>2. CASE pc # "done" /\ ~ReportStatus
  <2>1. result = "none"
    BY <1>2 DEF LoopShape
  <2>2. result' # "status"
    BY <1>2, <2>1, Endings
  <2> QED BY <2>2 DEF StatusAfterOutput
<1>3. CASE ReportStatus
  <2>1. batch # <<>> /\ Head(batch) = Exit /\ flushed' = printed /\ UNCHANGED <<sent, exited>>
    BY <1>3 DEF ReportStatus, AtStatus
  <2>2. batch \in Seq(Int) /\ arriving \in Seq(Int) /\ sent \in Nat /\ printed \in Nat
        /\ exited \in BOOLEAN
    BY ComingInts DEF TypeOK
  <2>3. Len(Coming) \in Nat \ {0} /\ Coming[1] = Exit
    BY <2>1, <2>2, Taken DEF Coming
  <2>4. ~(printed + 1 <= sent)
    BY <2>2, <2>3 DEF ComingShape, Exit
  <2>5. exited /\ printed = sent
    BY <2>2, <2>3, <2>4 DEF ComingShape
  <2> QED BY <2>1, <2>5 DEF StatusAfterOutput
<1> QED BY <1>1, <1>2, <1>3

-----------------------------------------------------------------------------
(* The theorems.                                                            *)

LEMMA AttachInvInit == Init => AttachInv
<1> SUFFICES ASSUME Init PROVE AttachInv
  OBVIOUS
<1>1. DoneShape /\ StatusAfterOutput
  BY DEF Init, DoneShape, StatusAfterOutput
<1> QED
  BY <1>1, TypeInit, ReaderShapeInit, LoopShapeInit, FrontInit, TypedInit, ComingInit DEF AttachInv

LEMMA AttachInvNext == AttachInv /\ [Next]_vars => AttachInv'
<1> SUFFICES ASSUME AttachInv, [Next]_vars PROVE AttachInv'
  OBVIOUS
<1> USE DEF AttachInv
<1>1. (TypeOK /\ ResizeShape)'
  BY TypeNext
<1>2. ReaderShape' /\ LoopShape' /\ FrontShape'
  BY ReaderShapeNext, LoopShapeNext, FrontNext
<1>3. TypedInOrder' /\ DoneShape'
  BY TypedNext, DoneNext
<1>4. ComingShape' /\ StatusAfterOutput'
  BY ComingNext, StatusNext
<1> QED BY <1>1, <1>2, <1>3, <1>4

LEMMA AttachInvariant == Spec => []AttachInv
BY AttachInvInit, AttachInvNext, PTL DEF Spec

\* Type correctness: with it, that neither the channel, nor the queue of the
\* client, nor the socket ever holds more than its capacity (sync_channel,
\* ByteQueue, the socket buffer).
THEOREM AttachTypeOK == Spec => []TypeOK
<1>1. AttachInv => TypeOK
  BY DEF AttachInv
<1> QED BY <1>1, AttachInvariant, PTL

\* What the user types reaches the runner in order, nothing lost and nothing
\* twice, behind the Attach record and whatever resizes are queued between
\* (read_input, receive_input, queue_record, ByteQueue::flush).
THEOREM AttachTypedInOrder == Spec => []TypedInOrder
<1>1. AttachInv => TypedInOrder
  BY DEF AttachInv
<1> QED BY <1>1, AttachInvariant, PTL

\* An attachment that ends because stdin did has handed over all that was
\* typed: when attach_live sees the end of stdin, reader thread and channel are
\* behind it already, and it waits for its own queue.
THEOREM AttachStdinDelivered == Spec => []StdinDelivered
<1>1. ASSUME AttachInv PROVE StdinDelivered
  <2> SUFFICES ASSUME result = "detached", ~Signalled, runner = "open"
               PROVE  Chunks(received \o inFlight, typed)
    BY DEF StdinDelivered
  <2>1. queue = <<>> /\ chan = <<>> /\ held = <<>>
    BY <1>1 DEF AttachInv, DoneShape
  <2>2. Chunks(Pipe, typed)
    BY <1>1, PipeOfProperty DEF AttachInv
  <2>3. received \o inFlight \in Seq(Int)
    BY <1>1, Ints DEF AttachInv
  <2>4. \A s \in Seq(Int) : s \o <<>> = s
    BY ConcatEmptySeq
  <2> DEFINE x == received \o inFlight
  <2>5. x \in Seq(Int) /\ Pipe = ((x \o queue) \o chan) \o held
    BY <2>3 DEF Pipe, Sent
  <2> HIDE DEF x
  <2>6. Pipe = x
    BY <2>1, <2>4, <2>5, Zenon
  <2> QED BY <2>2, <2>6 DEF x
<1> QED BY <1>1, AttachInvariant, PTL

\* The command's exit status is returned only when all of its output, and the
\* Exit record behind it, has been taken and flushed (`return Ok(status)`).
THEOREM AttachStatusAfterOutput == Spec => []StatusAfterOutput
<1>1. AttachInv => StatusAfterOutput
  BY DEF AttachInv
<1> QED BY <1>1, AttachInvariant, PTL

\* Nothing received stays in the line buffer of stdout while the client waits
\* in poll (the flush at the end of a batch in attach_live).
THEOREM AttachNothingHeldBack == Spec => []NothingHeldBack
<1>1. AttachInv => NothingHeldBack
  BY DEF AttachInv, LoopShape, NothingHeldBack
<1> QED BY <1>1, AttachInvariant, PTL
=============================================================================

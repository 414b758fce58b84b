---------------------------- MODULE Launch_proofs ----------------------------
(***************************************************************************)
(* Proofs about module Launch: what the launcher is told of a start is     *)
(* true of it, whoever is killed and whichever step fails.                 *)
(*                                                                         *)
(* The two properties look at the ends; what carries them there is what    *)
(* each place of hidden_runner implies for its side of the start.          *)
(*                                                                         *)
(* The command typed is the command run (LaunchCommandDelivered), for      *)
(* command lines of any length.  The limits are checked in three places:   *)
(* by parse, field by field by the reader of the configuration, and by     *)
(* __child.  That they agree rests on the bytes of the first words being   *)
(* no more than those of all of them (TotalFacts): Total folds over a set  *)
(* of positions, and what the fold computes is shown by induction over     *)
(* their number.                                                           *)
(***************************************************************************)
EXTENDS Launch, SequenceTheorems, WellFoundedInduction, TLAPS

Started == {"exec", "running", "failed", "refused"}
Holding == {"trace", "pty", "record", "kill", "serving"}

LaunchTypeOK ==
    /\ runner \in {"none", "config", "refused", "bind", "trace", "pty", "record", "kill", "serving",
                   "answerExists", "answerFailed", "gone", "killed"}
    /\ child \in {"none", "killed"} \cup Started
    /\ response \in {"none", "ready", "exists", "failed"}
    /\ files \in SUBSET SessionFiles /\ recorded \in BOOLEAN

\* Where the runner is tells whether it holds the session's files, whether the
\* command was started and whether it has answered.
RunnerShape ==
    /\ runner \in Holding => files = SessionFiles
    /\ runner \in {"none", "config", "refused", "bind", "answerExists"} => files = {}
    /\ runner = "answerFailed" => files = {} \/ (files = {"socket"} /\ child = "none")
    /\ runner = "gone" /\ response # "ready" =>
         files = {} \/ (files = {"socket"} /\ child = "none" /\ response # "exists")
    /\ runner \in {"none", "config", "refused", "bind", "trace", "pty", "answerExists"} => child = "none"
    /\ runner \in {"record", "kill", "serving"} => child \in Started
    /\ runner = "answerFailed" => child \in {"none", "killed"}
    /\ runner \in {"serving", "gone", "killed"} \/ response = "none"
    /\ runner = "serving" => response = "ready"
    /\ runner = "gone" /\ response # "ready" => child \in {"none", "killed"}

\* The one answer that promises a session, and who believes it.
AnswerShape ==
    /\ response = "ready" => recorded /\ child \in Started
    /\ launcher \in {"run", "spawn"} => runner = "none"
    /\ launcher = "ready" => response = "ready"

LaunchInv == LaunchTypeOK /\ RunnerShape /\ AnswerShape

USE DEF callVars, sideVars, childVars

LEMMA LaunchInit == Init => LaunchInv
BY DEF Init, LaunchInv, LaunchTypeOK, RunnerShape, AnswerShape, Started, Holding, SessionFiles

LEMMA LaunchNext == LaunchInv /\ [Next]_vars => LaunchInv'
<1> SUFFICES ASSUME LaunchInv, [Next]_vars PROVE LaunchInv'
  OBVIOUS
<1> USE DEF LaunchInv, LaunchTypeOK, RunnerShape, AnswerShape, Started, Holding, SessionFiles
<1>1. CASE Run \/ Spawn
  BY <1>1 DEF Run, Spawn
<1>2. CASE WriteField \/ ReadResponse \/ WaitForRunner \/ LauncherKilled
  BY <1>2 DEF WriteField, ReadResponse, WaitForRunner, LauncherKilled
<1>3. CASE ReadField
  BY <1>3 DEF ReadField
<1>4. CASE ConfigCutOff \/ Bind \/ CreateTrace
  <2>1. CASE ConfigCutOff
    BY <2>1 DEF ConfigCutOff
  <2>3. CASE Bind
    BY <2>3 DEF Bind, Returns
  <2>2. CASE CreateTrace
    <3>1. /\ runner = "trace"
          /\ Returns("answerExists") \/ (runner' = "pty" /\ UNCHANGED files)
          /\ UNCHANGED <<callVars, launcher, wrote, got, response, recorded, childVars>>
      <4>1. CASE Fields[3] = 1 /\ traceFile
        BY <2>2, <4>1 DEF CreateTrace
      <4>2. CASE ~(Fields[3] = 1 /\ traceFile)
        BY <2>2, <4>2 DEF CreateTrace
      <4> QED BY <4>1, <4>2
    <3> QED BY <3>1 DEF Returns
  <2> QED BY <1>4, <2>1, <2>2, <2>3
<1>5. CASE SpawnChild
  BY <1>5 DEF SpawnChild, Returns
<1>6. CASE WriteLive \/ ReportReady
  BY <1>6 DEF WriteLive, ReportReady, RecordFirst
<1>7. CASE KillChild \/ Answer
  <2>1. CASE KillChild
    BY <2>1 DEF KillChild, Killed, Returns
  <2>2. CASE Answer
    <3>1. /\ runner \in {"refused", "answerExists", "answerFailed"} /\ runner' = "gone"
          /\ response' \in {"none", "exists", "failed"}
          /\ response' = "exists" => runner = "answerExists" \/ response = "exists"
      BY <2>2 DEF Answer
    <3> QED BY <2>2, <3>1 DEF Answer
  <2> QED BY <1>7, <2>1, <2>2
<1>8. CASE ServingEnds \/ RunnerKilled
  BY <1>8 DEF ServingEnds, RunnerKilled, RunnerOver, Returns
<1>9. CASE Exec
  <2>1. child = "exec" /\ child' \in {"running", "failed", "refused"}
    BY <1>9 DEF Exec
  <2> QED BY <1>9, <2>1 DEF Exec
<1>10. CASE UNCHANGED vars
  BY <1>10 DEF vars
<1> QED
  BY <1>1, <1>2, <1>3, <1>4, <1>5, <1>6, <1>7, <1>8, <1>9, <1>10 DEF Next, LauncherStep, RunnerStep

LEMMA Launches == Spec => []LaunchInv
<1>1. LaunchInv /\ [Next]_vars => LaunchInv'
  BY LaunchNext
<1> QED BY LaunchInit, <1>1, PTL DEF Spec

\* A start that was given up leaves no command running and no socket or lock,
\* but for a socket of bind_session's own failure, at whatever step it failed
\* or the launcher died (start_runner's error path and its last kill of the
\* child).
THEOREM LaunchNoStrayChild == Spec => []NoStrayChild
<1>1. LaunchInv => NoStrayChild
  BY DEF LaunchInv, RunnerShape, NoStrayChild, Holding
<1> QED BY <1>1, Launches, PTL

\* When launch_runner succeeds there is a session to attach to: the command
\* was started and is not killed again, and its record was written.
THEOREM LaunchReadyMeansServing == Spec => []ReadyMeansServing
<1>1. LaunchInv => ReadyMeansServing
  BY DEF LaunchInv, AnswerShape, RunnerShape, ReadyMeansServing, Started, Holding
<1> QED BY <1>1, Launches, PTL

-----------------------------------------------------------------------------
(* What Total counts.                                                       *)

\* Induction, over a set instead of a predicate.
LEMMA SetInduction ==
    ASSUME NEW T, 0 \in T, (\A n \in Nat : (n \in T => n + 1 \in T))
    PROVE  \A n \in Nat : n \in T
<1> DEFINE B == Nat \ T
           R == {s \in Nat \X Nat : s[1] < s[2]}
<1> SUFFICES ASSUME B # {} PROVE FALSE
  OBVIOUS
<1>1. IsWellFoundedOn(R, Nat)
  BY NatLessThanWellFounded DEF OpToRel
<1>2. B \subseteq Nat
  OBVIOUS
<1>3. PICK x \in B : \A y \in B : ~(<<y, x>> \in R)
  <2> HIDE DEF R, B
  <2> QED BY <1>1, <1>2, WFMin, Zenon
<1>4. PICK z \in Nat : x = z + 1
  <2>1. x \in Nat /\ x # 0
    BY <1>3
  <2> QED BY <2>1, x - 1 \in Nat, x = (x - 1) + 1
<1>5. <<z, x>> \in R
  BY <1>3, <1>4
<1>6. z \notin B
  <2> HIDE DEF B, R
  <2> QED BY <1>3, <1>5
<1> QED BY <1>3, <1>4, <1>6

\* f holds what the fold of Total computes of each part of w's first n words.
IsSum(f, w, n) ==
    f = [s \in SUBSET (1..n) |-> IF s = {} THEN 0 ELSE f[s \ {Max(s)}] + Sizes[w[Max(s)]]]

\* Total is the sum over all of them.
LEMMA TotalIs ==
    ASSUME NEW S, NEW w \in Seq(S)
    PROVE  Total(w) = (CHOOSE f : IsSum(f, w, Len(w)))[1..Len(w)]
<1>1. DOMAIN w = 1..Len(w)
  BY LenProperties
<1> QED BY <1>1, Zenon DEF Total, FoldLeft, MapThenFoldSet, IsSum

\* The position that the fold takes next.
LEMMA MaxIs ==
    ASSUME NEW n \in Nat, NEW s \in SUBSET (1..(n + 1)), n + 1 \in s
    PROVE  Max(s) = n + 1 /\ s \ {Max(s)} \in SUBSET (1..n)
<1>1. n + 1 \in s /\ \A y \in s : n + 1 >= y
  OBVIOUS
<1>2. Max(s) \in s /\ \A y \in s : Max(s) >= y
  BY <1>1, Zenon DEF Max
<1>3. Max(s) = n + 1
  <2> DEFINE x == Max(s)
  <2>1. x \in 1..(n + 1) /\ x >= n + 1
    BY <1>1, <1>2, Zenon
  <2> HIDE DEF x
  <2>2. x = n + 1
    BY <2>1
  <2> QED BY <2>2 DEF x
<1> QED BY <1>3

\* One step of the fold.
SumAt(f, w, s) == f[s] = IF s = {} THEN 0 ELSE f[s \ {Max(s)}] + Sizes[w[Max(s)]]

LEMMA SumStep ==
    ASSUME NEW n \in Nat, NEW f, NEW w, IsSum(f, w, n), NEW s \in SUBSET (1..n)
    PROVE  SumAt(f, w, s)
BY Zenon DEF IsSum, SumAt

\* The sums over a prefix are those over the whole.
LEMMA SumAgree ==
    ASSUME NEW m \in Nat, NEW n \in Nat, m <= n, NEW v, NEW w, NEW f, NEW g,
           IsSum(f, v, m), IsSum(g, w, n), \A i \in 1..m : v[i] = w[i]
    PROVE  f[1..m] = g[1..m]
<1> DEFINE T == {k \in Nat : k <= m => \A s \in SUBSET (1..k) : f[s] = g[s]}
<1>1. 0 \in T
  <2> SUFFICES ASSUME NEW s \in SUBSET (1..0) PROVE f[s] = g[s]
    OBVIOUS
  <2>1. s = {} /\ s \in SUBSET (1..m) /\ s \in SUBSET (1..n)
    OBVIOUS
  <2>2. SumAt(f, v, s) /\ SumAt(g, w, s)
    BY <2>1, SumStep
  <2> QED BY <2>1, <2>2, Zenon DEF SumAt
<1>2. ASSUME NEW k \in Nat, k \in T PROVE k + 1 \in T
  <2> SUFFICES ASSUME k + 1 <= m, NEW s \in SUBSET (1..(k + 1)) PROVE f[s] = g[s]
    OBVIOUS
  <2>0. k <= m
    OBVIOUS
  <2>1. CASE k + 1 \notin s
    <3>1. s \in SUBSET (1..k)
      BY <2>1
    <3> QED BY <1>2, <2>0, <3>1
  <2>2. CASE k + 1 \in s
    <3>1. Max(s) = k + 1 /\ s \ {Max(s)} \in SUBSET (1..k)
      BY <2>2, MaxIs
    <3>2. f[s \ {Max(s)}] = g[s \ {Max(s)}]
      BY <1>2, <2>0, <3>1
    <3>3. s \in SUBSET (1..m) /\ s \in SUBSET (1..n) /\ s # {} /\ k + 1 \in 1..m
      BY <2>2
    <3>4. v[Max(s)] = w[Max(s)]
      BY <3>1, <3>3
    <3>5. SumAt(f, v, s) /\ SumAt(g, w, s)
      BY <3>3, SumStep
    <3> QED BY <3>2, <3>3, <3>4, <3>5, Zenon DEF SumAt
  <2> QED BY <2>1, <2>2
<1>3. \A k \in Nat : k \in T
  <2> HIDE DEF T
  <2> QED BY <1>1, <1>2, SetInduction, Zenon
<1>4. m \in T /\ m <= m /\ 1..m \in SUBSET (1..m)
  BY <1>3
<1> QED BY <1>4

\* There are such sums.
LEMMA SumExists ==
    ASSUME NEW w, NEW n \in Nat
    PROVE  \E f : IsSum(f, w, n)
<1> DEFINE T == {k \in Nat : \E f : IsSum(f, w, k)}
<1>1. 0 \in T
  <2> DEFINE f == [s \in SUBSET (1..0) |-> 0]
  <2>1. f = [s \in SUBSET (1..0) |-> IF s = {} THEN 0 ELSE f[s \ {Max(s)}] + Sizes[w[Max(s)]]]
    OBVIOUS
  <2>2. IsSum(f, w, 0)
    <3> HIDE DEF f
    <3> QED BY <2>1, Zenon DEF IsSum
  <2> QED BY <2>2
<1>2. ASSUME NEW k \in Nat, k \in T PROVE k + 1 \in T
  <2>1. PICK f : IsSum(f, w, k)
    BY <1>2
  <2> DEFINE g == [s \in SUBSET (1..(k + 1)) |->
                     IF k + 1 \in s THEN f[s \ {k + 1}] + Sizes[w[k + 1]] ELSE f[s]]
  <2>2. ASSUME NEW s \in SUBSET (1..(k + 1))
        PROVE  g[s] = IF s = {} THEN 0 ELSE g[s \ {Max(s)}] + Sizes[w[Max(s)]]
    <3>1. CASE k + 1 \in s
      <4>1. Max(s) = k + 1 /\ s \ {k + 1} \in SUBSET (1..(k + 1)) /\ k + 1 \notin s \ {k + 1}
        BY <3>1, MaxIs
      <4>2. g[s \ {k + 1}] = f[s \ {k + 1}]
        BY <4>1, Zenon
      <4>3. g[s] = f[s \ {k + 1}] + Sizes[w[k + 1]]
        BY <3>1, Zenon
      <4> HIDE DEF g
      <4> QED BY <3>1, <4>1, <4>2, <4>3, Zenon
    <3>2. CASE k + 1 \notin s
      <4>1. s \in SUBSET (1..k)
        BY <3>2
      <4>2. s \ {Max(s)} \in SUBSET (1..(k + 1)) /\ k + 1 \notin s \ {Max(s)}
        BY <3>2, Zenon
      <4>3. g[s] = f[s] /\ g[s \ {Max(s)}] = f[s \ {Max(s)}]
        BY <3>2, <4>2, Zenon
      <4>4. SumAt(f, w, s)
        BY <2>1, <4>1, SumStep
      <4> HIDE DEF g
      <4> QED BY <4>3, <4>4, Zenon DEF SumAt
    <3> QED BY <3>1, <3>2
  <2>3. g = [s \in SUBSET (1..(k + 1)) |-> g[s]]
    BY Zenon
  <2>4. IsSum(g, w, k + 1)
    <3> HIDE DEF g
    <3> QED BY <2>2, <2>3, Zenon DEF IsSum
  <2> HIDE DEF g
  <2>5. k + 1 \in Nat
    OBVIOUS
  <2> QED BY <2>4, <2>5, Zenon
<1>3. \A k \in Nat : k \in T
  <2> HIDE DEF T
  <2> QED BY <1>1, <1>2, SetInduction, Zenon
<1> QED BY <1>3

\* The bytes of the first words are those of all of them, or fewer.
LEMMA TotalFacts ==
    ASSUME NEW w \in Seq(DOMAIN Sizes), NEW k \in 0..Len(w)
    PROVE  /\ Total(SubSeq(w, 1, k)) \in Nat /\ Total(w) \in Nat
           /\ Total(SubSeq(w, 1, k)) <= Total(w)
<1> DEFINE n == Len(w)
           g == CHOOSE f : IsSum(f, w, n)
           T == {j \in Nat : j <= n => \A i \in 0..j : g[1..i] \in Nat /\ g[1..i] <= g[1..j]}
<1>0. n \in Nat /\ \A i \in 1..n : Sizes[w[i]] \in Nat
  <2>1. n \in Nat /\ \A i \in 1..n : w[i] \in DOMAIN Sizes
    BY LenProperties, ElementOfSeq
  <2>2. Sizes \in [DOMAIN Sizes -> Nat]
    BY CliAssumption
  <2>3. ASSUME NEW i \in 1..n PROVE Sizes[w[i]] \in Nat
    <3>1. w[i] \in DOMAIN Sizes
      BY <2>1
    <3> QED BY <2>2, <3>1, Zenon
  <2> QED BY <2>1, <2>3
<1>1. IsSum(g, w, n)
  BY <1>0, SumExists, Zenon
<1>2. Total(w) = g[1..n]
  BY TotalIs, Zenon
<1> HIDE DEF g, n
<1>3. 0 \in T
  <2>1. 1..0 = {} /\ 1..0 \in SUBSET (1..n)
    BY <1>0
  <2>2. g[1..0] = 0
    <3>1. SumAt(g, w, 1..0)
      BY <1>0, <1>1, <2>1, SumStep
    <3> QED BY <2>1, <3>1, Zenon DEF SumAt
  <2> QED BY <2>2
<1>4. ASSUME NEW j \in Nat, j \in T PROVE j + 1 \in T
  <2> SUFFICES ASSUME j + 1 <= n, NEW i \in 0..(j + 1)
               PROVE  g[1..i] \in Nat /\ g[1..i] <= g[1..(j + 1)]
    OBVIOUS
  <2> DEFINE s == 1..(j + 1)
  <2>0. j <= n /\ j + 1 \in 1..n
    BY <1>0
  <2>1. s \in SUBSET (1..(j + 1)) /\ j + 1 \in s /\ s # {} /\ s \in SUBSET (1..n)
    <3>1. j + 1 \in s
      OBVIOUS
    <3>2. \A e \in s : e \in 1..n
      BY <1>0, <2>0
    <3> QED BY <3>1, <3>2, Zenon
  <2>2. s \ {j + 1} = 1..j
    OBVIOUS
  <2> HIDE DEF s
  <2>3. Max(s) = j + 1
    BY <2>1, MaxIs
  <2>4. SumAt(g, w, s)
    BY <1>0, <1>1, <2>1, SumStep
  <2>5. g[s] = g[1..j] + Sizes[w[j + 1]]
    BY <2>1, <2>2, <2>3, <2>4, Zenon DEF SumAt
  <2>6. Sizes[w[j + 1]] \in Nat /\ g[1..j] \in Nat
    <3>1. j \in 0..j
      OBVIOUS
    <3> QED BY <1>0, <1>4, <2>0, <3>1
  <2>7. g[s] \in Nat /\ g[1..j] <= g[s]
    BY <2>5, <2>6
  <2>8. CASE i = j + 1
    BY <2>7, <2>8 DEF s
  <2>9. CASE i # j + 1
    <3>1. i \in 0..j
      BY <2>9
    <3>2. g[1..i] \in Nat /\ g[1..i] <= g[1..j]
      BY <1>4, <2>0, <3>1
    <3>3. g[1..i] <= g[s]
      BY <2>6, <2>7, <3>2
    <3> QED BY <3>2, <3>3 DEF s
  <2> QED BY <2>8, <2>9
<1>5. \A j \in Nat : j \in T
  <2> HIDE DEF T
  <2> QED BY <1>3, <1>4, SetInduction, Zenon
<1>6. g[1..k] \in Nat /\ g[1..n] \in Nat /\ g[1..k] <= g[1..n]
  <2>1. k \in 0..n /\ n \in 0..n /\ n \in T
    BY <1>0, <1>5 DEF n
  <2> QED BY <2>1
<1>7. Total(SubSeq(w, 1, k)) = g[1..k]
  <2> DEFINE v == SubSeq(w, 1, k)
  <2>1. k \in Nat /\ k <= n
    BY <1>0 DEF n
  <2>2. v \in Seq(DOMAIN Sizes) /\ Len(v) = k /\ \A i \in 1..k : v[i] = w[i]
    BY <1>0, SubSeqProperties DEF n
  <2> HIDE DEF v
  <2> DEFINE f == CHOOSE h : IsSum(h, v, Len(v))
  <2>3. Total(v) = f[1..Len(v)]
    BY <2>2, TotalIs, Zenon
  <2>4. IsSum(f, v, k)
    <3>1. \E h : IsSum(h, v, Len(v))
      BY <2>1, <2>2, SumExists
    <3>2. IsSum(f, v, Len(v))
      BY <3>1, Zenon
    <3> QED BY <2>2, <3>2
  <2> HIDE DEF f
  <2>5. f[1..k] = g[1..k]
    BY <1>0, <1>1, <2>1, <2>2, <2>4, SumAgree
  <2> QED BY <2>2, <2>3, <2>5 DEF v
<1> QED BY <1>2, <1>6, <1>7

\* No words have no bytes, one word has its own.
LEMMA TotalOfOne ==
    /\ Total(<<>>) = 0
    /\ \A e \in DOMAIN Sizes : Total(<<e>>) = Sizes[e]
<1>1. Total(<<>>) = 0
  <2> DEFINE w == <<>>
             f == CHOOSE h : IsSum(h, w, 0)
  <2>1. w \in Seq(DOMAIN Sizes) /\ Len(w) = 0 /\ 1..0 = {} /\ 1..0 \in SUBSET (1..0) /\ 0 \in Nat
    BY EmptySeq
  <2> HIDE DEF w
  <2>2. IsSum(f, w, 0)
    BY <2>1, SumExists, Zenon
  <2>3. Total(w) = f[1..0]
    BY <2>1, TotalIs, Zenon
  <2> HIDE DEF f
  <2>4. f[1..0] = 0
    <3>1. SumAt(f, w, 1..0)
      BY <2>1, <2>2, SumStep
    <3> QED BY <2>1, <3>1, Zenon DEF SumAt
  <2> QED BY <2>3, <2>4 DEF w
<1>2. ASSUME NEW e \in DOMAIN Sizes PROVE Total(<<e>>) = Sizes[e]
  <2> DEFINE w == <<e>>
             f == CHOOSE h : IsSum(h, w, 1)
  <2>1. w \in Seq(DOMAIN Sizes) /\ Len(w) = 1 /\ w[1] = e
    OBVIOUS
  <2>2. 1..1 = {1} /\ 1 \in 1..1 /\ 1..1 # {} /\ 1..1 \in SUBSET (1..1) /\ {} \in SUBSET (1..1) /\ 1 \in Nat
    OBVIOUS
  <2> HIDE DEF w
  <2>3. IsSum(f, w, 1)
    BY <2>2, SumExists, Zenon
  <2>4. Total(w) = f[1..1]
    BY <2>1, TotalIs, Zenon
  <2> HIDE DEF f
  <2>5. Max({1}) = 1
    <3>1. 1 \in {1} /\ \A y \in {1} : 1 >= y
      OBVIOUS
    <3>2. Max({1}) \in {1}
      BY <3>1, Zenon DEF Max
    <3> QED BY <3>2
  <2>6. f[{}] = 0
    <3>1. SumAt(f, w, {})
      BY <2>2, <2>3, SumStep
    <3> QED BY <3>1, Zenon DEF SumAt
  <2>7. {1} # {} /\ {1} \ {1} = {} /\ {1} \in SUBSET (1..1)
    OBVIOUS
  <2>8. SumAt(f, w, {1})
    BY <2>2, <2>3, <2>7, SumStep
  <2>9. f[{1}] = 0 + Sizes[e]
    BY <2>1, <2>5, <2>6, <2>7, <2>8, Zenon DEF SumAt
  <2>10. Sizes[e] \in Nat
    BY CliAssumption
  <2> QED BY <2>2, <2>4, <2>9, <2>10 DEF w
<1> QED BY <1>1, <1>2

-----------------------------------------------------------------------------
(* What parse accepts.                                                      *)

Words == DOMAIN Sizes

\* Of a `session` command line: what parse took from it, and how it looks.
Accepted(r) ==
    /\ r.trace \in BOOLEAN
    /\ r.command \in Seq(Words) /\ validate_command(r.command)
Typed(a, r) ==
    \E id \in Ids :
        a = <<"session", id>> \o (IF r.trace THEN <<"--trace">> ELSE <<>>)
              \o (IF r.command = <<>> THEN <<>> ELSE <<"--">> \o r.command)

\* Only the arm for "session" returns a session.
LEMMA ParseIsSession ==
    ASSUME NEW a \in Seq(Words), parse(a).name = "session"
    PROVE  a # <<>> /\ a[1] = "session" /\ parse(a) = parse_session(Tail(a))
<1>0. \A w : ParseError(w).name = "error"
  BY DEF ParseError
<1>1. a # <<>>
  <2> SUFFICES ASSUME a = <<>> PROVE FALSE
    OBVIOUS
  <2> QED BY <1>0 DEF parse
<1>2. a \notin {<<"--help">>, <<"-h">>, <<"--version">>, <<"-V">>}
  BY DEF parse, Plain
<1>3. a[1] # "sessions"
  BY <1>0 DEF parse, parse_sessions, ParseError
<1>4. a[1] # "stop" /\ a[1] # "__runner" /\ a[1] # "__child"
  BY <1>0 DEF parse, parse_session_command, parse_hidden_child, ForSession, HiddenChild, ParseError
<1>5. a[1] = "session"
  BY <1>0, <1>1, <1>2, <1>3, <1>4 DEF parse
<1> QED BY <1>1, <1>2, <1>5 DEF parse

\* __child takes a command within the limits as it is.
LEMMA ParseIsChild ==
    ASSUME NEW a \in Seq(Words), a # <<>>, validate_command(a)
    PROVE  parse(<<"__child">> \o a) = HiddenChild(a)
<1> DEFINE W == Words \cup {"__child"}
           c == <<"__child">>
           b == c \o a
<1>1. a \in Seq(W) /\ c \in Seq(W) /\ Len(c) = 1 /\ c[1] = "__child"
  OBVIOUS
<1>2. Len(a) \in Nat \ {0}
  BY EmptySeq
<1>3. b \in Seq(W) /\ Len(b) = 1 + Len(a)
      /\ \A i \in 1..(1 + Len(a)) : b[i] = IF i <= 1 THEN c[i] ELSE a[i - 1]
  <2> HIDE DEF W, c
  <2>1. b \in Seq(W) /\ Len(b) = Len(c) + Len(a)
        /\ \A i \in 1..(Len(c) + Len(a)) : b[i] = IF i <= Len(c) THEN c[i] ELSE a[i - Len(c)]
    BY <1>1, ConcatProperties
  <2> HIDE DEF b
  <2> QED BY <1>1, <2>1
<1> HIDE DEF b, W, c
<1>4. b # <<>> /\ b[1] = "__child"
  BY <1>1, <1>2, <1>3
<1>5. Tail(b) = a
  <2>1. Tail(b) \in Seq(W) /\ Len(Tail(b)) = Len(b) - 1 /\ \A i \in 1..Len(Tail(b)) : Tail(b)[i] = b[i + 1]
    BY <1>3, <1>4, HeadTailProperties
  <2>2. Len(Tail(b)) = Len(a)
    BY <1>2, <1>3, <2>1
  <2>3. ASSUME NEW i \in 1..Len(Tail(b)) PROVE Tail(b)[i] = a[i]
    <3>1. i + 1 \in 1..(1 + Len(a)) /\ ~(i + 1 <= 1) /\ (i + 1) - 1 = i
      BY <1>2, <2>2
    <3> QED BY <1>3, <2>1, <3>1
  <2> QED BY <1>1, <2>1, <2>2, <2>3, SeqEqual
<1>6. b \notin {<<"--help">>, <<"-h">>, <<"--version">>, <<"-V">>}
  BY <1>4
<1>7. parse(b) = parse_hidden_child(a)
  BY <1>4, <1>5, <1>6 DEF parse
<1> QED BY <1>7 DEF parse_hidden_child, b, c

\* What follows the ID and the option of a `session` command line.
Behind(command) == IF command = <<>> THEN <<>> ELSE <<"--">> \o command
Option(trace) == IF trace THEN <<"--trace">> ELSE <<>>

\* Two words are one and another one.
LEMMA TwoWords == \A e, f : <<e>> \o <<f>> = <<e, f>>
<1> SUFFICES ASSUME NEW e, NEW f PROVE <<e>> \o <<f>> = <<e, f>>
  OBVIOUS
<1> DEFINE S == {e, f}
           x == <<e>>
           y == <<f>>
           z == <<e, f>>
           c == x \o y
<1>1. /\ x \in Seq(S) /\ y \in Seq(S) /\ z \in Seq(S)
      /\ Len(x) = 1 /\ Len(y) = 1 /\ Len(z) = 2 /\ x[1] = e /\ y[1] = f /\ z[1] = e /\ z[2] = f
  OBVIOUS
<1> HIDE DEF S, x, y, z
<1>2. c \in Seq(S) /\ Len(c) = Len(x) + Len(y)
      /\ \A i \in 1..(Len(x) + Len(y)) : c[i] = IF i <= Len(x) THEN x[i] ELSE y[i - Len(x)]
  BY <1>1, ConcatProperties
<1> HIDE DEF c
<1>3. Len(c) = 2 /\ c[1] = e /\ c[2] = f
  BY <1>1, <1>2
<1>4. Len(c) = Len(z) /\ \A i \in 1..Len(c) : c[i] = z[i]
  BY <1>1, <1>3
<1>5. c = z
  BY <1>1, <1>2, <1>4, SeqEqual
<1> QED BY <1>5 DEF c, x, y, z

\* The end of a sequence, from a position on ...
LEMMA FromTo ==
    ASSUME NEW S, NEW a \in Seq(S), NEW k \in 1..(Len(a) + 1)
    PROVE  /\ SubSeq(a, k, Len(a)) \in Seq(S)
           /\ Len(SubSeq(a, k, Len(a))) = Len(a) + 1 - k
           /\ \A i \in 1..(Len(a) + 1 - k) : SubSeq(a, k, Len(a))[i] = a[k + i - 1]
<1>1. Len(a) \in Nat /\ \A i \in k..Len(a) : a[i] \in S
  <2>1. Len(a) \in Nat
    BY LenProperties
  <2> QED BY <2>1, ElementOfSeq
<1>2. k \in Int /\ Len(a) \in Int
  BY <1>1
<1>3. /\ SubSeq(a, k, Len(a)) \in Seq(S)
      /\ Len(SubSeq(a, k, Len(a))) = IF k <= Len(a) THEN Len(a) - k + 1 ELSE 0
      /\ \A i \in 1..(Len(a) - k + 1) : SubSeq(a, k, Len(a))[i] = a[k + i - 1]
  BY <1>1, <1>2, SubSeqProperties
<1> QED BY <1>1, <1>2, <1>3

\* ... and the sequence, from what is before that position and its end.
LEMMA CutFront ==
    ASSUME NEW S, NEW p \in Seq(S), NEW q \in Seq(S), NEW a \in Seq(S), Len(p) <= Len(a),
           \A i \in 1..Len(p) : p[i] = a[i], q = SubSeq(a, Len(p) + 1, Len(a))
    PROVE  a = p \o q
<1> DEFINE n == Len(a)
           m == Len(p)
<1>1. n \in Nat /\ m \in Nat /\ m + 1 \in 1..(n + 1)
  <2>1. n \in Nat /\ m \in Nat
    BY LenProperties
  <2> QED BY <2>1
<1>2. Len(q) = n + 1 - (m + 1) /\ \A i \in 1..(n + 1 - (m + 1)) : q[i] = a[(m + 1) + i - 1]
  BY <1>1, FromTo
<1>3. p \o q \in Seq(S) /\ Len(p \o q) = m + Len(q)
      /\ \A i \in 1..(m + Len(q)) : (p \o q)[i] = IF i <= m THEN p[i] ELSE q[i - m]
  BY ConcatProperties
<1> DEFINE c == p \o q
<1>4. c \in Seq(S) /\ Len(c) = n /\ \A i \in 1..n : c[i] = IF i <= m THEN p[i] ELSE q[i - m]
  <2>1. m + Len(q) = n
    BY <1>1, <1>2
  <2> HIDE DEF n, m
  <2> QED BY <1>3, <2>1
<1> HIDE DEF c
<1>5. ASSUME NEW i \in 1..n PROVE a[i] = c[i]
  <2>1. CASE i <= m
    <3>1. i \in 1..m
      BY <1>1, <2>1
    <3> QED BY <1>4, <2>1, <3>1
  <2>2. CASE ~(i <= m)
    <3>1. i - m \in 1..(n + 1 - (m + 1)) /\ (m + 1) + (i - m) - 1 = i
      BY <1>1, <2>2
    <3>2. q[i - m] = a[(m + 1) + (i - m) - 1]
      BY <1>2, <3>1
    <3> HIDE DEF n, m
    <3> QED BY <1>4, <2>2, <3>1, <3>2
  <2> QED BY <2>1, <2>2
<1>6. a = c
  <2>1. Len(a) = Len(c) /\ \A i \in 1..Len(a) : a[i] = c[i]
    BY <1>4, <1>5
  <2> QED BY <1>4, <2>1, SeqEqual
<1> QED BY <1>6 DEF c

\* What parse_session takes and where it stood.
LEMMA ParseSession ==
    ASSUME NEW t \in Seq(Words), parse_session(t).name = "session"
    PROVE  /\ Accepted(parse_session(t))
           /\ t # <<>> /\ t[1] \in Ids
           /\ t = <<t[1]>> \o (Option(parse_session(t).trace) \o Behind(parse_session(t).command))
<1> DEFINE trace == Len(t) > 1 /\ t[2] = "--trace"
           from == IF trace THEN 3 ELSE 2
           remaining == SubSeq(t, from, Len(t))
           command == IF remaining = <<>> THEN <<>> ELSE Tail(remaining)
<1>0. \A w : ParseError(w).name = "error"
  BY DEF ParseError
<1>1. t # <<>> /\ t[1] \in Ids
  BY <1>0 DEF parse_session
<1>2. remaining # <<>> => remaining[1] = "--" /\ Len(remaining) # 1 /\ validate_command(Tail(remaining))
  BY <1>0, <1>1 DEF parse_session
<1>3. parse_session(t) = Session(t[1], trace, command)
  BY <1>0, <1>1, <1>2 DEF parse_session
<1>4. parse_session(t).trace = trace /\ parse_session(t).command = command
  BY <1>3 DEF Session
<1>5. Len(t) \in Nat \ {0} /\ from \in 1..(Len(t) + 1) /\ from \in {2, 3}
  <2>1. Len(t) \in Nat \ {0}
    BY <1>1, EmptySeq
  <2> QED BY <2>1
<1>6. remaining \in Seq(Words)
  <2> HIDE DEF from
  <2> QED BY <1>5, FromTo
<1> HIDE DEF remaining
<1>7. command \in Seq(Words) /\ validate_command(command) /\ remaining = Behind(command)
  <2>1. CASE remaining = <<>>
    <3>1. command = <<>> /\ <<>> \in Seq(Words) /\ Len(<<>>) = 0 /\ MaxArgs \in Nat /\ MaxBytes \in Nat
      BY <2>1, EmptySeq, CliAssumption
    <3>2. Total(<<>>) = 0
      BY TotalOfOne
    <3> HIDE DEF command
    <3> QED BY <2>1, <3>1, <3>2 DEF validate_command, Behind
  <2>2. CASE remaining # <<>>
    <3>1. command = Tail(remaining)
      BY <2>2
    <3> HIDE DEF command
    <3>2. /\ command \in Seq(Words) /\ Len(command) = Len(remaining) - 1
          /\ \A i \in 1..Len(command) : command[i] = remaining[i + 1]
      BY <1>6, <2>2, <3>1, HeadTailProperties
    <3>3. Len(remaining) \in Nat \ {0, 1} /\ remaining[1] = "--"
      BY <1>2, <1>6, <2>2, EmptySeq
    <3>4. command # <<>>
      BY <3>2, <3>3
    <3>5. remaining = <<"--">> \o command
      <4> DEFINE W == Words \cup {"--"}
                 p == <<"--">>
      <4>1. p \in Seq(W) /\ command \in Seq(W) /\ remaining \in Seq(W) /\ Len(p) = 1 /\ p[1] = "--"
        BY <1>6, <3>2
      <4>2. command = SubSeq(remaining, 2, Len(remaining))
        BY <1>6, <2>2, <3>1, TailIsSubSeq
      <4>3. Len(p) <= Len(remaining) /\ Len(p) + 1 = 2 /\ \A i \in 1..Len(p) : p[i] = remaining[i]
        BY <3>3, <4>1
      <4> HIDE DEF p, W
      <4>4. remaining = p \o command
        BY <4>1, <4>2, <4>3, CutFront
      <4> QED BY <4>4 DEF p
    <3> QED BY <1>2, <2>2, <3>1, <3>2, <3>4, <3>5 DEF Behind
  <2> QED BY <2>1, <2>2
<1> DEFINE X == Words \cup {"--trace"}
           p == <<t[1]>> \o Option(trace)
<1>8. /\ p \in Seq(X) /\ Len(p) = from - 1 /\ Len(p) <= Len(t)
      /\ \A i \in 1..Len(p) : p[i] = t[i]
  <2>1. t[1] \in Words
    BY <1>5, ElementOfSeq
  <2>2. CASE trace
    <3>1. p = <<t[1], "--trace">> /\ from = 3 /\ t[2] = "--trace" /\ Len(t) > 1
      <4>1. p = <<t[1]>> \o <<"--trace">> /\ from = 3 /\ t[2] = "--trace" /\ Len(t) > 1
        BY <2>2 DEF Option
      <4>2. <<t[1]>> \o <<"--trace">> = <<t[1], "--trace">>
        BY TwoWords, Zenon
      <4> HIDE DEF p, from, trace
      <4> QED BY <4>1, <4>2
    <3> HIDE DEF p, from, trace
    <3>2. p \in Seq(X) /\ Len(p) = 2 /\ p[1] = t[1] /\ p[2] = t[2]
      BY <2>1, <3>1
    <3> QED BY <1>5, <3>1, <3>2
  <2>3. CASE ~trace
    <3>1. p = <<t[1]>> /\ from = 2
      <4>1. p = <<t[1]>> \o <<>> /\ from = 2
        BY <2>3 DEF Option
      <4>2. <<t[1]>> \in Seq(Words)
        BY <2>1
      <4> HIDE DEF p, from, trace
      <4> QED BY <4>1, <4>2, ConcatEmptySeq
    <3> HIDE DEF p, from, trace
    <3>2. p \in Seq(X) /\ Len(p) = 1 /\ p[1] = t[1]
      BY <2>1, <3>1
    <3> QED BY <1>5, <3>1, <3>2
  <2> QED BY <2>2, <2>3
<1>9. t = p \o remaining
  <2>1. t \in Seq(X) /\ remaining \in Seq(X)
    BY <1>6
  <2>2. remaining = SubSeq(t, Len(p) + 1, Len(t))
    <3>1. Len(p) + 1 = from
      <4> HIDE DEF p, from
      <4> QED BY <1>5, <1>8
    <3> HIDE DEF p, from
    <3> QED BY <3>1 DEF remaining
  <2> HIDE DEF p, X
  <2> QED BY <1>8, <2>1, <2>2, CutFront
<1>10. (<<t[1]>> \o Option(trace)) \o remaining = <<t[1]>> \o (Option(trace) \o remaining)
  <2>1. <<t[1]>> \in Seq(X) /\ Option(trace) \in Seq(X) /\ remaining \in Seq(X)
    <3>1. t[1] \in Words
      BY <1>5, ElementOfSeq
    <3>2. Option(trace) \in {<<>>, <<"--trace">>}
      BY Zenon DEF Option
    <3>3. <<t[1]>> \in Seq(X) /\ <<>> \in Seq(X) /\ <<"--trace">> \in Seq(X)
      BY <3>1
    <3>4. remaining \in Seq(X)
      BY <1>6
    <3> HIDE DEF trace, X
    <3> QED BY <3>2, <3>3, <3>4, Zenon
  <2> HIDE DEF X, trace
  <2> QED BY <2>1, ConcatAssociative
<1>11. trace \in BOOLEAN
  OBVIOUS
<1> HIDE DEF trace, command, p, from
<1> QED BY <1>1, <1>4, <1>7, <1>9, <1>10, <1>11 DEF p, Accepted

\* An opaque name for what concatenation is, which the provers match as such.
Assoc(s, t, u) == (s \o t) \o u = s \o (t \o u)

LEMMA AssocAt ==
    ASSUME NEW S, NEW s \in Seq(S), NEW t \in Seq(S), NEW u \in Seq(S)
    PROVE  Assoc(s, t, u)
<1>1. (s \o t) \o u = s \o (t \o u)
  BY ConcatAssociative, SMTT(60)
<1> QED BY <1>1, Zenon DEF Assoc

\* What parse makes of a `session` command line.
LEMMA SessionTyped ==
    ASSUME NEW a \in Seq(Words), parse(a).name = "session"
    PROVE  Accepted(parse(a)) /\ Typed(a, parse(a))
<1> DEFINE r == parse(a)
           t == Tail(a)
<1>1. a # <<>> /\ a[1] = "session" /\ r = parse_session(t)
  BY ParseIsSession
<1>2. t \in Seq(Words)
  BY <1>1, HeadTailProperties
<1>3. parse_session(t).name = "session"
  BY <1>1
<1> HIDE DEF r, t
<1>4. /\ Accepted(r) /\ t # <<>> /\ t[1] \in Ids
      /\ t = <<t[1]>> \o (Option(r.trace) \o Behind(r.command))
  BY <1>1, <1>2, <1>3, ParseSession
<1> DEFINE X == Words \cup {"session", "--", "--trace"}
           o == Option(r.trace)
           b == Behind(r.command)
           i == <<t[1]>>
           p == <<"session">>
<1>5. p \in Seq(X) /\ i \in Seq(X) /\ o \in Seq(X) /\ b \in Seq(X)
  <2>1. t[1] \in Words
    BY <1>4, CliAssumption DEF Words
  <2>2. o \in Seq(X)
    <3>1. <<>> \in Seq(X) /\ <<"--trace">> \in Seq(X)
      OBVIOUS
    <3> HIDE DEF X
    <3> QED BY <3>1, Zenon DEF Option
  <2>3. b \in Seq(X)
    <3>1. <<>> \in Seq(X) /\ <<"--">> \in Seq(X) /\ r.command \in Seq(X)
      BY <1>4 DEF Accepted
    <3> HIDE DEF X
    <3>2. <<"--">> \o r.command \in Seq(X)
      BY <3>1, ConcatProperties
    <3> QED BY <3>1, <3>2, Zenon DEF Behind
  <2> QED BY <2>1, <2>2, <2>3
<1>6. a = p \o t
  <2>1. p \in Seq(X) /\ a \in Seq(X) /\ t \in Seq(X) /\ Len(p) = 1 /\ p[1] = a[1]
    BY <1>1, <1>2
  <2>2. Len(a) \in Nat \ {0}
    BY <1>1, EmptySeq
  <2>3. t = SubSeq(a, 2, Len(a))
    BY <1>1, TailIsSubSeq DEF t
  <2>4. Len(p) <= Len(a) /\ Len(p) + 1 = 2 /\ \A j \in 1..Len(p) : p[j] = a[j]
    BY <2>1, <2>2
  <2> HIDE DEF p, X
  <2> QED BY <2>1, <2>3, <2>4, CutFront
<1>7. p \o (i \o (o \o b)) = ((p \o i) \o o) \o b
  <2> HIDE DEF p, i, o, b, X
  <2> DEFINE q == o \o b
             front == p \o i
  <2>1. q \in Seq(X) /\ front \in Seq(X)
    BY <1>5, ConcatProperties
  <2> HIDE DEF q, front
  <2>2. Assoc(p, i, q) /\ Assoc(front, o, b)
    BY <1>5, <2>1, AssocAt
  <2>3. front \o q = p \o (i \o q)
    BY <2>2, Zenon DEF Assoc, front
  <2>4. (front \o o) \o b = front \o q
    BY <2>2, Zenon DEF Assoc, q
  <2>5. p \o (i \o q) = (front \o o) \o b
    BY <2>3, <2>4, Zenon
  <2> QED BY <2>5, Zenon DEF q, front
<1>8. p \o i = <<"session", t[1]>>
  BY TwoWords, Zenon
<1>9. a = (<<"session", t[1]>> \o Option(r.trace)) \o Behind(r.command)
  <2>1. a = p \o (i \o (o \o b))
    BY <1>4, <1>6
  <2> HIDE DEF p, i
  <2> QED BY <1>7, <1>8, <2>1
<1>10. Typed(a, r)
  BY <1>4, <1>9, Zenon DEF Typed, Option, Behind
<1> QED BY <1>4, <1>10 DEF r

-----------------------------------------------------------------------------
(* The way of a command from the command line to its exec.                  *)

\* A call of `afk session` that parse accepted.
CallMade == args \in CommandLines /\ window \in Windows /\ Call.name = "session"

\* What such a call holds.
LEMMA CallFacts ==
    ASSUME CallMade
    PROVE  Accepted(Call) /\ Typed(args, Call)
<1>1. args \in Seq(Words)
  BY LaunchAssumption DEF CallMade, Words
<1> QED BY <1>1, SessionTyped DEF CallMade, Call

\* What is written of the command, and that none of it is refused.
LEMMA FieldsFacts ==
    ASSUME CallMade
    PROVE  /\ Len(Fields) = 4 + Len(Call.command) /\ Len(Call.command) \in Nat
           /\ Fields[3] \in {0, 1} /\ Dimension(Fields[1]) /\ Dimension(Fields[2])
           /\ Fields[4] = Len(Call.command)
           /\ \A n \in 4..Len(Fields) : SubSeq(Fields, 5, n) = SubSeq(Call.command, 1, n - 4)
<1> DEFINE c == Call.command
           w == WindowSize
           t == IF Call.trace THEN 1 ELSE 0
           h == <<t, Len(c)>>
           S == Nat \cup Words
           m == Len(c)
<1>1. c \in Seq(Words) /\ m \in Nat
  BY CallFacts, LenProperties DEF Accepted
<1> HIDE DEF c, m
<1>2. w \in Nat \X Nat /\ Dimension(w[1]) /\ Dimension(w[2])
  <2>1. window \in Nat \X Nat
    BY LaunchAssumption DEF CallMade
  <2>2. Dimension(24) /\ Dimension(80)
    BY LaunchAssumption DEF Dimension
  <2>3. <<24, 80>> \in Nat \X Nat /\ <<24, 80>>[1] = 24 /\ <<24, 80>>[2] = 80
    OBVIOUS
  <2>4. w = IF Dimension(window[1]) /\ Dimension(window[2]) THEN window ELSE <<24, 80>>
    BY DEF WindowSize
  <2> HIDE DEF w
  <2> QED BY <2>1, <2>2, <2>3, <2>4, Zenon
<1> HIDE DEF w
<1>3. w \in Seq(S) /\ Len(w) = 2
  <2>1. PICK rows, columns \in Nat : w = <<rows, columns>>
    BY <1>2
  <2>2. <<rows, columns>> \in Seq(Nat \cup Words) /\ Len(<<rows, columns>>) = 2
    OBVIOUS
  <2> QED BY <2>1, <2>2
<1>4. t \in {0, 1}
  OBVIOUS
<1> HIDE DEF t
<1>5. h \in Seq(S) /\ Len(h) = 2 /\ h[1] = t /\ h[2] = m
  BY <1>1, <1>4 DEF m
<1>6. c \in Seq(S)
  BY <1>1
<1> HIDE DEF h, S
<1>7. w \o h \in Seq(S) /\ Len(w \o h) = 4 /\ (w \o h)[1] = w[1] /\ (w \o h)[2] = w[2]
      /\ (w \o h)[3] = t /\ (w \o h)[4] = m
  <2> DEFINE x == w \o h
  <2>1. x \in Seq(S) /\ Len(x) = Len(w) + Len(h)
        /\ \A i \in 1..(Len(w) + Len(h)) : x[i] = IF i <= Len(w) THEN w[i] ELSE h[i - Len(w)]
    BY <1>3, <1>5, ConcatProperties
  <2> HIDE DEF x
  <2>2. x \in Seq(S) /\ Len(x) = 4 /\ x[1] = w[1] /\ x[2] = w[2] /\ x[3] = t /\ x[4] = m
    BY <1>3, <1>5, <2>1
  <2> QED BY <2>2 DEF x
<1> DEFINE x == w \o h
           f == x \o c
<1>8. Fields = f
  BY DEF Fields, w, t, h, c
<1>9. x \in Seq(S) /\ Len(x) = 4
  BY <1>7
<1> HIDE DEF x
<1>10. f \in Seq(S) /\ Len(f) = 4 + m /\ (\A i \in 1..4 : f[i] = x[i])
       /\ \A i \in 1..m : f[4 + i] = c[i]
  <2>1. f \in Seq(S) /\ Len(f) = Len(x) + Len(c)
        /\ \A i \in 1..(Len(x) + Len(c)) : f[i] = IF i <= Len(x) THEN x[i] ELSE c[i - Len(x)]
    BY <1>6, <1>9, ConcatProperties
  <2> HIDE DEF f
  <2> QED BY <1>1, <1>9, <2>1 DEF m
<1> HIDE DEF f
<1>11. f[1] = w[1] /\ f[2] = w[2] /\ f[3] = t /\ f[4] = m
  BY <1>7, <1>10 DEF x
<1>12. ASSUME NEW n \in 4..(4 + m) PROVE SubSeq(f, 5, n) = SubSeq(c, 1, n - 4)
  <2>1. n \in Int /\ n - 4 \in Int /\ n - 4 \in 0..m /\ 5 \in Int /\ 1 \in Int
    BY <1>1
  <2>2. \A i \in 5..n : f[i] \in S
    <3>1. \A i \in 5..n : i \in 1..Len(f)
      BY <1>1, <1>10
    <3> QED BY <1>10, <3>1, ElementOfSeq
  <2>3. \A i \in 1..(n - 4) : c[i] \in S
    <3>1. \A i \in 1..(n - 4) : i \in 1..Len(c)
      BY <1>1 DEF m
    <3> QED BY <1>6, <3>1, ElementOfSeq
  <2>4. /\ SubSeq(f, 5, n) \in Seq(S) /\ Len(SubSeq(f, 5, n)) = IF 5 <= n THEN n - 5 + 1 ELSE 0
        /\ \A i \in 1..(n - 5 + 1) : SubSeq(f, 5, n)[i] = f[5 + i - 1]
    BY <2>1, <2>2, SubSeqProperties
  <2> DEFINE k == n - 4
  <2>5. /\ SubSeq(c, 1, k) \in Seq(S) /\ Len(SubSeq(c, 1, k)) = IF 1 <= k THEN k - 1 + 1 ELSE 0
        /\ \A i \in 1..(k - 1 + 1) : SubSeq(c, 1, k)[i] = c[1 + i - 1]
    <3>1. k \in Int /\ \A i \in 1..k : c[i] \in S
      BY <2>1, <2>3
    <3> HIDE DEF k
    <3> QED BY <2>1, <3>1, SubSeqProperties
  <2> DEFINE a == SubSeq(f, 5, n)
             b == SubSeq(c, 1, k)
  <2>6. a \in Seq(S) /\ Len(a) = k /\ \A i \in 1..k : a[i] = c[i]
    <3>1. Len(a) = k
      BY <2>1, <2>4
    <3>2. ASSUME NEW i \in 1..k PROVE a[i] = c[i]
      <4>1. i \in 1..(n - 5 + 1) /\ 5 + i - 1 = 4 + i /\ i \in 1..m
        BY <1>1, <2>1
      <4> QED BY <1>10, <2>4, <4>1
    <3> QED BY <2>4, <3>1, <3>2
  <2>7. b \in Seq(S) /\ Len(b) = k /\ \A i \in 1..k : b[i] = c[i]
    BY <2>1, <2>5
  <2> HIDE DEF a, b, k
  <2>8. a = b
    BY <2>6, <2>7, SeqEqual
  <2> QED BY <2>8 DEF a, b, k
<1> QED BY <1>1, <1>2, <1>4, <1>8, <1>10, <1>11, <1>12 DEF c, m

\* read_startup_config takes every field it is sent, the last one as the last.
LEMMA NothingRefused ==
    ASSUME CallMade, NEW n \in 1..Len(Fields)
    PROVE  ~Refuses(n) /\ (Whole(n) <=> n = Len(Fields))
<1> DEFINE c == Call.command
           m == Len(c)
<1>1. /\ Len(Fields) = 4 + m /\ m \in Nat /\ Fields[3] \in {0, 1}
      /\ Dimension(Fields[1]) /\ Dimension(Fields[2]) /\ Fields[4] = m
      /\ \A k \in 4..Len(Fields) : SubSeq(Fields, 5, k) = SubSeq(c, 1, k - 4)
  BY FieldsFacts
<1>2. c \in Seq(DOMAIN Sizes) /\ m <= MaxArgs /\ Total(c) <= MaxBytes
  BY CallFacts DEF Accepted, validate_command, Words
<1> HIDE DEF c
<1>3. MaxArgs \in Nat /\ MaxBytes \in Nat
  BY CliAssumption
<1>4. ASSUME n > 4 PROVE ~(Total(SubSeq(Fields, 5, n)) > MaxBytes)
  <2>1. n \in 4..Len(Fields) /\ n - 4 \in 0..m
    BY <1>1, <1>4
  <2>2. SubSeq(Fields, 5, n) = SubSeq(c, 1, n - 4)
    BY <1>1, <2>1
  <2> DEFINE k == n - 4
             v == SubSeq(c, 1, k)
  <2>3. Total(v) \in Nat /\ Total(c) \in Nat /\ Total(v) <= Total(c)
    <3>1. k \in 0..Len(c)
      BY <2>1
    <3> HIDE DEF k
    <3> QED BY <1>2, <3>1, TotalFacts
  <2>4. ~(Total(v) > MaxBytes)
    <3> HIDE DEF v
    <3> QED BY <1>2, <1>3, <2>3
  <2> QED BY <2>2, <2>4
<1> HIDE DEF m
<1>5. ~Refuses(n)
  BY <1>1, <1>2, <1>3, <1>4 DEF Refuses, m
<1>6. Whole(n) <=> n = Len(Fields)
  BY <1>1 DEF Whole
<1> QED BY <1>5, <1>6

\* __child accepts what it is given, and runs just that.
LEMMA ChildAccepts ==
    ASSUME CallMade
    PROVE  parse(<<"__child">> \o CommandOrShell(Call.command)) = HiddenChild(CommandOrShell(Call.command))
<1> DEFINE c == Call.command
           a == CommandOrShell(c)
<1>1. c \in Seq(Words) /\ validate_command(c)
  BY CallFacts DEF Accepted
<1> HIDE DEF c
<1>2. a \in Seq(Words) /\ a # <<>> /\ validate_command(a)
  <2>1. CASE c = <<>>
    <3>1. a = <<Shell>> /\ Shell \in DOMAIN Sizes /\ Sizes[Shell] <= MaxBytes /\ MaxArgs \in Nat \ {0}
      BY <2>1, CliAssumption, LaunchAssumption DEF CommandOrShell
    <3>2. <<Shell>> \in Seq(Words) /\ <<Shell>> # <<>> /\ Len(<<Shell>>) = 1
      BY <3>1 DEF Words
    <3>3. Total(<<Shell>>) = Sizes[Shell]
      BY <3>1, TotalOfOne
    <3> HIDE DEF a
    <3> QED BY <3>1, <3>2, <3>3 DEF validate_command
  <2>2. CASE c # <<>>
    BY <1>1, <2>2 DEF CommandOrShell
  <2> QED BY <2>1, <2>2
<1> HIDE DEF a
<1>3. parse(<<"__child">> \o a) = HiddenChild(a)
  BY <1>2, ParseIsChild
<1> QED BY <1>3 DEF a, c

\* How far the configuration is, and what becomes of the command.
ConfigShape ==
    /\ args \in CommandLines /\ window \in Windows
    /\ wrote \in Nat /\ got \in Nat /\ got <= wrote
    /\ launcher \in {"spawn", "write"} \/ runner # "none" \/ child # "none" => Call.name = "session"
    /\ launcher \in {"run", "spawn"} => wrote = 0
    /\ launcher = "write" => wrote < Len(Fields)
    /\ Call.name = "session" => wrote <= Len(Fields)
ChildShape ==
    /\ runner # "refused" /\ child # "refused"
    /\ runner \in {"bind", "trace", "pty"} => got = Len(Fields)
    /\ child \in {"exec", "running"} => argv = CommandOrShell(Call.command)

CommandInv == ConfigShape /\ ChildShape

LEMMA CommandInit == Init => CommandInv
<1> SUFFICES ASSUME Init PROVE CommandInv
  OBVIOUS
<1>1. Call.name = "session" => 0 <= Len(Fields)
  BY FieldsFacts DEF Init, CallMade
<1> QED BY <1>1 DEF Init, CommandInv, ConfigShape, ChildShape

LEMMA CommandNext == CommandInv /\ [Next]_vars => CommandInv'
<1> SUFFICES ASSUME CommandInv, [Next]_vars PROVE CommandInv'
  OBVIOUS
<1> USE DEF CommandInv
<1>1. args' = args /\ window' = window
  BY DEF Next, LauncherStep, RunnerStep, Run, Spawn, WriteField, ReadResponse, WaitForRunner, LauncherKilled,
         ReadField, ConfigCutOff, Bind, CreateTrace, SpawnChild, WriteLive, ReportReady, KillChild, Answer,
         ServingEnds, RunnerKilled, Exec, vars
<1>2. Call' = Call /\ Fields' = Fields
  BY <1>1 DEF Call, Fields, WindowSize
<1>3. Call.name = "session" => CallMade
  BY DEF ConfigShape, CallMade
<1>4. Call.name = "session" => Len(Fields) \in Nat \ {0}
  BY <1>3, FieldsFacts
<1>5. CASE Run
  BY <1>1, <1>2, <1>4, <1>5 DEF Run, ConfigShape, ChildShape
<1>6. CASE Spawn
  BY <1>1, <1>2, <1>4, <1>6 DEF Spawn, ConfigShape, ChildShape
<1>7. CASE WriteField
  BY <1>1, <1>2, <1>4, <1>7 DEF WriteField, ConfigShape, ChildShape
<1>8. CASE ReadResponse \/ WaitForRunner \/ LauncherKilled
  BY <1>1, <1>2, <1>8 DEF ReadResponse, WaitForRunner, LauncherKilled, ConfigShape, ChildShape
<1>9. CASE ReadField
  <2>1. CallMade /\ got + 1 \in 1..Len(Fields) /\ got' = got + 1
    BY <1>3, <1>4, <1>9 DEF ReadField, ConfigShape
  <2>2. ~Refuses(got') /\ (Whole(got') <=> got' = Len(Fields))
    BY <2>1, NothingRefused
  <2> QED BY <1>1, <1>2, <1>9, <2>1, <2>2 DEF ReadField, ConfigShape, ChildShape
<1>10. CASE ConfigCutOff \/ Bind \/ CreateTrace
  BY <1>1, <1>2, <1>10 DEF ConfigCutOff, Bind, CreateTrace, Returns, ConfigShape, ChildShape
<1>11. CASE SpawnChild
  <2>1. CallMade /\ got = Len(Fields)
    BY <1>3, <1>11 DEF SpawnChild, ConfigShape, ChildShape
  <2>2. SubSeq(Fields, 5, got) = Call.command
    <3> DEFINE c == Call.command
    <3>1. /\ Len(Fields) = 4 + Len(c) /\ Len(c) \in Nat
          /\ \A n \in 4..Len(Fields) : SubSeq(Fields, 5, n) = SubSeq(c, 1, n - 4)
      BY <2>1, FieldsFacts
    <3>2. c \in Seq(Words)
      BY <2>1, CallFacts DEF Accepted
    <3> HIDE DEF c
    <3>3. SubSeq(Fields, 5, got) = SubSeq(c, 1, Len(c))
      BY <2>1, <3>1
    <3>4. SubSeq(c, 1, Len(c)) = c
      BY <3>2, SubSeqFull
    <3> QED BY <3>3, <3>4 DEF c
  <2> QED BY <1>1, <1>2, <1>11, <2>1, <2>2 DEF SpawnChild, Returns, ConfigShape, ChildShape
<1>12. CASE WriteLive \/ ReportReady \/ KillChild \/ Answer
  BY <1>1, <1>2, <1>12 DEF WriteLive, ReportReady, KillChild, Answer, Returns, Killed, ConfigShape, ChildShape
<1>13. CASE ServingEnds \/ RunnerKilled
  BY <1>1, <1>2, <1>13 DEF ServingEnds, RunnerKilled, RunnerOver, Returns, ConfigShape, ChildShape
<1>14. CASE Exec
  <2>1. CallMade /\ argv = CommandOrShell(Call.command) /\ child = "exec"
    BY <1>3, <1>14 DEF Exec, ConfigShape, ChildShape
  <2>2. parse(<<"__child">> \o argv) = HiddenChild(argv)
    BY <2>1, ChildAccepts
  <2>3. HiddenChild(argv).name = "child" /\ HiddenChild(argv).command = argv
    BY DEF HiddenChild
  <2>4. child' \in {"running", "failed"} /\ argv' = argv
    BY <1>14, <2>2, <2>3 DEF Exec
  <2> QED BY <1>1, <1>2, <1>14, <2>1, <2>4 DEF Exec, ConfigShape, ChildShape
<1>15. CASE UNCHANGED vars
  BY <1>1, <1>2, <1>15 DEF vars, ConfigShape, ChildShape
<1> QED
  BY <1>5, <1>6, <1>7, <1>8, <1>9, <1>10, <1>11, <1>12, <1>13, <1>14, <1>15
  DEF Next, LauncherStep, RunnerStep

LEMMA CommandEnds == CommandInv => CommandDelivered
<1> SUFFICES ASSUME CommandInv PROVE CommandDelivered
  OBVIOUS
<1>1. runner # "refused" /\ child # "refused"
  BY DEF CommandInv, ChildShape
<1>2. ASSUME child = "running"
      PROVE  \E id \in Ids, trace \in BOOLEAN, command \in {<<>>, argv} :
               WellFormed(id, trace, command) /\ (command = <<>> => argv = <<Shell>>)
  <2>1. CallMade /\ argv = CommandOrShell(Call.command)
    BY <1>2 DEF CommandInv, ConfigShape, ChildShape, CallMade
  <2>2. Call.trace \in BOOLEAN /\ Typed(args, Call)
    BY <2>1, CallFacts DEF Accepted
  <2>3. Call.command \in {<<>>, argv} /\ (Call.command = <<>> => argv = <<Shell>>)
    BY <2>1 DEF CommandOrShell
  <2>4. \E id \in Ids : WellFormed(id, Call.trace, Call.command)
    BY <2>2, Zenon DEF Typed, WellFormed
  <2> QED BY <2>2, <2>3, <2>4, Zenon
<1> QED BY <1>1, <1>2, Zenon DEF CommandDelivered

\* What is typed behind "--" is what runs, and neither the startup reader nor
\* __child refuses what the command line took (cli.rs, read_startup_config).
THEOREM LaunchCommandDelivered == Spec => []CommandDelivered
<1> QED BY CommandInit, CommandNext, CommandEnds, PTL DEF Spec

=============================================================================

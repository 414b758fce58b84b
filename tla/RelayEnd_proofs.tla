--------------------------- MODULE RelayEnd_proofs ---------------------------
(***************************************************************************)
(* The output reaches the terminal of an attached client byte for byte,    *)
(* and the status behind it, for all limits, chunks, reads and writes      *)
(* (RelayEndToEnd, RelayStatusFaithful).                                   *)
(*                                                                         *)
(* The argument: the bytes in the client's decoder, in the socket and in   *)
(* the queue are the encodings of some sequence of records, one after the  *)
(* other, the last perhaps cut off when the connection was dropped; these  *)
(* records and the batch already decoded are Output records and at most    *)
(* one Exit behind them, and their payloads are what the client has not    *)
(* printed yet (Held).  That a stream of records is decoded into just      *)
(* these records, wherever the reads cut it, rests on the codec's theorems *)
(* in Relay_proofs; that the chunks of an output join to it again, on      *)
(* induction over their number.  The library's induction theorems take an  *)
(* operator; SetInduction says the same with a set, from the well-founded  *)
(* order of the numbers.                                                   *)
(***************************************************************************)
EXTENDS Relay_proofs, WellFoundedInduction

-----------------------------------------------------------------------------
(* Induction, and what FlattenSeq does.                                     *)

\* Induction, over a set instead of a predicate.
LEMMA SetInduction ==
    ASSUME NEW T, 0 \in T, (\A n \in Nat : (n \in T => n + 1 \in T))
    PROVE  \A n \in Nat : n \in T
<1> DEFINE B == Nat \ T
           R == {s \in Nat \X Nat : s[1] < s[2]}
<1> SUFFICES ASSUME B # {} PROVE FALSE
  OBVIOUS
<1>1. IsWellFoundedOn(R, Nat)
  BY NatLessThanWellFounded DEF OpToRel
<1>2. B \subseteq Nat
  OBVIOUS
<1>3. PICK x \in B : \A y \in B : ~(<<y, x>> \in R)
  <2> HIDE DEF R, B
  <2> QED BY <1>1, <1>2, WFMin, Zenon
<1>4. PICK z \in Nat : x = z + 1
  <2>1. x \in Nat /\ x # 0
    BY <1>3
  <2> QED BY <2>1, x - 1 \in Nat, x = (x - 1) + 1
<1>5. <<z, x>> \in R
  BY <1>3, <1>4
<1>6. z \notin B
  <2> HIDE DEF B, R
  <2> QED BY <1>3, <1>5
<1> QED BY <1>3, <1>4, <1>6

\* f holds the partial results of FlattenSeq on the first n of ss.
IsFlat(f, ss, n) == f = [i \in 1..n |-> IF i = 1 THEN ss[i] ELSE f[i - 1] \o ss[i]]

\* Partial results on a prefix are those on the whole.
LEMMA FlatUnique ==
    ASSUME NEW m \in Nat, NEW n \in Nat, m <= n, NEW ss, NEW f, NEW g,
           IsFlat(f, ss, m), IsFlat(g, ss, n)
    PROVE  \A i \in 1..m : f[i] = g[i]
<1> DEFINE T == {k \in Nat : k \in 1..m => f[k] = g[k]}
<1>1. 0 \in T
  OBVIOUS
<1>2. ASSUME NEW k \in Nat, k \in T PROVE k + 1 \in T
  <2> SUFFICES ASSUME k + 1 \in 1..m PROVE f[k + 1] = g[k + 1]
    OBVIOUS
  <2>1. k + 1 \in 1..n
    OBVIOUS
  <2>2. /\ f[k + 1] = IF k + 1 = 1 THEN ss[k + 1] ELSE f[(k + 1) - 1] \o ss[k + 1]
        /\ g[k + 1] = IF k + 1 = 1 THEN ss[k + 1] ELSE g[(k + 1) - 1] \o ss[k + 1]
    BY <2>1 DEF IsFlat
  <2>3. CASE k = 0
    BY <2>2, <2>3
  <2>4. CASE k # 0
    <3>1. k \in 1..m /\ (k + 1) - 1 = k /\ k + 1 # 1
      BY <2>4
    <3>2. f[k] = g[k]
      BY <1>2, <3>1
    <3> QED BY <2>2, <3>1, <3>2
  <2> QED BY <2>3, <2>4
<1>3. \A k \in Nat : k \in T
  <2> HIDE DEF T
  <2> QED BY <1>1, <1>2, SetInduction, Zenon
<1>4. ASSUME NEW i \in 1..m PROVE f[i] = g[i]
  <2>1. i \in Nat
    OBVIOUS
  <2> QED BY <1>3, <2>1, Zenon
<1> QED BY <1>4

\* There are partial results, for any sequence.
LEMMA FlatExists ==
    ASSUME NEW ss, NEW n \in Nat
    PROVE  \E f : f = [i \in 1..n |-> IF i = 1 THEN ss[i] ELSE f[i - 1] \o ss[i]]
<1> DEFINE T == {k \in Nat : \E f : f = [i \in 1..k |-> IF i = 1 THEN ss[i] ELSE f[i - 1] \o ss[i]]}
<1>1. 0 \in T
  <2>1. [i \in 1..0 |-> ss[i]] = [i \in 1..0 |-> IF i = 1 THEN ss[i] ELSE [j \in 1..0 |-> ss[j]][i - 1] \o ss[i]]
    OBVIOUS
  <2> QED BY <2>1
<1>2. ASSUME NEW k \in Nat, k \in T PROVE k + 1 \in T
  <2>1. PICK f : f = [i \in 1..k |-> IF i = 1 THEN ss[i] ELSE f[i - 1] \o ss[i]]
    BY <1>2
  <2> DEFINE g == [i \in 1..(k + 1) |-> IF i = k + 1 THEN (IF i = 1 THEN ss[i] ELSE f[k] \o ss[i]) ELSE f[i]]
  <2>2. ASSUME NEW i \in 1..(k + 1)
        PROVE  g[i] = IF i = 1 THEN ss[i] ELSE g[i - 1] \o ss[i]
    <3>1. CASE i = k + 1
      <4>1. CASE i = 1
        BY <3>1, <4>1
      <4>2. CASE i # 1
        <5>1. i - 1 \in 1..(k + 1) /\ i - 1 = k /\ i - 1 # k + 1
          BY <3>1, <4>2
        <5>2. g[i - 1] = f[k]
          BY <5>1
        <5> QED BY <3>1, <4>2, <5>2
      <4> QED BY <4>1, <4>2
    <3>2. CASE i # k + 1
      <4>1. i \in 1..k
        BY <3>2
      <4>2. g[i] = f[i] /\ f[i] = IF i = 1 THEN ss[i] ELSE f[i - 1] \o ss[i]
        BY <2>1, <3>2, <4>1
      <4>3. i # 1 => g[i - 1] = f[i - 1]
        <5> SUFFICES ASSUME i # 1 PROVE g[i - 1] = f[i - 1]
          OBVIOUS
        <5>1. i - 1 \in 1..(k + 1) /\ i - 1 # k + 1
          BY <4>1
        <5> QED BY <5>1
      <4> QED BY <4>2, <4>3
    <3> QED BY <3>1, <3>2
  <2>3. g = [i \in 1..(k + 1) |-> IF i = 1 THEN ss[i] ELSE g[i - 1] \o ss[i]]
    <3>1. g = [i \in 1..(k + 1) |-> g[i]]
      OBVIOUS
    <3> HIDE DEF g
    <3> QED BY <2>2, <3>1
  <2> HIDE DEF g
  <2>4. k + 1 \in Nat
    OBVIOUS
  <2> QED BY <2>3, <2>4, Zenon
<1>3. \A k \in Nat : k \in T
  <2> HIDE DEF T
  <2> QED BY <1>1, <1>2, SetInduction, Zenon
<1> QED BY <1>3

\* The function that FlattenSeq takes the last value of.
Partial(ss) ==
    CHOOSE f : f = [i \in 1..Len(ss) |-> IF i = 1 THEN ss[i] ELSE f[i - 1] \o ss[i]]

\* FlattenSeq's own definition, by its partial results.
LEMMA PartialFacts ==
    ASSUME NEW ss, Len(ss) \in Nat
    PROVE  /\ Partial(ss) = [i \in 1..Len(ss) |-> IF i = 1 THEN ss[i] ELSE Partial(ss)[i - 1] \o ss[i]]
           /\ FlattenSeq(ss) = IF Len(ss) = 0 THEN ss ELSE Partial(ss)[Len(ss)]
<1>1. \E f : f = [i \in 1..Len(ss) |-> IF i = 1 THEN ss[i] ELSE f[i - 1] \o ss[i]]
  BY FlatExists, Zenon
<1>2. Partial(ss) = [i \in 1..Len(ss) |-> IF i = 1 THEN ss[i] ELSE Partial(ss)[i - 1] \o ss[i]]
  BY <1>1, Zenon DEF Partial
<1>3. FlattenSeq(ss) = IF Len(ss) = 0 THEN ss ELSE Partial(ss)[Len(ss)]
  BY Zenon DEF FlattenSeq, Partial
<1> QED BY <1>2, <1>3

\* What FlattenSeq is: nothing for nothing, and one part more at the end.
LEMMA FlatFacts ==
    ASSUME NEW S, NEW ss \in Seq(Seq(S)), NEW t \in Seq(S)
    PROVE  /\ FlattenSeq(<<>>) = <<>>
           /\ FlattenSeq(<<t>>) = t
           /\ ss # <<>> => FlattenSeq(Append(ss, t)) = FlattenSeq(ss) \o t
<1> DEFINE n == Len(ss)
           u == Append(ss, t)
<1>0. n \in Nat
  BY LenProperties
<1>1. FlattenSeq(<<>>) = <<>>
  BY DEF FlattenSeq
<1>2. u \in Seq(Seq(S)) /\ Len(u) = n + 1 /\ u[n + 1] = t /\ \A i \in 1..n : u[i] = ss[i]
  BY AppendProperties
<1> DEFINE f == Partial(ss)
           g == Partial(u)
<1>3. f = [i \in 1..n |-> IF i = 1 THEN ss[i] ELSE f[i - 1] \o ss[i]]
  BY <1>0, PartialFacts
<1>4. g = [i \in 1..(n + 1) |-> IF i = 1 THEN u[i] ELSE g[i - 1] \o u[i]]
  <2>1. Len(u) \in Nat
    BY <1>0, <1>2
  <2>2. g = [i \in 1..Len(u) |-> IF i = 1 THEN u[i] ELSE g[i - 1] \o u[i]]
    BY <2>1, PartialFacts, Zenon
  <2> HIDE DEF g, u
  <2> QED BY <1>2, <2>2, Zenon
<1>5. FlattenSeq(ss) = (IF n = 0 THEN ss ELSE f[n]) /\ FlattenSeq(u) = g[n + 1]
  <2>1. Len(u) \in Nat /\ Len(u) # 0
    BY <1>0, <1>2
  <2>2. FlattenSeq(ss) = (IF n = 0 THEN ss ELSE f[n])
    BY <1>0, PartialFacts, Zenon
  <2>3. FlattenSeq(u) = (IF Len(u) = 0 THEN u ELSE g[Len(u)])
    BY <2>1, PartialFacts, Zenon
  <2> QED BY <1>2, <2>1, <2>2, <2>3, Zenon
<1> HIDE DEF f, g, u
<1>6. ss # <<>> => FlattenSeq(u) = FlattenSeq(ss) \o t
  <2> SUFFICES ASSUME ss # <<>> PROVE FlattenSeq(u) = FlattenSeq(ss) \o t
    OBVIOUS
  <2>1. n \in Nat \ {0}
    BY <1>0, EmptySeq
  <2>2. f = [i \in 1..n |-> IF i = 1 THEN u[i] ELSE f[i - 1] \o u[i]]
    BY <1>2, <1>3
  <2>3. n <= n + 1 /\ n + 1 \in Nat /\ n \in 1..n
    BY <2>1
  <2>4. f[n] = g[n]
    <3>1. \A i \in 1..n : f[i] = g[i]
      <4> DEFINE m == n + 1
      <4>1. n \in Nat /\ m \in Nat /\ n <= m /\ IsFlat(g, u, m) /\ IsFlat(f, u, n)
        BY <1>0, <1>4, <2>2, <2>3, Zenon DEF IsFlat
      <4> HIDE DEF m, n
      <4> QED BY <4>1, FlatUnique
    <3> QED BY <2>3, <3>1
  <2>5. g[n + 1] = g[n] \o t
    <3>1. n + 1 \in 1..(n + 1) /\ n + 1 # 1 /\ (n + 1) - 1 = n
      BY <2>1
    <3>2. g[n + 1] = IF n + 1 = 1 THEN u[n + 1] ELSE g[(n + 1) - 1] \o u[n + 1]
      BY <1>4, <3>1, Zenon
    <3> QED BY <1>2, <3>1, <3>2
  <2> QED BY <1>5, <2>1, <2>4, <2>5
<1>7. FlattenSeq(<<t>>) = t
  <2>1. Len(<<t>>) = 1 /\ <<t>>[1] = t
    OBVIOUS
  <2>2. Partial(<<t>>) = [i \in 1..1 |-> IF i = 1 THEN <<t>>[i] ELSE Partial(<<t>>)[i - 1] \o <<t>>[i]]
    BY <2>1, PartialFacts
  <2>3. Partial(<<t>>)[1] = t
    BY <2>1, <2>2
  <2>4. FlattenSeq(<<t>>) = IF Len(<<t>>) = 0 THEN <<t>> ELSE Partial(<<t>>)[Len(<<t>>)]
    BY <2>1, PartialFacts, 1 \in Nat, Zenon
  <2> QED BY <2>1, <2>3, <2>4
<1> QED BY <1>1, <1>6, <1>7 DEF u

\* Induction over the length of a sequence.
LEMMA SeqInduction ==
    ASSUME NEW S, NEW T, <<>> \in T,
           \A s \in Seq(S) : \A e \in S : s \in T => Append(s, e) \in T
    PROVE  \A s \in Seq(S) : s \in T
<1> DEFINE N == {n \in Nat : \A s \in Seq(S) : Len(s) = n => s \in T}
<1>1. 0 \in N
  <2> SUFFICES ASSUME NEW s \in Seq(S), Len(s) = 0 PROVE s \in T
    OBVIOUS
  <2>1. s = <<>>
    BY EmptySeq
  <2> QED BY <2>1
<1>2. ASSUME NEW n \in Nat, n \in N PROVE n + 1 \in N
  <2> SUFFICES ASSUME NEW s \in Seq(S), Len(s) = n + 1 PROVE s \in T
    OBVIOUS
  <2>1. s # <<>>
    BY EmptySeq
  <2>2. PICK r \in Seq(S), e \in S : s = Append(r, e)
    BY <2>1, SequenceEmptyOrAppend
  <2>3. Len(s) = Len(r) + 1 /\ Len(r) \in Nat
    BY <2>2, AppendProperties, LenProperties
  <2>4. Len(r) = n
    BY <2>3
  <2> QED BY <1>2, <2>2, <2>4
<1>3. \A n \in Nat : n \in N
  <2> HIDE DEF N
  <2> QED BY <1>1, <1>2, SetInduction, Zenon
<1>4. ASSUME NEW s \in Seq(S) PROVE s \in T
  <2>1. Len(s) \in Nat
    BY LenProperties
  <2> QED BY <1>3, <2>1
<1> QED BY <1>4

\* One part more adds its elements at the end.
LEMMA FlatAppend ==
    ASSUME NEW S, NEW ss \in Seq(Seq(S)), NEW t \in Seq(S), FlattenSeq(ss) \in Seq(S)
    PROVE  FlattenSeq(Append(ss, t)) = FlattenSeq(ss) \o t
<1>1. CASE ss = <<>>
  <2>1. FlattenSeq(ss) = <<>> /\ FlattenSeq(<<t>>) = t
    BY <1>1, FlatFacts
  <2>2. Append(ss, t) = <<t>>
    BY <1>1
  <2>3. <<>> \o t = t
    BY ConcatEmptySeq
  <2> QED BY <2>1, <2>2, <2>3
<1>2. CASE ss # <<>>
  BY <1>2, FlatFacts
<1> QED BY <1>1, <1>2

\* Flattening gives a sequence of the parts' elements, part by part.
LEMMA FlatType ==
    ASSUME NEW S
    PROVE  \A ss \in Seq(Seq(S)) : FlattenSeq(ss) \in Seq(S)
<1> DEFINE T == {ss \in Seq(Seq(S)) : FlattenSeq(ss) \in Seq(S)}
<1>1. <<>> \in T
  <2>1. <<>> \in Seq(Seq(S)) /\ <<>> \in Seq(S)
    BY EmptySeq
  <2>2. FlattenSeq(<<>>) = <<>>
    BY <2>1, FlatFacts
  <2> QED BY <2>1, <2>2
<1>2. ASSUME NEW ss \in Seq(Seq(S)), NEW t \in Seq(S), ss \in T PROVE Append(ss, t) \in T
  <2>1. FlattenSeq(Append(ss, t)) = FlattenSeq(ss) \o t
    BY <1>2, FlatAppend
  <2>2. FlattenSeq(ss) \o t \in Seq(S)
    BY <1>2, ConcatProperties
  <2>3. Append(ss, t) \in Seq(Seq(S))
    BY AppendProperties
  <2> QED BY <2>1, <2>2, <2>3
<1> HIDE DEF T
<1>3. \A ss \in Seq(Seq(S)) : ss \in T
  <2> DEFINE E == Seq(S)
  <2>1. \A ss \in Seq(E) : \A t \in E : ss \in T => Append(ss, t) \in T
    BY <1>2
  <2> HIDE DEF E
  <2>2. \A ss \in Seq(E) : ss \in T
    BY <1>1, <2>1, SeqInduction
  <2> QED BY <2>2 DEF E
<1> QED BY <1>3 DEF T

\* Flattening two sequences of parts, one behind the other.
LEMMA FlatConcat ==
    ASSUME NEW S, NEW ss \in Seq(Seq(S))
    PROVE  \A tt \in Seq(Seq(S)) : FlattenSeq(ss \o tt) = FlattenSeq(ss) \o FlattenSeq(tt)
<1> DEFINE E == Seq(S)
           T == {tt \in Seq(E) : FlattenSeq(ss \o tt) = FlattenSeq(ss) \o FlattenSeq(tt)}
<1>0. ss \in Seq(E) /\ FlattenSeq(ss) \in Seq(S)
  BY FlatType
<1>1. <<>> \in T
  <2>1. <<>> \in Seq(E) /\ FlattenSeq(<<>>) = <<>>
    BY EmptySeq, FlatFacts
  <2>2. ss \o <<>> = ss /\ FlattenSeq(ss) \o <<>> = FlattenSeq(ss)
    BY <1>0, ConcatEmptySeq
  <2> QED BY <2>1, <2>2
<1>2. ASSUME NEW tt \in Seq(E), NEW t \in E, tt \in T PROVE Append(tt, t) \in T
  <2> DEFINE a == FlattenSeq(ss)
             b == FlattenSeq(tt)
  <2>1. a \in Seq(S) /\ b \in Seq(S) /\ t \in Seq(S) /\ FlattenSeq(ss \o tt) = a \o b
    BY <1>0, <1>2, FlatType
  <2>2. FlattenSeq(Append(tt, t)) = b \o t
    BY <2>1, FlatAppend
  <2>3. ss \o tt \in Seq(E) /\ FlattenSeq(ss \o tt) \in Seq(S)
    <3>1. ss \o tt \in Seq(E)
      <4> HIDE DEF E
      <4> QED BY <1>0, ConcatProperties
    <3> QED BY <3>1, FlatType
  <2>4. FlattenSeq(Append(ss \o tt, t)) = (a \o b) \o t
    <3> DEFINE u == ss \o tt
    <3>1. u \in Seq(Seq(S)) /\ FlattenSeq(u) \in Seq(S) /\ FlattenSeq(u) = a \o b
      BY <2>1, <2>3
    <3> HIDE DEF u, a, b
    <3>2. FlattenSeq(Append(u, t)) = FlattenSeq(u) \o t
      BY <2>1, <3>1, FlatAppend
    <3> QED BY <3>1, <3>2 DEF u
  <2>5. Append(ss \o tt, t) = ss \o Append(tt, t)
    <3> HIDE DEF E
    <3> DEFINE u == ss \o tt
    <3>0. u \in Seq(E) /\ t \in E /\ tt \in Seq(E)
      BY <2>3
    <3>1. Append(u, t) = u \o <<t>> /\ Append(tt, t) = tt \o <<t>> /\ <<t>> \in Seq(E)
      <4> HIDE DEF u
      <4> QED BY <3>0, AppendIsConcat
    <3>2. (ss \o tt) \o <<t>> = ss \o (tt \o <<t>>)
      BY <1>0, <3>1, ConcatAssociative
    <3> QED BY <3>1, <3>2
  <2>6. (a \o b) \o t = a \o (b \o t)
    <3> HIDE DEF a, b
    <3> QED BY <2>1, ConcatAssociative, SMTT(60)
  <2>7. Append(tt, t) \in Seq(E)
    <3> HIDE DEF E
    <3> QED BY AppendProperties
  <2> QED BY <2>2, <2>4, <2>5, <2>6, <2>7
<1>3. \A tt \in Seq(E) : tt \in T
  <2> HIDE DEF E, T
  <2> QED BY <1>1, <1>2, SeqInduction
<1> QED BY <1>3

-----------------------------------------------------------------------------
(* Concatenated images of the elements of a sequence.                       *)

\* The images of Q's elements under F, one after the other.
IsMap(F, D, E) == F \in [D -> E]
Over(F, Q) == [i \in 1..Len(Q) |-> F[Q[i]]]
Joined(F, Q) == FlattenSeq(Over(F, Q))

\* One image for each element ...
LEMMA OverFacts ==
    ASSUME NEW D, NEW E, NEW F, IsMap(F, D, E), NEW Q \in Seq(D)
    PROVE  /\ Over(F, Q) \in Seq(E)
           /\ Len(Over(F, Q)) = Len(Q)
           /\ \A i \in 1..Len(Q) : Over(F, Q)[i] = F[Q[i]]
<1> DEFINE n == Len(Q)
<1>1. n \in Nat /\ \A i \in 1..n : Q[i] \in D
  BY LenProperties, ElementOfSeq
<1>2. \A i \in 1..n : F[Q[i]] \in E
  BY <1>1 DEF IsMap
<1>3. Over(F, Q) = [i \in 1..n |-> F[Q[i]]]
  BY DEF Over
<1> HIDE DEF n
<1>4. Over(F, Q) \in [1..n -> E]
  BY <1>2, <1>3
<1>5. Over(F, Q) \in Seq(E) /\ Len(Over(F, Q)) = n
  BY <1>1, <1>4, SeqDef
<1>6. \A i \in 1..n : Over(F, Q)[i] = F[Q[i]]
  BY <1>3
<1> QED BY <1>5, <1>6 DEF n

\* ... and the images of two sequences are one behind the other.
LEMMA OverConcat ==
    ASSUME NEW D, NEW E, NEW F, IsMap(F, D, E), NEW P \in Seq(D), NEW Q \in Seq(D)
    PROVE  Over(F, P \o Q) = Over(F, P) \o Over(F, Q)
<1> DEFINE R == P \o Q
           a == Over(F, P)
           b == Over(F, Q)
           l == Over(F, R)
           r == a \o b
<1>1. R \in Seq(D) /\ Len(R) = Len(P) + Len(Q) /\ Len(P) \in Nat /\ Len(Q) \in Nat
      /\ \A i \in 1..(Len(P) + Len(Q)) : R[i] = IF i <= Len(P) THEN P[i] ELSE Q[i - Len(P)]
  BY ConcatProperties, LenProperties
<1> HIDE DEF R
<1>2. a \in Seq(E) /\ Len(a) = Len(P) /\ \A i \in 1..Len(P) : a[i] = F[P[i]]
  BY OverFacts
<1>3. b \in Seq(E) /\ Len(b) = Len(Q) /\ \A i \in 1..Len(Q) : b[i] = F[Q[i]]
  BY OverFacts
<1>4. l \in Seq(E) /\ Len(l) = Len(R) /\ \A i \in 1..Len(R) : l[i] = F[R[i]]
  BY <1>1, OverFacts
<1> HIDE DEF a, b, l
<1>5. r \in Seq(E) /\ Len(r) = Len(a) + Len(b)
      /\ \A i \in 1..(Len(a) + Len(b)) : r[i] = IF i <= Len(a) THEN a[i] ELSE b[i - Len(a)]
  BY <1>2, <1>3, ConcatProperties, ZenonT(60)
<1> HIDE DEF r
<1>6. Len(l) = Len(r)
  BY <1>1, <1>2, <1>3, <1>4, <1>5
<1>7. ASSUME NEW i \in 1..Len(l) PROVE l[i] = r[i]
  <2>0. i \in 1..(Len(P) + Len(Q))
    BY <1>1, <1>4
  <2>1. CASE i <= Len(P)
    <3>1. i \in 1..Len(P)
      BY <1>1, <2>0, <2>1
    <3>2. R[i] = P[i] /\ l[i] = F[R[i]] /\ a[i] = F[P[i]]
      BY <1>1, <1>2, <1>4, <2>0, <2>1, <3>1
    <3>3. r[i] = a[i]
      BY <1>2, <1>3, <1>5, <2>0, <2>1
    <3> QED BY <3>2, <3>3
  <2>2. CASE i > Len(P)
    <3> DEFINE j == i - Len(P)
    <3>1. j \in 1..Len(Q) /\ ~(i <= Len(P))
      BY <1>1, <2>0, <2>2
    <3>2. R[i] = Q[j] /\ r[i] = b[j]
      BY <1>1, <1>2, <1>3, <1>5, <2>0, <3>1
    <3> HIDE DEF j
    <3> QED BY <1>1, <1>3, <1>4, <2>0, <3>1, <3>2
  <2> QED BY <1>1, <2>0, <2>1, <2>2
<1>8. l = r
  BY <1>4, <1>5, <1>6, <1>7, SeqEqual
<1> QED BY <1>8 DEF l, r, a, b, R

\* So the images of a whole are joined from the images of its parts.
LEMMA JoinedFacts ==
    ASSUME NEW D, NEW S, NEW F, IsMap(F, D, Seq(S))
    PROVE  /\ Joined(F, <<>>) = <<>>
           /\ \A r \in D : Joined(F, <<r>>) = F[r]
           /\ \A P \in Seq(D) : Joined(F, P) \in Seq(S)
           /\ \A P, Q \in Seq(D) : Joined(F, P \o Q) = Joined(F, P) \o Joined(F, Q)
<1>1. Joined(F, <<>>) = <<>>
  <2>1. Over(F, <<>>) = <<>>
    BY DEF Over
  <2> QED BY <2>1, EmptySeq, FlatFacts DEF Joined
<1>2. ASSUME NEW r \in D PROVE Joined(F, <<r>>) = F[r]
  <2>1. Over(F, <<r>>) = <<F[r]>>
    BY DEF Over
  <2>2. F[r] \in Seq(S) /\ <<>> \in Seq(Seq(S))
    BY EmptySeq DEF IsMap
  <2> QED BY <2>1, <2>2, FlatFacts DEF Joined
<1>3. ASSUME NEW P \in Seq(D) PROVE Joined(F, P) \in Seq(S)
  <2>1. Over(F, P) \in Seq(Seq(S))
    BY OverFacts
  <2> QED BY <2>1, FlatType DEF Joined
<1>4. ASSUME NEW P \in Seq(D), NEW Q \in Seq(D) PROVE Joined(F, P \o Q) = Joined(F, P) \o Joined(F, Q)
  <2>1. Over(F, P) \in Seq(Seq(S)) /\ Over(F, Q) \in Seq(Seq(S))
    BY OverFacts
  <2>2. Over(F, P \o Q) = Over(F, P) \o Over(F, Q)
    BY OverConcat
  <2>3. FlattenSeq(Over(F, P) \o Over(F, Q)) = FlattenSeq(Over(F, P)) \o FlattenSeq(Over(F, Q))
    BY <2>1, FlatConcat
  <2> QED BY <2>2, <2>3 DEF Joined
<1> QED BY <1>1, <1>2, <1>3, <1>4

-----------------------------------------------------------------------------
(* What the runner sends: Output records, and an Exit at the end.           *)

Data == {p \in Seq(Octet) : Len(p) <= MaxPayload}
OutputRecord == {WithBytes("output", p) : p \in Data}
ExitRecord == {WithExit(e) : e \in ExitStatuses}
Sent == OutputRecord \cup ExitRecord

\* An Output record is legal and fits.
LEMMA OutputFacts ==
    ASSUME NEW r \in OutputRecord
    PROVE  /\ r.kind = "output" /\ r.bytes \in Seq(Octet)
           /\ r \in LegalRecord /\ Encodable(r)
<1>1. PICK p \in Data : r = WithBytes("output", p)
  BY DEF OutputRecord
<1>2. p \in Seq(Octet) /\ Len(p) <= MaxPayload
  BY DEF Data
<1>3. r.kind = "output" /\ r.bytes = p
  BY <1>1 DEF WithBytes
<1>4. r \in LegalRecord
  <2>1. r \in [kind : {"input", "output"}, bytes : Seq(Octet)]
    BY <1>1, <1>2 DEF WithBytes
  <2> QED BY <2>1 DEF LegalRecord
<1>5. Payload(r) = p
  BY <1>3, PayloadCases
<1> QED BY <1>2, <1>3, <1>4, <1>5 DEF Encodable

\* So is the Exit record.
LEMMA ExitFacts ==
    ASSUME NEW r \in ExitRecord
    PROVE  /\ r.kind = "exit" /\ r.status \in ExitStatuses
           /\ r \in LegalRecord /\ Encodable(r)
<1>1. PICK e \in ExitStatuses : r = WithExit(e)
  BY DEF ExitRecord
<1>3. r.kind = "exit" /\ r.status = e
  BY <1>1 DEF WithExit
<1>4. r \in LegalRecord
  <2>1. r \in [kind : {"exit"}, status : ExitStatuses]
    BY <1>1 DEF WithExit
  <2> QED BY <2>1 DEF LegalRecord
<1>5. Payload(r) = <<e.reason, e.value>>
  BY <1>3, PayloadCases
<1>6. Len(<<e.reason, e.value>>) = 2
  OBVIOUS
<1>7. MaxPayload \in Nat /\ MaxPayload >= 4
  BY IpcAssumption
<1> QED BY <1>3, <1>4, <1>5, <1>6, <1>7 DEF Encodable

\* Every record the runner sends can be encoded, in at most one full buffer.
LEMMA SentFacts ==
    ASSUME NEW r \in Sent
    PROVE  /\ r \in LegalRecord /\ Encodable(r)
           /\ Encode(r) \in Seq(Octet) /\ Len(Encode(r)) >= 5 /\ Len(Encode(r)) <= MaxRecord
           /\ r # Nothing /\ r # Invalid
<1>1. r \in LegalRecord /\ Encodable(r) /\ (r.kind = "output" \/ r.kind = "exit")
  BY OutputFacts, ExitFacts DEF Sent
<1>2. r # Nothing /\ r # Invalid
  <2>1. Nothing.kind = "none" /\ Invalid.kind = "error"
    BY DEF Nothing, Invalid, Bare
  <2> QED BY <1>1, <2>1
<1> DEFINE k == KindByte[r.kind]
           p == Payload(r)
<1>3. k \in 1..6 /\ p \in Seq(Octet) /\ Len(p) <= MaxPayload
  BY <1>1, PayloadFacts DEF Encodable
<1>4. Encode(r) = Frame(k, p)
  BY EncodeIsFrame
<1> HIDE DEF k, p
<1>5. k \in Octet
  BY <1>3 DEF Octet
<1>6. Frame(k, p) \in Seq(Octet) /\ Len(Frame(k, p)) = 5 + Len(p)
  <2>1. <<>> \in Seq(Octet)
    BY EmptySeq
  <2> QED BY <1>3, <1>5, <2>1, FrameFacts
<1>7. Len(p) \in Nat /\ MaxPayload \in Nat
  BY <1>3, LenProperties, IpcAssumption
<1> QED BY <1>1, <1>2, <1>3, <1>4, <1>6, <1>7 DEF MaxRecord, HeaderBytes

\* A function on 1..n is a sequence.
LEMMA FunctionIsSeq ==
    ASSUME NEW S, NEW n \in Nat, NEW f \in [1..n -> S]
    PROVE  f \in Seq(S)
BY SeqDef

\* Opaque names for facts about concatenations, which the provers match as such.
Assoc(a, b, c) == a \o (b \o c) = (a \o b) \o c
SameParts(s, t, u, v) == s \o t = u \o v
Between(S, s, t, u, v) == \E w \in Seq(S) : s = u \o w /\ w \o t = v

\* What a concatenation holds.
LEMMA JoinAny ==
    ASSUME NEW S, NEW s \in Seq(S), NEW t \in Seq(S)
    PROVE  /\ s \o t \in Seq(S)
           /\ Len(s \o t) = Len(s) + Len(t)
           /\ \A i \in 1..Len(s) : (s \o t)[i] = s[i]
           /\ \A i \in 1..Len(t) : (s \o t)[Len(s) + i] = t[i]
<1>1. Len(s) \in Nat /\ Len(t) \in Nat
  BY LenProperties
<1> QED BY <1>1, ConcatProperties

\* Concatenation is associative, for sequences of anything ...
LEMMA AssocAny ==
    ASSUME NEW S
    PROVE  \A s, t, u \in Seq(S) : (s \o t) \o u = s \o (t \o u)
BY ConcatAssociative, SMTT(60)

LEMMA AssocAt ==
    ASSUME NEW S, NEW s \in Seq(S), NEW t \in Seq(S), NEW u \in Seq(S)
    PROVE  Assoc(s, t, u)
<1>1. (s \o t) \o u = s \o (t \o u)
  BY ConcatAssociative, SMTT(60)
<1> QED BY <1>1, Zenon DEF Assoc

\* Two ways to cut the same sequence in two.
LEMMA CutTwice ==
    ASSUME NEW S, NEW s \in Seq(S), NEW t \in Seq(S), NEW u \in Seq(S), NEW v \in Seq(S),
           SameParts(s, t, u, v)
    PROVE  /\ Len(s) < Len(u) => s = SubSeq(u, 1, Len(s))
           /\ Len(s) >= Len(u) => Between(S, s, t, u, v)
<1>0. Len(s) \in Nat /\ Len(t) \in Nat /\ Len(u) \in Nat /\ Len(v) \in Nat
  BY LenProperties
<1> DEFINE c == s \o t
           d == u \o v
<1>1. /\ c \in Seq(S) /\ Len(c) = Len(s) + Len(t)
      /\ \A i \in 1..Len(s) : c[i] = s[i]
      /\ \A i \in 1..Len(t) : c[Len(s) + i] = t[i]
  BY JoinAny, LenProperties
<1>2. /\ d \in Seq(S) /\ Len(d) = Len(u) + Len(v)
      /\ \A i \in 1..Len(u) : d[i] = u[i]
      /\ \A i \in 1..Len(v) : d[Len(u) + i] = v[i]
  BY JoinAny, LenProperties
<1>3. c = d
  BY DEF SameParts
<1> HIDE DEF c, d
<1>4. (\A i \in 1..Len(s) : s[i] \in S) /\ (\A i \in 1..Len(u) : u[i] \in S)
  BY ElementOfSeq
<1>5. ASSUME Len(s) < Len(u) PROVE s = SubSeq(u, 1, Len(s))
  <2> DEFINE q == SubSeq(u, 1, Len(s))
             n == Len(s)
  <2>1. n \in Nat /\ \A i \in 1..n : u[i] \in S
    BY <1>0, <1>4, <1>5
  <2>2. q \in Seq(S) /\ Len(q) = n /\ \A i \in 1..n : q[i] = u[i]
    <3>1. 1 \in Int /\ n \in Int
      BY <2>1
    <3>2. q = SubSeq(u, 1, n)
      OBVIOUS
    <3> HIDE DEF n, q
    <3>3. /\ q \in Seq(S)
          /\ Len(q) = IF 1 <= n THEN n - 1 + 1 ELSE 0
          /\ \A i \in 1..(n - 1 + 1) : q[i] = u[1 + i - 1]
      BY <2>1, <3>1, <3>2, SubSeqProperties
    <3> QED BY <2>1, <3>3
  <2> HIDE DEF q
  <2>3. \A i \in 1..n : s[i] = q[i]
    BY <1>0, <1>1, <1>2, <1>3, <1>5, <2>2
  <2>4. s = q
    BY <2>2, <2>3, SeqEqual
  <2> QED BY <2>4 DEF q
<1>6. ASSUME Len(s) >= Len(u) PROVE \E w \in Seq(S) : s = u \o w /\ w \o t = v
  <2> DEFINE m == Len(u)
             n == Len(s)
             w == SubSeq(s, m + 1, n)
  <2>1. m \in Nat /\ n \in Nat /\ m <= n /\ \A i \in (m + 1)..n : s[i] \in S
    BY <1>0, <1>4, <1>6
  <2>2. w \in Seq(S) /\ Len(w) = n - m /\ \A i \in 1..(n - m) : w[i] = s[m + i]
    <3>1. m + 1 \in Int /\ n \in Int
      BY <2>1
    <3>2. w = SubSeq(s, m + 1, n)
      OBVIOUS
    <3> HIDE DEF n, w, m
    <3>3. /\ w \in Seq(S)
          /\ Len(w) = IF m + 1 <= n THEN n - (m + 1) + 1 ELSE 0
          /\ \A i \in 1..(n - (m + 1) + 1) : w[i] = s[(m + 1) + i - 1]
      BY <2>1, <3>1, <3>2, SubSeqProperties
    <3> QED BY <2>1, <3>3
  <2> HIDE DEF w
  <2> DEFINE e == u \o w
  <2>3. /\ e \in Seq(S) /\ Len(e) = Len(u) + Len(w)
        /\ \A i \in 1..Len(u) : e[i] = u[i]
        /\ \A i \in 1..Len(w) : e[Len(u) + i] = w[i]
    BY <2>2, JoinAny
  <2> HIDE DEF e
  <2>4. Len(e) = Len(s)
    BY <1>0, <2>2, <2>3
  <2>5. ASSUME NEW i \in 1..Len(s) PROVE s[i] = e[i]
    <3>1. CASE i <= m
      <4>1. i \in 1..Len(u) /\ i \in 1..Len(s)
        BY <2>1, <3>1
      <4> QED BY <1>1, <1>2, <1>3, <2>3, <4>1
    <3>2. CASE i > m
      <4> DEFINE j == i - m
      <4>1. j \in 1..(n - m) /\ i = m + j
        BY <2>1, <3>2
      <4> HIDE DEF j
      <4> QED BY <2>2, <2>3, <4>1
    <3> QED BY <2>1, <3>1, <3>2
  <2>6. s = e
    BY <2>3, <2>4, <2>5, SeqEqual
  <2>7. u \o (w \o t) = u \o v
    <3>1. (u \o w) \o t = u \o (w \o t)
      <4>1. Assoc(u, w, t)
        BY <2>2, AssocAt
      <4> QED BY <4>1, Zenon DEF Assoc
    <3>2. s \o t = u \o v
      BY <1>3 DEF c, d
    <3> QED BY <2>6, <3>1, <3>2 DEF e
  <2>8. w \o t = v
    <3> DEFINE x == w \o t
    <3>1. x \in Seq(S) /\ u \o x = u \o v
      BY <2>2, <2>7, JoinAny
    <3> HIDE DEF x
    <3>2. x = v
      BY <3>1, ConcatSimplifications
    <3> QED BY <3>2 DEF x
  <2> QED BY <2>2, <2>6, <2>8 DEF e
<1> QED BY <1>5, <1>6 DEF Between

\* The decoder in the middle of a stream that starts with r: it has r and
\* leaves what is behind it, or it waits for the rest of r.
LEMMA DecodeStream ==
    ASSUME NEW r \in Sent, NEW b \in Seq(Octet), NEW rest \in Seq(Octet), NEW more \in Seq(Octet),
           b \o rest = Encode(r) \o more
    PROVE  \/ Len(b) < Len(Encode(r)) /\ DecoderNext(b) = Nothing
           \/ /\ DecoderNext(b) = r /\ DecoderRest(b) \in Seq(Octet)
              /\ DecoderRest(b) \o rest = more
<1> DEFINE e == Encode(r)
<1>1. r \in LegalRecord /\ Encodable(r) /\ e \in Seq(Octet)
  BY SentFacts
<1>2. Len(e) \in Nat /\ Len(b) \in Nat
  BY <1>1, LenProperties
<1>3. CASE Len(b) < Len(e)
  <2>1. b = SubSeq(e, 1, Len(b))
    <3>1. SameParts(b, rest, e, more)
      BY DEF SameParts
    <3> HIDE DEF e
    <3> QED BY <1>1, <1>3, <3>1, CutTwice
  <2>2. Len(b) \in 0..(Len(e) - 1)
    BY <1>2, <1>3
  <2>3. CutOff(r)
    BY <1>1, CodecCutOff
  <2> QED BY <1>3, <2>1, <2>2, <2>3 DEF CutOff
<1>4. CASE Len(b) >= Len(e)
  <2>1. PICK w \in Seq(Octet) : b = e \o w /\ w \o rest = more
    <3>1. SameParts(b, rest, e, more)
      BY DEF SameParts
    <3> HIDE DEF e
    <3>2. Between(Octet, b, rest, e, more)
      BY <1>1, <1>4, <3>1, CutTwice
    <3> QED BY <3>2 DEF Between
  <2>2. RoundTrip(r, w)
    BY <1>1, CodecRoundTrip
  <2>3. DecoderNext(b) = r /\ DecoderRest(b) = w
    BY <2>1, <2>2 DEF RoundTrip
  <2> QED BY <2>1, <2>3
<1> QED BY <1>2, <1>3, <1>4

\* Where piece i ends, and the bytes up to there.
End(s, i) == IF i * MaxPayload < Len(s) THEN i * MaxPayload ELSE Len(s)
Count(s) == (Len(s) + MaxPayload - 1) \div MaxPayload
FirstPieces(s, k) == [i \in 1..k |-> Piece(s, i)]

\* The pieces end where the next begin, and the last one at the end.
LEMMA CountFacts ==
    ASSUME NEW s \in Seq(Octet)
    PROVE  /\ MaxPayload \in Nat /\ MaxPayload >= 4 /\ Len(s) \in Nat
           /\ Count(s) \in Nat
           /\ End(s, 0) = 0 /\ End(s, Count(s)) = Len(s)
           /\ \A i \in 1..Count(s) :
                /\ End(s, i) \in 0..Len(s)
                /\ End(s, i - 1) = (i - 1) * MaxPayload
                /\ End(s, i - 1) < End(s, i)
                /\ End(s, i) <= End(s, i - 1) + MaxPayload
<1> DEFINE M == MaxPayload
           L == Len(s)
           n == Count(s)
<1>1. M \in Nat /\ M >= 4 /\ L \in Nat
  BY IpcAssumption, LenProperties
<1>2. n = (L + M - 1) \div M
  BY DEF Count
<1>3. \A i : End(s, i) = IF i * M < L THEN i * M ELSE L
  BY DEF End
<1> HIDE DEF M, L, n
<1>4. n \in Nat
  BY <1>1, <1>2, SMTT(60)
<1>5. n * M >= L
  BY <1>1, <1>2, SMTT(60)
<1>6. n * M <= L + M - 1
  BY <1>1, <1>2, SMTT(60)
<1>7. 0 * M = 0 /\ n * M \in Nat
  BY <1>1, <1>4, SMTT(60)
<1>8. End(s, 0) = 0 /\ End(s, n) = L
  <2>1. End(s, 0) = 0
    BY <1>1, <1>3, <1>7
  <2>2. ~(n * M < L)
    BY <1>1, <1>5, <1>7
  <2> QED BY <1>3, <2>1, <2>2
<1>9. ASSUME NEW i \in 1..n
      PROVE  /\ End(s, i) \in 0..L
             /\ End(s, i - 1) = (i - 1) * M
             /\ End(s, i - 1) < End(s, i)
             /\ End(s, i) <= End(s, i - 1) + M
  <2> DEFINE x == i * M
             y == (i - 1) * M
             z == n * M
  <2>1. i \in Nat /\ i <= n
    BY <1>4
  <2>2. x \in Nat /\ y = x - M /\ x <= z /\ z \in Nat /\ y \in Nat
    BY <1>1, <1>4, <2>1, SMTT(60)
  <2>3. End(s, i) = (IF x < L THEN x ELSE L) /\ End(s, i - 1) = (IF y < L THEN y ELSE L)
    BY <1>3
  <2>4. z <= L + M - 1
    BY <1>6
  <2> HIDE DEF x, y, z
  <2>5. y < L
    BY <1>1, <2>2, <2>4
  <2>6. End(s, i - 1) = y
    BY <2>3, <2>5
  <2> QED BY <1>1, <2>2, <2>3, <2>5, <2>6 DEF y
<1> QED BY <1>1, <1>4, <1>8, <1>9 DEF M, L, n

\* A piece is a payload that fits.
LEMMA PieceFacts ==
    ASSUME NEW s \in Seq(Octet), NEW i \in 1..Count(s)
    PROVE  /\ Piece(s, i) = SubSeq(s, End(s, i - 1) + 1, End(s, i))
           /\ Piece(s, i) \in Data
<1> DEFINE a == End(s, i - 1)
           b == End(s, i)
           p == Piece(s, i)
<1>0. Count(s) \in Nat /\ i \in Nat
  BY CountFacts
<1>1. /\ MaxPayload \in Nat /\ MaxPayload >= 4 /\ Len(s) \in Nat
      /\ b \in 0..Len(s) /\ a = (i - 1) * MaxPayload /\ a < b /\ b <= a + MaxPayload
  BY CountFacts
<1>2. a \in Nat
  <2>1. (i - 1) * MaxPayload \in Nat
    BY <1>0, <1>1, SMTT(60)
  <2> QED BY <1>1, <2>1
<1>3. p = SubSeq(s, a + 1, b)
  BY <1>1 DEF Piece, End
<1> HIDE DEF a, b, p
<1>4. \A j \in (a + 1)..b : s[j] \in Octet
  <2>1. \A j \in 1..Len(s) : s[j] \in Octet
    BY ElementOfSeq
  <2>2. \A j \in (a + 1)..b : j \in 1..Len(s)
    BY <1>1, <1>2
  <2> QED BY <2>1, <2>2
<1>5. p \in Seq(Octet) /\ Len(p) = IF a + 1 <= b THEN b - (a + 1) + 1 ELSE 0
  <2>1. a + 1 \in Int /\ b \in Int
    BY <1>1, <1>2
  <2> QED BY <1>3, <1>4, <2>1, Slice
<1>6. Len(p) <= MaxPayload
  BY <1>1, <1>2, <1>5
<1> QED BY <1>3, <1>5, <1>6 DEF Data, a, b, p

\* chunks(): the pieces hold the bytes, in order and each of them once.
LEMMA PiecesJoin ==
    ASSUME NEW s \in Seq(Octet)
    PROVE  /\ Pieces(s) \in Seq(Data)
           /\ FlattenSeq(Pieces(s)) = s
<1> DEFINE n == Count(s)
           T == {k \in 0..n : FlattenSeq(FirstPieces(s, k)) = SubSeq(s, 1, End(s, k))}
<1>0. /\ n \in Nat /\ Len(s) \in Nat /\ End(s, 0) = 0 /\ End(s, n) = Len(s)
      /\ \A i \in 1..n : End(s, i) \in 0..Len(s) /\ End(s, i - 1) < End(s, i)
  BY CountFacts
<1>a. \A i \in 1..n : Piece(s, i) \in Data /\ Piece(s, i) = SubSeq(s, End(s, i - 1) + 1, End(s, i))
  BY PieceFacts
<1> HIDE DEF n
<1>b. ASSUME NEW k \in 0..n PROVE FirstPieces(s, k) \in Seq(Data) /\ Len(FirstPieces(s, k)) = k
  <2> DEFINE f == FirstPieces(s, k)
  <2>1. k \in Nat /\ \A i \in 1..k : Piece(s, i) \in Data
    BY <1>0, <1>a
  <2>2. f = [i \in 1..k |-> Piece(s, i)]
    BY DEF FirstPieces
  <2> HIDE DEF f
  <2>3. f \in [1..k -> Data]
    BY <2>1, <2>2
  <2> QED BY <2>1, <2>3, SeqDef DEF f
<1>c. \A ss : ss \in Seq(Data) => ss \in Seq(Seq(Octet))
  <2>1. Data \subseteq Seq(Octet)
    BY DEF Data
  <2> QED BY <2>1, SeqMonotonic
<1>1. FlattenSeq(FirstPieces(s, 0)) = SubSeq(s, 1, End(s, 0))
  <2>1. FirstPieces(s, 0) = <<>>
    BY DEF FirstPieces
  <2>2. FlattenSeq(<<>>) = <<>>
    BY EmptySeq, FlatFacts
  <2>3. SubSeq(s, 1, 0) = <<>>
    BY SubSeqEmpty
  <2> QED BY <1>0, <2>1, <2>2, <2>3
<1>2. ASSUME NEW k \in Nat, k + 1 \in 0..n, FlattenSeq(FirstPieces(s, k)) = SubSeq(s, 1, End(s, k))
      PROVE  FlattenSeq(FirstPieces(s, k + 1)) = SubSeq(s, 1, End(s, k + 1))
  <2> DEFINE f == FirstPieces(s, k)
             g == FirstPieces(s, k + 1)
             p == Piece(s, k + 1)
             a == End(s, k)
             b == End(s, k + 1)
  <2>1. k \in 0..n /\ k + 1 \in 1..n /\ (k + 1) - 1 = k
    BY <1>0, <1>2
  <2>2. /\ f \in Seq(Data) /\ Len(f) = k /\ g \in Seq(Data) /\ Len(g) = k + 1
        /\ p \in Data /\ p = SubSeq(s, a + 1, b)
    BY <1>a, <1>b, <2>1
  <2>3. (\A i \in 1..k : g[i] = f[i]) /\ g[k + 1] = p
    BY DEF FirstPieces
  <2>4. a \in 0..Len(s) /\ b \in 0..Len(s) /\ a < b
    <3>1. b \in 0..Len(s) /\ a < b
      BY <1>0, <2>1
    <3>2. a \in 0..Len(s)
      <4>1. CASE k = 0
        BY <1>0, <4>1
      <4>2. CASE k # 0
        <5>1. k \in 1..n
          BY <2>1, <4>2
        <5> QED BY <1>0, <5>1
      <4> QED BY <4>1, <4>2
    <3> QED BY <3>1, <3>2
  <2>5. FlattenSeq(f) = SubSeq(s, 1, a)
    BY <1>2
  <2> HIDE DEF f, g, p, a, b
  <2>6. g = Append(f, p)
    <3> DEFINE h == Append(f, p)
    <3>1. h \in Seq(Data) /\ Len(h) = Len(f) + 1 /\ (\A i \in 1..Len(f) : h[i] = f[i]) /\ h[Len(f) + 1] = p
      <4>1. f \in Seq(Data) /\ p \in Data
        BY <2>2
      <4>2. h = Append(f, p)
        OBVIOUS
      <4> HIDE DEF h
      <4> QED BY <4>1, <4>2, AppendProperties
    <3> HIDE DEF h
    <3>2. ASSUME NEW i \in 1..(k + 1) PROVE g[i] = h[i]
      <4>1. i \in 1..k \/ i = k + 1
        OBVIOUS
      <4>2. Len(f) = k
        BY <2>2
      <4> QED BY <2>3, <3>1, <4>1, <4>2
    <3>3. g = h
      BY <2>2, <3>1, <3>2, SeqEqual
    <3> QED BY <3>3 DEF h
  <2>7. f \in Seq(Seq(Octet)) /\ p \in Seq(Octet) /\ FlattenSeq(f) \in Seq(Octet)
    <3>1. f \in Seq(Seq(Octet)) /\ p \in Seq(Octet)
      BY <1>c, <2>2 DEF Data
    <3> QED BY <3>1, FlatType
  <2>8. FlattenSeq(g) = FlattenSeq(f) \o p
    BY <2>6, <2>7, FlatAppend
  <2>9. SubSeq(s, 1, a) \o SubSeq(s, a + 1, b) = SubSeq(s, 1, b)
    <3>1. 1 \in 1..(Len(s) + 1) /\ a \in (1 - 1)..Len(s) /\ b \in a..Len(s)
      BY <1>0, <2>4
    <3> QED BY <3>1, ConcatAdjacentSubSeq
  <2> QED BY <2>2, <2>5, <2>8, <2>9 DEF g, b
<1>3. \A k \in Nat : k \in 0..n => FlattenSeq(FirstPieces(s, k)) = SubSeq(s, 1, End(s, k))
  <2> DEFINE U == {k \in Nat : k \in 0..n => FlattenSeq(FirstPieces(s, k)) = SubSeq(s, 1, End(s, k))}
  <2>1. 0 \in U
    BY <1>1
  <2>2. ASSUME NEW k \in Nat, k \in U PROVE k + 1 \in U
    <3> SUFFICES ASSUME k + 1 \in 0..n PROVE FlattenSeq(FirstPieces(s, k + 1)) = SubSeq(s, 1, End(s, k + 1))
      OBVIOUS
    <3>1. k \in 0..n
      BY <1>0
    <3>2. FlattenSeq(FirstPieces(s, k)) = SubSeq(s, 1, End(s, k))
      BY <2>2, <3>1
    <3> QED BY <1>2, <3>2
  <2> HIDE DEF U
  <2>3. \A k \in Nat : k \in U
    BY <2>1, <2>2, SetInduction, Zenon
  <2> QED BY <2>3 DEF U
<1>4. Pieces(s) = FirstPieces(s, n)
  BY DEF Pieces, FirstPieces, n, Count
<1>5. n \in 0..n
  BY <1>0
<1>6. SubSeq(s, 1, Len(s)) = s
  BY SubSeqFull
<1>7. FlattenSeq(FirstPieces(s, n)) = SubSeq(s, 1, End(s, n))
  BY <1>0, <1>3, <1>5
<1> QED BY <1>0, <1>b, <1>4, <1>5, <1>6, <1>7

\* The bytes of records on the wire, and the output in them.
CodeOf == [r \in Sent |-> Encode(r)]
TextOf == [r \in Sent |-> IF r \in OutputRecord THEN r.bytes ELSE <<>>]
Code(Q) == Joined(CodeOf, Q)
Text(Q) == Joined(TextOf, Q)

\* Records in sequence: their bytes, and their output.
LEMMA CodeFacts ==
    /\ Code(<<>>) = <<>> /\ Text(<<>>) = <<>>
    /\ \A r \in Sent : Code(<<r>>) = Encode(r) /\ Text(<<r>>) = TextOf[r]
    /\ \A Q \in Seq(Sent) : Code(Q) \in Seq(Octet) /\ Text(Q) \in Seq(Octet)
    /\ \A P, Q \in Seq(Sent) : Code(P \o Q) = Code(P) \o Code(Q) /\ Text(P \o Q) = Text(P) \o Text(Q)
<1>1. IsMap(CodeOf, Sent, Seq(Octet))
  BY SentFacts DEF IsMap, CodeOf
<1>2. IsMap(TextOf, Sent, Seq(Octet))
  <2>1. \A r \in Sent : (IF r \in OutputRecord THEN r.bytes ELSE <<>>) \in Seq(Octet)
    BY OutputFacts, EmptySeq
  <2> QED BY <2>1 DEF IsMap, TextOf
<1>3. \A r \in Sent : CodeOf[r] = Encode(r)
  BY DEF CodeOf
<1>4. /\ Code(<<>>) = <<>>
      /\ \A r \in Sent : Code(<<r>>) = CodeOf[r]
      /\ \A Q \in Seq(Sent) : Code(Q) \in Seq(Octet)
      /\ \A P, Q \in Seq(Sent) : Code(P \o Q) = Code(P) \o Code(Q)
  BY <1>1, JoinedFacts DEF Code
<1>5. /\ Text(<<>>) = <<>>
      /\ \A r \in Sent : Text(<<r>>) = TextOf[r]
      /\ \A Q \in Seq(Sent) : Text(Q) \in Seq(Octet)
      /\ \A P, Q \in Seq(Sent) : Text(P \o Q) = Text(P) \o Text(Q)
  BY <1>2, JoinedFacts DEF Text
<1> QED BY <1>3, <1>4, <1>5, Zenon

\* The first record of a stream.
LEMMA CodeFirst ==
    ASSUME NEW Q \in Seq(Sent), Q # <<>>
    PROVE  /\ Q[1] \in Sent /\ Tail(Q) \in Seq(Sent) /\ Q = <<Q[1]>> \o Tail(Q)
           /\ Code(Q) = Encode(Q[1]) \o Code(Tail(Q))
<1>1. Len(Q) \in Nat \ {0}
  BY EmptySeq
<1>2. Q[1] \in Sent
  <2>1. 1 \in 1..Len(Q)
    BY <1>1
  <2> QED BY <2>1, ElementOfSeq
<1>3. Tail(Q) \in Seq(Sent) /\ Len(Tail(Q)) = Len(Q) - 1 /\ \A i \in 1..Len(Tail(Q)) : Tail(Q)[i] = Q[i + 1]
  BY HeadTailProperties
<1>4. Q = <<Q[1]>> \o Tail(Q)
  <2>1. SubSeq(Q, 1, Len(Q)) = <<Q[1]>> \o SubSeq(Q, 1 + 1, Len(Q))
    <3>1. 1 \in 1..Len(Q) /\ Len(Q) \in 1..Len(Q)
      BY <1>1
    <3> QED BY <3>1, SubSeqRecursiveFirst
  <2>2. SubSeq(Q, 1, Len(Q)) = Q
    BY SubSeqFull
  <2>3. Tail(Q) = SubSeq(Q, 2, Len(Q))
    BY TailIsSubSeq
  <2>4. 1 + 1 = 2
    OBVIOUS
  <2> QED BY <2>1, <2>2, <2>3, <2>4
<1>5. <<Q[1]>> \in Seq(Sent)
  BY <1>2
<1>6. Code(<<Q[1]>> \o Tail(Q)) = Code(<<Q[1]>>) \o Code(Tail(Q))
  BY <1>3, <1>5, CodeFacts, Zenon
<1>7. Code(<<Q[1]>>) = Encode(Q[1])
  BY <1>2, CodeFacts, Zenon
<1>8. Code(Q) = Code(<<Q[1]>> \o Tail(Q))
  BY <1>4, Zenon
<1> QED BY <1>2, <1>3, <1>4, <1>6, <1>7, <1>8, Zenon

\* enqueue_output: Output records with the bytes, and no other record.
LEMMA WireFacts ==
    ASSUME NEW s \in Seq(Octet)
    PROVE  \E Q \in Seq(OutputRecord) : Wire(s) = Code(Q) /\ Text(Q) = s
<1> DEFINE P == Pieces(s)
           n == Len(P)
           Q == [i \in 1..n |-> WithBytes("output", P[i])]
<1>1. P \in Seq(Data) /\ FlattenSeq(P) = s
  BY PiecesJoin
<1> HIDE DEF P
<1>2. n \in Nat /\ P = [i \in 1..n |-> P[i]] /\ \A i \in 1..n : P[i] \in Data
  BY <1>1, LenProperties, ElementOfSeq
<1> HIDE DEF n
<1>3. \A i \in 1..n : Q[i] = WithBytes("output", P[i]) /\ Q[i] \in OutputRecord
  BY <1>2 DEF OutputRecord
<1>4. Q \in Seq(OutputRecord) /\ Len(Q) = n
  <2>1. Q = [i \in 1..n |-> Q[i]]
    OBVIOUS
  <2> HIDE DEF Q
  <2>2. Q \in [1..n -> OutputRecord]
    BY <1>3, <2>1
  <2> QED BY <1>2, <2>2, SeqDef
<1> HIDE DEF Q
<1>5. \A i \in 1..n : Q[i] \in Sent
  BY <1>3 DEF Sent
<1>6. Wire(s) = Code(Q)
  <2>1. Over(CodeOf, Q) = [i \in 1..n |-> CodeOf[Q[i]]]
    BY <1>4 DEF Over
  <2>2. \A i \in 1..n : CodeOf[Q[i]] = Encode(WithBytes("output", P[i]))
    BY <1>3, <1>5 DEF CodeOf
  <2>3. Over(CodeOf, Q) = [i \in 1..n |-> Encode(WithBytes("output", P[i]))]
    BY <2>1, <2>2
  <2>4. Wire(s) = FlattenSeq([i \in 1..n |-> Encode(WithBytes("output", P[i]))])
    BY Zenon DEF Wire, P, n
  <2> QED BY <2>3, <2>4 DEF Code, Joined
<1>7. Text(Q) = s
  <2>1. Over(TextOf, Q) = [i \in 1..n |-> TextOf[Q[i]]]
    BY <1>4 DEF Over
  <2>2. ASSUME NEW i \in 1..n PROVE TextOf[Q[i]] = P[i]
    <3>1. Q[i] \in Sent /\ Q[i] \in OutputRecord /\ Q[i] = WithBytes("output", P[i])
      BY <1>3, <1>5
    <3>2. TextOf[Q[i]] = Q[i].bytes
      BY <3>1 DEF TextOf
    <3>3. WithBytes("output", P[i]).bytes = P[i]
      BY DEF WithBytes
    <3> QED BY <3>1, <3>2, <3>3
  <2>3. Over(TextOf, Q) = P
    BY <1>2, <2>1, <2>2
  <2> QED BY <1>1, <2>3 DEF Text, Joined
<1> QED BY <1>4, <1>6, <1>7

\* The decoder anywhere in a stream of records: it never sees an invalid one.
LEMMA Decoding ==
    ASSUME NEW R \in Seq(Sent), NEW b \in Seq(Octet), NEW rest \in Seq(Octet), b \o rest = Code(R)
    PROVE  \/ DecoderNext(b) = Nothing /\ Len(b) < MaxRecord /\ (R # <<>> => rest # <<>>)
           \/ /\ R # <<>> /\ DecoderNext(b) = R[1] /\ R[1] \in Sent
              /\ DecoderRest(b) \in Seq(Octet) /\ DecoderRest(b) \o rest = Code(Tail(R))
              /\ Tail(R) \in Seq(Sent)
<1>1. CASE R = <<>>
  <2>1. b \o rest = <<>>
    BY <1>1, CodeFacts
  <2>2. b = <<>>
    BY <2>1, ConcatEqualIffEmpty
  <2>3. Len(b) = 0
    BY <2>2
  <2>4. DecoderNext(b) = Nothing
    BY <2>3, DecoderBranches
  <2>5. MaxRecord \in Nat \ {0}
    BY IpcAssumption DEF MaxRecord, HeaderBytes
  <2> QED BY <1>1, <2>3, <2>4, <2>5
<1>2. CASE R # <<>>
  <2> DEFINE r == R[1]
             more == Code(Tail(R))
  <2>1. r \in Sent /\ Tail(R) \in Seq(Sent) /\ Code(R) = Encode(r) \o more
    BY <1>2, CodeFirst
  <2>2. more \in Seq(Octet)
    BY <2>1, CodeFacts
  <2>3. b \o rest = Encode(r) \o more
    BY <2>1
  <2> HIDE DEF r, more
  <2>4. \/ Len(b) < Len(Encode(r)) /\ DecoderNext(b) = Nothing
        \/ /\ DecoderNext(b) = r /\ DecoderRest(b) \in Seq(Octet)
           /\ DecoderRest(b) \o rest = more
    BY <2>1, <2>2, <2>3, DecodeStream, ZenonT(60)
  <2>5. CASE Len(b) < Len(Encode(r)) /\ DecoderNext(b) = Nothing
    <3> DEFINE e == Encode(r)
    <3>1. e \in Seq(Octet) /\ Len(e) <= MaxRecord
      BY <2>1, SentFacts
    <3>2. Len(b) < Len(e) /\ b \o rest = e \o more
      BY <2>3, <2>5
    <3> HIDE DEF e
    <3>3. Len(b) \in Nat /\ Len(rest) \in Nat /\ Len(e) \in Nat /\ Len(more) \in Nat /\ MaxRecord \in Nat
      BY <2>2, <3>1, LenProperties, IpcAssumption DEF MaxRecord, HeaderBytes
    <3>4. Len(b) + Len(rest) = Len(e) + Len(more)
      <4>1. Len(b \o rest) = Len(b) + Len(rest) /\ Len(e \o more) = Len(e) + Len(more)
        BY <2>2, <3>1, JoinAny
      <4> QED BY <3>2, <4>1
    <3>5. Len(rest) # 0
      BY <3>2, <3>3, <3>4
    <3>6. rest # <<>>
      BY <3>5
    <3>7. Len(b) < MaxRecord
      BY <3>1, <3>2, <3>3
    <3> QED BY <2>5, <3>6, <3>7
  <2>6. CASE DecoderNext(b) = r /\ DecoderRest(b) \in Seq(Octet) /\ DecoderRest(b) \o rest = more
    BY <1>2, <2>1, <2>6 DEF r, more
  <2> QED BY <2>4, <2>5, <2>6
<1> QED BY <1>1, <1>2

\* What is printed of Output records.
LEMMA TextOfOutputs ==
    ASSUME NEW Q \in Seq(OutputRecord)
    PROVE  Q \in Seq(Sent) /\ FlattenSeq([i \in 1..Len(Q) |-> Q[i].bytes]) = Text(Q)
<1>1. Q \in Seq(Sent)
  <2>1. OutputRecord \subseteq Sent
    BY DEF Sent
  <2> QED BY <2>1, SeqMonotonic
<1>2. \A i \in 1..Len(Q) : Q[i] \in OutputRecord /\ Q[i] \in Sent
  BY ElementOfSeq DEF Sent
<1>3. \A i \in 1..Len(Q) : TextOf[Q[i]] = Q[i].bytes
  BY <1>2 DEF TextOf
<1>4. Over(TextOf, Q) = [i \in 1..Len(Q) |-> Q[i].bytes]
  BY <1>3 DEF Over
<1> QED BY <1>1, <1>4 DEF Text, Joined

\* Exit records hold no output.
LEMMA TextOfExit ==
    ASSUME NEW Q \in Seq(OutputRecord), NEW x \in ExitRecord
    PROVE  Text(Q \o <<x>>) = Text(Q) /\ Text(<<x>>) = <<>>
<1>1. Q \in Seq(Sent) /\ x \in Sent /\ <<x>> \in Seq(Sent)
  <2>1. Q \in Seq(Sent) /\ x \in Sent
    BY TextOfOutputs DEF Sent
  <2> QED BY <2>1
<1>2. x \notin OutputRecord
  BY OutputFacts, ExitFacts
<1>3. TextOf[x] = <<>>
  BY <1>1, <1>2 DEF TextOf
<1>4. Text(<<x>>) = <<>>
  BY <1>1, <1>3, CodeFacts
<1>5. Text(Q \o <<x>>) = Text(Q) \o Text(<<x>>)
  BY <1>1, CodeFacts
<1>6. Text(Q) \o <<>> = Text(Q)
  BY <1>1, CodeFacts, ConcatEmptySeq
<1> QED BY <1>4, <1>5, <1>6

\* A set of numbers has a least one.
LEMMA LeastOf ==
    ASSUME NEW I, I \subseteq Nat, I # {}
    PROVE  Min(I) \in I
<1> DEFINE R == {s \in Nat \X Nat : s[1] < s[2]}
<1>1. IsWellFoundedOn(R, Nat)
  BY NatLessThanWellFounded DEF OpToRel
<1>2. PICK x \in I : \A y \in I : ~(<<y, x>> \in R)
  <2> HIDE DEF R
  <2> QED BY <1>1, WFMin, Zenon
<1>3. ASSUME NEW y \in I PROVE x <= y
  <2>1. x \in Nat /\ y \in Nat
    OBVIOUS
  <2>2. y < x => <<y, x>> \in R
    BY <2>1
  <2> HIDE DEF R
  <2> QED BY <1>2, <2>1, <2>2
<1>4. \E z \in I : \A y \in I : z <= y
  BY <1>3
<1> QED BY <1>4, Zenon DEF Min

\* The first record of a batch that is no Output.
LEMMA LeadingFacts ==
    ASSUME batch \in Seq(Sent)
    PROVE  \/ Leading = 0 /\ \A i \in 1..Len(batch) : batch[i].kind = "output"
           \/ Leading \in 1..Len(batch) /\ batch[Leading].kind # "output"
<1> DEFINE I == {i \in 1..Len(batch) : batch[i].kind # "output"}
<1>1. Leading = IF I # {} THEN Min(I) ELSE 0
  BY DEF Leading, SelectInSeq
<1>2. CASE I = {}
  BY <1>1, <1>2
<1>3. CASE I # {}
  <2>1. I \subseteq Nat
    OBVIOUS
  <2>2. Min(I) \in I
    <3> HIDE DEF I
    <3> QED BY <1>3, <2>1, LeastOf
  <2> QED BY <1>1, <1>3, <2>2
<1> QED BY <1>2, <1>3

\* A batch, when nothing whole is left to decode: all of it is output, or it
\* ends with the Exit record and nothing is behind it.
LEMMA BatchFacts ==
    ASSUME batch \in Seq(Sent), DecoderNext(buf) = Nothing,
           NEW R \in Seq(Sent), NEW Q \in Seq(OutputRecord), NEW x \in Seq(ExitRecord), Len(x) <= 1,
           batch \o R = Q \o x
    PROVE  \/ /\ Outputs = batch /\ EndsBatch = Nothing /\ batch \in Seq(OutputRecord)
              /\ \E P \in Seq(OutputRecord) : Q = batch \o P /\ R = P \o x
           \/ x # <<>> /\ Outputs = Q /\ EndsBatch = x[1] /\ R = <<>>
<1> DEFINE b == batch
           m == Leading
<1>1. /\ b \in Seq(Sent) /\ Q \in Seq(Sent) /\ x \in Seq(Sent)
      /\ Len(b) \in Nat /\ Len(Q) \in Nat /\ Len(x) \in Nat /\ Len(R) \in Nat
  <2>1. OutputRecord \subseteq Sent /\ ExitRecord \subseteq Sent
    BY DEF Sent
  <2>2. Q \in Seq(Sent) /\ x \in Seq(Sent)
    BY <2>1, SeqMonotonic
  <2> QED BY <2>2, LenProperties
<1>2. /\ \A i \in 1..Len(Q) : Q[i] \in OutputRecord /\ Q[i].kind = "output"
      /\ \A i \in 1..Len(x) : x[i] \in ExitRecord /\ x[i].kind = "exit"
  <2>1. /\ \A i \in 1..Len(Q) : Q[i] \in OutputRecord
        /\ \A i \in 1..Len(x) : x[i] \in ExitRecord
    BY ElementOfSeq
  <2> QED BY <2>1, OutputFacts, ExitFacts
<1>3. Outputs = (IF m = 0 THEN b ELSE SubSeq(b, 1, m - 1)) /\ EndsBatch = (IF m = 0 THEN Nothing ELSE b[m])
  <2>1. Nothing # Invalid
    <3>1. Nothing.kind = "none" /\ Invalid.kind = "error"
      BY DEF Nothing, Invalid, Bare
    <3> QED BY <3>1
  <2> QED BY <2>1 DEF Outputs, EndsBatch
<1>4. \/ m = 0 /\ \A i \in 1..Len(b) : b[i].kind = "output"
      \/ m \in 1..Len(b) /\ b[m].kind # "output"
  BY LeadingFacts
<1>5. SameParts(b, R, Q, x)
  BY DEF SameParts
<1> DEFINE c == b \o R
<1>6. /\ c \in Seq(Sent) /\ Len(c) = Len(b) + Len(R)
      /\ \A i \in 1..Len(b) : c[i] = b[i]
  BY <1>1, JoinAny
<1>7. /\ Len(c) = Len(Q) + Len(x)
      /\ \A i \in 1..Len(Q) : c[i] = Q[i]
      /\ \A i \in 1..Len(x) : c[Len(Q) + i] = x[i]
  <2> DEFINE d == Q \o x
  <2>1. /\ Len(d) = Len(Q) + Len(x)
        /\ \A i \in 1..Len(Q) : d[i] = Q[i]
        /\ \A i \in 1..Len(x) : d[Len(Q) + i] = x[i]
    BY <1>1, JoinAny
  <2>2. c = d
    OBVIOUS
  <2> HIDE DEF c, d
  <2> QED BY <2>1, <2>2
<1> HIDE DEF b, m, c
<1>8. CASE m = 0
  <2>1. \A i \in 1..Len(b) : b[i].kind = "output"
    BY <1>4, <1>8
  <2>2. Len(b) <= Len(Q)
    <3> SUFFICES ASSUME Len(b) > Len(Q) PROVE FALSE
      BY <1>1
    <3> DEFINE i == Len(Q) + 1
    <3>1. i \in 1..Len(b) /\ 1 \in 1..Len(x)
      BY <1>1, <1>6, <1>7
    <3>2. c[i] = b[i] /\ c[i] = x[1]
      BY <1>6, <1>7, <3>1
    <3> HIDE DEF i
    <3>3. x[1].kind = "exit" /\ b[i].kind = "output"
      BY <1>2, <2>1, <3>1
    <3> QED BY <3>2, <3>3
  <2>3. \E P \in Seq(OutputRecord) : Q = b \o P /\ R = P \o x
    <3>1. SameParts(Q, x, b, R)
      BY <1>5 DEF SameParts
    <3>2. Between(Sent, Q, x, b, R)
      BY <1>1, <2>2, <3>1, CutTwice
    <3>3. PICK P \in Seq(Sent) : Q = b \o P /\ P \o x = R
      BY <3>2 DEF Between
    <3>4. P \in Seq(OutputRecord)
      <4>1. Len(P) \in Nat /\ Len(Q) = Len(b) + Len(P) /\ \A i \in 1..Len(P) : Q[Len(b) + i] = P[i]
        BY <1>1, <3>3, JoinAny, LenProperties
      <4>2. \A i \in 1..Len(P) : Len(b) + i \in 1..Len(Q)
        BY <1>1, <4>1
      <4>3. \A i \in 1..Len(P) : P[i] \in OutputRecord
        BY <1>2, <4>1, <4>2
      <4>4. P \in [1..Len(P) -> OutputRecord]
        <5>1. P = [i \in 1..Len(P) |-> P[i]]
          BY LenProperties
        <5> QED BY <4>3, <5>1
      <4> QED BY <4>1, <4>4, FunctionIsSeq
    <3> QED BY <3>3, <3>4
  <2>4. b \in Seq(OutputRecord)
    <3>1. \A i \in 1..Len(b) : b[i] \in OutputRecord
      <4>1. \A i \in 1..Len(b) : i \in 1..Len(Q)
        BY <1>1, <2>2
      <4> QED BY <1>2, <1>6, <1>7, <4>1
    <3>2. b \in [1..Len(b) -> OutputRecord]
      <4>1. b = [i \in 1..Len(b) |-> b[i]]
        BY <1>1, LenProperties
      <4> QED BY <3>1, <4>1
    <3> DEFINE n == Len(b)
    <3>3. n \in Nat /\ b \in [1..n -> OutputRecord]
      BY <1>1, <3>2
    <3> HIDE DEF n
    <3> QED BY <3>3, SeqDef
  <2> QED BY <1>3, <1>8, <2>3, <2>4 DEF b
<1>9. CASE m \in 1..Len(b) /\ b[m].kind # "output"
  <2>1. m \notin 1..Len(Q)
    <3> SUFFICES ASSUME m \in 1..Len(Q) PROVE FALSE
      OBVIOUS
    <3>1. b[m] = Q[m]
      BY <1>6, <1>7, <1>9
    <3> QED BY <1>2, <1>9, <3>1
  <2>2. Len(x) = 1 /\ m = Len(Q) + 1 /\ Len(R) = 0
    <3> DEFINE lb == Len(b)
               lq == Len(Q)
               lx == Len(x)
               lr == Len(R)
    <3>1. lb \in Nat /\ lq \in Nat /\ lx \in Nat /\ lr \in Nat /\ lx <= 1
      BY <1>1
    <3>2. lb + lr = lq + lx
      BY <1>6, <1>7
    <3>3. m \in 1..lb /\ m \notin 1..lq
      BY <1>9, <2>1
    <3> HIDE DEF lb, lq, lx, lr
    <3>4. lx = 1 /\ m = lq + 1 /\ lr = 0
      BY <3>1, <3>2, <3>3
    <3> QED BY <3>4 DEF lx, lq, lr
  <2>3. x # <<>> /\ R = <<>>
    <3>1. R = <<>>
      BY <2>2, EmptySeq
    <3>2. x # <<>>
      <4>1. Len(x) = 1 /\ 1 # 0
        BY <2>2
      <4>2. x = <<>> => Len(x) = 0
        OBVIOUS
      <4> QED BY <4>1, <4>2, Zenon
    <3> QED BY <3>1, <3>2
  <2>4. b[m] = x[1]
    <3>1. 1 \in 1..Len(x) /\ c[m] = b[m]
      BY <1>6, <1>9, <2>2
    <3> QED BY <1>7, <2>2, <3>1
  <2>5. SubSeq(b, 1, m - 1) = Q
    <3>1. b = Q \o x
      <4>1. b \o R = Q \o x
        BY <1>5 DEF SameParts
      <4>2. b \o <<>> = b
        BY <1>1, ConcatEmptySeq
      <4> QED BY <2>3, <4>1, <4>2
    <3>2. Len(Q) < Len(b) /\ m - 1 = Len(Q)
      BY <1>1, <1>9, <2>2
    <3>3. SameParts(Q, x, b, <<>>)
      BY <1>1, <3>1, ConcatEmptySeq DEF SameParts
    <3>4. <<>> \in Seq(Sent)
      BY EmptySeq
    <3>5. Q = SubSeq(b, 1, Len(Q))
      BY <1>1, <3>2, <3>3, <3>4, CutTwice
    <3> QED BY <3>2, <3>5
  <2>6. m # 0
    BY <1>1, <1>9
  <2> QED BY <1>3, <2>3, <2>4, <2>5, <2>6
<1> QED BY <1>4, <1>8, <1>9

\* Cutting bytes in two loses none.
LEMMA SplitAt ==
    ASSUME NEW s \in Seq(Octet), NEW n \in 0..Len(s)
    PROVE  /\ SubSeq(s, 1, n) \in Seq(Octet) /\ Drop(s, n) \in Seq(Octet)
           /\ Len(SubSeq(s, 1, n)) = n
           /\ SubSeq(s, 1, n) \o Drop(s, n) = s
<1>1. Len(s) \in Nat /\ n \in Nat /\ n <= Len(s) /\ \A i \in 1..Len(s) : s[i] \in Octet
  BY LenProperties, ElementOfSeq
<1>2. SubSeq(s, 1, n) \o SubSeq(s, n + 1, Len(s)) = SubSeq(s, 1, Len(s))
  <2>1. 1 \in 1..(Len(s) + 1) /\ n \in (1 - 1)..Len(s) /\ Len(s) \in n..Len(s)
    BY <1>1
  <2> QED BY <2>1, ConcatAdjacentSubSeq
<1>3. SubSeq(s, 1, Len(s)) = s
  BY SubSeqFull
<1>4. Drop(s, n) \in Seq(Octet)
  BY DropFacts
<1>5. SubSeq(s, 1, n) \in Seq(Octet) /\ Len(SubSeq(s, 1, n)) = IF 1 <= n THEN n - 1 + 1 ELSE 0
  <2>1. 1 \in Int /\ n \in Int /\ \A i \in 1..n : s[i] \in Octet
    BY <1>1
  <2> QED BY <2>1, Slice
<1>6. Len(SubSeq(s, 1, n)) = n
  BY <1>1, <1>5
<1> QED BY <1>2, <1>3, <1>4, <1>5, <1>6 DEF Drop

\* One read: never more than there is, nor than the decoder has room for.
LEMMA ReadLengthFacts ==
    ASSUME buf \in Seq(Octet), Len(buf) <= MaxRecord, sock \in Seq(Octet)
    PROVE  ReadLength \in 0..Len(sock) /\ Len(buf) + ReadLength <= MaxRecord
<1> DEFINE c == RemainingCapacity
           l == Len(sock)
<1>1. c \in Nat /\ l \in Nat /\ IoChunk \in Nat /\ c = MaxRecord - Len(buf) /\ Len(buf) \in Nat /\ MaxRecord \in Nat
  BY LenProperties, IpcAssumption, RelayAssumption DEF RemainingCapacity, MaxRecord, HeaderBytes
<1>2. ReadLength = CHOOSE n \in 0..IoChunk : n <= c /\ n <= l /\ n \in {IoChunk, c, l}
  BY DEF ReadLength
<1> HIDE DEF c, l
<1>3. \E n \in 0..IoChunk : n <= c /\ n <= l /\ n \in {IoChunk, c, l}
  <2>1. CASE IoChunk <= c /\ IoChunk <= l
    <3>1. IoChunk \in 0..IoChunk /\ IoChunk \in {IoChunk, c, l}
      BY <1>1
    <3> QED BY <2>1, <3>1
  <2>2. CASE c <= IoChunk /\ c <= l
    <3>1. c \in 0..IoChunk /\ c <= c /\ c \in {IoChunk, c, l}
      BY <1>1, <2>2
    <3> QED BY <2>2, <3>1
  <2>3. CASE l <= c /\ l <= IoChunk
    <3>1. l \in 0..IoChunk /\ l <= l /\ l \in {IoChunk, c, l}
      BY <1>1, <2>3
    <3> QED BY <2>3, <3>1
  <2>4. (IoChunk <= c /\ IoChunk <= l) \/ (c <= IoChunk /\ c <= l) \/ (l <= c /\ l <= IoChunk)
    BY <1>1
  <2> QED BY <2>1, <2>2, <2>3, <2>4
<1>4. ReadLength \in 0..IoChunk /\ ReadLength <= c /\ ReadLength <= l
  BY <1>2, <1>3
<1>5. ReadLength \in 0..l /\ Len(buf) + ReadLength <= MaxRecord
  BY <1>1, <1>4
<1> QED BY <1>5 DEF l

\* Every wait status has a ProcessExit, and it is reported as a shell would.
LEMMA WaitStatusFacts ==
    ASSUME NEW w \in WaitStatuses
    PROVE  /\ WithExit(process_exit(w)) \in ExitRecord
           /\ status_code(process_exit(w)) = ShellCode(w)
           /\ w # Running
<1>1. w \in 0..(U16 - 1)
  BY RelayAssumption
<1>2. w \in Nat /\ w < 256 * 256
  <2>1. U16 \in Nat
    BY U16IsNat
  <2>2. w \in Nat /\ w < U16
    BY <1>1, <2>1, SMTT(60)
  <2> QED BY <2>2, Zenon DEF U16
<1> DEFINE q == w % 128
           d == w \div 256
<1>3. q \in 0..127 /\ d \in 0..255
  BY <1>2, SMTT(60)
<1>4. process_exit(w) = IF q = 0 THEN [reason |-> 0, value |-> d]
                        ELSE IF q # 127 THEN [reason |-> 1, value |-> q] ELSE [reason |-> 0, value |-> 1]
  BY DEF process_exit
<1>5. ShellCode(w) = IF q = 0 THEN d ELSE IF q # 127 THEN 128 + q ELSE 1
  BY DEF ShellCode
<1> HIDE DEF q, d
<1>6. process_exit(w) \in ExitStatuses
  <2>1. CASE q = 0
    <3>1. [reason |-> 0, value |-> d] \in [reason : {0}, value : Octet]
      BY <1>3 DEF Octet
    <3> QED BY <1>4, <2>1, <3>1 DEF ExitStatuses
  <2>2. CASE q # 0 /\ q # 127
    <3>1. q \in 1..127
      BY <1>3, <2>2
    <3>2. [reason |-> 1, value |-> q] \in [reason : {1}, value : 1..127]
      BY <3>1
    <3> QED BY <1>4, <2>2, <3>2 DEF ExitStatuses
  <2>3. CASE q = 127
    <3>1. [reason |-> 0, value |-> 1] \in [reason : {0}, value : Octet]
      BY DEF Octet
    <3> QED BY <1>4, <2>3, <3>1 DEF ExitStatuses
  <2> QED BY <2>1, <2>2, <2>3
<1>7. status_code(process_exit(w)) = ShellCode(w)
  <2>1. CASE q = 0
    <3>1. process_exit(w) = [reason |-> 0, value |-> d]
      BY <1>4, <2>1
    <3> QED BY <1>5, <2>1, <3>1 DEF status_code
  <2>3. CASE q = 127
    <3>1. process_exit(w) = [reason |-> 0, value |-> 1]
      BY <1>4, <2>3
    <3> QED BY <1>5, <2>3, <3>1 DEF status_code
  <2>2. CASE q # 0 /\ q # 127
    <3>1. process_exit(w) = [reason |-> 1, value |-> q]
      BY <1>4, <2>2
    <3>2. status_code([reason |-> 1, value |-> q]) = IF q > 127 THEN 255 ELSE 128 + q
      BY DEF status_code
    <3>3. ~(q > 127)
      BY <1>3
    <3> QED BY <1>5, <2>2, <3>1, <3>2, <3>3
  <2> QED BY <2>1, <2>2, <2>3
<1>8. w # Running
  BY <1>2 DEF Running
<1> QED BY <1>6, <1>7, <1>8 DEF ExitRecord

\* The ways to bracket four parts.
Assoc4(a, b, c, d) ==
    /\ a \o (b \o (c \o d)) = (a \o (b \o c)) \o d
    /\ a \o (b \o (c \o d)) = (a \o b) \o (c \o d)
    /\ a \o (b \o (c \o d)) = a \o ((b \o c) \o d)

\* ... and as the step lemmas below cite it.
LEMMA AssocFacts ==
    /\ \A a, b, c \in Seq(Octet) : Assoc(a, b, c)
    /\ \A a, b, c \in Seq(Sent) : Assoc(a, b, c)
    /\ \A a, b, c, d \in Seq(Octet) : Assoc4(a, b, c, d)
<1>1. \A a, b, c \in Seq(Octet) : Assoc(a, b, c)
  BY AssocOctets, Zenon DEF Assoc
<1>2. \A a, b, c \in Seq(Sent) : Assoc(a, b, c)
  <2> DEFINE X == Seq(Sent)
  <2>1. \A a, b, c \in X : (a \o b) \o c = a \o (b \o c)
    BY AssocAny
  <2> HIDE DEF X
  <2>2. \A a, b, c \in X : Assoc(a, b, c)
    BY <2>1, Zenon DEF Assoc
  <2> QED BY <2>2 DEF X
<1>3. ASSUME NEW a \in Seq(Octet), NEW b \in Seq(Octet), NEW c \in Seq(Octet), NEW d \in Seq(Octet)
      PROVE  Assoc4(a, b, c, d)
  <2>1. b \o c \in Seq(Octet) /\ c \o d \in Seq(Octet)
    BY JoinFacts
  <2>0. Assoc(b, c, d) /\ Assoc(a, b \o c, d) /\ Assoc(a, b, c \o d)
    BY <1>1, <2>1
  <2>2. b \o (c \o d) = (b \o c) \o d
    BY <2>0, Zenon DEF Assoc
  <2>3. a \o ((b \o c) \o d) = (a \o (b \o c)) \o d
    BY <2>0, Zenon DEF Assoc
  <2>4. a \o (b \o (c \o d)) = (a \o b) \o (c \o d)
    BY <2>0, Zenon DEF Assoc
  <2> QED BY <2>2, <2>3, <2>4, Zenon DEF Assoc4
<1> QED BY <1>1, <1>2, <1>3

\* Nothing added is nothing changed.
LEMMA NoneLeft == \A s \in Seq(Octet) : s \o <<>> = s /\ <<>> \o s = s
BY ConcatEmptySeq

-----------------------------------------------------------------------------
\* What is on the way to an attached client: R are the records whose bytes are
\* in the decoder, the socket and the queue, the last perhaps cut off; with the
\* decoded batch they are Output records Q and at most the Exit record.  What
\* is printed, what is on the way and, once the connection is lost, what
\* never will be, is the output the client should see.
Held(R, Q, x, cut, rest) ==
    /\ R \in Seq(Sent) /\ Q \in Seq(OutputRecord) /\ x \in Seq(ExitRecord)
    /\ cut \in Seq(Octet) /\ rest \in Seq(Octet)
    /\ x = <<>> \/ (waitStatus # Running /\ x = <<WithExit(process_exit(waitStatus))>>)
    /\ batch \o R = Q \o x
    /\ buf \o (sock \o (queue \o cut)) = Code(R)
    /\ printed \o (Text(Q) \o rest) = Expected
    /\ link = "open" => cut = <<>>
    /\ link = "open" \/ x # <<>> \/ client = "done" => rest = <<>>
    /\ client = "done" => Q = <<>> /\ x = <<>>
Transit == link # "none" => \E R, Q, x, cut, rest : Held(R, Q, x, cut, rest)

\* What is always true of the two ends of the connection and of the command.
Shape ==
    /\ waitStatus \in WaitStatuses \cup {Running}
    /\ link \in {"none", "open", "closed"}
    /\ from \in Nat /\ from <= Len(fed)
    /\ queue \in Seq(Octet) /\ sock \in Seq(Octet) /\ buf \in Seq(Octet)
    /\ Len(buf) <= MaxRecord
    /\ batch \in Seq(Sent) /\ printed \in Seq(Octet)
    /\ client \in {"idle", "decode", "done", "detached"}
    /\ client # "decode" => batch = <<>>
    /\ client = "idle" => DecoderNext(buf) = Nothing
    /\ link = "none" => queue = <<>> /\ sock = <<>> /\ buf = <<>> /\ printed = <<>> /\ client = "idle"
    /\ link = "closed" => queue = <<>>
    /\ client = "done" => waitStatus # Running /\ reported = ShellCode(waitStatus)

\* The tail's bytes are octets.
LEMMA TailOctets ==
    ASSUME Inv
    PROVE  /\ fed \in Seq(Octet) /\ bytes \in Seq(Octet) /\ Len(fed) \in Nat
           /\ \A c \in Chunks : c \in Seq(Octet)
           /\ capacity \in Nat
<1>1. Byte \subseteq Octet
  BY RelayAssumption
<1>2. fed \in Seq(Byte) /\ bytes \in Seq(Byte) /\ \A c \in Chunks : c \in Seq(Byte)
  BY ChunksAssumption DEF Inv, TypeOK
<1>3. capacity \in Nat
  BY CapacityAssumption DEF Inv, TypeOK
<1>4. Len(fed) \in Nat
  BY <1>2, LenProperties
<1> QED BY <1>1, <1>2, <1>3, <1>4, SeqMonotonic

\* What the client should see are bytes.
LEMMA ExpectedType ==
    ASSUME Inv, Shape
    PROVE  Expected \in Seq(Octet)
<1>1. fed \in Seq(Octet) /\ from \in 0..Len(fed)
  BY TailOctets DEF Shape
<1>2. Drop(fed, from) \in Seq(Octet)
  BY <1>1, DropFacts
<1>3. MarkerText \in Seq(Octet) /\ <<>> \in Seq(Octet)
  BY RelayAssumption, EmptySeq
<1> QED BY <1>2, <1>3, JoinFacts DEF Expected

\* A chunk of the PTY is behind everything the client should see.
LEMMA ExpectedGrows ==
    ASSUME Inv, Shape, NEW incoming \in Seq(Octet), fed' = fed \o incoming, from' = from
    PROVE  Expected' = Expected \o incoming
<1>1. fed \in Seq(Octet) /\ from \in 0..Len(fed)
  BY TailOctets DEF Shape
<1>2. Drop(fed, from) \o incoming = Drop(fed \o incoming, from)
  BY <1>1, DropConcatLeft
<1> DEFINE m == IF from > 0 THEN MarkerText ELSE <<>>
           d == Drop(fed, from)
<1>3. m \in Seq(Octet) /\ d \in Seq(Octet)
  BY <1>1, DropFacts, RelayAssumption, EmptySeq
<1>4. Expected = m \o d /\ Expected' = m \o Drop(fed \o incoming, from)
  BY DEF Expected, Drop
<1> HIDE DEF m, d
<1>5. (m \o d) \o incoming = m \o (d \o incoming)
  BY <1>3, AssocOctets, Zenon
<1> QED BY <1>2, <1>4, <1>5 DEF d

\* The types of what is on the way.
LEMMA HeldTypes ==
    ASSUME NEW R, NEW Q, NEW x, NEW cut, NEW rest, Held(R, Q, x, cut, rest)
    PROVE  /\ Q \in Seq(Sent) /\ x \in Seq(Sent) /\ Len(x) <= 1
           /\ Code(R) \in Seq(Octet) /\ Text(Q) \in Seq(Octet)
<1>1. R \in Seq(Sent) /\ Q \in Seq(OutputRecord) /\ x \in Seq(ExitRecord)
  BY DEF Held
<1>2. OutputRecord \subseteq Sent /\ ExitRecord \subseteq Sent
  BY DEF Sent
<1>3. Q \in Seq(Sent) /\ x \in Seq(Sent)
  BY <1>1, <1>2, SeqMonotonic
<1>4. Len(x) <= 1
  <2>1. CASE x = <<>>
    BY <2>1
  <2>2. CASE x = <<WithExit(process_exit(waitStatus))>>
    BY <2>2
  <2> QED BY <2>1, <2>2 DEF Held
<1>5. Code(R) \in Seq(Octet) /\ Text(Q) \in Seq(Octet)
  BY <1>1, <1>3, CodeFacts
<1> QED BY <1>3, <1>4, <1>5

\* drain_pty: the chunk is queued whole, or the connection is dropped, or it
\* was not there and the client never sees the chunk.
LEMMA ReadPtyKeeps ==
    ASSUME Inv, Shape, Transit, ReadPty
    PROVE  Shape' /\ Transit'
<1>0. PICK incoming \in Chunks :
         /\ Extend(incoming)
         /\ \/ link # "open" /\ UNCHANGED <<link, queue>>
            \/ link = "open" /\ Pushes(Wire(incoming)) /\ queue' = queue \o Wire(incoming) /\ UNCHANGED link
            \/ link = "open" /\ ~Pushes(Wire(incoming)) /\ DropConnection
  BY DEF ReadPty
<1>1. /\ waitStatus = Running /\ waitStatus' = waitStatus /\ from' = from /\ sock' = sock
      /\ buf' = buf /\ batch' = batch /\ client' = client /\ printed' = printed /\ reported' = reported
  BY DEF ReadPty, clientVars
<1>2. fed' = fed \o incoming /\ incoming \in Seq(Octet)
  BY <1>0, TailOctets DEF Extend
<1>3. fed \in Seq(Octet) /\ Len(fed) \in Nat /\ Len(fed') = Len(fed) + Len(incoming) /\ Len(incoming) \in Nat
  BY <1>2, TailOctets, JoinFacts, LenProperties
<1>4. Expected' = Expected \o incoming /\ Expected \in Seq(Octet)
  BY <1>1, <1>2, ExpectedGrows, ExpectedType
<1>5. PICK W \in Seq(OutputRecord) : Wire(incoming) = Code(W) /\ Text(W) = incoming
  BY <1>2, WireFacts
<1>6. W \in Seq(Sent) /\ Code(W) \in Seq(Octet)
  BY TextOfOutputs, CodeFacts
<1>7. Shape'
  <2>1. queue' \in Seq(Octet) /\ link' \in {"none", "open", "closed"} /\ (link' = "none" => link = "none" /\ queue' = queue)
        /\ (link' = "closed" => queue' = <<>>)
    <3>1. CASE link # "open" /\ UNCHANGED <<link, queue>>
      BY <3>1 DEF Shape
    <3>2. CASE link = "open" /\ queue' = queue \o Wire(incoming) /\ UNCHANGED link
      <4>1. queue \o Wire(incoming) \in Seq(Octet)
        BY <1>5, <1>6, JoinFacts DEF Shape
      <4> QED BY <3>2, <4>1
    <3>3. CASE link = "open" /\ DropConnection
      BY <3>3, EmptySeq DEF DropConnection
    <3> QED BY <1>0, <3>1, <3>2, <3>3
  <2>2. from' \in Nat /\ from' <= Len(fed')
    BY <1>1, <1>3 DEF Shape
  <2>3. client = "done" => FALSE
    BY <1>1 DEF Shape
  <2>4. DecoderNext(buf)' = DecoderNext(buf)
    BY <1>1
  <2> QED BY <1>1, <2>1, <2>2, <2>3, <2>4 DEF Shape
<1>8. Transit'
  <2> SUFFICES ASSUME link' # "none" PROVE \E R, Q, x, cut, rest : Held(R, Q, x, cut, rest)'
    BY DEF Transit
  <2>1. link # "none"
    BY <1>0 DEF DropConnection
  <2>2. PICK R, Q, x, cut, rest : Held(R, Q, x, cut, rest)
    BY <2>1 DEF Transit
  <2>3. /\ R \in Seq(Sent) /\ Q \in Seq(OutputRecord) /\ x = <<>> /\ x \in Seq(ExitRecord) /\ client # "done"
        /\ cut \in Seq(Octet) /\ rest \in Seq(Octet)
        /\ batch \o R = Q \o x
        /\ buf \o (sock \o (queue \o cut)) = Code(R)
        /\ printed \o (Text(Q) \o rest) = Expected
        /\ link = "open" => cut = <<>> /\ rest = <<>>
    BY <1>1, <2>2 DEF Held, Shape
  <2>4. Q \in Seq(Sent) /\ Code(R) \in Seq(Octet) /\ Text(Q) \in Seq(Octet)
    BY <2>2, HeldTypes
  <2>5. buf \in Seq(Octet) /\ sock \in Seq(Octet) /\ queue \in Seq(Octet) /\ printed \in Seq(Octet) /\ batch \in Seq(Sent)
    BY DEF Shape
  <2>6. CASE link # "open" /\ UNCHANGED <<link, queue>>
    <3> DEFINE r == rest \o incoming
    <3>1. r \in Seq(Octet)
      BY <1>2, <2>3, JoinFacts
    <3>2. printed \o (Text(Q) \o r) = Expected'
      <4>1. printed \o (Text(Q) \o rest) = Expected
        BY <2>3
      <4>2. Assoc4(printed, Text(Q), rest, incoming)
        BY <1>2, <2>3, <2>4, <2>5, AssocFacts
      <4> QED BY <1>4, <4>1, <4>2 DEF Assoc4
    <3> HIDE DEF r
    <3>3. Held(R, Q, x, cut, r)'
      BY <1>1, <2>3, <2>6, <3>1, <3>2 DEF Held
    <3> QED BY <3>3
  <2>7. CASE link = "open" /\ queue' = queue \o Wire(incoming) /\ UNCHANGED link
    <3> DEFINE R2 == R \o W
               Q2 == Q \o W
               q == queue \o Code(W)
    <3>1. R2 \in Seq(Sent) /\ q \in Seq(Octet)
      BY <1>6, <2>3, <2>5, JoinFacts, ConcatProperties
    <3>2. Q2 \in Seq(OutputRecord)
      BY <2>3, ConcatProperties
    <3>3. batch \o R2 = Q2 \o x
      <4>1. batch \o R2 = (batch \o R) \o W
        <5>1. Assoc(batch, R, W)
          BY <1>6, <2>3, <2>5, AssocFacts
        <5> QED BY <5>1 DEF Assoc
      <4>2. Q \o x = Q /\ Q2 \o x = Q2
        BY <2>3, <3>2, ConcatEmptySeq
      <4> QED BY <2>3, <4>1, <4>2
    <3>4. buf \o (sock \o (q \o <<>>)) = Code(R2)
      <4>1. buf \o (sock \o (queue \o Code(W))) = (buf \o (sock \o queue)) \o Code(W)
        <5>1. Assoc4(buf, sock, queue, Code(W))
          BY <1>6, <2>5, AssocFacts
        <5> QED BY <5>1 DEF Assoc4
      <4>2. buf \o (sock \o queue) = Code(R)
        BY <2>3, <2>5, <2>7, NoneLeft
      <4>3. Code(R2) = Code(R) \o Code(W)
        BY <1>6, <2>3, CodeFacts
      <4>4. q \o <<>> = q
        BY <3>1, NoneLeft
      <4> QED BY <4>1, <4>2, <4>3, <4>4
    <3>5. printed \o (Text(Q2) \o <<>>) = Expected'
      <4>1. Text(Q2) = Text(Q) \o incoming
        BY <1>5, <1>6, <2>4, CodeFacts
      <4>2. Text(Q2) \o <<>> = Text(Q2)
        BY <1>2, <2>4, <4>1, JoinFacts, NoneLeft
      <4>3. printed \o Text(Q) = Expected
        BY <2>3, <2>4, <2>7, NoneLeft
      <4>4. printed \o (Text(Q) \o incoming) = (printed \o Text(Q)) \o incoming
        <5>1. Assoc(printed, Text(Q), incoming)
          BY <1>2, <2>4, <2>5, AssocFacts
        <5> QED BY <5>1 DEF Assoc
      <4> QED BY <1>4, <4>1, <4>2, <4>3, <4>4
    <3>6. queue' = q /\ link' = "open" /\ <<>> \in Seq(Octet)
      BY <1>5, <2>7, EmptySeq
    <3> HIDE DEF R2, Q2, q
    <3>7. Held(R2, Q2, x, <<>>, <<>>)'
      BY <1>1, <2>3, <3>1, <3>2, <3>3, <3>4, <3>5, <3>6 DEF Held
    <3> QED BY <3>7
  <2>8. CASE link = "open" /\ DropConnection
    <3>1. PICK c : c = queue
      OBVIOUS
    <3>2. cut = <<>> /\ rest = <<>> /\ queue' = <<>> /\ link' = "closed"
      BY <2>3, <2>8 DEF DropConnection
    <3>3. buf \o (sock \o (<<>> \o c)) = Code(R)
      BY <2>3, <2>5, <3>1, <3>2, NoneLeft
    <3>4. printed \o (Text(Q) \o incoming) = Expected'
      <4>1. printed \o Text(Q) = Expected
        BY <2>3, <2>4, <3>2, NoneLeft
      <4>2. printed \o (Text(Q) \o incoming) = (printed \o Text(Q)) \o incoming
        <5>1. Assoc(printed, Text(Q), incoming)
          BY <1>2, <2>4, <2>5, AssocFacts
        <5> QED BY <5>1 DEF Assoc
      <4> QED BY <1>4, <4>1, <4>2
    <3>5. Held(R, Q, x, c, incoming)'
      BY <1>1, <1>2, <2>3, <2>5, <3>1, <3>2, <3>3, <3>4 DEF Held
    <3> QED BY <3>5
  <2> QED BY <1>0, <2>6, <2>7, <2>8
<1> QED BY <1>7, <1>8

\* enqueue_replay: the marker when bytes were lost, and the tail.
LEMMA AttachKeeps ==
    ASSUME Inv, Shape, Transit, Attach
    PROVE  Shape' /\ Transit'
<1>1. /\ link = "none" /\ link' = "open" /\ from' = Len(fed) - Len(bytes) /\ queue' = Replay
      /\ fed' = fed /\ waitStatus = Running /\ waitStatus' = waitStatus /\ sock' = sock
      /\ buf' = buf /\ batch' = batch /\ client' = client /\ printed' = printed /\ reported' = reported
  BY DEF Attach, tailVars, clientVars
<1>2. sock = <<>> /\ buf = <<>> /\ printed = <<>> /\ client = "idle" /\ batch = <<>>
  BY <1>1 DEF Shape
<1>3. /\ fed \in Seq(Octet) /\ bytes \in Seq(Octet) /\ Len(fed) \in Nat /\ Len(bytes) \in Nat
      /\ MarkerText \in Seq(Octet) /\ capacity \in Nat
  BY TailOctets, LenProperties, RelayAssumption
<1>4. /\ from' \in 0..Len(fed) /\ bytes = Drop(fed, from') /\ (truncated <=> from' > 0)
  <2> DEFINE l == Lost(Len(fed))
  <2>1. l \in 0..Len(fed)
    BY <1>3 DEF Lost
  <2>2. bytes = Drop(fed, l) /\ (truncated <=> l > 0)
    BY DEF Inv, TailIsSuffix, TruncatedIffLost
  <2> HIDE DEF l
  <2>3. Len(bytes) = Len(fed) - l
    BY <1>3, <2>1, <2>2, DropFacts
  <2>4. from' = l
    BY <1>1, <1>3, <2>1, <2>3
  <2> QED BY <2>1, <2>2, <2>4
<1>5. PICK W \in Seq(OutputRecord) : Wire(bytes) = Code(W) /\ Text(W) = bytes
  BY <1>3, WireFacts
<1>6. PICK M \in Seq(OutputRecord) :
         /\ Code(M) = IF truncated THEN Wire(MarkerText) ELSE <<>>
         /\ Text(M) = IF truncated THEN MarkerText ELSE <<>>
  <2>1. CASE truncated
    <3>1. PICK M \in Seq(OutputRecord) : Wire(MarkerText) = Code(M) /\ Text(M) = MarkerText
      BY <1>3, WireFacts
    <3> QED BY <2>1, <3>1
  <2>2. CASE ~truncated
    <3>1. <<>> \in Seq(OutputRecord)
      BY EmptySeq
    <3> QED BY <2>2, <3>1, CodeFacts
  <2> QED BY <2>1, <2>2
<1> DEFINE Q == M \o W
<1>7. M \in Seq(Sent) /\ W \in Seq(Sent) /\ Q \in Seq(OutputRecord) /\ Q \in Seq(Sent)
  <2>1. Q \in Seq(OutputRecord)
    BY ConcatProperties
  <2> HIDE DEF Q
  <2> QED BY <2>1, TextOfOutputs
<1>8. Code(Q) = Code(M) \o Code(W) /\ Text(Q) = Text(M) \o Text(W)
  BY <1>7, CodeFacts
<1>9. queue' = Code(Q) /\ Code(Q) \in Seq(Octet)
  <2>1. Replay = Code(M) \o Code(W)
    BY <1>5, <1>6 DEF Replay
  <2>2. Code(Q) \in Seq(Octet)
    BY <1>7, CodeFacts
  <2> QED BY <1>1, <1>8, <2>1, <2>2
<1>10. Text(Q) = Expected' /\ Text(Q) \in Seq(Octet)
  <2>1. Expected' = (IF from' > 0 THEN MarkerText ELSE <<>>) \o Drop(fed, from')
    BY <1>1 DEF Expected, Drop
  <2>2. Text(Q) \in Seq(Octet)
    BY <1>7, CodeFacts
  <2> QED BY <1>4, <1>5, <1>6, <1>8, <2>1, <2>2
<1> HIDE DEF Q
<1>11. Shape'
  <2>1. DecoderNext(buf)' = DecoderNext(buf)
    BY <1>1
  <2>2. queue' \in Seq(Octet) /\ from' \in Nat /\ from' <= Len(fed')
    BY <1>1, <1>3, <1>4, <1>9
  <2> QED BY <1>1, <1>2, <2>1, <2>2 DEF Shape
<1>12. Held(Q, Q, <<>>, <<>>, <<>>)'
  <2>1. <<>> \in Seq(ExitRecord) /\ <<>> \in Seq(Octet)
    BY EmptySeq
  <2>2. <<>> \o Q = Q \o <<>>
    BY <1>7, ConcatEmptySeq
  <2>3. <<>> \o (<<>> \o (Code(Q) \o <<>>)) = Code(Q)
    BY <1>9, NoneLeft
  <2>4. <<>> \o (Text(Q) \o <<>>) = Text(Q)
    BY <1>10, NoneLeft
  <2> QED BY <1>1, <1>2, <1>7, <1>9, <1>10, <2>1, <2>2, <2>3, <2>4 DEF Held
<1> QED BY <1>11, <1>12 DEF Transit

\* ByteQueue::flush moves bytes from the queue to the socket.
LEMMA FlushKeeps ==
    ASSUME Inv, Shape, Transit, Flush
    PROVE  Shape' /\ Transit'
<1>1. /\ link = "open" /\ link' = link /\ from' = from /\ fed' = fed /\ waitStatus' = waitStatus
      /\ buf' = buf /\ batch' = batch /\ client' = client /\ printed' = printed /\ reported' = reported
  BY DEF Flush, tailVars, clientVars
<1>2. PICK n \in 1..Len(queue) : sock' = sock \o SubSeq(queue, 1, n) /\ queue' = Drop(queue, n)
  BY DEF Flush
<1>3. buf \in Seq(Octet) /\ sock \in Seq(Octet) /\ queue \in Seq(Octet)
  BY DEF Shape
<1> DEFINE a == SubSeq(queue, 1, n)
           b == Drop(queue, n)
<1>4. a \in Seq(Octet) /\ b \in Seq(Octet) /\ a \o b = queue
  <2>1. n \in 0..Len(queue)
    BY <1>3, LenProperties
  <2> QED BY <1>3, <2>1, SplitAt
<1>5. sock' = sock \o a /\ queue' = b
  BY <1>2
<1> HIDE DEF a, b
<1>6. sock' \in Seq(Octet)
  BY <1>3, <1>4, <1>5, JoinFacts
<1>7. Expected' = Expected
  BY <1>1 DEF Expected, Drop
<1>8. Shape'
  <2>1. DecoderNext(buf)' = DecoderNext(buf)
    BY <1>1
  <2> QED BY <1>1, <1>4, <1>5, <1>6, <2>1 DEF Shape
<1>9. PICK R, Q, x, cut, rest : Held(R, Q, x, cut, rest)
  BY <1>1 DEF Transit
<1>10. cut = <<>> /\ buf \o (sock \o (queue \o cut)) = Code(R)
  BY <1>1, <1>9 DEF Held
<1>11. buf \o (sock' \o (queue' \o cut)) = Code(R)
  <2>1. Assoc(sock, a, b)
    BY <1>3, <1>4, AssocFacts
  <2>2. queue \o cut = queue /\ b \o cut = b
    BY <1>3, <1>4, <1>10, NoneLeft
  <2> QED BY <1>4, <1>5, <1>10, <2>1, <2>2 DEF Assoc
<1>12. Held(R, Q, x, cut, rest)'
  BY <1>1, <1>7, <1>9, <1>11 DEF Held
<1> QED BY <1>8, <1>12 DEF Transit

\* complete_session: the Exit record is the last, or there is none.
LEMMA CompleteKeeps ==
    ASSUME Inv, Shape, Transit, Complete
    PROVE  Shape' /\ Transit'
<1>1. /\ waitStatus = Running /\ link' = link /\ from' = from /\ fed' = fed /\ sock' = sock
      /\ buf' = buf /\ batch' = batch /\ client' = client /\ printed' = printed /\ reported' = reported
  BY DEF Complete, tailVars, clientVars
<1>2. PICK w \in WaitStatuses :
         /\ waitStatus' = w
         /\ LET exit == Encode(WithExit(process_exit(w)))
            IN  queue' = IF link = "open" /\ Pushes(exit) THEN queue \o exit ELSE queue
  BY DEF Complete
<1> DEFINE e == WithExit(process_exit(w))
<1>3. e \in ExitRecord /\ w # Running /\ e \in Sent
  BY WaitStatusFacts DEF Sent
<1>4. Encode(e) \in Seq(Octet) /\ Code(<<e>>) = Encode(e) /\ <<e>> \in Seq(Sent) /\ <<e>> \in Seq(ExitRecord)
  <2> HIDE DEF e
  <2> QED BY <1>3, SentFacts, CodeFacts
<1>5. buf \in Seq(Octet) /\ sock \in Seq(Octet) /\ queue \in Seq(Octet) /\ batch \in Seq(Sent)
  BY DEF Shape
<1>6. \/ queue' = queue
      \/ link = "open" /\ queue' = queue \o Encode(e)
  BY <1>2
<1>7. WithExit(process_exit(waitStatus'))  = e
  BY <1>2
<1> HIDE DEF e
<1>8. Expected' = Expected
  BY <1>1 DEF Expected, Drop
<1>9. Shape'
  <2>1. DecoderNext(buf)' = DecoderNext(buf)
    BY <1>1
  <2>2. queue' \in Seq(Octet) /\ (link # "open" => queue' = queue)
    BY <1>4, <1>5, <1>6, JoinFacts
  <2>3. client # "done"
    BY <1>1 DEF Shape
  <2> QED BY <1>1, <1>2, <2>1, <2>2, <2>3 DEF Shape
<1>10. Transit'
  <2> SUFFICES ASSUME link # "none" PROVE \E R, Q, x, cut, rest : Held(R, Q, x, cut, rest)'
    BY <1>1 DEF Transit
  <2>1. PICK R, Q, x, cut, rest : Held(R, Q, x, cut, rest)
    BY DEF Transit
  <2>2. x = <<>> /\ R \in Seq(Sent) /\ Q \in Seq(Sent) /\ Text(Q) \in Seq(Octet)
    BY <1>1, <2>1, HeldTypes DEF Held
  <2>3. CASE queue' = queue
    <3>1. Held(R, Q, x, cut, rest)'
      BY <1>1, <1>8, <2>1, <2>2, <2>3 DEF Held
    <3> QED BY <3>1
  <2>4. CASE link = "open" /\ queue' = queue \o Encode(e)
    <3> DEFINE R2 == R \o <<e>>
    <3>1. cut = <<>> /\ rest = <<>> /\ batch \o R = Q \o x /\ buf \o (sock \o (queue \o cut)) = Code(R)
      BY <2>1, <2>4 DEF Held
    <3>2. R2 \in Seq(Sent)
      BY <1>4, <2>2, ConcatProperties
    <3>3. batch \o R2 = Q \o <<e>>
      <4>1. Assoc(batch, R, <<e>>)
        BY <1>4, <1>5, <2>2, AssocFacts
      <4>2. Q \o <<>> = Q
        BY <2>2, ConcatEmptySeq
      <4> QED BY <2>2, <3>1, <4>1, <4>2 DEF Assoc
    <3>4. buf \o (sock \o (queue' \o cut)) = Code(R2)
      <4>1. Assoc4(buf, sock, queue, Encode(e))
        BY <1>4, <1>5, AssocFacts
      <4>2. queue \o cut = queue /\ queue' \o cut = queue'
        BY <1>4, <1>5, <2>4, <3>1, JoinFacts, NoneLeft
      <4>3. Code(R2) = Code(R) \o Encode(e)
        BY <1>4, <2>2, CodeFacts
      <4> QED BY <2>4, <3>1, <4>1, <4>2, <4>3 DEF Assoc4
    <3> HIDE DEF R2
    <3>5. client # "done"
      BY <1>1 DEF Shape
    <3>6. Held(R2, Q, <<e>>, cut, rest)'
      BY <1>1, <1>2, <1>3, <1>4, <1>7, <1>8, <2>1, <2>2, <2>4, <3>1, <3>2, <3>3, <3>4, <3>5 DEF Held
    <3> QED BY <3>6
  <2> QED BY <1>6, <2>3, <2>4
<1> QED BY <1>9, <1>10

\* The runner exits: what is queued is cut off.
LEMMA CloseKeeps ==
    ASSUME Inv, Shape, Transit, Close
    PROVE  Shape' /\ Transit'
<1>1. /\ link = "open" /\ link' = "closed" /\ queue' = <<>> /\ from' = from /\ fed' = fed /\ sock' = sock
      /\ waitStatus' = waitStatus
      /\ buf' = buf /\ batch' = batch /\ client' = client /\ printed' = printed /\ reported' = reported
  BY DEF Close, tailVars, clientVars, DropConnection
<1>2. queue \in Seq(Octet) /\ <<>> \in Seq(Octet)
  BY EmptySeq DEF Shape
<1>3. Expected' = Expected
  BY <1>1 DEF Expected, Drop
<1>4. Shape'
  <2>1. DecoderNext(buf)' = DecoderNext(buf)
    BY <1>1
  <2> QED BY <1>1, <1>2, <2>1 DEF Shape
<1>5. PICK R, Q, x, cut, rest : Held(R, Q, x, cut, rest)
  BY <1>1 DEF Transit
<1>6. PICK c : c = queue
  OBVIOUS
<1>7. cut = <<>> /\ rest = <<>> /\ buf \o (sock \o (queue \o cut)) = Code(R)
  BY <1>1, <1>5 DEF Held
<1>8. queue \o cut = queue /\ <<>> \o c = c
  BY <1>2, <1>6, <1>7, NoneLeft
<1>9. Held(R, Q, x, c, rest)'
  BY <1>1, <1>2, <1>3, <1>5, <1>6, <1>7, <1>8 DEF Held
<1> QED BY <1>4, <1>9 DEF Transit

\* What is in the decoder, and what comes behind it.
LEMMA HeldDecoding ==
    ASSUME Shape, NEW R, NEW Q, NEW x, NEW cut, NEW rest, Held(R, Q, x, cut, rest)
    PROVE  /\ sock \o (queue \o cut) \in Seq(Octet)
           /\ \/ /\ DecoderNext(buf) = Nothing /\ Len(buf) < MaxRecord
                 /\ R # <<>> => sock \o (queue \o cut) # <<>>
              \/ /\ R # <<>> /\ DecoderNext(buf) = R[1] /\ R[1] \in Sent
                 /\ DecoderRest(buf) \in Seq(Octet)
                 /\ DecoderRest(buf) \o (sock \o (queue \o cut)) = Code(Tail(R))
                 /\ Tail(R) \in Seq(Sent)
<1> DEFINE more == sock \o (queue \o cut)
<1>1. /\ buf \in Seq(Octet) /\ sock \in Seq(Octet) /\ queue \in Seq(Octet)
      /\ cut \in Seq(Octet) /\ R \in Seq(Sent) /\ buf \o more = Code(R)
  BY DEF Shape, Held
<1>2. more \in Seq(Octet)
  <2>1. queue \o cut \in Seq(Octet)
    BY <1>1, JoinFacts
  <2> QED BY <1>1, <2>1, JoinFacts
<1> HIDE DEF more
<1> QED BY <1>1, <1>2, Decoding DEF more

\* read_records: a whole record fits the buffer, so it is never full.
LEMMA ReadSocketKeeps ==
    ASSUME Inv, Shape, Transit, ReadSocket
    PROVE  Shape' /\ Transit'
<1>1. /\ client = "idle" /\ sock # <<>> /\ link' = link /\ queue' = queue /\ from' = from /\ fed' = fed
      /\ waitStatus' = waitStatus /\ batch' = batch /\ printed' = printed /\ reported' = reported
  BY DEF ReadSocket, tailVars
<1>2. link # "none" /\ DecoderNext(buf) = Nothing /\ buf \in Seq(Octet) /\ sock \in Seq(Octet)
      /\ queue \in Seq(Octet) /\ Len(buf) <= MaxRecord
  BY <1>1 DEF Shape
<1>3. PICK R, Q, x, cut, rest : Held(R, Q, x, cut, rest)
  BY <1>2 DEF Transit
<1>4. Len(buf) < MaxRecord
  <2>1. R \in Seq(Sent) /\ R # <<>> => R[1] # Nothing
    BY CodeFirst, SentFacts
  <2> QED BY <1>2, <1>3, <2>1, HeldDecoding, SentFacts
<1>5. RemainingCapacity # 0
  <2>1. Len(buf) \in Nat /\ MaxRecord \in Nat
    BY <1>2, LenProperties, IpcAssumption DEF MaxRecord, HeaderBytes
  <2> QED BY <1>4, <2>1 DEF RemainingCapacity
<1> DEFINE n == ReadLength
           a == SubSeq(sock, 1, n)
           b == Drop(sock, n)
<1>6. buf' = buf \o a /\ sock' = b /\ client' = "decode"
  BY <1>5 DEF ReadSocket
<1>7. a \in Seq(Octet) /\ b \in Seq(Octet) /\ Len(a) = n /\ a \o b = sock /\ Len(buf) + n <= MaxRecord
  BY <1>2, ReadLengthFacts, SplitAt
<1> HIDE DEF n, a, b
<1>8. buf' \in Seq(Octet) /\ Len(buf') <= MaxRecord
  BY <1>2, <1>6, <1>7, JoinFacts
<1>9. Expected' = Expected
  BY <1>1 DEF Expected, Drop
<1>10. Shape'
  BY <1>1, <1>2, <1>6, <1>7, <1>8 DEF Shape
<1>11. buf' \o (sock' \o (queue' \o cut)) = Code(R)
  <2> DEFINE q == queue \o cut
  <2>1. q \in Seq(Octet) /\ buf \o (sock \o q) = Code(R)
    BY <1>2, <1>3, JoinFacts DEF Held
  <2> HIDE DEF q
  <2>2. Assoc4(buf, a, b, q)
    BY <1>2, <1>7, <2>1, AssocFacts
  <2>3. (buf \o a) \o (b \o q) = Code(R)
    BY <1>7, <2>1, <2>2 DEF Assoc4
  <2> QED BY <1>1, <1>6, <2>3 DEF q
<1>12. Held(R, Q, x, cut, rest)'
  <2>1. client # "done" /\ client' # "done"
    BY <1>1, <1>6
  <2> QED BY <1>1, <1>3, <1>9, <1>11, <2>1 DEF Held
<1> QED BY <1>10, <1>12 DEF Transit

\* The end of file leaves the stream as it is.
LEMMA EndOfFileKeeps ==
    ASSUME Inv, Shape, Transit, EndOfFile
    PROVE  Shape' /\ Transit'
<1>1. /\ client = "idle" /\ client' = "detached" /\ link' = link /\ queue' = queue /\ from' = from /\ fed' = fed
      /\ sock' = sock /\ buf' = buf
      /\ waitStatus' = waitStatus /\ batch' = batch /\ printed' = printed /\ link = "closed"
  BY DEF EndOfFile, tailVars, wireVars
<1>2. Expected' = Expected
  BY <1>1 DEF Expected, Drop
<1>3. Shape'
  BY <1>1 DEF Shape
<1>4. PICK R, Q, x, cut, rest : Held(R, Q, x, cut, rest)
  BY <1>1 DEF Transit
<1>5. Held(R, Q, x, cut, rest)'
  BY <1>1, <1>2, <1>4 DEF Held
<1> QED BY <1>3, <1>5 DEF Transit

\* Decoder::next moves the first record from the stream to the batch.
LEMMA DecodeRecordKeeps ==
    ASSUME Inv, Shape, Transit, DecodeRecord
    PROVE  Shape' /\ Transit'
<1>1. /\ client = "decode" /\ client' = client /\ link' = link /\ queue' = queue /\ from' = from /\ fed' = fed
      /\ sock' = sock /\ reported' = reported
      /\ waitStatus' = waitStatus /\ printed' = printed
      /\ DecoderNext(buf) \notin {Nothing, Invalid}
      /\ batch' = Append(batch, DecoderNext(buf)) /\ buf' = DecoderRest(buf)
  BY DEF DecodeRecord, tailVars, wireVars
<1>2. link # "none" /\ batch \in Seq(Sent) /\ buf \in Seq(Octet) /\ Len(buf) <= MaxRecord
  BY <1>1 DEF Shape
<1>3. PICK R, Q, x, cut, rest : Held(R, Q, x, cut, rest)
  BY <1>2 DEF Transit
<1> DEFINE r == R[1]
           R2 == Tail(R)
<1>4. /\ R # <<>> /\ DecoderNext(buf) = r /\ r \in Sent
      /\ buf' \in Seq(Octet) /\ buf' \o (sock \o (queue \o cut)) = Code(R2)
      /\ R2 \in Seq(Sent)
  BY <1>1, <1>3, HeldDecoding
<1>5. R \in Seq(Sent) /\ batch \o R = Q \o x /\ R = <<r>> \o R2
  <2>1. R \in Seq(Sent) /\ batch \o R = Q \o x
    BY <1>3 DEF Held
  <2> QED BY <1>4, <2>1, CodeFirst
<1> HIDE DEF r, R2
<1>6. batch' \in Seq(Sent) /\ batch' \o R2 = Q \o x
  <2>1. batch' = batch \o <<r>> /\ <<r>> \in Seq(Sent)
    BY <1>1, <1>2, <1>4, AppendIsConcat
  <2>2. Assoc(batch, <<r>>, R2)
    BY <1>2, <1>4, <2>1, AssocFacts
  <2>3. batch' \in Seq(Sent)
    BY <1>2, <2>1, ConcatProperties
  <2> QED BY <1>5, <2>1, <2>2, <2>3 DEF Assoc
<1>7. Len(buf') <= MaxRecord
  <2> DEFINE p == PayloadLength(buf)
  <2>1. Len(buf) \in Nat /\ MaxRecord \in Nat /\ Len(buf') \in Nat
    BY <1>2, <1>4, LenProperties, IpcAssumption DEF MaxRecord, HeaderBytes
  <2>2. Len(buf') <= Len(buf)
    <3> DEFINE k == sock \o (queue \o cut)
    <3>1. k \in Seq(Octet) /\ buf \o k = Code(R) /\ buf' \o k = Code(R2) /\ Encode(r) \in Seq(Octet)
      BY <1>3, <1>4, HeldDecoding, SentFacts DEF Held
    <3>2. Code(R) = Encode(r) \o Code(R2) /\ Code(R2) \in Seq(Octet)
      BY <1>4, <1>5, CodeFirst, CodeFacts DEF r, R2
    <3> HIDE DEF k
    <3>3. Len(buf \o k) = Len(buf) + Len(k) /\ Len(buf' \o k) = Len(buf') + Len(k)
      BY <1>2, <1>4, <3>1, JoinFacts
    <3>4. Len(Code(R)) = Len(Encode(r)) + Len(Code(R2))
      BY <3>1, <3>2, JoinFacts
    <3>5. Len(k) \in Nat /\ Len(Encode(r)) \in Nat /\ Len(Code(R2)) \in Nat
      BY <3>1, <3>2, LenProperties
    <3> QED BY <2>1, <3>1, <3>3, <3>4, <3>5
  <2> QED BY <1>2, <2>1, <2>2
<1>8. Expected' = Expected
  BY <1>1 DEF Expected, Drop
<1>9. Shape'
  BY <1>1, <1>2, <1>4, <1>6, <1>7 DEF Shape
<1>10. Held(R2, Q, x, cut, rest)'
  BY <1>1, <1>3, <1>4, <1>6, <1>8 DEF Held
<1> QED BY <1>9, <1>10 DEF Transit

\* attach_live: the batch's output is printed, and an Exit returned.
LEMMA WriteBatchKeeps ==
    ASSUME Inv, Shape, Transit, WriteBatch
    PROVE  Shape' /\ Transit'
<1>1. /\ client = "decode" /\ link' = link /\ queue' = queue /\ from' = from /\ fed' = fed
      /\ sock' = sock /\ buf' = buf /\ waitStatus' = waitStatus /\ batch' = <<>>
      /\ DecoderNext(buf) \in {Nothing, Invalid}
      /\ printed' = printed \o FlattenSeq([i \in 1..Len(Outputs) |-> Outputs[i].bytes])
      /\ client' = CASE DecoderNext(buf) = Invalid -> "failed"
                     [] EndsBatch = Nothing -> "idle"
                     [] EndsBatch.kind = "exit" -> "done"
                     [] OTHER -> "failed"
      /\ reported' = IF client' = "done" THEN status_code(EndsBatch.status) ELSE reported
  BY DEF WriteBatch, tailVars, wireVars
<1>2. link # "none" /\ batch \in Seq(Sent) /\ buf \in Seq(Octet) /\ printed \in Seq(Octet)
  BY <1>1 DEF Shape
<1>3. PICK R, Q, x, cut, rest : Held(R, Q, x, cut, rest)
  BY <1>2 DEF Transit
<1>4. /\ R \in Seq(Sent) /\ Q \in Seq(OutputRecord) /\ x \in Seq(ExitRecord) /\ Len(x) <= 1
      /\ Q \in Seq(Sent) /\ x \in Seq(Sent) /\ Text(Q) \in Seq(Octet)
      /\ batch \o R = Q \o x /\ printed \o (Text(Q) \o rest) = Expected /\ rest \in Seq(Octet)
  BY <1>3, HeldTypes DEF Held
<1>5. DecoderNext(buf) = Nothing
  BY <1>1, <1>3, HeldDecoding, SentFacts
<1>6. Expected' = Expected
  BY <1>1 DEF Expected, Drop
<1>7. DecoderNext(buf)' = Nothing /\ Nothing # Invalid
  <2>1. Nothing.kind = "none" /\ Invalid.kind = "error"
    BY DEF Nothing, Invalid, Bare
  <2>2. DecoderNext(buf)' = DecoderNext(buf)
    BY <1>1
  <2> QED BY <1>5, <2>1, <2>2
<1>8. \/ /\ Outputs = batch /\ EndsBatch = Nothing /\ batch \in Seq(OutputRecord)
         /\ \E P \in Seq(OutputRecord) : Q = batch \o P /\ R = P \o x
      \/ x # <<>> /\ Outputs = Q /\ EndsBatch = x[1] /\ R = <<>>
  BY <1>2, <1>4, <1>5, BatchFacts
<1>9. CASE /\ Outputs = batch /\ EndsBatch = Nothing /\ batch \in Seq(OutputRecord)
           /\ \E P \in Seq(OutputRecord) : Q = batch \o P /\ R = P \o x
  <2>1. PICK P \in Seq(OutputRecord) : Q = batch \o P /\ R = P \o x
    BY <1>9
  <2>2. client' = "idle" /\ reported' = reported
    <3>1. EndsBatch.kind = "none"
      BY <1>9 DEF Nothing, Bare
    <3>2. DecoderNext(buf) # Invalid /\ EndsBatch = Nothing
      BY <1>5, <1>7, <1>9
    <3>3. client' = "idle"
      BY <1>1, <3>1, <3>2, Zenon
    <3> QED BY <1>1, <3>3
  <2>3. P \in Seq(Sent) /\ Text(P) \in Seq(Octet) /\ Text(batch) \in Seq(Octet) /\ Text(Q) = Text(batch) \o Text(P)
    BY <1>2, <2>1, TextOfOutputs, CodeFacts
  <2>4. printed' = printed \o Text(batch)
    <3>1. FlattenSeq([i \in 1..Len(batch) |-> batch[i].bytes]) = Text(batch)
      BY <1>9, TextOfOutputs
    <3> QED BY <1>1, <1>9, <3>1
  <2>5. printed' \in Seq(Octet)
    BY <1>2, <2>3, <2>4, JoinFacts
  <2>6. printed' \o (Text(P) \o rest) = Expected
    <3>1. Assoc4(printed, Text(batch), Text(P), rest)
      BY <1>2, <1>4, <2>3, AssocFacts
    <3> QED BY <1>4, <2>3, <2>4, <3>1 DEF Assoc4
  <2>7. <<>> \o R = P \o x
    BY <1>4, <2>1, ConcatEmptySeq
  <2>8. Shape'
    <3>1. <<>> \in Seq(Sent)
      BY EmptySeq
    <3> QED BY <1>1, <1>2, <1>7, <2>2, <2>5, <3>1 DEF Shape
  <2>9. Held(R, P, x, cut, rest)'
    BY <1>1, <1>3, <1>6, <2>2, <2>1, <2>6, <2>7 DEF Held
  <2> QED BY <2>8, <2>9 DEF Transit
<1>10. CASE x # <<>> /\ Outputs = Q /\ EndsBatch = x[1] /\ R = <<>>
  <2>1. waitStatus # Running /\ x = <<WithExit(process_exit(waitStatus))>> /\ rest = <<>>
    BY <1>3, <1>10 DEF Held
  <2>2. EndsBatch = WithExit(process_exit(waitStatus))
    BY <1>10, <2>1
  <2>3. waitStatus \in WaitStatuses
    BY <2>1 DEF Shape
  <2>4. EndsBatch.kind = "exit" /\ EndsBatch # Nothing /\ EndsBatch.status = process_exit(waitStatus)
    <3>1. EndsBatch.kind = "exit" /\ EndsBatch.status = process_exit(waitStatus)
      BY <2>2 DEF WithExit
    <3>2. Nothing.kind = "none"
      BY DEF Nothing, Bare
    <3> QED BY <3>1, <3>2
  <2>5. client' = "done"
    BY <1>1, <1>5, <1>7, <2>4
  <2>6. reported' = ShellCode(waitStatus)
    BY <1>1, <2>3, <2>4, <2>5, WaitStatusFacts
  <2>7. printed' = printed \o Text(Q)
    <3>1. FlattenSeq([i \in 1..Len(Q) |-> Q[i].bytes]) = Text(Q)
      BY <1>4, TextOfOutputs
    <3> QED BY <1>1, <1>10, <3>1
  <2>8. printed' \in Seq(Octet) /\ printed' = Expected
    <3>1. Text(Q) \o <<>> = Text(Q)
      BY <1>4, NoneLeft
    <3> QED BY <1>2, <1>4, <2>1, <2>7, <3>1, JoinFacts
  <2>9. Shape'
    <3>1. <<>> \in Seq(Sent)
      BY EmptySeq
    <3>2. ShellCode(waitStatus)' = ShellCode(waitStatus)
      BY <1>1
    <3> QED BY <1>1, <1>2, <1>7, <2>1, <2>5, <2>6, <2>8, <3>1, <3>2 DEF Shape
  <2>10. Held(<<>>, <<>>, <<>>, cut, rest)'
    <3>1. <<>> \in Seq(Sent) /\ <<>> \in Seq(OutputRecord) /\ <<>> \in Seq(ExitRecord) /\ <<>> \in Seq(Octet)
      BY EmptySeq
    <3>2. Text(<<>>) = <<>> /\ <<>> \o <<>> = <<>> /\ printed' \o (<<>> \o <<>>) = printed'
      BY <2>8, <3>1, CodeFacts, NoneLeft
    <3>3. buf \o (sock \o (queue \o cut)) = Code(<<>>)
      BY <1>3, <1>10 DEF Held
    <3>4. <<>> \o <<>> = <<>>
      BY <3>1, NoneLeft
    <3> QED BY <1>1, <1>3, <1>6, <2>1, <2>5, <2>8, <3>1, <3>2, <3>3, <3>4 DEF Held
  <2> QED BY <2>9, <2>10 DEF Transit
<1> QED BY <1>8, <1>9, <1>10

RelayInv == Inv /\ Shape /\ Transit

\* The invariant holds at first ...
LEMMA RelayInvInit == RelayInit => RelayInv
<1> SUFFICES ASSUME RelayInit PROVE RelayInv
  OBVIOUS
<1>1. Inv
  BY InitInv DEF RelayInit
<1>2. /\ waitStatus = Running /\ link = "none" /\ from = 0 /\ queue = <<>> /\ sock = <<>>
      /\ buf = <<>> /\ batch = <<>> /\ client = "idle" /\ printed = <<>>
  BY DEF RelayInit
<1>3. Shape
  <2>1. <<>> \in Seq(Octet) /\ <<>> \in Seq(Sent) /\ Len(<<>>) = 0
    BY EmptySeq
  <2>2. DecoderNext(<<>>) = Nothing
    BY DecoderBranches
  <2>3. 0 <= MaxRecord /\ 0 <= Len(fed)
    BY <1>1, TailOctets, IpcAssumption DEF MaxRecord, HeaderBytes
  <2> QED BY <1>2, <2>1, <2>2, <2>3 DEF Shape
<1>4. Transit
  BY <1>2 DEF Transit
<1> QED BY <1>1, <1>3, <1>4 DEF RelayInv

\* ... and after every step.
LEMMA RelayInvNext == RelayInv /\ [RelayNext]_relayVars => RelayInv'
<1> SUFFICES ASSUME RelayInv, [RelayNext]_relayVars PROVE RelayInv'
  OBVIOUS
<1>0. Inv /\ Shape /\ Transit
  BY DEF RelayInv
<1>1. Inv'
  <2>1. [Next]_vars
    BY RelayStepRunsTail
  <2> QED BY <1>0, <2>1, NextInv
<1>2. CASE ReadPty
  BY <1>0, <1>1, <1>2, ReadPtyKeeps DEF RelayInv
<1>3. CASE Attach
  BY <1>0, <1>1, <1>3, AttachKeeps DEF RelayInv
<1>4. CASE Flush
  BY <1>0, <1>1, <1>4, FlushKeeps DEF RelayInv
<1>5. CASE Complete
  BY <1>0, <1>1, <1>5, CompleteKeeps DEF RelayInv
<1>6. CASE Close
  BY <1>0, <1>1, <1>6, CloseKeeps DEF RelayInv
<1>7. CASE ReadSocket
  BY <1>0, <1>1, <1>7, ReadSocketKeeps DEF RelayInv
<1>8. CASE EndOfFile
  BY <1>0, <1>1, <1>8, EndOfFileKeeps DEF RelayInv
<1>9. CASE DecodeRecord
  BY <1>0, <1>1, <1>9, DecodeRecordKeeps DEF RelayInv
<1>10. CASE WriteBatch
  BY <1>0, <1>1, <1>10, WriteBatchKeeps DEF RelayInv
<1>11. CASE UNCHANGED relayVars
  <2>1. /\ fed' = fed /\ waitStatus' = waitStatus /\ link' = link /\ from' = from /\ queue' = queue
        /\ sock' = sock /\ buf' = buf /\ batch' = batch /\ client' = client /\ printed' = printed
        /\ reported' = reported
    BY <1>11 DEF relayVars, tailVars, wireVars, clientVars
  <2>2. Expected' = Expected
    BY <2>1 DEF Expected, Drop
  <2>3. Shape'
    BY <1>0, <2>1 DEF Shape
  <2>4. CASE link = "none"
    BY <1>1, <2>1, <2>3, <2>4 DEF RelayInv, Transit
  <2>5. CASE link # "none"
    <3>1. PICK R, Q, x, cut, rest : Held(R, Q, x, cut, rest)
      BY <1>0, <2>5 DEF Transit
    <3>2. Held(R, Q, x, cut, rest)'
      BY <2>1, <2>2, <3>1 DEF Held
    <3> QED BY <1>1, <2>3, <3>2 DEF RelayInv, Transit
  <2> QED BY <2>4, <2>5
<1> QED BY <1>2, <1>3, <1>4, <1>5, <1>6, <1>7, <1>8, <1>9, <1>10, <1>11 DEF RelayNext

\* What the properties say follows from the decomposition of the stream.
LEMMA InvEndToEnd == RelayInv => EndToEnd /\ StatusFaithful
<1> SUFFICES ASSUME RelayInv PROVE EndToEnd /\ StatusFaithful
  OBVIOUS
<1>0. Inv /\ Shape /\ Transit
  BY DEF RelayInv
<1>1. StatusFaithful
  BY <1>0 DEF Shape, StatusFaithful, ShellCode
<1>2. CASE link = "none"
  <2>1. client = "idle"
    BY <1>0, <1>2 DEF Shape
  <2> QED BY <1>1, <1>2, <2>1 DEF EndToEnd
<1>3. CASE link # "none"
  <2>1. PICK R, Q, x, cut, rest : Held(R, Q, x, cut, rest)
    BY <1>0, <1>3 DEF Transit
  <2>2. /\ Text(Q) \in Seq(Octet) /\ rest \in Seq(Octet) /\ printed \in Seq(Octet) /\ Expected \in Seq(Octet)
        /\ printed \o (Text(Q) \o rest) = Expected
    <3>1. Text(Q) \in Seq(Octet)
      BY <2>1, HeldTypes
    <3>2. rest \in Seq(Octet) /\ printed \o (Text(Q) \o rest) = Expected
      BY <2>1 DEF Held
    <3>3. printed \in Seq(Octet)
      BY <1>0 DEF Shape
    <3>4. Expected \in Seq(Octet)
      BY <1>0, ExpectedType
    <3> QED BY <3>1, <3>2, <3>3, <3>4
  <2>3. IsPrefix(printed, Expected)
    <3> DEFINE p == printed
               e == Expected
               u == Text(Q) \o rest
    <3>1. p \in Seq(Octet) /\ e \in Seq(Octet) /\ u \in Seq(Octet) /\ p \o u = e
      BY <2>2, JoinFacts
    <3> HIDE DEF p, e, u
    <3>2. Len(p) <= Len(e)
      <4>1. Len(p \o u) = Len(p) + Len(u) /\ Len(p) \in Nat /\ Len(u) \in Nat
        BY <3>1, JoinFacts, LenProperties
      <4> QED BY <3>1, <4>1
    <3>3. SubSeq(p, 1, Len(p)) = SubSeq(e, 1, Len(p))
      <4>1. Len(p) \in Nat
        BY <3>1, LenProperties
      <4>2. CASE Len(p) = 0
        <5>1. SubSeq(p, 1, 0) = <<>> /\ SubSeq(e, 1, 0) = <<>>
          BY SubSeqEmpty
        <5> QED BY <4>2, <5>1
      <4>3. CASE Len(p) # 0
        <5>1. 1 \in 1..Len(p) /\ Len(p) \in 1..Len(p)
          BY <4>1, <4>3
        <5>2. SubSeq(p \o u, 1, Len(p)) = SubSeq(p, 1, Len(p))
          BY <3>1, <5>1, SubSeqOfConcat1
        <5> QED BY <3>1, <5>2
      <4> QED BY <4>2, <4>3
    <3>4. IsPrefix(p, e)
      BY <3>2, <3>3 DEF IsPrefix
    <3> QED BY <3>4 DEF p, e
  <2>4. Q = <<>> /\ rest = <<>> => printed = Expected
    BY <2>2, CodeFacts, NoneLeft, EmptySeq
  <2>5. client = "done" => printed = Expected
    BY <2>1, <2>4 DEF Held
  <2>6. client # "failed"
    BY <1>0 DEF Shape
  <2>7. ASSUME link = "open", queue = <<>>, sock = <<>>, client = "idle", waitStatus = Running
        PROVE  printed = Expected
    <3>1. /\ cut = <<>> /\ rest = <<>> /\ x = <<>> /\ batch \o R = Q \o x /\ batch = <<>>
          /\ R \in Seq(Sent) /\ Q \in Seq(Sent) /\ DecoderNext(buf) = Nothing
      BY <1>0, <2>1, <2>7, HeldTypes, SMTT(60) DEF Held, Shape
    <3>2. <<>> \in Seq(Octet)
      BY EmptySeq
    <3>3. sock \o (queue \o cut) = <<>>
      BY <2>7, <3>1, <3>2, NoneLeft
    <3>4. R = <<>>
      BY <1>0, <2>1, <3>1, <3>3, HeldDecoding, SentFacts
    <3>5. Q = <<>>
      BY <3>1, <3>4, ConcatEmptySeq
    <3> QED BY <2>4, <3>1, <3>5
  <2>8. link = "open" /\ queue = <<>> /\ sock = <<>> /\ client = "idle" /\ waitStatus = Running
           => printed = Expected
    BY <2>7
  <2> QED BY <1>1, <2>3, <2>5, <2>6, <2>8 DEF EndToEnd
<1> QED BY <1>1, <1>2, <1>3

\* The terminal of an attached client shows the output from the first byte that
\* was kept on, never cut inside, repeated or mistaken for framing, however
\* payloads, writes and reads divide it; all of it before a status is returned
\* and whenever nothing is in transit; and no client of this runner ever meets
\* an invalid record or a full decoder (enqueue_output, flush, Decoder::next,
\* attach_live).
THEOREM RelayEndToEnd == RelaySpec => []EndToEnd
<1> QED BY RelayInvInit, RelayInvNext, InvEndToEnd, PTL DEF RelaySpec

\* An attached command returns what a shell would for the child's wait status
\* (process_exit, the Exit record, decode_exit and status_code).
THEOREM RelayStatusFaithful == RelaySpec => []StatusFaithful
<1> QED BY RelayInvInit, RelayInvNext, InvEndToEnd, PTL DEF RelaySpec
=============================================================================

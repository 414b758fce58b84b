----------------------------- MODULE Relay_proofs -----------------------------
(***************************************************************************)
(* The way of the output, for all limits: the tail holds the last          *)
(* min(capacity, n) of the n bytes it was given, alone and inside Relay;   *)
(* every record survives the codec and nothing else is accepted.           *)
(***************************************************************************)
EXTENDS Relay, SequenceTheorems, TLAPS

-----------------------------------------------------------------------------
(* The tail.                                                                *)

\* What is left of a sequence after its first n elements were dropped.
LEMMA DropFacts ==
    ASSUME NEW S, NEW s \in Seq(S), NEW n \in 0..Len(s)
    PROVE  /\ Drop(s, n) \in Seq(S)
           /\ Len(Drop(s, n)) = Len(s) - n
           /\ \A i \in 1..(Len(s) - n) : Drop(s, n)[i] = s[i + n]
  <1>1. /\ Len(s) \in Nat
        /\ \A i \in 1..Len(s) : s[i] \in S
    BY LenProperties, ElementOfSeq
  <1>2. \A i \in (n + 1)..Len(s) : s[i] \in S
    BY <1>1
  <1>3. /\ SubSeq(s, n + 1, Len(s)) \in Seq(S)
        /\ Len(SubSeq(s, n + 1, Len(s))) =
             IF n + 1 <= Len(s) THEN Len(s) - (n + 1) + 1 ELSE 0
        /\ \A i \in 1..(Len(s) - (n + 1) + 1) :
             SubSeq(s, n + 1, Len(s))[i] = s[(n + 1) + i - 1]
    BY <1>1, <1>2, SubSeqProperties
  <1> QED BY <1>1, <1>3 DEF Drop

\* Dropping twice is dropping the sum.
LEMMA DropDrop ==
    ASSUME NEW S, NEW s \in Seq(S), NEW a \in Nat, NEW b \in Nat, a + b <= Len(s)
    PROVE  Drop(Drop(s, a), b) = Drop(s, a + b)
  <1> DEFINE n == Len(s)
             m == Drop(s, a)
             l == Drop(m, b)
             r == Drop(s, a + b)
  <1>0. n \in Nat
    BY LenProperties
  <1>1. /\ m \in Seq(S)
        /\ Len(m) = n - a
        /\ \A i \in 1..(n - a) : m[i] = s[i + a]
    <2>1. a \in 0..Len(s)
      BY <1>0
    <2> QED BY <2>1, DropFacts
  <1>2. /\ r \in Seq(S)
        /\ Len(r) = n - (a + b)
        /\ \A i \in 1..(n - (a + b)) : r[i] = s[i + (a + b)]
    <2>1. a + b \in 0..Len(s)
      BY <1>0
    <2> QED BY <2>1, DropFacts
  <1> HIDE DEF m
  <1>3. /\ l \in Seq(S)
        /\ Len(l) = Len(m) - b
        /\ \A i \in 1..(Len(m) - b) : l[i] = m[i + b]
    <2> HIDE DEF n
    <2>1. b \in 0..Len(m)
      BY <1>0, <1>1 DEF n
    <2> QED BY <1>1, <2>1, DropFacts
  <1> HIDE DEF n, l, r
  <1>4. Len(l) = n - (a + b) /\ Len(r) = n - (a + b)
    BY <1>0, <1>1, <1>2, <1>3
  <1>5. ASSUME NEW i \in 1..(n - (a + b)) PROVE l[i] = r[i]
    <2>1. i + b \in 1..(n - a) /\ i \in 1..(Len(m) - b)
      BY <1>0, <1>1, SMTT(60)
    <2>2. l[i] = m[i + b]
      BY <1>3, <2>1
    <2>3. m[i + b] = s[(i + b) + a]
      BY <1>1, <2>1
    <2>4. r[i] = s[i + (a + b)]
      BY <1>2
    <2>5. (i + b) + a = i + (a + b)
      BY <1>0
    <2> QED BY <2>2, <2>3, <2>4, <2>5
  <1>6. l = r
    BY <1>2, <1>3, <1>4, <1>5, SeqEqual
  <1> QED BY <1>6 DEF l, r, m

\* Dropping from the first of two concatenated sequences.
LEMMA DropConcatLeft ==
    ASSUME NEW S, NEW s \in Seq(S), NEW t \in Seq(S), NEW n \in 0..Len(s)
    PROVE  Drop(s, n) \o t = Drop(s \o t, n)
  <1>0. Len(s) \in Nat /\ Len(t) \in Nat
    BY LenProperties
  <1> DEFINE c == s \o t
             d == Drop(s, n)
             l == d \o t
             r == Drop(c, n)
  <1>1. /\ c \in Seq(S)
        /\ Len(c) = Len(s) + Len(t)
        /\ \A i \in 1..(Len(s) + Len(t)) :
             c[i] = IF i <= Len(s) THEN s[i] ELSE t[i - Len(s)]
    BY ConcatProperties
  <1>2. /\ d \in Seq(S)
        /\ Len(d) = Len(s) - n
        /\ \A i \in 1..(Len(s) - n) : d[i] = s[i + n]
    BY DropFacts
  <1> HIDE DEF d
  <1>3. /\ l \in Seq(S)
        /\ Len(l) = Len(d) + Len(t)
        /\ \A i \in 1..(Len(d) + Len(t)) :
             l[i] = IF i <= Len(d) THEN d[i] ELSE t[i - Len(d)]
    BY <1>2, ConcatProperties
  <1>4. n \in 0..Len(c)
    BY <1>0, <1>1
  <1> HIDE DEF c
  <1>5. /\ r \in Seq(S)
        /\ Len(r) = Len(c) - n
        /\ \A i \in 1..(Len(c) - n) : r[i] = c[i + n]
    BY <1>1, <1>4, DropFacts
  <1> HIDE DEF l, r
  <1>6. Len(l) = Len(r)
    BY <1>0, <1>1, <1>2, <1>3, <1>5
  <1>7. ASSUME NEW i \in 1..Len(l) PROVE l[i] = r[i]
    <2>1. r[i] = c[i + n] /\ i + n \in 1..(Len(s) + Len(t))
      BY <1>0, <1>1, <1>2, <1>3, <1>5
    <2>2. CASE i <= Len(s) - n
      <3>1. i \in 1..(Len(d) + Len(t)) /\ i <= Len(d) /\ i \in 1..(Len(s) - n)
        BY <1>0, <1>2, <1>3, <2>2
      <3>2. l[i] = d[i]
        BY <1>3, <3>1
      <3>3. d[i] = s[i + n]
        BY <1>2, <3>1
      <3>4. c[i + n] = s[i + n]
        BY <1>0, <1>1, <2>1, <2>2
      <3> QED BY <2>1, <3>2, <3>3, <3>4
    <2>3. CASE i > Len(s) - n
      <3>1. l[i] = t[i - (Len(s) - n)]
        <4>1. i \in 1..(Len(d) + Len(t)) /\ ~(i <= Len(d))
          BY <1>0, <1>2, <1>3, <2>3
        <4> QED BY <1>2, <1>3, <4>1
      <3>2. c[i + n] = t[(i + n) - Len(s)]
        BY <1>0, <1>1, <2>1, <2>3
      <3>3. i - (Len(s) - n) = (i + n) - Len(s)
        BY <1>0, <1>2, <1>3
      <3> QED BY <2>1, <3>1, <3>2, <3>3
    <2> QED BY <1>0, <1>2, <1>3, <2>2, <2>3
  <1>8. l = r
    BY <1>3, <1>5, <1>6, <1>7, SeqEqual
  <1> QED BY <1>8 DEF l, r, c, d

\* Dropping all of the first sequence and part of the second.
LEMMA DropConcatRight ==
    ASSUME NEW S, NEW s \in Seq(S), NEW t \in Seq(S), NEW n \in 0..Len(t)
    PROVE  Drop(s \o t, Len(s) + n) = Drop(t, n)
  <1> DEFINE c == s \o t
             m == Len(s)
  <1>0. m \in Nat /\ Len(t) \in Nat
    BY LenProperties
  <1>1. c \in Seq(S) /\ Len(c) = m + Len(t)
    BY ConcatProperties
  <1>2. Drop(s, m) \o t = Drop(c, m)
    <2>1. m \in 0..Len(s)
      BY <1>0
    <2> HIDE DEF m
    <2> QED BY <2>1, DropConcatLeft
  <1>3. Drop(s, m) = <<>>
    BY <1>0, SubSeqEmpty DEF Drop
  <1>4. <<>> \o t = t
    BY ConcatEmptySeq
  <1> HIDE DEF c, m
  <1>5. Drop(Drop(c, m), n) = Drop(c, m + n)
    <2>1. m \in Nat /\ n \in Nat /\ m + n <= Len(c)
      BY <1>0, <1>1
    <2> QED BY <1>1, <2>1, DropDrop
  <1>6. Drop(c, m + n) = Drop(t, n)
    BY <1>2, <1>3, <1>4, <1>5
  <1> QED BY <1>6 DEF c, m

-----------------------------------------------------------------------------
\* The three facts together are inductive: each branch of extend() keeps the
\* tail the right suffix only because the tail was one before.
Inv == TypeOK /\ TailIsSuffix /\ TruncatedIffLost

LEMMA InitInv == Init => Inv
  <1> SUFFICES ASSUME Init PROVE Inv
    OBVIOUS
  <1>1. capacity \in Nat /\ capacity \in Capacities
    BY CapacityAssumption DEF Init
  <1>2. <<>> \in Seq(Byte) /\ Len(<<>>) = 0
    BY EmptySeq
  <1>3. Drop(<<>>, 0) = <<>>
    BY <1>2, SubSeqEmpty DEF Drop
  <1>4. Lost(0) = 0
    BY <1>1 DEF Lost
  <1>5. TypeOK
    <2>1. bytes = <<>> /\ fed = <<>> /\ truncated = FALSE
      BY DEF Init
    <2>2. Len(bytes) <= capacity
      <3>1. Len(bytes) = 0
        BY <1>2, <2>1
      <3> QED BY <1>1, <3>1
    <2>3. bytes \in Seq(Byte) /\ fed \in Seq(Byte)
      BY <1>2, <2>1
    <2> QED BY <1>1, <2>1, <2>2, <2>3 DEF TypeOK
  <1>6. TailIsSuffix
    BY <1>2, <1>3, <1>4 DEF Init, TailIsSuffix
  <1>7. TruncatedIffLost
    BY <1>2, <1>4 DEF Init, TruncatedIffLost
  <1> QED BY <1>5, <1>6, <1>7 DEF Inv

LEMMA NextInv == Inv /\ [Next]_vars => Inv'
  <1> SUFFICES ASSUME Inv, [Next]_vars PROVE Inv'
    OBVIOUS
  <1>1. CASE UNCHANGED vars
    BY <1>1 DEF vars, Inv, TypeOK, TailIsSuffix, TruncatedIffLost, Drop, Lost
  <1>2. ASSUME NEW incoming \in Chunks, Extend(incoming) PROVE Inv'
    <2> DEFINE n == Len(fed)
               k == Len(incoming)
               m == Len(bytes)
    <2>1. /\ incoming \in Seq(Byte) /\ k \in Nat
          /\ fed \in Seq(Byte) /\ n \in Nat
          /\ bytes \in Seq(Byte) /\ m \in Nat
          /\ capacity \in Nat
      BY ChunksAssumption, CapacityAssumption, LenProperties DEF Inv, TypeOK
    <2>2. /\ fed' = fed \o incoming
          /\ capacity' = capacity
          /\ fed' \in Seq(Byte)
          /\ Len(fed') = n + k
      BY <1>2, <2>1, ConcatProperties DEF Extend
    <2>3. /\ bytes = Drop(fed, Lost(n))
          /\ truncated <=> Lost(n) > 0
      BY DEF Inv, TailIsSuffix, TruncatedIffLost
    <2>4. Lost(n) = n - m
      <3>1. Lost(n) \in 0..Len(fed)
        BY <2>1 DEF Lost
      <3>2. Len(bytes) = Len(fed) - Lost(n)
        BY <2>1, <2>3, <3>1, DropFacts
      <3> HIDE DEF n, m
      <3>3. m = n - Lost(n) /\ Lost(n) \in Nat
        BY <3>1, <3>2, <2>1 DEF n, m
      <3> QED BY <2>1, <3>3
    <2>5. /\ (incoming = <<>>) <=> (k = 0)
          /\ (bytes = <<>>) <=> (m = 0)
      BY <2>1, EmptySeq
    <2>6. ASSUME bytes' \in Seq(Byte),
                 Len(bytes') <= capacity,
                 bytes' = Drop(fed', Lost(n + k)),
                 truncated' \in BOOLEAN,
                 truncated' <=> Lost(n + k) > 0
          PROVE  Inv'
      <3>2. Lost(Len(fed))' = Lost(n + k)
        BY <2>2 DEF Lost
      <3>3. TypeOK'
        BY <2>2, <2>6 DEF Inv, TypeOK
      <3>4. TailIsSuffix'
        BY <2>6, <3>2 DEF TailIsSuffix, Drop
      <3>5. TruncatedIffLost'
        BY <2>6, <3>2 DEF TruncatedIffLost
      <3> QED BY <3>3, <3>4, <3>5 DEF Inv
    <2> HIDE DEF n, k, m
    <2>7. CASE ExtendNothing(incoming)
      <3>1. k = 0 /\ n + k = n
        BY <2>1, <2>5, <2>7 DEF ExtendNothing
      <3>2. fed' = fed /\ bytes' = bytes /\ truncated' = truncated
        BY <2>1, <2>2, <2>7, ConcatEmptySeq DEF ExtendNothing
      <3> QED BY <2>3, <2>6, <3>1, <3>2 DEF Inv, TypeOK
    <2>8. CASE ExtendNoRoom(incoming)
      <3>1. k > 0 /\ capacity = 0 /\ bytes' = bytes /\ truncated' = TRUE
        BY <2>1, <2>5, <2>8 DEF ExtendNoRoom
      <3>2. m = 0 /\ Lost(n + k) = n + k /\ Lost(n + k) > 0
        BY <2>1, <2>4, <3>1 DEF Lost
      <3>3. Drop(fed', n + k) = <<>>
        BY <2>1, <2>2, SubSeqEmpty DEF Drop
      <3>4. bytes' = Drop(fed', Lost(n + k))
        BY <2>5, <3>1, <3>2, <3>3
      <3> QED BY <2>6, <3>1, <3>2, <3>4 DEF Inv, TypeOK
    <2>9. CASE ExtendReplace(incoming)
      <3>1. /\ k > 0 /\ k >= capacity /\ capacity > 0
            /\ bytes' = Drop(incoming, k - capacity)
            /\ truncated' = (truncated \/ bytes # <<>> \/ k > capacity)
        BY <2>1, <2>5, <2>9 DEF ExtendReplace, k
      <3>2. Lost(n + k) = n + (k - capacity)
        BY <2>1, <3>1 DEF Lost
      <3>3. k - capacity \in 0..Len(incoming)
        BY <2>1, <3>1 DEF k
      <3>4. Drop(fed \o incoming, Len(fed) + (k - capacity)) = Drop(incoming, k - capacity)
        BY <2>1, <3>3, DropConcatRight
      <3>5. bytes' = Drop(fed', Lost(n + k))
        BY <2>2, <3>1, <3>2, <3>4 DEF n
      <3>6. bytes' \in Seq(Byte) /\ Len(bytes') = k - (k - capacity)
        BY <2>1, <3>1, <3>3, DropFacts DEF k
      <3>7. Len(bytes') <= capacity
        BY <2>1, <3>6
      <3>8. n > 0 <=> (Lost(n) > 0 \/ m # 0)
        BY <2>1, <2>4 DEF Lost
      <3>9. Lost(n + k) > 0 <=> (Lost(n) > 0 \/ m # 0 \/ k > capacity)
        BY <2>1, <3>1, <3>2, <3>8
      <3>10. truncated' <=> Lost(n + k) > 0
        BY <2>3, <2>5, <3>1, <3>9
      <3> QED BY <2>6, <3>1, <3>5, <3>6, <3>7, <3>10
    <2>10. CASE ExtendShift(incoming)
      <3> DEFINE over == Overflow(incoming)
      <3>1. /\ k > 0 /\ k < capacity
            /\ bytes' = Drop(bytes, over) \o incoming
            /\ truncated' = (truncated \/ over # 0)
        BY <2>1, <2>5, <2>10 DEF ExtendShift, k
      <3>2. over = IF m + k > capacity THEN m + k - capacity ELSE 0
        BY DEF Overflow, m, k
      <3> HIDE DEF over
      <3>3. over \in 0..m /\ over \in Nat
        <4>1. m <= capacity
          BY DEF Inv, TypeOK, m
        <4> QED BY <2>1, <3>1, <3>2, <4>1
      <3>4. Lost(n) \in Nat /\ Lost(n) + over <= n
        BY <2>1, <2>4, <3>3 DEF Lost
      <3>5. Lost(n + k) = Lost(n) + over
        BY <2>1, <2>4, <3>1, <3>2 DEF Lost
      <3>6. Drop(bytes, over) = Drop(fed, Lost(n) + over)
        BY <2>1, <2>3, <3>3, <3>4, DropDrop DEF n
      <3>7. Lost(n) + over \in 0..Len(fed)
        BY <2>1, <3>3, <3>4 DEF n
      <3>8. Drop(fed, Lost(n) + over) \o incoming = Drop(fed \o incoming, Lost(n) + over)
        BY <2>1, <3>7, DropConcatLeft
      <3>9. bytes' = Drop(fed', Lost(n + k))
        BY <2>2, <3>1, <3>5, <3>6, <3>8
      <3>10. Lost(n + k) \in 0..Len(fed')
        BY <2>1, <2>2 DEF Lost
      <3>11. bytes' \in Seq(Byte) /\ Len(bytes') = (n + k) - Lost(n + k)
        BY <2>2, <3>9, <3>10, DropFacts
      <3>12. Len(bytes') <= capacity
        BY <2>1, <3>11 DEF Lost
      <3>13. Lost(n + k) > 0 <=> (Lost(n) > 0 \/ over # 0)
        BY <3>3, <3>4, <3>5
      <3>14. truncated' <=> Lost(n + k) > 0
        BY <2>3, <3>1, <3>13
      <3> QED BY <2>6, <3>1, <3>9, <3>11, <3>12, <3>14
    <2> QED BY <1>2, <2>7, <2>8, <2>9, <2>10 DEF Extend
  <1> QED BY <1>1, <1>2 DEF Next

\* After any sequence of PTY reads the tail is the exact end of the output
\* and the truncation flag is set exactly when something was lost: what a
\* replay shows and what a completed record says rest on this.
THEOREM TailCorrect == Spec => [](TypeOK /\ TailIsSuffix /\ TruncatedIffLost)
  <1>1. Init => Inv
    BY InitInv
  <1>2. Inv /\ [Next]_vars => Inv'
    BY NextInv
  <1> QED BY <1>1, <1>2, PTL DEF Spec, Inv

-----------------------------------------------------------------------------
(* The codec: a header of five bytes, and the payload behind it.            *)

\* The sequences around the header, all of them of bytes.
LEMMA JoinFacts ==
    \A s, t \in Seq(Octet) :
        /\ s \o t \in Seq(Octet)
        /\ Len(s \o t) = Len(s) + Len(t)
        /\ \A i \in 1..Len(s) : (s \o t)[i] = s[i]
        /\ \A i \in 1..Len(t) : (s \o t)[Len(s) + i] = t[i]
  <1> SUFFICES ASSUME NEW s \in Seq(Octet), NEW t \in Seq(Octet)
               PROVE  /\ s \o t \in Seq(Octet)
                      /\ Len(s \o t) = Len(s) + Len(t)
                      /\ \A i \in 1..Len(s) : (s \o t)[i] = s[i]
                      /\ \A i \in 1..Len(t) : (s \o t)[Len(s) + i] = t[i]
    OBVIOUS
  <1>1. Len(s) \in Nat /\ Len(t) \in Nat
    BY LenProperties
  <1> QED BY <1>1, ConcatProperties

LEMMA Slice ==
    ASSUME NEW b, NEW m \in Int, NEW n \in Int, \A i \in m..n : b[i] \in Octet
    PROVE  /\ SubSeq(b, m, n) \in Seq(Octet)
           /\ Len(SubSeq(b, m, n)) = IF m <= n THEN n - m + 1 ELSE 0
           /\ \A i \in 1..(n - m + 1) : SubSeq(b, m, n)[i] = b[m + i - 1]
BY SubSeqProperties

LEMMA AssocOctets == \A s, t, u \in Seq(Octet) : (s \o t) \o u = s \o (t \o u)
BY ConcatAssociative, SMTT(60)

LEMMA U16IsNat == U16 \in Nat
BY SMTT(60) DEF U16

\* u16::to_be_bytes and from_be_bytes.
LEMMA Be16Facts ==
    ASSUME NEW n \in 0..(U16 - 1)
    PROVE  /\ Be16(n) \in Seq(Octet) /\ Len(Be16(n)) = 2
           /\ Be16(n)[1] * 256 + Be16(n)[2] = n
  <1>0. n \in Nat /\ n < 256 * 256
    <2>1. U16 \in Nat
      BY U16IsNat
    <2>2. n \in Nat /\ n < U16
      BY <2>1, SMTT(60)
    <2> QED BY <2>2, Zenon DEF U16
  <1>1. n \div 256 \in Octet /\ n % 256 \in Octet /\ (n \div 256) * 256 + (n % 256) = n
    BY <1>0, SMTT(60) DEF Octet
  <1>2. Be16(n) = <<n \div 256, n % 256>>
    BY SMT DEF Be16
  <1> HIDE DEF Be16
  <1> QED BY <1>1, <1>2, SMT DEF Octet

\* The header that encode writes for a payload of n bytes.
Header(k, n) == <<k>> \o Be32(n)

LEMMA FiveBytes ==
    ASSUME NEW k \in Octet, NEW w \in Octet, NEW x \in Octet, NEW y \in Octet, NEW z \in Octet
    PROVE  <<k>> \o (<<w, x>> \o <<y, z>>) = <<k, w, x, y, z>>
  <1> DEFINE l == <<w, x>> \o <<y, z>>
             m == <<k>> \o l
             r == <<k, w, x, y, z>>
  <1>1. /\ <<k>> \in Seq(Octet) /\ Len(<<k>>) = 1 /\ <<k>>[1] = k
        /\ <<w, x>> \in Seq(Octet) /\ Len(<<w, x>>) = 2 /\ <<w, x>>[1] = w /\ <<w, x>>[2] = x
        /\ <<y, z>> \in Seq(Octet) /\ Len(<<y, z>>) = 2 /\ <<y, z>>[1] = y /\ <<y, z>>[2] = z
    OBVIOUS
  <1>2. r \in Seq(Octet) /\ Len(r) = 5 /\ r[1] = k /\ r[2] = w /\ r[3] = x /\ r[4] = y /\ r[5] = z
    OBVIOUS
  <1>3. /\ l \in Seq(Octet) /\ Len(l) = 2 + 2
        /\ \A i \in 1..2 : l[i] = <<w, x>>[i]
        /\ \A i \in 1..2 : l[2 + i] = <<y, z>>[i]
    BY <1>1, JoinFacts
  <1>4. Len(l) = 4 /\ l[1] = w /\ l[2] = x /\ l[3] = y /\ l[4] = z
    <2>1. 1 \in 1..2 /\ 2 \in 1..2 /\ 2 + 1 = 3 /\ 2 + 2 = 4
      OBVIOUS
    <2> HIDE DEF l
    <2> QED BY <1>1, <1>3, <2>1
  <1> HIDE DEF l
  <1>5. /\ m \in Seq(Octet) /\ Len(m) = 1 + 4
        /\ \A i \in 1..1 : m[i] = <<k>>[i]
        /\ \A i \in 1..4 : m[1 + i] = l[i]
    <2> DEFINE q == <<k>>
    <2>1. q \in Seq(Octet) /\ Len(q) = 1 /\ m = q \o l
      BY <1>1
    <2> HIDE DEF q, m
    <2>2. /\ q \o l \in Seq(Octet) /\ Len(q \o l) = Len(q) + Len(l)
          /\ \A i \in 1..Len(q) : (q \o l)[i] = q[i]
          /\ \A i \in 1..Len(l) : (q \o l)[Len(q) + i] = l[i]
      BY <1>3, <2>1, JoinFacts, Zenon
    <2>3. q = <<k>>
      BY DEF q
    <2> QED BY <1>4, <2>1, <2>2, <2>3
  <1> HIDE DEF m, r
  <1>6. Len(m) = 5 /\ m[1] = k /\ m[2] = w /\ m[3] = x /\ m[4] = y /\ m[5] = z
    <2>1. /\ 1 \in 1..1 /\ 1 \in 1..4 /\ 2 \in 1..4 /\ 3 \in 1..4 /\ 4 \in 1..4
          /\ 1 + 1 = 2 /\ 1 + 2 = 3 /\ 1 + 3 = 4 /\ 1 + 4 = 5
      OBVIOUS
    <2> QED BY <1>1, <1>4, <1>5, <2>1
  <1>7. \A i \in 1..Len(m) : m[i] = r[i]
    <2>1. \A i \in 1..5 : i = 1 \/ i = 2 \/ i = 3 \/ i = 4 \/ i = 5
      OBVIOUS
    <2> QED BY <1>2, <1>6, <2>1
  <1>8. m = r
    BY <1>2, <1>5, <1>6, <1>7, SeqEqual
  <1> QED BY <1>8 DEF m, r, l

LEMMA HeaderFacts ==
    ASSUME NEW k \in Octet, NEW n \in Nat, n < 256 * U16
    PROVE  /\ Header(k, n) \in Seq(Octet) /\ Len(Header(k, n)) = 5
           /\ Header(k, n)[1] = k /\ Header(k, n)[2] = 0
           /\ ((Header(k, n)[2] * 256 + Header(k, n)[3]) * 256 + Header(k, n)[4]) * 256
                  + Header(k, n)[5] = n
  <1> DEFINE x == n \div U16
             y == (n % U16) \div 256
             z == (n % U16) % 256
  <1>1. /\ x \in Octet /\ y \in Octet /\ z \in Octet
        /\ (x * 256 + y) * 256 + z = n
    BY SMT DEF Octet, U16
  <1>2. Be16(n % U16) = <<y, z>> /\ Be32(n) = <<0, x>> \o <<y, z>>
    BY SMT DEF Be16, Be32
  <1> HIDE DEF x, y, z
  <1>3. 0 \in Octet
    BY DEF Octet
  <1>4. Header(k, n) = <<k, 0, x, y, z>>
    BY <1>1, <1>2, <1>3, FiveBytes DEF Header
  <1> DEFINE r == <<k, 0, x, y, z>>
  <1>5. /\ r \in Seq(Octet) /\ Len(r) = 5
        /\ r[1] = k /\ r[2] = 0 /\ r[3] = x /\ r[4] = y /\ r[5] = z
    BY <1>1, <1>3
  <1>6. ((0 * 256 + x) * 256 + y) * 256 + z = n
    BY <1>1 DEF Octet
  <1>7. Header(k, n) = r
    BY <1>4
  <1> HIDE DEF r
  <1> QED BY <1>5, <1>6, <1>7

\* The payload and the rest, cut out of a frame.
LEMMA FrameSlices ==
    ASSUME NEW b \in Seq(Octet), NEW p \in Seq(Octet), NEW rest \in Seq(Octet),
           Len(b) = (5 + Len(p)) + Len(rest),
           \A i \in 1..Len(p) : b[5 + i] = p[i],
           \A i \in 1..Len(rest) : b[(5 + Len(p)) + i] = rest[i]
    PROVE  SubSeq(b, 6, 5 + Len(p)) = p /\ SubSeq(b, 6 + Len(p), Len(b)) = rest
  <1>1. Len(p) \in Nat /\ Len(rest) \in Nat /\ Len(b) \in Nat
    BY LenProperties
  <1>2. \A i \in 1..Len(b) : b[i] \in Octet
    BY ElementOfSeq
  <1>3. /\ SubSeq(b, 6, 5 + Len(p)) \in Seq(Octet)
        /\ Len(SubSeq(b, 6, 5 + Len(p))) = Len(p)
        /\ \A i \in 1..Len(p) : SubSeq(b, 6, 5 + Len(p))[i] = b[6 + i - 1]
    <2>1. 6 \in Int /\ 5 + Len(p) \in Int /\ \A i \in 6..(5 + Len(p)) : b[i] \in Octet
      BY <1>1, <1>2
    <2> QED BY <1>1, <2>1, Slice
  <1>4. SubSeq(b, 6, 5 + Len(p)) = p
    <2>1. \A i \in 1..Len(p) : b[6 + i - 1] = p[i]
      <3> SUFFICES ASSUME NEW i \in 1..Len(p) PROVE b[6 + i - 1] = p[i]
        OBVIOUS
      <3>1. 6 + i - 1 = 5 + i
        BY <1>1
      <3> QED BY <3>1
    <2> QED BY <1>3, <2>1, SeqEqual
  <1>5. /\ SubSeq(b, 6 + Len(p), Len(b)) \in Seq(Octet)
        /\ Len(SubSeq(b, 6 + Len(p), Len(b))) = Len(rest)
        /\ \A i \in 1..Len(rest) : SubSeq(b, 6 + Len(p), Len(b))[i] = b[6 + Len(p) + i - 1]
    <2>1. 6 + Len(p) \in Int /\ Len(b) \in Int /\ \A i \in (6 + Len(p))..Len(b) : b[i] \in Octet
      BY <1>1, <1>2
    <2> QED BY <1>1, <2>1, Slice
  <1>6. SubSeq(b, 6 + Len(p), Len(b)) = rest
    <2>1. \A i \in 1..Len(rest) : b[6 + Len(p) + i - 1] = rest[i]
      <3> SUFFICES ASSUME NEW i \in 1..Len(rest) PROVE b[6 + Len(p) + i - 1] = rest[i]
        OBVIOUS
      <3>1. 6 + Len(p) + i - 1 = (5 + Len(p)) + i
        BY <1>1
      <3> QED BY <3>1
    <2> QED BY <1>5, <2>1, SeqEqual
  <1> QED BY <1>4, <1>6

\* What the decoder finds in a frame with anything behind it.
Frame(k, p) == Header(k, Len(p)) \o p

LEMMA FrameFacts ==
    ASSUME NEW k \in Octet, NEW p \in Seq(Octet), Len(p) <= MaxPayload, NEW rest \in Seq(Octet)
    PROVE  LET b == Frame(k, p) \o rest
           IN  /\ Frame(k, p) \in Seq(Octet) /\ Len(Frame(k, p)) = 5 + Len(p)
               /\ b \in Seq(Octet) /\ Len(b) = 5 + Len(p) + Len(rest)
               /\ b[1] = k /\ PayloadLength(b) = Len(p)
               /\ SubSeq(b, 6, 5 + Len(p)) = p
               /\ SubSeq(b, 6 + Len(p), Len(b)) = rest
  <1>1. Len(p) \in Nat /\ Len(p) < 256 * U16 /\ Len(rest) \in Nat
    <2>1. Len(p) \in Nat /\ Len(rest) \in Nat
      BY LenProperties
    <2>2. MaxPayload \in Nat /\ MaxPayload < 256 * U16
      BY IpcAssumption
    <2> QED BY <2>1, <2>2 DEF U16
  <1> DEFINE h == Header(k, Len(p))
             g == h \o p
             b == g \o rest
  <1>2. /\ h \in Seq(Octet) /\ Len(h) = 5 /\ h[1] = k
        /\ ((h[2] * 256 + h[3]) * 256 + h[4]) * 256 + h[5] = Len(p)
    BY <1>1, HeaderFacts, SMT
  <1> HIDE DEF h
  <1>3. /\ g \in Seq(Octet) /\ Len(g) = Len(h) + Len(p)
        /\ \A i \in 1..Len(h) : g[i] = h[i]
        /\ \A i \in 1..Len(p) : g[Len(h) + i] = p[i]
    <2>1. h \in Seq(Octet)
      BY <1>2
    <2> QED BY <2>1, JoinFacts, Zenon
  <1> HIDE DEF g
  <1>4. /\ b \in Seq(Octet) /\ Len(b) = Len(g) + Len(rest)
        /\ \A i \in 1..Len(g) : b[i] = g[i]
        /\ \A i \in 1..Len(rest) : b[Len(g) + i] = rest[i]
    <2>1. g \in Seq(Octet)
      BY <1>3
    <2> QED BY <2>1, JoinFacts, Zenon
  <1> HIDE DEF b
  <1>5. Len(g) = 5 + Len(p) /\ Len(b) = (5 + Len(p)) + Len(rest)
    BY <1>2, <1>3, <1>4
  <1>6. \A i \in 1..5 : b[i] = h[i]
    BY <1>1, <1>2, <1>3, <1>4, <1>5
  <1>7. b[1] = k /\ PayloadLength(b) = Len(p)
    <2>1. b[1] = h[1] /\ b[2] = h[2] /\ b[3] = h[3] /\ b[4] = h[4] /\ b[5] = h[5]
      <3>1. 1 \in 1..5 /\ 2 \in 1..5 /\ 3 \in 1..5 /\ 4 \in 1..5 /\ 5 \in 1..5
        OBVIOUS
      <3> QED BY <1>6, <3>1
    <2> QED BY <1>2, <2>1 DEF PayloadLength
  <1>8. \A i \in 1..Len(p) : b[5 + i] = p[i]
    <2> SUFFICES ASSUME NEW i \in 1..Len(p) PROVE b[5 + i] = p[i]
      OBVIOUS
    <2>1. 5 + i \in 1..Len(g)
      BY <1>1, <1>5
    <2> QED BY <1>2, <1>3, <1>4, <2>1
  <1>9. \A i \in 1..Len(rest) : b[(5 + Len(p)) + i] = rest[i]
    BY <1>4, <1>5
  <1>10. SubSeq(b, 6, 5 + Len(p)) = p /\ SubSeq(b, 6 + Len(p), Len(b)) = rest
    <2>1. b \in Seq(Octet)
      BY <1>4
    <2> QED BY <1>5, <1>8, <1>9, <2>1, FrameSlices
  <1>11. b = Frame(k, p) \o rest /\ g = Frame(k, p)
    BY DEF b, g, h, Frame
  <1> QED BY <1>3, <1>4, <1>5, <1>7, <1>10, <1>11

\* What encode puts behind the header, and what decode_payload makes of it.
LEMMA Kinds ==
    /\ KindByte["attach"] = 1 /\ KindByte["input"] = 2 /\ KindByte["output"] = 3
    /\ KindByte["resize"] = 4 /\ KindByte["stop"] = 5 /\ KindByte["exit"] = 6
BY DEF KindByte

LEMMA DecodeCases ==
    ASSUME NEW p
    PROVE  /\ decode_payload(1, p) = decode_dimensions("attach", p)
           /\ decode_payload(2, p) = WithBytes("input", p)
           /\ decode_payload(3, p) = WithBytes("output", p)
           /\ decode_payload(4, p) = decode_dimensions("resize", p)
           /\ decode_payload(5, p) = (IF p = <<>> THEN Bare("stop") ELSE Invalid)
           /\ decode_payload(6, p) = decode_exit(p)
           /\ \A k \in Int \ (1..6) : decode_payload(k, p) = Invalid
BY Kinds DEF decode_payload

LEMMA PayloadCases ==
    ASSUME NEW r
    PROVE  /\ Sized(r.kind) => Payload(r) = Be16(r.rows) \o Be16(r.columns)
           /\ r.kind \in {"input", "output"} => Payload(r) = r.bytes
           /\ r.kind = "stop" => Payload(r) = <<>>
           /\ r.kind = "exit" => Payload(r) = <<r.status.reason, r.status.value>>
BY DEF Payload, Sized

\* Two u16 behind each other, to and fro.
LEMMA SizeBytes ==
    ASSUME NEW a \in 0..(U16 - 1), NEW c \in 0..(U16 - 1)
    PROVE  LET p == Be16(a) \o Be16(c)
           IN  p \in Seq(Octet) /\ Len(p) = 4 /\ p[1] * 256 + p[2] = a /\ p[3] * 256 + p[4] = c
  <1> DEFINE s == Be16(a)
             t == Be16(c)
             p == s \o t
  <1>1. /\ s \in Seq(Octet) /\ Len(s) = 2 /\ s[1] * 256 + s[2] = a
        /\ t \in Seq(Octet) /\ Len(t) = 2 /\ t[1] * 256 + t[2] = c
    BY Be16Facts
  <1> HIDE DEF s, t
  <1>2. /\ p \in Seq(Octet) /\ Len(p) = Len(s) + Len(t)
        /\ \A i \in 1..Len(s) : p[i] = s[i]
        /\ \A i \in 1..Len(t) : p[Len(s) + i] = t[i]
    <2>1. s \in Seq(Octet) /\ t \in Seq(Octet)
      BY <1>1
    <2> QED BY <2>1, JoinFacts, Zenon
  <1> HIDE DEF p
  <1>3. Len(p) = 4 /\ p[1] = s[1] /\ p[2] = s[2] /\ p[3] = t[1] /\ p[4] = t[2]
    <2>1. 1 \in 1..2 /\ 2 \in 1..2 /\ 2 + 1 = 3 /\ 2 + 2 = 4
      OBVIOUS
    <2> QED BY <1>1, <1>2, <2>1
  <1> QED BY <1>1, <1>2, <1>3 DEF p, s, t

LEMMA RecordCases ==
    ASSUME NEW r \in LegalRecord
    PROVE  \/ \E kind \in {"attach", "resize"}, a \in 1..MaxDimension, c \in 1..MaxDimension :
                r = WithSize(kind, a, c)
           \/ \E kind \in {"input", "output"}, p \in Seq(Octet) : r = WithBytes(kind, p)
           \/ r = Bare("stop")
           \/ \E status \in ExitStatuses : r = WithExit(status)
BY DEF LegalRecord, WithSize, WithBytes, WithExit

\* A dimension is a u16.
LEMMA DimensionFits == \A n \in 1..MaxDimension : n \in 0..(U16 - 1)
  <1>1. MaxDimension \in 1..(U16 - 1)
    BY IpcAssumption, Zenon
  <1> QED BY <1>1, U16IsNat, SMTT(60)

LEMMA PayloadFacts ==
    ASSUME NEW r \in LegalRecord
    PROVE  /\ KindByte[r.kind] \in 1..6 /\ Payload(r) \in Seq(Octet)
           /\ decode_payload(KindByte[r.kind], Payload(r)) = r
  <1>1. ASSUME NEW kind \in {"attach", "resize"}, NEW a \in 1..MaxDimension, NEW c \in 1..MaxDimension,
               r = WithSize(kind, a, c)
        PROVE  /\ KindByte[r.kind] \in 1..6 /\ Payload(r) \in Seq(Octet)
               /\ decode_payload(KindByte[r.kind], Payload(r)) = r
    <2>1. r.kind = kind /\ r.rows = a /\ r.columns = c
      BY <1>1 DEF WithSize
    <2> DEFINE p == Payload(r)
    <2>2. p = Be16(a) \o Be16(c)
      BY <2>1, PayloadCases DEF Sized
    <2>3. a \in 0..(U16 - 1) /\ c \in 0..(U16 - 1)
      BY DimensionFits
    <2>4. p \in Seq(Octet) /\ Len(p) = 4 /\ p[1] * 256 + p[2] = a /\ p[3] * 256 + p[4] = c
      BY <2>2, <2>3, SizeBytes
    <2> HIDE DEF p
    <2>5. Dimension(a) /\ Dimension(c)
      BY DEF Dimension
    <2>6. decode_dimensions(kind, p) = r
      BY <1>1, <2>4, <2>5 DEF decode_dimensions
    <2>7. decode_payload(KindByte[kind], p) = decode_dimensions(kind, p) /\ KindByte[kind] \in 1..6
      BY Kinds, DecodeCases
    <2> QED BY <2>1, <2>4, <2>6, <2>7 DEF p
  <1>2. ASSUME NEW kind \in {"input", "output"}, NEW p \in Seq(Octet), r = WithBytes(kind, p)
        PROVE  /\ KindByte[r.kind] \in 1..6 /\ Payload(r) \in Seq(Octet)
               /\ decode_payload(KindByte[r.kind], Payload(r)) = r
    <2>1. r.kind = kind /\ r.bytes = p
      BY <1>2 DEF WithBytes
    <2>2. Payload(r) = p
      BY <2>1, PayloadCases
    <2>3. decode_payload(KindByte[kind], p) = WithBytes(kind, p) /\ KindByte[kind] \in 1..6
      BY Kinds, DecodeCases
    <2> QED BY <1>2, <2>1, <2>2, <2>3
  <1>3. ASSUME r = Bare("stop")
        PROVE  /\ KindByte[r.kind] \in 1..6 /\ Payload(r) \in Seq(Octet)
               /\ decode_payload(KindByte[r.kind], Payload(r)) = r
    <2>1. r.kind = "stop"
      BY <1>3 DEF Bare
    <2>2. Payload(r) = <<>> /\ <<>> \in Seq(Octet)
      BY <2>1, PayloadCases, EmptySeq
    <2>3. KindByte["stop"] = 5 /\ decode_payload(5, <<>>) = Bare("stop")
      BY Kinds, DecodeCases
    <2>4. KindByte[r.kind] = 5
      BY <2>1, <2>3
    <2>5. decode_payload(KindByte[r.kind], Payload(r)) = decode_payload(5, <<>>)
      BY <2>2, <2>4, Zenon
    <2>6. 5 \in 1..6
      OBVIOUS
    <2> QED BY <1>3, <2>2, <2>3, <2>4, <2>5, <2>6, Zenon
  <1>4. ASSUME NEW status \in ExitStatuses, r = WithExit(status)
        PROVE  /\ KindByte[r.kind] \in 1..6 /\ Payload(r) \in Seq(Octet)
               /\ decode_payload(KindByte[r.kind], Payload(r)) = r
    <2>1. r.kind = "exit" /\ r.status = status
      BY <1>4 DEF WithExit
    <2>2. /\ status = [reason |-> status.reason, value |-> status.value]
          /\ status.reason \in Octet /\ status.value \in Octet
          /\ status.reason = 0 \/ (status.reason = 1 /\ status.value \in 1..127)
      BY DEF ExitStatuses, Octet
    <2> DEFINE a == status.reason
               c == status.value
               p == <<a, c>>
    <2> HIDE DEF a, c
    <2>3. a \in Octet /\ c \in Octet /\ (a = 0 \/ (a = 1 /\ c \in 1..127))
          /\ status = [reason |-> a, value |-> c]
      BY <2>2 DEF a, c
    <2>4. p \in Seq(Octet) /\ Len(p) = 2 /\ p[1] = a /\ p[2] = c
      BY <2>3
    <2>5. Payload(r) = p
      BY <2>1, PayloadCases DEF a, c
    <2> HIDE DEF p
    <2>6. decode_exit(p) = WithExit(status)
      BY <2>3, <2>4 DEF decode_exit
    <2>7. KindByte["exit"] = 6 /\ decode_payload(6, p) = decode_exit(p)
      BY Kinds, DecodeCases
    <2> QED BY <1>4, <2>1, <2>4, <2>5, <2>6, <2>7
  <1> QED BY <1>1, <1>2, <1>3, <1>4, RecordCases

\* What encode writes is a frame of the record's kind and payload.
LEMMA EncodeIsFrame == \A r : Encode(r) = Frame(KindByte[r.kind], Payload(r))
BY DEF Encode, Frame, Header

\* The branches of Decoder::next.
LEMMA DecoderBranches ==
    ASSUME NEW b, Len(b) \in Nat
    PROVE  /\ Len(b) < 5 => DecoderNext(b) = Nothing
           /\ Len(b) >= 5 /\ PayloadLength(b) \in Nat /\ PayloadLength(b) > MaxPayload
                => DecoderNext(b) = Invalid
           /\ Len(b) >= 5 /\ PayloadLength(b) \in 0..MaxPayload /\ Len(b) < 5 + PayloadLength(b)
                => DecoderNext(b) = Nothing
           /\ Len(b) >= 5 /\ PayloadLength(b) \in 0..MaxPayload /\ Len(b) >= 5 + PayloadLength(b)
                => DecoderNext(b) = decode_payload(b[1], SubSeq(b, 6, 5 + PayloadLength(b)))
  <1> DEFINE n == PayloadLength(b)
  <1> HIDE DEF n
  <1>1. MaxPayload \in Nat
    BY IpcAssumption
  <1>2. DecoderNext(b) =
          CASE Len(b) < 5 -> Nothing
            [] Len(b) >= 5 /\ n > MaxPayload -> Invalid
            [] Len(b) >= 5 /\ n <= MaxPayload ->
                 IF Len(b) < 5 + n THEN Nothing ELSE decode_payload(b[1], SubSeq(b, 5 + 1, 5 + n))
    BY DEF DecoderNext, HeaderBytes, n
  <1>3. Len(b) < 5 => DecoderNext(b) = Nothing
    BY <1>2
  <1>4. Len(b) >= 5 /\ n \in Nat /\ n > MaxPayload => DecoderNext(b) = Invalid
    BY <1>1, <1>2
  <1>5. Len(b) >= 5 /\ n \in 0..MaxPayload /\ Len(b) < 5 + n => DecoderNext(b) = Nothing
    BY <1>1, <1>2
  <1>6. Len(b) >= 5 /\ n \in 0..MaxPayload /\ Len(b) >= 5 + n
          => DecoderNext(b) = decode_payload(b[1], SubSeq(b, 6, 5 + n))
    BY <1>1, <1>2
  <1> QED BY <1>3, <1>4, <1>5, <1>6 DEF n

\* Every legal record survives encode and the decoder, whatever the peer sends
\* behind it: the decoder takes that record and leaves exactly what follows
\* (ipc.rs encode and Decoder::next; the round-trip tests try single records).
THEOREM CodecRoundTrip ==
    ASSUME NEW r \in LegalRecord, Encodable(r), NEW rest \in Seq(Octet)
    PROVE  RoundTrip(r, rest)
  <1> DEFINE k == KindByte[r.kind]
             p == Payload(r)
             e == Encode(r)
             b == e \o rest
  <1>1. k \in 1..6 /\ p \in Seq(Octet) /\ decode_payload(k, p) = r
    BY PayloadFacts
  <1>2. k \in Octet
    BY <1>1 DEF Octet
  <1>3. Len(p) <= MaxPayload
    BY DEF Encodable
  <1>4. e = Frame(k, p)
    BY EncodeIsFrame
  <1> HIDE DEF k, p, e
  <1>5. /\ b \in Seq(Octet) /\ Len(b) = 5 + Len(p) + Len(rest)
        /\ b[1] = k /\ PayloadLength(b) = Len(p)
        /\ SubSeq(b, 6, 5 + Len(p)) = p
        /\ SubSeq(b, 6 + Len(p), Len(b)) = rest
    <2> DEFINE f == Frame(k, p) \o rest
    <2>1. /\ f \in Seq(Octet) /\ Len(f) = 5 + Len(p) + Len(rest)
          /\ f[1] = k /\ PayloadLength(f) = Len(p)
          /\ SubSeq(f, 6, 5 + Len(p)) = p
          /\ SubSeq(f, 6 + Len(p), Len(f)) = rest
      BY <1>1, <1>2, <1>3, FrameFacts, SMTT(60)
    <2>2. b = f
      BY <1>4
    <2> QED BY <2>1, <2>2, Zenon
  <1> HIDE DEF b
  <1>6. Len(p) \in Nat /\ Len(rest) \in Nat /\ Len(b) \in Nat /\ MaxPayload \in Nat
    BY <1>1, <1>5, LenProperties, IpcAssumption
  <1>7. Len(b) >= 5 /\ PayloadLength(b) \in 0..MaxPayload /\ Len(b) >= 5 + PayloadLength(b)
    BY <1>3, <1>5, <1>6
  <1>8. DecoderNext(b) = decode_payload(b[1], SubSeq(b, 6, 5 + PayloadLength(b)))
    BY <1>6, <1>7, DecoderBranches, Zenon
  <1>9. DecoderNext(b) = r
    BY <1>1, <1>5, <1>8, Zenon
  <1>10. DecoderRest(b) = rest
    <2>1. 5 + Len(p) + 1 = 6 + Len(p)
      BY <1>6
    <2> QED BY <1>5, <2>1 DEF DecoderRest, HeaderBytes
  <1> QED BY <1>9, <1>10 DEF RoundTrip, b, e

\* However a read of the socket cuts a record, the part that has arrived is
\* taken for no record at all, and never for an error (Decoder::next).
THEOREM CodecCutOff ==
    ASSUME NEW r \in LegalRecord, Encodable(r)
    PROVE  CutOff(r)
  <1> DEFINE k == KindByte[r.kind]
             p == Payload(r)
             e == Encode(r)
  <1>1. k \in 1..6 /\ p \in Seq(Octet)
    BY PayloadFacts
  <1>2. k \in Octet
    BY <1>1 DEF Octet
  <1>3. Len(p) <= MaxPayload
    BY DEF Encodable
  <1>4. e = Frame(k, p)
    BY EncodeIsFrame
  <1> HIDE DEF k, p, e
  <1>5. /\ e \in Seq(Octet) /\ Len(e) = 5 + Len(p) /\ PayloadLength(e) = Len(p)
    <2>1. <<>> \in Seq(Octet) /\ Frame(k, p) \in Seq(Octet)
      BY <1>1, <1>2, <1>3, EmptySeq, FrameFacts, Zenon
    <2>2. Frame(k, p) \o <<>> = Frame(k, p)
      BY <2>1, ConcatEmptySeq
    <2>3. PayloadLength(Frame(k, p) \o <<>>) = Len(p) /\ Len(Frame(k, p)) = 5 + Len(p)
      BY <1>1, <1>2, <1>3, <2>1, FrameFacts, Zenon
    <2> QED BY <1>4, <2>1, <2>2, <2>3
  <1>6. Len(p) \in Nat /\ MaxPayload \in Nat
    BY <1>1, LenProperties, IpcAssumption
  <1>7. ASSUME NEW n \in 0..(Len(e) - 1)
        PROVE  DecoderNext(SubSeq(e, 1, n)) = Nothing
    <2> DEFINE c == SubSeq(e, 1, n)
    <2>1. n \in Nat /\ n < 5 + Len(p)
      BY <1>5, <1>6
    <2>2. Len(c) = n /\ \A i \in 1..n : c[i] = e[i]
      <3>1. \A i \in 1..n : e[i] \in Octet
        BY <1>5, <1>6, ElementOfSeq
      <3>2. /\ Len(c) = IF 1 <= n THEN n - 1 + 1 ELSE 0
            /\ \A i \in 1..(n - 1 + 1) : c[i] = e[1 + i - 1]
        BY <2>1, <3>1, Slice, 1 \in Int, n \in Int
      <3> QED BY <2>1, <3>2
    <2> HIDE DEF c
    <2>3. CASE n < 5
      <3>1. Len(c) \in Nat /\ Len(c) < 5
        BY <2>1, <2>2, <2>3
      <3> QED BY <3>1, DecoderBranches, Zenon DEF c
    <2>4. CASE n >= 5
      <3>1. 1 \in 1..n /\ 2 \in 1..n /\ 3 \in 1..n /\ 4 \in 1..n /\ 5 \in 1..n
        BY <2>1, <2>4
      <3>2. PayloadLength(c) = Len(p)
        BY <1>5, <2>2, <3>1 DEF PayloadLength
      <3>3. Len(c) \in Nat /\ Len(c) >= 5 /\ PayloadLength(c) \in 0..MaxPayload /\ Len(c) < 5 + PayloadLength(c)
        BY <1>3, <1>6, <2>1, <2>2, <2>4, <3>2
      <3> QED BY <3>3, DecoderBranches, Zenon DEF c
    <2> QED BY <2>1, <2>3, <2>4 DEF c
  <1> QED BY <1>7 DEF CutOff, e

\* The header of a length, read backwards.
LEMMA HeaderBack ==
    ASSUME NEW k \in Octet, NEW x \in Octet, NEW y \in Octet, NEW z \in Octet
    PROVE  Header(k, (x * 256 + y) * 256 + z) = <<k, 0, x, y, z>>
  <1> DEFINE n == (x * 256 + y) * 256 + z
  <1>1. n \div U16 = x /\ (n % U16) \div 256 = y /\ (n % U16) % 256 = z
    BY SMT DEF Octet, U16
  <1>2. Header(k, n) = <<k>> \o (<<0, n \div U16>> \o <<(n % U16) \div 256, (n % U16) % 256>>)
    BY DEF Header, Be32, Be16
  <1> HIDE DEF n
  <1>3. Header(k, n) = <<k>> \o (<<0, x>> \o <<y, z>>)
    BY <1>1, <1>2, Zenon
  <1>4. 0 \in Octet
    BY DEF Octet
  <1> QED BY <1>3, <1>4, FiveBytes DEF n

LEMMA Be16Back ==
    ASSUME NEW x \in Octet, NEW y \in Octet
    PROVE  Be16(x * 256 + y) = <<x, y>>
  <1>1. (x * 256 + y) \div 256 = x /\ (x * 256 + y) % 256 = y
    BY SMT DEF Octet
  <1> QED BY <1>1 DEF Be16

\* Four bytes are two pairs.
LEMMA FourBytes ==
    ASSUME NEW p \in Seq(Octet), Len(p) = 4
    PROVE  <<p[1], p[2]>> \o <<p[3], p[4]>> = p
  <1> DEFINE s == <<p[1], p[2]>>
             t == <<p[3], p[4]>>
             q == s \o t
  <1>1. p[1] \in Octet /\ p[2] \in Octet /\ p[3] \in Octet /\ p[4] \in Octet
    <2>1. 1 \in 1..4 /\ 2 \in 1..4 /\ 3 \in 1..4 /\ 4 \in 1..4
      OBVIOUS
    <2> QED BY <2>1, ElementOfSeq
  <1>2. /\ s \in Seq(Octet) /\ Len(s) = 2 /\ s[1] = p[1] /\ s[2] = p[2]
        /\ t \in Seq(Octet) /\ Len(t) = 2 /\ t[1] = p[3] /\ t[2] = p[4]
    BY <1>1
  <1> HIDE DEF s, t
  <1>3. /\ q \in Seq(Octet) /\ Len(q) = Len(s) + Len(t)
        /\ \A i \in 1..Len(s) : q[i] = s[i]
        /\ \A i \in 1..Len(t) : q[Len(s) + i] = t[i]
    BY <1>2, JoinFacts, Zenon
  <1> HIDE DEF q
  <1>4. q[1] = p[1] /\ q[2] = p[2] /\ q[3] = p[3] /\ q[4] = p[4]
    <2>1. 1 \in 1..2 /\ 2 \in 1..2 /\ 2 + 1 = 3 /\ 2 + 2 = 4
      OBVIOUS
    <2> QED BY <1>2, <1>3, <2>1
  <1>5. Len(q) = Len(p) /\ \A i \in 1..Len(q) : q[i] = p[i]
    BY <1>2, <1>3, <1>4
  <1>6. q = p
    BY <1>3, <1>5, SeqEqual
  <1> QED BY <1>6 DEF q, s, t

\* What decode_payload accepts is a legal record, of this kind and payload.
LEMMA DecodedFacts ==
    ASSUME NEW k \in Octet, NEW p \in Seq(Octet), decode_payload(k, p) # Invalid
    PROVE  LET r == decode_payload(k, p)
           IN  r \in LegalRecord /\ KindByte[r.kind] = k /\ Payload(r) = p
  <1> DEFINE r == decode_payload(k, p)
             Goal == r \in LegalRecord /\ KindByte[r.kind] = k /\ Payload(r) = p
  <1>1. ASSUME NEW kind \in {"attach", "resize"}, r = decode_dimensions(kind, p), k = KindByte[kind]
        PROVE  Goal
    <2> DEFINE a == p[1] * 256 + p[2]
               c == p[3] * 256 + p[4]
    <2>0. r # Invalid
      OBVIOUS
    <2>1. Len(p) = 4 /\ Dimension(a) /\ Dimension(c) /\ r = WithSize(kind, a, c)
      BY <1>1, <2>0, Zenon DEF decode_dimensions
    <2>2. p[1] \in Octet /\ p[2] \in Octet /\ p[3] \in Octet /\ p[4] \in Octet
      <3>1. 1 \in 1..4 /\ 2 \in 1..4 /\ 3 \in 1..4 /\ 4 \in 1..4
        OBVIOUS
      <3> QED BY <2>1, <3>1, ElementOfSeq
    <2>3. Be16(a) = <<p[1], p[2]>> /\ Be16(c) = <<p[3], p[4]>>
      BY <2>2, Be16Back
    <2>4. Be16(a) \o Be16(c) = p
      BY <2>1, <2>3, FourBytes
    <2> HIDE DEF a, c, r
    <2>5. r.kind = kind /\ r.rows = a /\ r.columns = c
      BY <2>1 DEF WithSize
    <2>6. Payload(r) = p
      BY <2>4, <2>5, PayloadCases DEF Sized
    <2>7. r \in LegalRecord
      BY <2>1 DEF WithSize, LegalRecord, Dimension
    <2> QED BY <1>1, <2>5, <2>6, <2>7
  <1>2. ASSUME NEW kind \in {"input", "output"}, r = WithBytes(kind, p), k = KindByte[kind]
        PROVE  Goal
    <2> HIDE DEF r
    <2>1. r.kind = kind /\ r.bytes = p
      BY <1>2 DEF WithBytes
    <2>2. Payload(r) = p
      BY <2>1, PayloadCases
    <2>3. r \in LegalRecord
      BY <1>2 DEF WithBytes, LegalRecord
    <2> QED BY <1>2, <2>1, <2>2, <2>3
  <1>3. ASSUME k = 5, r = IF p = <<>> THEN Bare("stop") ELSE Invalid
        PROVE  Goal
    <2>0. r # Invalid
      OBVIOUS
    <2> HIDE DEF r
    <2>1. p = <<>> /\ r = Bare("stop")
      BY <1>3, <2>0
    <2>2. r.kind = "stop"
      BY <2>1 DEF Bare
    <2>3. Payload(r) = <<>>
      BY <2>2, PayloadCases
    <2>4. r \in LegalRecord
      BY <2>1, Zenon DEF LegalRecord
    <2>5. KindByte["stop"] = 5
      BY Kinds
    <2> QED BY <1>3, <2>1, <2>2, <2>3, <2>4, <2>5
  <1>4. ASSUME k = 6, r = decode_exit(p)
        PROVE  Goal
    <2> DEFINE status == [reason |-> p[1], value |-> p[2]]
    <2>0. r # Invalid
      OBVIOUS
    <2> HIDE DEF r
    <2>1. Len(p) = 2 /\ (p[1] = 0 \/ (p[1] = 1 /\ p[2] \in 1..127)) /\ r = WithExit(status)
      BY <1>4, <2>0 DEF decode_exit
    <2>2. p[1] \in Octet /\ p[2] \in Octet
      <3>1. 1 \in 1..2 /\ 2 \in 1..2
        OBVIOUS
      <3> QED BY <2>1, <3>1, ElementOfSeq
    <2>3. status \in ExitStatuses /\ status.reason = p[1] /\ status.value = p[2]
      BY <2>1, <2>2 DEF ExitStatuses
    <2> HIDE DEF status
    <2>4. r.kind = "exit" /\ r.status = status
      BY <2>1 DEF WithExit
    <2>5. Payload(r) = <<p[1], p[2]>>
      BY <2>3, <2>4, PayloadCases
    <2>6. <<p[1], p[2]>> = p
      BY <2>1, <2>2, SeqEqual
    <2>7. r \in LegalRecord
      BY <2>1, <2>3 DEF WithExit, LegalRecord
    <2>8. KindByte["exit"] = 6
      BY Kinds
    <2> QED BY <1>4, <2>4, <2>5, <2>6, <2>7, <2>8
  <1>5. k \in 1..6
    <2>1. k \in Int
      BY DEF Octet
    <2> QED BY <2>1, DecodeCases, Zenon
  <1>6. Goal
    <2>1. CASE k = 1 \/ k = 4
      BY <1>1, <2>1, DecodeCases, Kinds
    <2>2. CASE k = 2 \/ k = 3
      BY <1>2, <2>2, DecodeCases, Kinds
    <2>3. CASE k = 5
      BY <1>3, <2>3, DecodeCases
    <2>4. CASE k = 6
      BY <1>4, <2>4, DecodeCases
    <2>5. k = 1 \/ k = 2 \/ k = 3 \/ k = 4 \/ k = 5 \/ k = 6
      BY <1>5
    <2> QED BY <2>1, <2>2, <2>3, <2>4, <2>5
  <1> QED BY <1>6

\* Four length bytes.
LEMMA LengthBytes ==
    ASSUME NEW a \in Octet, NEW x \in Octet, NEW y \in Octet, NEW z \in Octet,
           NEW n, n = ((a * 256 + x) * 256 + y) * 256 + z
    PROVE  /\ n \in Nat
           /\ a = 0 => n = (x * 256 + y) * 256 + z
           /\ n < 256 * U16 => a = 0
BY SMT DEF Octet, U16

LEMMA HeaderOf ==
    ASSUME NEW k \in Octet, NEW a \in Octet, NEW x \in Octet, NEW y \in Octet, NEW z \in Octet,
           NEW n, n = ((a * 256 + x) * 256 + y) * 256 + z, a = 0
    PROVE  Header(k, n) = <<k, a, x, y, z>>
  <1>1. n = (x * 256 + y) * 256 + z
    BY LengthBytes
  <1>2. Header(k, (x * 256 + y) * 256 + z) = <<k, 0, x, y, z>>
    BY HeaderBack
  <1> QED BY <1>1, <1>2, Zenon

\* The bytes of a buffer that holds a whole record: header, payload, rest.
LEMMA ThreeParts ==
    ASSUME NEW b \in Seq(Octet), Len(b) >= 5, b[2] = 0,
           NEW n \in Nat, n = PayloadLength(b), Len(b) >= 5 + n
    PROVE  b = Frame(b[1], SubSeq(b, 6, 5 + n)) \o SubSeq(b, 6 + n, Len(b))
  <1> DEFINE p == SubSeq(b, 6, 5 + n)
             t == SubSeq(b, 6 + n, Len(b))
             h == Header(b[1], n)
             g == h \o p
             f == g \o t
  <1>1. Len(b) \in Nat /\ \A i \in 1..Len(b) : b[i] \in Octet
    BY LenProperties, ElementOfSeq
  <1>2. b[1] \in Octet /\ b[3] \in Octet /\ b[4] \in Octet /\ b[5] \in Octet
    <2>1. 1 \in 1..Len(b) /\ 3 \in 1..Len(b) /\ 4 \in 1..Len(b) /\ 5 \in 1..Len(b)
      BY <1>1
    <2> QED BY <1>1, <2>1
  <1>3. p \in Seq(Octet) /\ Len(p) = n /\ \A i \in 1..n : p[i] = b[5 + i]
    <2>1. 6 \in Int /\ 5 + n \in Int /\ \A i \in 6..(5 + n) : b[i] \in Octet
      BY <1>1
    <2>2. /\ p \in Seq(Octet)
          /\ Len(p) = IF 6 <= 5 + n THEN 5 + n - 6 + 1 ELSE 0
          /\ \A i \in 1..(5 + n - 6 + 1) : p[i] = b[6 + i - 1]
      BY <2>1, Slice
    <2> HIDE DEF p
    <2> QED BY <2>2
  <1>4. t \in Seq(Octet) /\ Len(t) = Len(b) - (5 + n) /\ \A i \in 1..(Len(b) - (5 + n)) : t[i] = b[5 + n + i]
    <2>1. 6 + n \in Int /\ Len(b) \in Int /\ \A i \in (6 + n)..Len(b) : b[i] \in Octet
      BY <1>1
    <2>2. /\ t \in Seq(Octet)
          /\ Len(t) = IF 6 + n <= Len(b) THEN Len(b) - (6 + n) + 1 ELSE 0
          /\ \A i \in 1..(Len(b) - (6 + n) + 1) : t[i] = b[6 + n + i - 1]
      BY <2>1, Slice
    <2> HIDE DEF t
    <2> QED BY <1>1, <2>2, SMTT(60)
  <1>5. /\ h \in Seq(Octet) /\ Len(h) = 5
        /\ h[1] = b[1] /\ h[2] = b[2] /\ h[3] = b[3] /\ h[4] = b[4] /\ h[5] = b[5]
    <2> DEFINE k == b[1]
               a == b[2]
               x == b[3]
               y == b[4]
               z == b[5]
    <2>1. k \in Octet /\ a \in Octet /\ x \in Octet /\ y \in Octet /\ z \in Octet /\ a = 0
      BY <1>2 DEF Octet
    <2>2. n = ((a * 256 + x) * 256 + y) * 256 + z
      BY DEF PayloadLength
    <2> HIDE DEF k, a, x, y, z
    <2>3. h = <<k, a, x, y, z>>
      <3>1. Header(k, n) = <<k, a, x, y, z>>
        BY <2>1, <2>2, HeaderOf
      <3>2. h = Header(k, n)
        BY DEF k
      <3> QED BY <3>1, <3>2, Zenon
    <2> HIDE DEF h
    <2>4. /\ h \in Seq(Octet) /\ Len(h) = 5
          /\ h[1] = k /\ h[2] = a /\ h[3] = x /\ h[4] = y /\ h[5] = z
      BY <2>1, <2>3
    <2> QED BY <2>4 DEF k, a, x, y, z
  <1> HIDE DEF p, t, h
  <1>6. /\ g \in Seq(Octet) /\ Len(g) = Len(h) + Len(p)
        /\ \A i \in 1..Len(h) : g[i] = h[i]
        /\ \A i \in 1..Len(p) : g[Len(h) + i] = p[i]
    BY <1>3, <1>5, JoinFacts, Zenon
  <1> HIDE DEF g
  <1>7. /\ f \in Seq(Octet) /\ Len(f) = Len(g) + Len(t)
        /\ \A i \in 1..Len(g) : f[i] = g[i]
        /\ \A i \in 1..Len(t) : f[Len(g) + i] = t[i]
    BY <1>4, <1>6, JoinFacts, Zenon
  <1> HIDE DEF f
  <1>8. Len(g) = 5 + n /\ Len(f) = Len(b)
    BY <1>1, <1>3, <1>4, <1>5, <1>6, <1>7, SMTT(60)
  <1>9. ASSUME NEW i \in 1..Len(b) PROVE f[i] = b[i]
    <2>1. CASE i \in 1..5
      <3>1. f[i] = g[i] /\ g[i] = h[i]
        BY <1>5, <1>6, <1>7, <1>8, <2>1
      <3>2. h[i] = b[i]
        <4>1. i = 1 \/ i = 2 \/ i = 3 \/ i = 4 \/ i = 5
          BY <2>1
        <4> QED BY <1>5, <4>1
      <3> QED BY <3>1, <3>2
    <2>2. CASE i \in 6..(5 + n)
      <3> DEFINE j == i - 5
      <3>1. j \in 1..n /\ i = 5 + j /\ i \in 1..Len(g)
        BY <1>8, <2>2
      <3> HIDE DEF j
      <3>2. f[i] = g[i] /\ g[i] = p[j] /\ p[j] = b[i]
        BY <1>3, <1>5, <1>6, <1>7, <3>1
      <3> QED BY <3>2
    <2>3. CASE i \in (6 + n)..Len(b)
      <3> DEFINE j == i - (5 + n)
      <3>1. j \in 1..(Len(b) - (5 + n)) /\ i = 5 + n + j
        BY <1>1, <2>3
      <3> HIDE DEF j
      <3>2. f[i] = t[j] /\ t[j] = b[i]
        BY <1>4, <1>7, <1>8, <3>1
      <3> QED BY <3>2
    <2> QED BY <1>1, <2>1, <2>2, <2>3
  <1>10. f = b
    BY <1>7, <1>8, <1>9, SeqEqual
  <1>11. f = Frame(b[1], p) \o t
    BY <1>3, Zenon DEF f, g, h, Frame
  <1> QED BY <1>10, <1>11 DEF p, t

\* Whatever bytes a peer sends: what the decoder makes a record of is a legal
\* record, in the one encoding that record has, so no byte of it is ignored or
\* read twice (Decoder::next, decode_payload, decode_dimensions, decode_exit).
THEOREM CodecOneEncoding ==
    ASSUME NEW b \in Seq(Octet)
    PROVE  OneEncoding(b)
  <1> SUFFICES ASSUME DecoderNext(b) \notin {Nothing, Invalid}
               PROVE  DecoderNext(b) \in LegalRecord /\ b = Encode(DecoderNext(b)) \o DecoderRest(b)
    BY DEF OneEncoding
  <1> DEFINE n == PayloadLength(b)
             p == SubSeq(b, 6, 5 + n)
             r == decode_payload(b[1], p)
  <1>1. Len(b) \in Nat /\ (\A i \in 1..Len(b) : b[i] \in Octet) /\ MaxPayload \in Nat /\ MaxPayload < 256 * U16
    BY LenProperties, ElementOfSeq, IpcAssumption
  <1>2. Len(b) >= 5
    <2>1. Len(b) >= 5 \/ Len(b) < 5
      BY <1>1
    <2> QED BY <1>1, <2>1, DecoderBranches
  <1>3. b[1] \in Octet /\ b[2] \in Octet /\ b[3] \in Octet /\ b[4] \in Octet /\ b[5] \in Octet
    <2>1. 1 \in 1..Len(b) /\ 2 \in 1..Len(b) /\ 3 \in 1..Len(b) /\ 4 \in 1..Len(b) /\ 5 \in 1..Len(b)
      BY <1>1, <1>2
    <2> QED BY <1>1, <2>1
  <1>4. n \in Nat /\ (n < 256 * U16 => b[2] = 0)
    <2> DEFINE a == b[2]
               x == b[3]
               y == b[4]
               z == b[5]
    <2>1. a \in Octet /\ x \in Octet /\ y \in Octet /\ z \in Octet
      BY <1>3
    <2>2. n = ((a * 256 + x) * 256 + y) * 256 + z
      BY DEF PayloadLength
    <2> HIDE DEF n, a, x, y, z
    <2>3. n \in Nat /\ (n < 256 * U16 => a = 0)
      BY <2>1, <2>2, LengthBytes
    <2> QED BY <2>3 DEF a
  <1>5. n <= MaxPayload
    <2>1. n <= MaxPayload \/ n > MaxPayload
      BY <1>1, <1>4
    <2> QED BY <1>1, <1>2, <1>4, <2>1, DecoderBranches
  <1>6. b[2] = 0
    <2>1. 256 * U16 \in Nat
      BY DEF U16
    <2> HIDE DEF n
    <2> QED BY <1>1, <1>4, <1>5, <2>1
  <1>7. Len(b) >= 5 + n
    <2>1. Len(b) >= 5 + n \/ Len(b) < 5 + n
      BY <1>1, <1>4
    <2>2. n \in 0..MaxPayload
      BY <1>1, <1>4, <1>5
    <2> QED BY <1>1, <1>2, <2>1, <2>2, DecoderBranches
  <1>8. DecoderNext(b) = r
    <2>1. n \in 0..MaxPayload
      BY <1>1, <1>4, <1>5
    <2> QED BY <1>1, <1>2, <1>7, <2>1, DecoderBranches
  <1>9. p \in Seq(Octet) /\ Len(p) = n
    <2>1. 6 \in Int /\ 5 + n \in Int /\ \A i \in 6..(5 + n) : b[i] \in Octet
      BY <1>1, <1>4, <1>7
    <2> HIDE DEF n
    <2> DEFINE m == 5 + n
    <2>2. p = SubSeq(b, 6, m) /\ m \in Int /\ m = 5 + n /\ \A i \in 6..m : b[i] \in Octet
      BY <2>1
    <2> HIDE DEF m, p
    <2>3. p \in Seq(Octet) /\ Len(p) = IF 6 <= m THEN m - 6 + 1 ELSE 0
      BY <2>1, <2>2, Slice, Zenon
    <2> QED BY <1>4, <2>2, <2>3
  <1>10. r \in LegalRecord /\ KindByte[r.kind] = b[1] /\ Payload(r) = p
    BY <1>3, <1>8, <1>9, DecodedFacts
  <1>11. b = Frame(b[1], p) \o SubSeq(b, 6 + n, Len(b))
    BY <1>2, <1>4, <1>6, <1>7, ThreeParts
  <1>12. DecoderRest(b) = SubSeq(b, 6 + n, Len(b))
    <2>1. 5 + n + 1 = 6 + n
      BY <1>4
    <2> QED BY <2>1 DEF DecoderRest, HeaderBytes
  <1>13. Encode(r) = Frame(b[1], p)
    BY <1>10, EncodeIsFrame
  <1> QED BY <1>8, <1>10, <1>11, <1>12, <1>13

-----------------------------------------------------------------------------
(* The relay around the tail and the codec.                                 *)

\* The byte strings and records the relay's assumption names: each string has
\* one reading, and each record comes back whole and is never taken early.
THEOREM RelayCanonical == RelaySpec => []Canonical
  <1>1. Canonical
    <2>1. \A b \in Frames : OneEncoding(b)
      BY RelayAssumption, CodecOneEncoding
    <2>2. ASSUME NEW r \in Records PROVE RoundTrip(r, <<3, 0>>) /\ CutOff(r)
      <3>1. r \in LegalRecord /\ Encodable(r)
        BY RelayAssumption
      <3>2. 3 \in Octet /\ 0 \in Octet
        BY DEF Octet
      <3>3. <<3, 0>> \in Seq(Octet)
        BY <3>2
      <3> QED BY <3>1, <3>3, CodecRoundTrip, CodecCutOff, Zenon
    <2> QED BY <2>1, <2>2, Zenon DEF Canonical
  <1> QED BY <1>1, PTL

\* A step of the relay is a step of the tail or leaves the tail alone.
LEMMA RelayStepRunsTail ==
    ASSUME [RelayNext]_relayVars
    PROVE  [Next]_vars
  <1>1. CASE ReadPty
    <2>1. \E incoming \in Chunks : Extend(incoming)
      BY <1>1 DEF ReadPty
    <2> QED BY <2>1 DEF Next
  <1>2. CASE Attach
    BY <1>2 DEF Attach, tailVars, vars
  <1>3. CASE Flush
    BY <1>3 DEF Flush, tailVars, vars
  <1>4. CASE Complete
    BY <1>4 DEF Complete, tailVars, vars
  <1>5. CASE Close
    BY <1>5 DEF Close, tailVars, vars
  <1>6. CASE ReadSocket
    BY <1>6 DEF ReadSocket, tailVars, vars
  <1>7. CASE EndOfFile
    BY <1>7 DEF EndOfFile, tailVars, vars
  <1>8. CASE DecodeRecord
    BY <1>8 DEF DecodeRecord, tailVars, vars
  <1>9. CASE WriteBatch
    BY <1>9 DEF WriteBatch, tailVars, vars
  <1>10. CASE UNCHANGED relayVars
    BY <1>10 DEF relayVars, tailVars, vars
  <1> QED BY <1>1, <1>2, <1>3, <1>4, <1>5, <1>6, <1>7, <1>8, <1>9, <1>10 DEF RelayNext

\* The relay runs the tail: whatever the socket, the client and the runner's
\* shutdown do, the tail only ever changes by OutputTail::extend on a chunk of
\* the PTY, so all that is true of the tail alone is true of it here.
THEOREM RelayRunsTail == RelaySpec => Spec
  <1>1. RelayInit => Init
    BY DEF RelayInit
  <1>2. [RelayNext]_relayVars => [Next]_vars
    BY RelayStepRunsTail
  <1> QED BY <1>1, <1>2, PTL DEF RelaySpec, Spec

\* While it is replayed, flushed and read, the tail keeps its types and its
\* bound ...
THEOREM RelayTypeOK == RelaySpec => []TypeOK
  <1> QED BY RelayRunsTail, TailCorrect, PTL

\* ... is the end of everything the program printed, as much as fits ...
THEOREM RelayTailIsSuffix == RelaySpec => []TailIsSuffix
  <1> QED BY RelayRunsTail, TailCorrect, PTL

\* ... and is marked truncated exactly when bytes were lost (extend).
THEOREM RelayTruncatedIffLost == RelaySpec => []TruncatedIffLost
  <1> QED BY RelayRunsTail, TailCorrect, PTL
=============================================================================

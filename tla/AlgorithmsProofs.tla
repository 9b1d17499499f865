-------------------------- MODULE AlgorithmsProofs --------------------------
(***************************************************************************)
(* The properties of Algorithms hold for inputs of any length.             *)
(*                                                                         *)
(* Codecs.  A decoder is treated as a function T of a byte string and an    *)
(* offset, the encoder as a function E of a value.  T reads back what E     *)
(* writes, wherever that stands (ReadsBack), and it succeeds on nothing     *)
(* else (FindsOnly).  Both facts go from integers to strings, records and   *)
(* lists by one lemma for each way to put codecs together.                 *)
(*                                                                         *)
(* SHA-256.  The padding is injective, so two equal digests come from equal *)
(* inputs unless two calls of the compression collide: the last blocks are  *)
(* compared first, then the ones in front.                                  *)
(*                                                                         *)
(* Text.  What the searches, trim and the command parser return is told     *)
(* apart by where the first blank or separator stands.                      *)
(***************************************************************************)
EXTENDS Algorithms, BytesProofs

-----------------------------------------------------------------------------
(***************************************************************************)
(* Encoders and decoders.                                                  *)
(***************************************************************************)
\* What a take of values of V may return.
Result(V) == {Failed} \cup {Taken(n, v) : n \in Nat, v \in V}

\* The byte string a \o b \o c.
Between(a, b, c) == a \o (b \o c)

\* The take T reads what E writes, wherever that stands in a byte string, ...
ReadsBack(T, E, V) ==
  \A a, c \in Bytestring, v \in V :
    T[<<Between(a, E[v], c), Len(a)>>] = Taken(Len(a) + Len(E[v]), v)

\* ... and where it succeeds, something that E writes is there.
FindsOnly(T, E, V) ==
  \A d \in Bytestring, o \in Nat : T[<<d, o>>].ok =>
    \E a, c \in Bytestring, v \in V : d = Between(a, E[v], c) /\ Len(a) = o

Codec(T, E, V) ==
  /\ T \in [Bytestring \X Nat -> Result(V)] /\ E \in [V -> Bytestring]
  /\ ReadsBack(T, E, V) /\ FindsOnly(T, E, V)

Joined(a, b, c) == Between(a, b, c) = (a \o b) \o c

\* A byte string between two others.
LEMMA BetweenIs ==
  ASSUME NEW a \in Bytestring, NEW b \in Bytestring, NEW c \in Bytestring
  PROVE  /\ Between(a, b, c) \in Bytestring
         /\ Len(Between(a, b, c)) = Len(a) + Len(b) + Len(c)
         /\ Joined(a, b, c)
         /\ Between(<<>>, b, c) = b \o c
         /\ Len(a) \in Nat /\ Len(b) \in Nat /\ Len(c) \in Nat
<1>1. PICK y \in Bytestring : y = b \o c /\ Len(y) = Len(b) + Len(c)
  BY Joining
<1>2. a \o y \in Bytestring /\ Len(a \o y) = Len(a) + Len(y)
  BY Joining
<1>3. <<>> \o y = y
  BY Joining
<1>4. (a \o b) \o c = a \o (b \o c)
  <2>1. Grouped(a, b, c)
    BY Grouping
  <2>2. QED
    BY <2>1 DEF Grouped
<1>5. Len(a) \in Nat /\ Len(b) \in Nat /\ Len(c) \in Nat
  BY Joining
<1>6. QED
  BY <1>1, <1>2, <1>3, <1>4, <1>5 DEF Between, Joined

\* ... is found there, ...
LEMMA Inside ==
  ASSUME NEW a \in Bytestring, NEW b \in Bytestring, NEW c \in Bytestring
  PROVE  SubSeq(Between(a, b, c), Len(a) + 1, Len(a) + Len(b)) = b
<1>1. PICK S : S = Byte
  OBVIOUS
<1>2. a \in Seq(S) /\ b \in Seq(S) /\ c \in Seq(S)
  BY <1>1 DEF Bytestring
<1>3. PICK y \in Seq(S) : /\ y = b \o c /\ Len(y) = Len(b) + Len(c)
                          /\ \A i \in 1..Len(b) : y[i] = b[i]
  <2>1. /\ b \o c \in Seq(S) /\ Len(b \o c) = Len(b) + Len(c)
        /\ \A i \in 1 .. Len(b) + Len(c) :
             (b \o c)[i] = IF i <= Len(b) THEN b[i] ELSE c[i - Len(b)]
    BY <1>2, ConcatProperties
  <2>2. \A i \in 1..Len(b) : i \in 1 .. Len(b) + Len(c) /\ i <= Len(b)
    BY <1>2
  <2>3. QED
    BY <2>1, <2>2
<1>4. PICK d \in Seq(S) : /\ d = a \o y /\ Len(d) = Len(a) + Len(y)
                          /\ \A i \in 1..Len(y) : d[Len(a) + i] = y[i]
  <2>1. /\ a \o y \in Seq(S) /\ Len(a \o y) = Len(a) + Len(y)
        /\ \A i \in 1 .. Len(a) + Len(y) :
             (a \o y)[i] = IF i <= Len(a) THEN a[i] ELSE y[i - Len(a)]
    BY <1>2, ConcatProperties
  <2>2. \A i \in 1..Len(y) : /\ Len(a) + i \in 1 .. Len(a) + Len(y)
                             /\ ~(Len(a) + i <= Len(a)) /\ (Len(a) + i) - Len(a) = i
    BY <1>2
  <2>3. QED
    BY <2>1, <2>2
<1>5. PICK m, n \in Nat : m = Len(a) /\ n = Len(b)
  BY <1>2
<1>6. PICK s : s = SubSeq(d, m + 1, m + n)
  OBVIOUS
<1>7. s \in Seq(S) /\ Len(s) = n /\ \A i \in 1..n : s[i] = d[m + i]
  <2>1. m + 1 \in Int /\ m + n \in Int /\ \A i \in m + 1 .. m + n : d[i] \in S
    BY <1>2, <1>3, <1>4, <1>5
  <2>2. /\ s \in Seq(S)
        /\ Len(s) = IF m + 1 <= m + n THEN m + n - (m + 1) + 1 ELSE 0
        /\ \A i \in 1 .. m + n - (m + 1) + 1 : s[i] = d[m + 1 + i - 1]
    <3>1. PICK p, q \in Int : p = m + 1 /\ q = m + n
      OBVIOUS
    <3>2. s = SubSeq(d, p, q) /\ \A i \in p..q : d[i] \in S
      BY <1>6, <2>1, <3>1
    <3>3. /\ s \in Seq(S) /\ Len(s) = IF p <= q THEN q - p + 1 ELSE 0
          /\ \A i \in 1 .. q - p + 1 : s[i] = d[p + i - 1]
      BY <3>2, SubSeqProperties
    <3>4. QED
      BY <3>1, <3>3
  <2>3. Len(s) = n
    BY <2>2
  <2>4. \A i \in 1..n : i \in 1 .. m + n - (m + 1) + 1 /\ m + 1 + i - 1 = m + i
    OBVIOUS
  <2>5. QED
    BY <2>2, <2>3, <2>4
<1>8. \A i \in 1..n : s[i] = b[i]
  <2>1. \A i \in 1..n : i \in 1..Len(y) /\ d[m + i] = y[i] /\ y[i] = b[i]
    BY <1>2, <1>3, <1>4, <1>5
  <2>2. QED
    BY <1>7, <2>1
<1>9. s = b
  BY <1>2, <1>5, <1>7, <1>8, SeqEqual
<1>10. QED
  BY <1>3, <1>4, <1>5, <1>6, <1>9 DEF Between

\* ... and every part of a byte string is between two others.
HasPart(d, o, n) ==
  \E a, b, c \in Bytestring : d = Between(a, b, c) /\ Len(a) = o /\ Len(b) = n

\* A part begins and ends inside.
LEMMA CutOut ==
  ASSUME NEW d \in Bytestring, NEW o \in Nat, NEW n \in Nat, o + n <= Len(d)
  PROVE  HasPart(d, o, n)
<1>1. PICK a, y \in Bytestring : d = a \o y /\ Len(a) = o /\ Len(y) = Len(d) - o
  <2>1. o <= Len(d)
    BY Joining
  <2>2. QED
    BY <2>1, Cutting
<1>2. n <= Len(y)
  BY <1>1, Joining
<1>3. PICK b, c \in Bytestring : y = b \o c /\ Len(b) = n
  BY <1>2, Cutting
<1>4. QED
  BY <1>1, <1>3 DEF Between, HasPart

\* take_bytes finds a byte string where it stands, ...
LEMMA TakeBytesReads ==
  ASSUME NEW a \in Bytestring, NEW b \in Bytestring, NEW c \in Bytestring
  PROVE  take_bytes(Between(a, b, c), Len(a), Len(b)) = Taken(Len(a) + Len(b), b)
<1>1. PICK d \in Bytestring : d = Between(a, b, c) /\ Len(d) = Len(a) + Len(b) + Len(c)
  BY BetweenIs
<1>2. Len(a) \in Nat /\ Len(b) \in Nat /\ Len(c) \in Nat
  BY BetweenIs
<1>3. ~(Len(a) > Len(d) \/ Len(d) - Len(a) < Len(b))
  BY <1>1, <1>2
<1>4. SubSeq(d, Len(a) + 1, Len(a) + Len(b)) = b
  BY <1>1, Inside
<1>5. QED
  BY <1>1, <1>3, <1>4 DEF take_bytes

\* ... and what it returns was there.
LEMMA TakeBytesFinds ==
  ASSUME NEW d \in Bytestring, NEW o \in Nat, NEW n \in Nat
  PROVE  \/ take_bytes(d, o, n) = Failed
         \/ \E a, b, c \in Bytestring :
              /\ d = Between(a, b, c) /\ Len(a) = o /\ Len(b) = n
              /\ take_bytes(d, o, n) = Taken(o + n, b)
<1>1. Len(d) \in Nat
  BY Joining
<1>2. CASE o > Len(d) \/ Len(d) - o < n
  BY <1>2 DEF take_bytes
<1>3. CASE ~(o > Len(d) \/ Len(d) - o < n)
  <2>1. o + n <= Len(d)
    BY <1>1, <1>3
  <2>2. PICK a, b, c \in Bytestring : d = Between(a, b, c) /\ Len(a) = o /\ Len(b) = n
    <3>1. HasPart(d, o, n)
      BY <2>1, CutOut
    <3>2. QED
      BY <3>1 DEF HasPart
  <2>3. take_bytes(d, o, n) = Taken(o + n, b)
    BY <2>2, TakeBytesReads
  <2>4. QED
    BY <2>2, <2>3
<1>4. QED
  BY <1>2, <1>3

-----------------------------------------------------------------------------
\* Codec facts, one at a time.
LEMMA CodecUse ==
  ASSUME NEW T, NEW E, NEW V, Codec(T, E, V)
  PROVE  /\ \A v \in V : E[v] \in Bytestring
         /\ \A d \in Bytestring, o \in Nat : T[<<d, o>>] \in Result(V)
         /\ \A a, c \in Bytestring, v \in V :
              T[<<Between(a, E[v], c), Len(a)>>] = Taken(Len(a) + Len(E[v]), v)
         /\ \A d \in Bytestring, o \in Nat : T[<<d, o>>].ok =>
              \E a, c \in Bytestring, v \in V : d = Between(a, E[v], c) /\ Len(a) = o
<1>1. T \in [Bytestring \X Nat -> Result(V)] /\ E \in [V -> Bytestring]
  BY DEF Codec
<1>2. ReadsBack(T, E, V) /\ FindsOnly(T, E, V)
  BY DEF Codec
<1>3. \A d \in Bytestring, o \in Nat : T[<<d, o>>] \in Result(V)
  BY <1>1
<1>4. QED
  BY <1>1, <1>2, <1>3 DEF ReadsBack, FindsOnly

\* A result is a failure, or a value with the offset behind it.
LEMMA ResultIs ==
  ASSUME NEW V, NEW r \in Result(V)
  PROVE  /\ r.ok \in BOOLEAN /\ r.offset \in Nat
         /\ r.ok => r.value \in V /\ r = Taken(r.offset, r.value)
         /\ ~r.ok => r = Failed
<1>1. CASE r = Failed
  BY <1>1 DEF Failed
<1>2. CASE r # Failed
  <2>1. PICK n \in Nat, v \in V : r = Taken(n, v)
    BY <1>2 DEF Result
  <2>2. r.ok = TRUE /\ r.offset = n /\ r.value = v
    BY <2>1 DEF Taken
  <2>3. QED
    BY <2>1, <2>2
<1>3. QED
  BY <1>1, <1>2

\* A value taken is a result.
LEMMA ResultTaken ==
  ASSUME NEW V, NEW v \in V, NEW n \in Nat
  PROVE  Taken(n, v) \in Result(V)
  BY DEF Result

\* Where a take succeeds, it has found what E writes and returns it.
Found(T, E, V, d, o) ==
  \E a, c \in Bytestring, v \in V :
    /\ d = Between(a, E[v], c) /\ Len(a) = o
    /\ T[<<d, o>>] = Taken(o + Len(E[v]), v)

\* So it is for every codec.
LEMMA TakeFinds ==
  ASSUME NEW T, NEW E, NEW V, Codec(T, E, V),
         NEW d \in Bytestring, NEW o \in Nat, T[<<d, o>>].ok
  PROVE  Found(T, E, V, d, o)
<1>1. PICK a, c \in Bytestring, v \in V : d = Between(a, E[v], c) /\ Len(a) = o
  BY CodecUse
<1>2. T[<<Between(a, E[v], c), Len(a)>>] = Taken(Len(a) + Len(E[v]), v)
  BY CodecUse
<1>3. QED
  BY <1>1, <1>2 DEF Found

\* One value after the other.
PairTake(T1, T2) ==
  [p \in Bytestring \X Nat |->
     IF T1[p].ok /\ T2[<<p[1], T1[p].offset>>].ok
     THEN Taken(T2[<<p[1], T1[p].offset>>].offset,
                <<T1[p].value, T2[<<p[1], T1[p].offset>>].value>>)
     ELSE Failed]
PairBytes(E1, V1, E2, V2) == [v \in V1 \X V2 |-> E1[v[1]] \o E2[v[2]]]

\* Four byte strings in a row, cut behind the first or the second.
LEMMA FourParts ==
  ASSUME NEW a \in Bytestring, NEW b \in Bytestring, NEW c \in Bytestring,
         NEW d \in Bytestring
  PROVE  /\ Between(a, b \o c, d) = Between(a, b, c \o d)
         /\ Between(a, b \o c, d) = Between(a \o b, c, d)
         /\ b \o c \in Bytestring /\ c \o d \in Bytestring /\ a \o b \in Bytestring
         /\ Len(a \o b) = Len(a) + Len(b) /\ Len(b \o c) = Len(b) + Len(c)
<1>1. PICK y \in Bytestring : y = c \o d
  BY Joining
<1>2. (b \o c) \o d = b \o y
  <2>1. Grouped(b, c, d)
    BY Grouping
  <2>2. QED
    BY <1>1, <2>1 DEF Grouped
<1>3. (a \o b) \o y = a \o (b \o y)
  <2>1. Grouped(a, b, y)
    BY Grouping
  <2>2. QED
    BY <2>1 DEF Grouped
<1>4. b \o c \in Bytestring /\ a \o b \in Bytestring
  BY Joining
<1>5. Len(a \o b) = Len(a) + Len(b) /\ Len(b \o c) = Len(b) + Len(c)
  BY Joining
<1>6. QED
  BY <1>1, <1>2, <1>3, <1>4, <1>5 DEF Between

\* Two parts of a byte string, the second right behind the first.
Meet(a, b, y, e, c, d) ==
  Between(a, b, y) = Between(e, c, d) /\ Len(e) = Len(a) + Len(b)

Together(a, b, y, c, d) == Between(a, b, y) = Between(a, b \o c, d)

\* The two are one part.
LEMMA PartsMeet ==
  ASSUME NEW a \in Bytestring, NEW b \in Bytestring, NEW y \in Bytestring,
         NEW e \in Bytestring, NEW c \in Bytestring, NEW d \in Bytestring,
         Meet(a, b, y, e, c, d)
  PROVE  Together(a, b, y, c, d)
<1>1. PICK f \in Bytestring : f = a \o b /\ Len(f) = Len(a) + Len(b)
  BY Joining
<1>2. PICK z \in Bytestring : z = c \o d
  BY Joining
<1>3. Between(a, b, y) = f \o y /\ Between(e, c, d) = e \o z
  <2>1. Between(a, b, y) = f \o y
    <3>1. Between(a, b, y) = (a \o b) \o y
      <4>1. Joined(a, b, y)
        BY BetweenIs
      <4>2. QED
        BY <4>1 DEF Joined
    <3>2. QED
      BY <1>1, <3>1
  <2>2. Between(e, c, d) = e \o z
    BY <1>2 DEF Between
  <2>3. QED
    BY <2>1, <2>2
<1>4. f = e
  BY <1>1, <1>3, CutAlike DEF Meet
<1>5. Between(a, b \o c, d) = Between(a \o b, c, d)
  BY FourParts
<1>6. QED
  BY <1>1, <1>4, <1>5 DEF Meet, Together

\* Two codecs make one.
LEMMA PairCodec ==
  ASSUME NEW T1, NEW E1, NEW V1, Codec(T1, E1, V1),
         NEW T2, NEW E2, NEW V2, Codec(T2, E2, V2)
  PROVE  Codec(PairTake(T1, T2), PairBytes(E1, V1, E2, V2), V1 \X V2)
<1>1. PICK T : T = PairTake(T1, T2)
  OBVIOUS
<1>2. PICK E : E = PairBytes(E1, V1, E2, V2)
  OBVIOUS
<1>3. PICK V : V = V1 \X V2
  OBVIOUS
<1>4. ASSUME NEW d \in Bytestring, NEW o \in Nat
      PROVE  \/ T[<<d, o>>] = Failed
             \/ \E n \in Nat, v1 \in V1, v2 \in V2 :
                  /\ T1[<<d, o>>].ok /\ T2[<<d, T1[<<d, o>>].offset>>].ok
                  /\ T1[<<d, o>>].value = v1
                  /\ T2[<<d, T1[<<d, o>>].offset>>].value = v2
                  /\ T[<<d, o>>] = Taken(n, <<v1, v2>>)
  <2>1. PICK r1 : r1 = T1[<<d, o>>]
    OBVIOUS
  <2>2. r1 \in Result(V1)
    BY <2>1, CodecUse
  <2>3. PICK k \in Nat : k = r1.offset
    BY <2>2, ResultIs
  <2>4. PICK r2 : r2 = T2[<<d, k>>]
    OBVIOUS
  <2>5. r2 \in Result(V2)
    BY <2>4, CodecUse
  <2>6. r1.ok => r1.value \in V1
    BY <2>2, ResultIs
  <2>7. r2.offset \in Nat /\ (r2.ok => r2.value \in V2)
    BY <2>5, ResultIs
  <2>8. T[<<d, o>>] = IF r1.ok /\ r2.ok THEN Taken(r2.offset, <<r1.value, r2.value>>)
                      ELSE Failed
    BY <1>1, <2>1, <2>3, <2>4 DEF PairTake
  <2>9. QED
    BY <2>1, <2>3, <2>4, <2>6, <2>7, <2>8
<1>5. T \in [Bytestring \X Nat -> Result(V)]
  <2>1. ASSUME NEW d \in Bytestring, NEW o \in Nat PROVE T[<<d, o>>] \in Result(V)
    <3>1. CASE T[<<d, o>>] = Failed
      BY <3>1 DEF Result
    <3>2. CASE T[<<d, o>>] # Failed
      <4>1. PICK n \in Nat, v1 \in V1, v2 \in V2 : T[<<d, o>>] = Taken(n, <<v1, v2>>)
        <5>1. \E n \in Nat, v1 \in V1, v2 \in V2 :
                  /\ T1[<<d, o>>].ok /\ T2[<<d, T1[<<d, o>>].offset>>].ok
                  /\ T1[<<d, o>>].value = v1
                  /\ T2[<<d, T1[<<d, o>>].offset>>].value = v2
                  /\ T[<<d, o>>] = Taken(n, <<v1, v2>>)
          BY <1>4, <3>2, Zenon
        <5>2. QED
          BY <5>1, Zenon
      <4>2. PICK v \in V : v = <<v1, v2>>
        BY <1>3
      <4>3. QED
        BY <4>1, <4>2 DEF Result
    <3>3. QED
      BY <3>1, <3>2
  <2>2. \E f : T = [p \in Bytestring \X Nat |-> f[p]]
    <3>1. PICK f : f = T
      OBVIOUS
    <3>2. T = [p \in Bytestring \X Nat |-> f[p]]
      BY <1>1, <3>1 DEF PairTake
    <3>3. QED
      BY <3>2
  <2>3. \A p \in Bytestring \X Nat : T[p] \in Result(V)
    <3>1. SUFFICES ASSUME NEW p \in Bytestring \X Nat PROVE T[p] \in Result(V)
      OBVIOUS
    <3>2. p[1] \in Bytestring /\ p[2] \in Nat /\ p = <<p[1], p[2]>>
      OBVIOUS
    <3>3. QED
      BY <2>1, <3>2
  <2>4. QED
    BY <2>2, <2>3
<1>6. /\ \A v1 \in V1, v2 \in V2 : E[<<v1, v2>>] = E1[v1] \o E2[v2]
      /\ E \in [V -> Bytestring]
  <2>1. \A v1 \in V1, v2 \in V2 : E[<<v1, v2>>] = E1[v1] \o E2[v2]
    BY <1>2 DEF PairBytes
  <2>2. ASSUME NEW v1 \in V1, NEW v2 \in V2 PROVE E1[v1] \o E2[v2] \in Bytestring
    <3>1. E1[v1] \in Bytestring /\ E2[v2] \in Bytestring
      BY CodecUse
    <3>2. QED
      BY <3>1, Joining
  <2>3. QED
    BY <1>2, <1>3, <2>1, <2>2 DEF PairBytes
<1>7. ReadsBack(T, E, V)
  <2>1. ASSUME NEW a \in Bytestring, NEW c \in Bytestring, NEW v1 \in V1, NEW v2 \in V2
        PROVE  T[<<Between(a, E[<<v1, v2>>], c), Len(a)>>]
                 = Taken(Len(a) + Len(E[<<v1, v2>>]), <<v1, v2>>)
    <3>1. PICK e1 \in Bytestring : e1 = E1[v1]
      BY CodecUse
    <3>2. PICK e2 \in Bytestring : e2 = E2[v2]
      BY CodecUse
    <3>3. PICK d \in Bytestring : d = Between(a, e1 \o e2, c)
      BY BetweenIs, Joining
    <3>4. T1[<<d, Len(a)>>] = Taken(Len(a) + Len(e1), v1)
      <4>1. d = Between(a, e1, e2 \o c) /\ e2 \o c \in Bytestring
        BY <3>3, FourParts
      <4>2. QED
        BY <3>1, <4>1, CodecUse
    <3>5. PICK b \in Bytestring : b = a \o e1 /\ Len(b) = Len(a) + Len(e1)
      BY Joining
    <3>6. T2[<<d, Len(b)>>] = Taken(Len(b) + Len(e2), v2)
      <4>1. d = Between(b, e2, c)
        BY <3>3, <3>5, FourParts
      <4>2. QED
        BY <3>2, <4>1, CodecUse
    <3>7. T[<<d, Len(a)>>] = Taken(Len(b) + Len(e2), <<v1, v2>>)
      <4>1. Len(a) \in Nat
        BY Joining
      <4>2. QED
        <5>1. PICK o \in Nat : o = Len(a)
          BY <4>1
        <5>2. /\ T1[<<d, o>>].ok /\ T1[<<d, o>>].offset = Len(b)
              /\ T1[<<d, o>>].value = v1
          BY <3>4, <3>5, <5>1 DEF Taken
        <5>3. /\ T2[<<d, Len(b)>>].ok /\ T2[<<d, Len(b)>>].offset = Len(b) + Len(e2)
              /\ T2[<<d, Len(b)>>].value = v2
          BY <3>6 DEF Taken
        <5>4. T[<<d, o>>] = IF T1[<<d, o>>].ok /\ T2[<<d, T1[<<d, o>>].offset>>].ok
                            THEN Taken(T2[<<d, T1[<<d, o>>].offset>>].offset,
                                       <<T1[<<d, o>>].value,
                                         T2[<<d, T1[<<d, o>>].offset>>].value>>)
                            ELSE Failed
          BY <1>1 DEF PairTake
        <5>5. QED
          BY <5>1, <5>2, <5>3, <5>4
    <3>8. Len(b) + Len(e2) = Len(a) + Len(e1 \o e2)
      <4>1. Len(e1 \o e2) = Len(e1) + Len(e2)
        BY Joining
      <4>2. Len(a) \in Nat /\ Len(e1) \in Nat /\ Len(e2) \in Nat
        BY Joining
      <4>3. QED
        BY <3>5, <4>1, <4>2
    <3>9. E[<<v1, v2>>] = e1 \o e2
      BY <1>6, <3>1, <3>2
    <3>10. QED
      BY <3>3, <3>7, <3>8, <3>9
  <2>2. \A v \in V : v[1] \in V1 /\ v[2] \in V2 /\ v = <<v[1], v[2]>>
    BY <1>3
  <2>3. QED
    BY <2>1, <2>2 DEF ReadsBack
<1>8. FindsOnly(T, E, V)
  <2>1. SUFFICES ASSUME NEW d \in Bytestring, NEW o \in Nat, T[<<d, o>>].ok
                 PROVE  \E a, c \in Bytestring, v \in V :
                          d = Between(a, E[v], c) /\ Len(a) = o
    BY DEF FindsOnly
  <2>2. T[<<d, o>>] # Failed
    BY <2>1 DEF Failed
  <2>3. T1[<<d, o>>].ok /\ T2[<<d, T1[<<d, o>>].offset>>].ok
    BY <1>4, <2>2
  <2>4. Found(T1, E1, V1, d, o)
    BY <2>3, TakeFinds
  <2>5. PICK a, y \in Bytestring, v1 \in V1 :
          /\ d = Between(a, E1[v1], y) /\ Len(a) = o
          /\ T1[<<d, o>>] = Taken(o + Len(E1[v1]), v1)
    BY <2>4 DEF Found
  <2>6. PICK e1 \in Bytestring : e1 = E1[v1]
    BY CodecUse
  <2>7. PICK k \in Nat : k = o + Len(e1) /\ T1[<<d, o>>].offset = k
    <3>1. o + Len(e1) \in Nat
      BY Joining
    <3>2. T1[<<d, o>>].offset = o + Len(e1)
      BY <2>5, <2>6 DEF Taken
    <3>3. QED
      BY <3>1, <3>2
  <2>8. Found(T2, E2, V2, d, k)
    BY <2>3, <2>7, TakeFinds
  <2>9. PICK b, c \in Bytestring, v2 \in V2 : d = Between(b, E2[v2], c) /\ Len(b) = k
    BY <2>8 DEF Found
  <2>10. PICK e2 \in Bytestring : e2 = E2[v2]
    BY CodecUse
  <2>11. d = Between(a, e1 \o e2, c)
    <3>1. Meet(a, e1, y, b, e2, c)
      BY <2>5, <2>6, <2>7, <2>9, <2>10 DEF Meet
    <3>2. Together(a, e1, y, e2, c)
      BY <3>1, PartsMeet
    <3>3. QED
      BY <2>5, <2>6, <3>2 DEF Together
  <2>12. E[<<v1, v2>>] = e1 \o e2 /\ <<v1, v2>> \in V
    BY <1>3, <1>6, <2>6, <2>10
  <2>13. QED
    BY <2>5, <2>11, <2>12
<1>9. QED
  BY <1>1, <1>2, <1>3, <1>5, <1>6, <1>7, <1>8 DEF Codec

-----------------------------------------------------------------------------
\* The number in n bytes is one that n bytes can tell apart.
LEMMA ValueBound ==
  ASSUME NEW b \in Seq(Byte)
  PROVE  Value(b) \in 0 .. Power[Len(b)] - 1
<1>1. PICK v \in [0..Len(b) -> Nat] :
        /\ v[0] = 0 /\ Value(b) = v[Len(b)]
        /\ \A i \in 1..Len(b) : v[i] = v[i - 1] * ByteValues + b[i]
  BY ValueIs
<1>2. PICK w \in Nat : w = Len(b)
  OBVIOUS
<1>3. ByteValues \in Nat \ {0} /\ \A i \in 1..w : b[i] \in 0 .. ByteValues - 1
  BY <1>2, BytesAssumption DEF Byte
<1> DEFINE P == {k \in Nat : k <= w => v[k] < Power[k]}
<1>4. 0 \in P
  BY <1>1, PowerIs
<1>5. ASSUME NEW k \in Nat, k \in P PROVE k + 1 \in P
  <2>1. SUFFICES ASSUME k + 1 <= w PROVE v[k + 1] < Power[k + 1]
    OBVIOUS
  <2>2. PICK p \in Nat \ {0} : p = Power[k] /\ Power[k + 1] = ByteValues * p
    BY PowerIs
  <2>3. PICK u \in Nat : u = v[k] /\ u + 1 <= p
    BY <1>2, <1>5, <2>1, <2>2
  <2>4. k + 1 \in 1..w /\ (k + 1) - 1 = k
    BY <2>1
  <2>5. PICK d \in 0 .. ByteValues - 1 : d = b[k + 1]
    BY <1>3, <2>4
  <2>6. v[k + 1] = u * ByteValues + d
    BY <1>1, <1>2, <2>3, <2>4, <2>5
  <2>7. u * ByteValues + d < (u + 1) * ByteValues
    BY <1>3
  <2>8. (u + 1) * ByteValues <= p * ByteValues
    <3>1. PICK z \in Nat, y \in Nat : p = y + z /\ y = u + 1
      BY <2>2, <2>3
    <3>2. PICK B \in Nat : B = ByteValues
      BY <1>3
    <3>3. (y + z) * B = y * B + z * B /\ z * B \in Nat /\ y * B \in Nat
      OBVIOUS
    <3>4. QED
      BY <3>1, <3>2, <3>3
  <2>9. p * ByteValues = ByteValues * p /\ p * ByteValues \in Nat
    BY <1>3
  <2>10. u * ByteValues \in Nat /\ (u + 1) * ByteValues \in Nat
    BY <1>3
  <2>11. QED
    BY <2>2, <2>6, <2>7, <2>8, <2>9, <2>10
<1>6. \A k \in Nat : k \in P
  <2> HIDE DEF P
  <2>1. QED
    BY <1>4, <1>5, Induction
<1>7. v[w] < Power[w]
  BY <1>6
<1>8. Power[w] \in Nat /\ v[w] \in Nat
  <2>1. Power[w] \in Nat \ {0}
    BY PowerIs
  <2>2. w \in 0..Len(b)
    BY <1>2
  <2>3. QED
    BY <1>1, <2>1, <2>2
<1>9. QED
  BY <1>1, <1>2, <1>7, <1>8

\* Integers of w bytes.
UInts(w)     == 0 .. Power[w] - 1
UIntTake(w)  == [p \in Bytestring \X Nat |-> take_uint(p[1], p[2], w)]
UIntBytes(w) == [n \in UInts(w) |-> BigEndian(n, w)]

\* What take_uint returns.
LEMMA TakeUInt ==
  ASSUME NEW w \in Nat, NEW d \in Bytestring, NEW o \in Nat
  PROVE  \/ take_uint(d, o, w) = Failed
         \/ \E a, b, c \in Bytestring :
              /\ d = Between(a, b, c) /\ Len(a) = o /\ Len(b) = w
              /\ take_uint(d, o, w) = Taken(o + w, Value(b))
<1>1. PICK r : r = take_bytes(d, o, w)
  OBVIOUS
<1>2. take_uint(d, o, w) = IF r.ok THEN Taken(r.offset, Value(r.value)) ELSE Failed
  BY <1>1 DEF take_uint
<1>3. CASE r = Failed
  BY <1>2, <1>3 DEF Failed
<1>4. CASE r # Failed
  <2>1. PICK a, b, c \in Bytestring : /\ d = Between(a, b, c) /\ Len(a) = o /\ Len(b) = w
                                      /\ r = Taken(o + w, b)
    BY <1>1, <1>4, TakeBytesFinds
  <2>2. r.ok /\ r.offset = o + w /\ r.value = b
    BY <2>1 DEF Taken
  <2>3. QED
    BY <1>2, <2>1, <2>2
<1>5. QED
  BY <1>3, <1>4

\* Integers are read as they were written.
LEMMA UIntCodec ==
  ASSUME NEW w \in Nat
  PROVE  Codec(UIntTake(w), UIntBytes(w), UInts(w))
<1>1. PICK T : T = UIntTake(w)
  OBVIOUS
<1>2. PICK E : E = UIntBytes(w)
  OBVIOUS
<1>3. PICK V : V = UInts(w) /\ V \subseteq Nat
  <2>1. Power[w] \in Nat \ {0}
    BY PowerIs
  <2>2. UInts(w) \subseteq Nat
    BY <2>1 DEF UInts
  <2>3. QED
    BY <2>2
<1>4. \A d \in Bytestring, o \in Nat : T[<<d, o>>] = take_uint(d, o, w)
  BY <1>1 DEF UIntTake
<1>5. T \in [Bytestring \X Nat -> Result(V)]
  <2>1. ASSUME NEW d \in Bytestring, NEW o \in Nat
        PROVE  take_uint(d, o, w) \in Result(V)
    <3>1. CASE take_uint(d, o, w) = Failed
      BY <3>1 DEF Result
    <3>2. CASE take_uint(d, o, w) # Failed
      <4>1. PICK a, b, c \in Bytestring :
              Len(b) = w /\ take_uint(d, o, w) = Taken(o + w, Value(b))
        BY <3>2, TakeUInt
      <4>2. Value(b) \in V
        BY <1>3, <4>1, ValueBound DEF Bytestring, UInts
      <4>3. o + w \in Nat
        OBVIOUS
      <4>4. QED
        BY <4>1, <4>2, <4>3 DEF Result
    <3>3. QED
      BY <3>1, <3>2
  <2>2. \A p \in Bytestring \X Nat : p[1] \in Bytestring /\ p[2] \in Nat
    OBVIOUS
  <2>3. QED
    BY <1>1, <2>1, <2>2 DEF UIntTake
<1>6. \A n \in V : E[n] = BigEndian(n, w) /\ E[n] \in Bytestring /\ Len(E[n]) = w
  BY <1>2, <1>3, BytesOfNumber DEF UIntBytes, Bytestring
<1>7. E \in [V -> Bytestring]
  BY <1>2, <1>3, <1>6 DEF UIntBytes
<1>8. ReadsBack(T, E, V)
  <2>1. SUFFICES ASSUME NEW a \in Bytestring, NEW c \in Bytestring, NEW n \in V
                 PROVE  T[<<Between(a, E[n], c), Len(a)>>] = Taken(Len(a) + Len(E[n]), n)
    BY DEF ReadsBack
  <2>2. PICK e \in Bytestring : e = E[n] /\ Len(e) = w /\ e = BigEndian(n, w)
    BY <1>6
  <2>3. PICK d \in Bytestring : d = Between(a, e, c)
    BY BetweenIs
  <2>4. take_bytes(d, Len(a), w) = Taken(Len(a) + w, e)
    BY <2>2, <2>3, TakeBytesReads
  <2>5. Value(e) = n
    <3>1. n \in 0 .. Power[w] - 1 /\ Power[w] \in Nat
      BY <1>3, PowerIs DEF UInts
    <3>2. n \in Nat /\ n < Power[w]
      BY <3>1
    <3>3. QED
      BY <2>2, <3>2, ReadWhatWasWritten
  <2>6. take_uint(d, Len(a), w) = Taken(Len(a) + w, n)
    BY <2>4, <2>5 DEF take_uint, Taken
  <2>7. Len(a) \in Nat
    BY Joining
  <2>8. QED
    BY <1>4, <2>2, <2>3, <2>6, <2>7
<1>9. FindsOnly(T, E, V)
  <2>1. SUFFICES ASSUME NEW d \in Bytestring, NEW o \in Nat, T[<<d, o>>].ok
                 PROVE  \E a, c \in Bytestring, v \in V :
                          d = Between(a, E[v], c) /\ Len(a) = o
    BY DEF FindsOnly
  <2>2. take_uint(d, o, w) # Failed
    BY <1>4, <2>1 DEF Failed
  <2>3. PICK a, b, c \in Bytestring : d = Between(a, b, c) /\ Len(a) = o /\ Len(b) = w
    BY <2>2, TakeUInt
  <2>4. Value(b) \in V
    BY <1>3, <2>3, ValueBound DEF Bytestring, UInts
  <2>5. E[Value(b)] = b
    <3>1. BigEndian(Value(b), w) = b
      BY <2>3, WriteWhatWasRead DEF Bytestring
    <3>2. QED
      BY <1>6, <2>4, <3>1
  <2>6. QED
    BY <2>3, <2>4, <2>5
<1>10. QED
  BY <1>1, <1>2, <1>3, <1>5, <1>7, <1>8, <1>9 DEF Codec

-----------------------------------------------------------------------------
\* Byte strings whose length fits in w bytes.
StringTake(w)  == [p \in Bytestring \X Nat |-> take_string(p[1], p[2], w)]
StringBytes(w) == [s \in Shorts(w) |-> append_string(s, w)]

\* A string with its length in front.
LEMMA StringWritten ==
  ASSUME NEW w \in Nat, NEW s \in Shorts(w)
  PROVE  /\ s \in Bytestring /\ Len(s) \in UInts(w) /\ Len(s) \in Nat
         /\ append_string(s, w) = UIntBytes(w)[Len(s)] \o s
         /\ UIntBytes(w)[Len(s)] \in Bytestring
         /\ append_string(s, w) \in Bytestring
<1>1. s \in Bytestring /\ Len(s) < Power[w]
  BY DEF Shorts, Bytestring
<1>2. Len(s) \in Nat /\ Power[w] \in Nat
  BY <1>1, PowerIs, Joining
<1>3. Len(s) \in UInts(w)
  BY <1>1, <1>2 DEF UInts
<1>4. UIntBytes(w)[Len(s)] \in Bytestring
  BY <1>3, UIntCodec, CodecUse
<1>5. append_string(s, w) = UIntBytes(w)[Len(s)] \o s
  BY <1>3 DEF append_string, UIntBytes
<1>6. append_string(s, w) \in Bytestring
  BY <1>1, <1>4, <1>5, Joining
<1>7. QED
  BY <1>1, <1>2, <1>3, <1>4, <1>5, <1>6

\* Where a length stands in front of a string, take_string finds the string.
LEMMA StringRead ==
  ASSUME NEW w \in Nat, NEW a \in Bytestring, NEW s \in Shorts(w), NEW c \in Bytestring
  PROVE  take_string(Between(a, append_string(s, w), c), Len(a), w)
           = Taken(Len(a) + Len(append_string(s, w)), s)
<1>1. s \in Bytestring /\ Len(s) \in Nat
  BY StringWritten
<1>2. PICK h \in Bytestring : h = UIntBytes(w)[Len(s)] /\ append_string(s, w) = h \o s
  BY StringWritten
<1>3. PICK d \in Bytestring : d = Between(a, h \o s, c)
  BY <1>1, FourParts, BetweenIs
<1>4. take_uint(d, Len(a), w) = Taken(Len(a) + Len(h), Len(s))
  <2>1. d = Between(a, h, s \o c) /\ s \o c \in Bytestring
    BY <1>1, <1>3, FourParts
  <2>2. UIntTake(w)[<<d, Len(a)>>] = Taken(Len(a) + Len(h), Len(s))
    <3>1. Len(s) \in UInts(w)
      BY StringWritten
    <3>2. QED
      BY <1>2, <2>1, <3>1, UIntCodec, CodecUse
  <2>3. Len(a) \in Nat
    BY Joining
  <2>4. QED
    BY <2>2, <2>3 DEF UIntTake
<1>5. PICK b \in Bytestring : b = a \o h /\ Len(b) = Len(a) + Len(h)
  BY Joining
<1>6. take_bytes(d, Len(b), Len(s)) = Taken(Len(b) + Len(s), s)
  <2>1. d = Between(b, s, c)
    BY <1>1, <1>3, <1>5, FourParts
  <2>2. QED
    BY <1>1, <2>1, TakeBytesReads
<1>7. take_string(d, Len(a), w) = Taken(Len(b) + Len(s), s)
  BY <1>4, <1>5, <1>6 DEF take_string, Taken
<1>8. Len(b) + Len(s) = Len(a) + Len(h \o s)
  <2>1. Len(h \o s) = Len(h) + Len(s) /\ Len(a) \in Nat /\ Len(h) \in Nat
    BY <1>1, Joining
  <2>2. QED
    BY <1>1, <1>5, <2>1
<1>9. QED
  BY <1>2, <1>3, <1>7, <1>8

\* Where take_string succeeds, a length stands in front of a string.
LEMMA StringFound ==
  ASSUME NEW w \in Nat, NEW d \in Bytestring, NEW o \in Nat
  PROVE  \/ take_string(d, o, w) = Failed
         \/ \E a, c \in Bytestring, s \in Shorts(w) :
              d = Between(a, append_string(s, w), c) /\ Len(a) = o
<1>1. CASE take_uint(d, o, w) = Failed
  BY <1>1 DEF take_string, Failed
<1>2. CASE take_uint(d, o, w) # Failed
  <2>1. PICK a, h, y \in Bytestring :
          /\ d = Between(a, h, y) /\ Len(a) = o /\ Len(h) = w
          /\ take_uint(d, o, w) = Taken(o + w, Value(h))
    BY <1>2, TakeUInt
  <2>2. PICK n \in Nat : n = Value(h) /\ n < Power[w] /\ BigEndian(n, w) = h
    <3>1. Value(h) \in 0 .. Power[w] - 1 /\ BigEndian(Value(h), w) = h
      BY <2>1, ValueBound, WriteWhatWasRead DEF Bytestring
    <3>2. Power[w] \in Nat
      BY PowerIs
    <3>3. QED
      BY <3>1, <3>2
  <2>3. take_string(d, o, w) = take_bytes(d, o + w, n)
    BY <2>1, <2>2 DEF take_string, Taken
  <2>4. CASE take_bytes(d, o + w, n) = Failed
    BY <2>3, <2>4
  <2>5. CASE take_bytes(d, o + w, n) # Failed
    <3>1. o + w \in Nat
      OBVIOUS
    <3>2. PICK b, s, c \in Bytestring :
            d = Between(b, s, c) /\ Len(b) = o + w /\ Len(s) = n
      BY <2>5, <3>1, TakeBytesFinds
    <3>3. s \in Shorts(w)
      BY <2>2, <3>2 DEF Shorts, Bytestring
    <3>4. append_string(s, w) = h \o s
      BY <2>2, <3>2 DEF append_string
    <3>5. Meet(a, h, y, b, s, c)
      BY <2>1, <3>2 DEF Meet
    <3>6. Together(a, h, y, s, c)
      BY <3>5, PartsMeet
    <3>7. d = Between(a, append_string(s, w), c)
      BY <2>1, <3>4, <3>6 DEF Together
    <3>8. QED
      BY <2>1, <3>3, <3>7
  <2>6. QED
    BY <2>4, <2>5
<1>3. QED
  BY <1>1, <1>2

\* Strings are read as they were written.
LEMMA StringCodec ==
  ASSUME NEW w \in Nat
  PROVE  Codec(StringTake(w), StringBytes(w), Shorts(w))
<1>1. PICK T : T = StringTake(w)
  OBVIOUS
<1>2. PICK E : E = StringBytes(w)
  OBVIOUS
<1>3. PICK V : V = Shorts(w)
  OBVIOUS
<1>4. \A d \in Bytestring, o \in Nat : T[<<d, o>>] = take_string(d, o, w)
  BY <1>1 DEF StringTake
<1>5. \A s \in V : E[s] = append_string(s, w) /\ E[s] \in Bytestring
  BY <1>2, <1>3, StringWritten DEF StringBytes
<1>6. E \in [V -> Bytestring]
  BY <1>2, <1>3, <1>5 DEF StringBytes
<1>7. ReadsBack(T, E, V)
  <2>1. SUFFICES ASSUME NEW a \in Bytestring, NEW c \in Bytestring, NEW s \in V
                 PROVE  T[<<Between(a, E[s], c), Len(a)>>] = Taken(Len(a) + Len(E[s]), s)
    BY DEF ReadsBack
  <2>2. PICK e \in Bytestring : e = E[s] /\ e = append_string(s, w)
    BY <1>5
  <2>3. Between(a, e, c) \in Bytestring /\ Len(a) \in Nat
    BY BetweenIs
  <2>4. take_string(Between(a, e, c), Len(a), w) = Taken(Len(a) + Len(e), s)
    BY <1>3, <2>2, StringRead
  <2>5. QED
    BY <1>4, <2>2, <2>3, <2>4
<1>8. FindsOnly(T, E, V)
  <2>1. SUFFICES ASSUME NEW d \in Bytestring, NEW o \in Nat, T[<<d, o>>].ok
                 PROVE  \E a, c \in Bytestring, v \in V :
                          d = Between(a, E[v], c) /\ Len(a) = o
    BY DEF FindsOnly
  <2>2. take_string(d, o, w) # Failed
    BY <1>4, <2>1 DEF Failed
  <2>3. PICK a, c \in Bytestring, s \in Shorts(w) :
          d = Between(a, append_string(s, w), c) /\ Len(a) = o
    BY <2>2, StringFound
  <2>4. QED
    BY <1>3, <1>5, <2>3
<1>9. T \in [Bytestring \X Nat -> Result(V)]
  <2>1. ASSUME NEW d \in Bytestring, NEW o \in Nat
        PROVE  take_string(d, o, w) \in Result(V)
    <3>1. CASE take_string(d, o, w) = Failed
      BY <3>1 DEF Result
    <3>2. CASE take_string(d, o, w) # Failed
      <4>1. PICK a, c \in Bytestring, s \in Shorts(w) :
              d = Between(a, append_string(s, w), c) /\ Len(a) = o
        BY <3>2, StringFound
      <4>2. take_string(d, o, w) = Taken(o + Len(append_string(s, w)), s)
        BY <4>1, StringRead
      <4>3. o + Len(append_string(s, w)) \in Nat
        BY StringWritten, Joining
      <4>4. QED
        BY <1>3, <4>2, <4>3 DEF Result
    <3>3. QED
      BY <3>1, <3>2
  <2>2. \A p \in Bytestring \X Nat : p[1] \in Bytestring /\ p[2] \in Nat
    OBVIOUS
  <2>3. QED
    BY <1>1, <2>1, <2>2 DEF StringTake
<1>10. QED
  BY <1>1, <1>2, <1>3, <1>6, <1>7, <1>8, <1>9 DEF Codec

-----------------------------------------------------------------------------
\* A codec of V is one of W if f takes each to its own.
MapTake(T, f) ==
  [p \in Bytestring \X Nat |->
     IF T[p].ok THEN Taken(T[p].offset, f[T[p].value]) ELSE Failed]
MapBytes(E, g, W) == [u \in W |-> E[g[u]]]

\* f and g undo each other.
Inverses(f, g, V, W) ==
  /\ f \in [V -> W] /\ g \in [W -> V]
  /\ \A v \in V : g[f[v]] = v
  /\ \A u \in W : f[g[u]] = u

\* A codec with its values renamed.
LEMMA MapCodec ==
  ASSUME NEW T, NEW E, NEW V, Codec(T, E, V), NEW W, NEW f, NEW g, Inverses(f, g, V, W)
  PROVE  Codec(MapTake(T, f), MapBytes(E, g, W), W)
<1>1. PICK M : M = MapTake(T, f)
  OBVIOUS
<1>2. PICK N : N = MapBytes(E, g, W)
  OBVIOUS
<1>3. /\ f \in [V -> W] /\ g \in [W -> V]
      /\ \A v \in V : g[f[v]] = v
      /\ \A u \in W : f[g[u]] = u
  BY DEF Inverses
<1>4. \A u \in W : g[u] \in V /\ N[u] = E[g[u]] /\ N[u] \in Bytestring
  BY <1>2, <1>3, CodecUse DEF MapBytes
<1>5. N \in [W -> Bytestring]
  BY <1>2, <1>4 DEF MapBytes
<1>6. ASSUME NEW d \in Bytestring, NEW o \in Nat
      PROVE  M[<<d, o>>] = IF T[<<d, o>>].ok
                           THEN Taken(T[<<d, o>>].offset, f[T[<<d, o>>].value])
                           ELSE Failed
  BY <1>1 DEF MapTake
<1>7. M \in [Bytestring \X Nat -> Result(W)]
  <2>1. ASSUME NEW p \in Bytestring \X Nat
        PROVE  M[p] \in Result(W)
    <3>1. PICK d \in Bytestring, o \in Nat : p = <<d, o>>
      OBVIOUS
    <3>2. PICK r \in Result(V) : r = T[<<d, o>>]
      BY CodecUse
    <3>3. CASE r.ok
      <4>1. r.offset \in Nat /\ f[r.value] \in W
        BY <1>3, <3>3, ResultIs
      <4>2. M[p] = Taken(r.offset, f[r.value])
        BY <1>6, <3>1, <3>2, <3>3
      <4>3. QED
        BY <4>1, <4>2 DEF Result
    <3>4. CASE ~r.ok
      BY <1>6, <3>1, <3>2, <3>4 DEF Result
    <3>5. QED
      BY <3>3, <3>4
  <2>2. QED
    BY <1>1, <2>1 DEF MapTake
<1>8. ReadsBack(M, N, W)
  <2>1. SUFFICES ASSUME NEW a \in Bytestring, NEW c \in Bytestring, NEW u \in W
                 PROVE  M[<<Between(a, N[u], c), Len(a)>>] = Taken(Len(a) + Len(N[u]), u)
    BY DEF ReadsBack
  <2>2. PICK v \in V : v = g[u] /\ f[v] = u /\ N[u] = E[v]
    BY <1>3, <1>4
  <2>3. PICK d \in Bytestring : d = Between(a, E[v], c)
    BY CodecUse, BetweenIs
  <2>4. PICK o \in Nat : o = Len(a)
    BY Joining
  <2>5. T[<<d, o>>] = Taken(o + Len(E[v]), v)
    BY <2>3, <2>4, CodecUse
  <2>6. M[<<d, o>>] = Taken(o + Len(E[v]), u)
    BY <1>6, <2>2, <2>5 DEF Taken
  <2>7. QED
    BY <2>2, <2>3, <2>4, <2>6
<1>9. FindsOnly(M, N, W)
  <2>1. SUFFICES ASSUME NEW d \in Bytestring, NEW o \in Nat, M[<<d, o>>].ok
                 PROVE  \E a, c \in Bytestring, u \in W :
                          d = Between(a, N[u], c) /\ Len(a) = o
    BY DEF FindsOnly
  <2>2. T[<<d, o>>].ok
    BY <1>6, <2>1 DEF Failed
  <2>3. PICK a, c \in Bytestring, v \in V : d = Between(a, E[v], c) /\ Len(a) = o
    BY <2>2, CodecUse
  <2>4. PICK u \in W : u = f[v] /\ N[u] = E[v]
    BY <1>3, <1>4
  <2>5. QED
    BY <2>3, <2>4
<1>10. QED
  BY <1>1, <1>2, <1>5, <1>7, <1>8, <1>9 DEF Codec

-----------------------------------------------------------------------------
\* int64 and uint64 undo each other.
LEMMA TimesFit ==
  /\ \A n \in UInts(U64) : int64(n) \in Times /\ uint64(int64(n)) = n
  /\ \A t \in Times : uint64(t) \in UInts(U64) /\ int64(uint64(t)) = t
<1>1. PICK p \in Nat \ {0} : p = Power[U64]
  <2>1. U64 \in Nat
    BY CodecsAssumption
  <2>2. QED
    BY <2>1, PowerIs
<1>2. ASSUME NEW t \in Int, -p <= t, t < p
      PROVE  t % p = IF t < 0 THEN t + p ELSE t
  <2>1. CASE t >= 0
    BY <1>2, <2>1
  <2>2. CASE t < 0
    <3>1. (t + p) \in 0 .. p - 1
      BY <1>2, <2>2
    <3>2. t = p * (-1) + (t + p)
      OBVIOUS
    <3>3. QED
      BY <2>2, <3>1, <3>2
  <2>3. QED
    BY <2>1, <2>2
<1>3. ASSUME NEW n \in 0 .. p - 1
      PROVE  int64(n) \in Times /\ uint64(int64(n)) = n
  <2>1. CASE 2 * n >= p
    <3>1. PICK t \in Int : t = n - p /\ int64(n) = t
      BY <1>1, <2>1 DEF int64
    <3>2. -p <= 2 * t /\ 2 * t < p /\ -p <= t /\ t < 0 /\ t < p
      BY <2>1, <3>1
    <3>3. t % p = t + p
      BY <1>2, <3>2
    <3>4. QED
      BY <1>1, <3>1, <3>2, <3>3 DEF Times, uint64
  <2>2. CASE 2 * n < p
    <3>1. int64(n) = n
      BY <1>1, <2>2 DEF int64
    <3>2. n % p = n
      BY <1>2
    <3>3. QED
      BY <1>1, <2>2, <3>1, <3>2 DEF Times, uint64
  <2>3. QED
    BY <2>1, <2>2
<1>4. ASSUME NEW t \in Int, -p <= 2 * t, 2 * t < p
      PROVE  uint64(t) \in 0 .. p - 1 /\ int64(uint64(t)) = t
  <2>1. CASE t < 0
    <3>1. PICK n \in 0 .. p - 1 : n = t + p
      BY <1>4, <2>1
    <3>2. uint64(t) = n
      <4>1. -p <= t /\ t < p
        BY <1>4, <2>1
      <4>2. t % p = n
        BY <1>2, <2>1, <3>1, <4>1
      <4>3. QED
        BY <1>1, <4>2 DEF uint64
    <3>3. 2 * n >= p /\ n - p = t
      BY <1>4, <3>1
    <3>4. QED
      BY <1>1, <3>2, <3>3 DEF int64
  <2>2. CASE t >= 0
    <3>1. t \in 0 .. p - 1 /\ -p <= t /\ t < p
      BY <1>4, <2>2
    <3>2. uint64(t) = t
      <4>1. t % p = t
        BY <1>2, <2>2, <3>1
      <4>2. QED
        BY <1>1, <4>1 DEF uint64
    <3>3. ~(2 * t >= p)
      BY <1>4
    <3>4. QED
      BY <1>1, <3>1, <3>2, <3>3 DEF int64
  <2>3. QED
    BY <2>1, <2>2
<1>5. UInts(U64) = 0 .. p - 1 /\ \A t \in Times : t \in Int /\ -p <= 2 * t /\ 2 * t < p
  BY <1>1 DEF UInts, Times
<1>6. QED
  BY <1>3, <1>4, <1>5

-----------------------------------------------------------------------------
\* Records.
RecordTake   == [p \in Bytestring \X Nat |-> take_record(p[1], p[2])]
RecordBytes  == [m \in ShortRecords |-> encode_chat_message(m)]

\* The four parts of a record one after the other, and as a record.
Quads  == ((Shorts(U16) \X Shorts(U16)) \X UInts(U64)) \X Shorts(U32)
ToRecord   == [q \in Quads |-> [first |-> q[1][1][1], second |-> q[1][1][2],
                                timestamp |-> int64(q[1][2]), content |-> q[2]]]
FromRecord == [m \in ShortRecords |->
                 <<<<<<m.first, m.second>>, uint64(m.timestamp)>>, m.content>>]
QuadTake   == PairTake(PairTake(PairTake(StringTake(U16), StringTake(U16)),
                                UIntTake(U64)),
                       StringTake(U32))
QuadBytes  == PairBytes(PairBytes(PairBytes(StringBytes(U16), Shorts(U16),
                                            StringBytes(U16), Shorts(U16)),
                                  Shorts(U16) \X Shorts(U16),
                                  UIntBytes(U64), UInts(U64)),
                        (Shorts(U16) \X Shorts(U16)) \X UInts(U64),
                        StringBytes(U32), Shorts(U32))

\* The parts are read as they were written, ...
LEMMA QuadCodec == Codec(QuadTake, QuadBytes, Quads)
<1>1. U16 \in Nat /\ U32 \in Nat /\ U64 \in Nat
  BY CodecsAssumption
<1>2. PICK A, B, C : A = StringTake(U16) /\ B = StringBytes(U16) /\ C = Shorts(U16)
  OBVIOUS
<1>3. Codec(A, B, C)
  BY <1>1, <1>2, StringCodec
<1>4. PICK T, E, V : T = PairTake(A, A) /\ E = PairBytes(B, C, B, C) /\ V = C \X C
  OBVIOUS
<1>5. Codec(T, E, V)
  BY <1>3, <1>4, PairCodec
<1>6. PICK F, G, H : F = UIntTake(U64) /\ G = UIntBytes(U64) /\ H = UInts(U64)
  OBVIOUS
<1>7. Codec(F, G, H)
  BY <1>1, <1>6, UIntCodec
<1>8. PICK T2, E2, V2 : T2 = PairTake(T, F) /\ E2 = PairBytes(E, V, G, H) /\ V2 = V \X H
  OBVIOUS
<1>9. Codec(T2, E2, V2)
  BY <1>5, <1>7, <1>8, PairCodec
<1>10. PICK K, L, M : K = StringTake(U32) /\ L = StringBytes(U32) /\ M = Shorts(U32)
  OBVIOUS
<1>11. Codec(K, L, M)
  BY <1>1, <1>10, StringCodec
<1>12. Codec(PairTake(T2, K), PairBytes(E2, V2, L, M), V2 \X M)
  BY <1>9, <1>11, PairCodec
<1>13. QuadTake = PairTake(T2, K)
  BY <1>2, <1>4, <1>6, <1>8, <1>10 DEF QuadTake
<1>14. QuadBytes = PairBytes(E2, V2, L, M)
  BY <1>2, <1>4, <1>6, <1>8, <1>10 DEF QuadBytes
<1>15. Quads = V2 \X M
  BY <1>2, <1>4, <1>6, <1>8, <1>10 DEF Quads
<1>16. QED
  BY <1>12, <1>13, <1>14, <1>15

\* ... a record is its parts, ...
LEMMA RecordParts == Inverses(ToRecord, FromRecord, Quads, ShortRecords)
<1>1. PICK A, C : A = Shorts(U16) /\ C = Shorts(U32)
  OBVIOUS
<1>2. Quads = ((A \X A) \X UInts(U64)) \X C
  BY <1>1 DEF Quads
<1>3. ShortRecords = [first : A, second : A, timestamp : Times, content : C]
  BY <1>1 DEF ShortRecords
<1>4. ASSUME NEW q \in Quads
      PROVE  /\ ToRecord[q] \in ShortRecords /\ FromRecord[ToRecord[q]] = q
  <2>1. PICK a, b \in A, n \in UInts(U64), c \in C : q = <<<<<<a, b>>, n>>, c>>
    <3>1. PICK z \in (A \X A) \X UInts(U64), c \in C : q = <<z, c>>
      BY <1>2
    <3>2. PICK y \in A \X A, n \in UInts(U64) : z = <<y, n>>
      OBVIOUS
    <3>3. PICK a \in A, b \in A : y = <<a, b>>
      OBVIOUS
    <3>4. QED
      BY <3>1, <3>2, <3>3
  <2>2. PICK t \in Times : t = int64(n) /\ uint64(t) = n
    BY TimesFit
  <2>3. PICK m : m = [first |-> a, second |-> b, timestamp |-> t, content |-> c]
    OBVIOUS
  <2>4. m \in ShortRecords
    BY <1>3, <2>3
  <2>5. ToRecord[q] = m
    BY <2>1, <2>2, <2>3 DEF ToRecord
  <2>6. /\ m.first = a /\ m.second = b /\ m.timestamp = t /\ m.content = c
    BY <2>3
  <2>7. FromRecord[m] = <<<<<<a, b>>, n>>, c>>
    BY <2>2, <2>4, <2>6 DEF FromRecord
  <2>8. QED
    BY <2>1, <2>4, <2>5, <2>7
<1>5. ASSUME NEW m \in ShortRecords
      PROVE  FromRecord[m] \in Quads /\ ToRecord[FromRecord[m]] = m
  <2>1. PICK a, b, t, c : /\ a = m.first /\ b = m.second /\ t = m.timestamp
                          /\ c = m.content
    OBVIOUS
  <2>2. /\ a \in A /\ b \in A /\ t \in Times /\ c \in C
        /\ m = [first |-> a, second |-> b, timestamp |-> t, content |-> c]
    BY <1>3, <2>1
  <2>3. PICK n \in UInts(U64) : n = uint64(t) /\ int64(n) = t
    BY <2>2, TimesFit
  <2>4. PICK q : q = <<<<<<a, b>>, n>>, c>>
    OBVIOUS
  <2>5. q \in Quads
    BY <1>2, <2>2, <2>3, <2>4
  <2>6. FromRecord[m] = q
    BY <2>1, <2>3, <2>4 DEF FromRecord
  <2>7. ToRecord[q] = [first |-> a, second |-> b, timestamp |-> t, content |-> c]
    <3>1. q[1][1][1] = a /\ q[1][1][2] = b /\ q[1][2] = n /\ q[2] = c
      BY <2>4
    <3>2. QED
      BY <2>3, <2>5, <3>1 DEF ToRecord
  <2>8. QED
    BY <2>2, <2>5, <2>6, <2>7
<1>6. ToRecord \in [Quads -> ShortRecords] /\ FromRecord \in [ShortRecords -> Quads]
  BY <1>4, <1>5 DEF ToRecord, FromRecord
<1>7. QED
  BY <1>4, <1>5, <1>6 DEF Inverses

\* ... take_record takes them, ...
LEMMA RecordTakeIs == RecordTake = MapTake(QuadTake, ToRecord)
<1>1. U16 \in Nat /\ U32 \in Nat /\ U64 \in Nat
  BY CodecsAssumption
<1>2. ASSUME NEW d \in Bytestring, NEW o \in Nat
      PROVE  RecordTake[<<d, o>>] = MapTake(QuadTake, ToRecord)[<<d, o>>]
  <2>1. PICK r1 \in Result(Shorts(U16)) :
          r1 = take_string(d, o, U16) /\ r1 = StringTake(U16)[<<d, o>>]
    <3>1. StringTake(U16)[<<d, o>>] \in Result(Shorts(U16))
      BY <1>1, StringCodec, CodecUse
    <3>2. QED
      BY <3>1 DEF StringTake
  <2>2. PICK o1 \in Nat : o1 = r1.offset
    BY ResultIs
  <2>3. PICK r2 \in Result(Shorts(U16)) :
          r2 = take_string(d, o1, U16) /\ r2 = StringTake(U16)[<<d, o1>>]
    <3>1. StringTake(U16)[<<d, o1>>] \in Result(Shorts(U16))
      BY <1>1, StringCodec, CodecUse
    <3>2. QED
      BY <3>1 DEF StringTake
  <2>4. PICK o2 \in Nat : o2 = r2.offset
    BY ResultIs
  <2>5. PICK r3 \in Result(UInts(U64)) :
          r3 = take_uint(d, o2, U64) /\ r3 = UIntTake(U64)[<<d, o2>>]
    <3>1. UIntTake(U64)[<<d, o2>>] \in Result(UInts(U64))
      BY <1>1, UIntCodec, CodecUse
    <3>2. QED
      BY <3>1 DEF UIntTake
  <2>6. PICK o3 \in Nat : o3 = r3.offset
    BY ResultIs
  <2>7. PICK r4 \in Result(Shorts(U32)) :
          r4 = take_string(d, o3, U32) /\ r4 = StringTake(U32)[<<d, o3>>]
    <3>1. StringTake(U32)[<<d, o3>>] \in Result(Shorts(U32))
      BY <1>1, StringCodec, CodecUse
    <3>2. QED
      BY <3>1 DEF StringTake
  <2>8. RecordTake[<<d, o>>] =
          IF r1.ok /\ r2.ok /\ r3.ok /\ r4.ok
          THEN Taken(r4.offset, [first |-> r1.value, second |-> r2.value,
                                 timestamp |-> int64(r3.value), content |-> r4.value])
          ELSE Failed
    <3>1. RecordTake[<<d, o>>] = take_record(d, o)
      BY DEF RecordTake
    <3>2. QED
      BY <2>1, <2>2, <2>3, <2>4, <2>5, <2>6, <2>7, <3>1 DEF take_record
  <2>9. PICK T : T = PairTake(StringTake(U16), StringTake(U16))
    OBVIOUS
  <2>10. PICK T2 : T2 = PairTake(T, UIntTake(U64))
    OBVIOUS
  <2>11. T[<<d, o>>] = IF r1.ok /\ r2.ok THEN Taken(o2, <<r1.value, r2.value>>) ELSE Failed
    BY <2>1, <2>2, <2>3, <2>4, <2>9 DEF PairTake
  <2>12. CASE ~(r1.ok /\ r2.ok)
    <3>1. T[<<d, o>>].ok = FALSE
      BY <2>11, <2>12 DEF Failed
    <3>2. T2[<<d, o>>].ok = FALSE
      BY <2>10, <3>1 DEF PairTake, Failed
    <3>3. QuadTake[<<d, o>>].ok = FALSE
      BY <2>9, <2>10, <3>2 DEF QuadTake, PairTake, Failed
    <3>4. MapTake(QuadTake, ToRecord)[<<d, o>>] = Failed
      BY <3>3 DEF MapTake
    <3>5. QED
      BY <2>8, <2>12, <3>4
  <2>13. CASE r1.ok /\ r2.ok
    <3>1. T[<<d, o>>].ok /\ T[<<d, o>>].offset = o2 /\ T[<<d, o>>].value = <<r1.value, r2.value>>
      BY <2>11, <2>13 DEF Taken
    <3>2. T2[<<d, o>>] = IF r3.ok THEN Taken(o3, <<<<r1.value, r2.value>>, r3.value>>)
                         ELSE Failed
      BY <2>5, <2>6, <2>10, <3>1 DEF PairTake
    <3>3. CASE ~r3.ok
      <4>1. T2[<<d, o>>].ok = FALSE
        BY <3>2, <3>3 DEF Failed
      <4>2. QuadTake[<<d, o>>].ok = FALSE
        BY <2>9, <2>10, <4>1 DEF QuadTake, PairTake, Failed
      <4>3. MapTake(QuadTake, ToRecord)[<<d, o>>] = Failed
        BY <4>2 DEF MapTake
      <4>4. QED
        BY <2>8, <3>3, <4>3
    <3>4. CASE r3.ok
      <4>1. PICK z : z = <<<<r1.value, r2.value>>, r3.value>>
        OBVIOUS
      <4>2. T2[<<d, o>>].ok /\ T2[<<d, o>>].offset = o3 /\ T2[<<d, o>>].value = z
        BY <3>2, <3>4, <4>1 DEF Taken
      <4>3. QuadTake[<<d, o>>] = IF r4.ok THEN Taken(r4.offset, <<z, r4.value>>) ELSE Failed
        <5>1. QuadTake = PairTake(T2, StringTake(U32))
          BY <2>9, <2>10 DEF QuadTake
        <5>2. QED
          BY <2>7, <4>2, <5>1 DEF PairTake
      <4>4. CASE ~r4.ok
        <5>1. QuadTake[<<d, o>>].ok = FALSE
          BY <4>3, <4>4 DEF Failed
        <5>2. MapTake(QuadTake, ToRecord)[<<d, o>>] = Failed
          BY <5>1 DEF MapTake
        <5>3. QED
          BY <2>8, <4>4, <5>2
      <4>5. CASE r4.ok
        <5>1. PICK q : q = <<z, r4.value>>
          OBVIOUS
        <5>2. /\ QuadTake[<<d, o>>].ok /\ QuadTake[<<d, o>>].offset = r4.offset
              /\ QuadTake[<<d, o>>].value = q
          BY <4>3, <4>5, <5>1 DEF Taken
        <5>3. MapTake(QuadTake, ToRecord)[<<d, o>>] = Taken(r4.offset, ToRecord[q])
          BY <5>2 DEF MapTake
        <5>4. q \in Quads
          <6>1. r1.value \in Shorts(U16) /\ r2.value \in Shorts(U16)
            BY <2>13, ResultIs
          <6>2. r3.value \in UInts(U64)
            BY <3>4, ResultIs
          <6>3. r4.value \in Shorts(U32)
            BY <4>5, ResultIs
          <6>4. QED
            BY <4>1, <5>1, <6>1, <6>2, <6>3 DEF Quads
        <5>5. ToRecord[q] = [first |-> r1.value, second |-> r2.value,
                             timestamp |-> int64(r3.value), content |-> r4.value]
          <6>1. /\ q[1][1][1] = r1.value /\ q[1][1][2] = r2.value
                /\ q[1][2] = r3.value /\ q[2] = r4.value
            BY <4>1, <5>1
          <6>2. QED
            BY <5>4, <6>1 DEF ToRecord
        <5>6. QED
          BY <2>8, <2>13, <3>4, <4>5, <5>3, <5>5
      <4>6. QED
        BY <4>4, <4>5
    <3>5. QED
      BY <3>3, <3>4
  <2>14. QED
    BY <2>12, <2>13
<1>3. PICK f, g : f = RecordTake /\ g = MapTake(QuadTake, ToRecord)
  OBVIOUS
<1>4. \A p \in Bytestring \X Nat : f[p] = g[p]
  <2>1. \A p \in Bytestring \X Nat : p[1] \in Bytestring /\ p[2] \in Nat /\ p = <<p[1], p[2]>>
    OBVIOUS
  <2>2. \A d \in Bytestring, o \in Nat : f[<<d, o>>] = g[<<d, o>>]
    BY <1>2, <1>3
  <2>3. QED
    BY <2>1, <2>2
<1>5. f = [p \in Bytestring \X Nat |-> f[p]] /\ g = [p \in Bytestring \X Nat |-> g[p]]
  BY <1>3 DEF RecordTake, MapTake
<1>6. QED
  BY <1>3, <1>4, <1>5

\* ... and encode_chat_message writes them.
LEMMA RecordBytesIs == RecordBytes = MapBytes(QuadBytes, FromRecord, ShortRecords)
<1>1. U16 \in Nat /\ U32 \in Nat /\ U64 \in Nat
  BY CodecsAssumption
<1>2. ASSUME NEW m \in ShortRecords
      PROVE  encode_chat_message(m) = QuadBytes[FromRecord[m]]
  <2>1. PICK a, b \in Shorts(U16), t \in Times, c \in Shorts(U32) :
          a = m.first /\ b = m.second /\ t = m.timestamp /\ c = m.content
    BY DEF ShortRecords
  <2>2. PICK n \in UInts(U64) : n = uint64(t)
    BY TimesFit
  <2>3. FromRecord[m] = <<<<<<a, b>>, n>>, c>>
    BY <2>1, <2>2 DEF FromRecord
  <2>4. PICK E, E2 : /\ E = PairBytes(StringBytes(U16), Shorts(U16),
                                      StringBytes(U16), Shorts(U16))
                     /\ E2 = PairBytes(E, Shorts(U16) \X Shorts(U16),
                                       UIntBytes(U64), UInts(U64))
    OBVIOUS
  <2>5. PICK y \in Shorts(U16) \X Shorts(U16) : y = <<a, b>> /\ y[1] = a /\ y[2] = b
    <3>1. /\ <<a, b>> \in Shorts(U16) \X Shorts(U16)
          /\ <<a, b>>[1] = a /\ <<a, b>>[2] = b
      OBVIOUS
    <3>2. QED
      BY <3>1
  <2>6. PICK z \in (Shorts(U16) \X Shorts(U16)) \X UInts(U64) :
          z = <<y, n>> /\ z[1] = y /\ z[2] = n
    <3>1. /\ <<y, n>> \in (Shorts(U16) \X Shorts(U16)) \X UInts(U64)
          /\ <<y, n>>[1] = y /\ <<y, n>>[2] = n
      OBVIOUS
    <3>2. QED
      BY <3>1
  <2>7. PICK q \in ((Shorts(U16) \X Shorts(U16)) \X UInts(U64)) \X Shorts(U32) :
          q = <<z, c>> /\ q[1] = z /\ q[2] = c
    <3>1. /\ <<z, c>> \in ((Shorts(U16) \X Shorts(U16)) \X UInts(U64)) \X Shorts(U32)
          /\ <<z, c>>[1] = z /\ <<z, c>>[2] = c
      OBVIOUS
    <3>2. QED
      BY <3>1
  <2>8. E[y] = append_string(a, U16) \o append_string(b, U16)
    BY <2>4, <2>5 DEF PairBytes, StringBytes
  <2>9. E2[z] = E[y] \o BigEndian(n, U64)
    BY <2>4, <2>6 DEF PairBytes, UIntBytes
  <2>10. QuadBytes[q] = E2[z] \o append_string(c, U32)
    BY <2>4, <2>7 DEF QuadBytes, PairBytes, StringBytes
  <2>11. encode_chat_message(m)
           = ((append_string(a, U16) \o append_string(b, U16)) \o BigEndian(n, U64))
               \o append_string(c, U32)
    BY <2>1, <2>2 DEF encode_chat_message
  <2>12. QED
    BY <2>3, <2>5, <2>6, <2>7, <2>8, <2>9, <2>10, <2>11
<1>3. QED
  BY <1>2 DEF RecordBytes, MapBytes

\* Records are read as they were written.
LEMMA RecordCodec == Codec(RecordTake, RecordBytes, ShortRecords)
  BY QuadCodec, RecordParts, MapCodec, RecordTakeIs, RecordBytesIs

-----------------------------------------------------------------------------
(***************************************************************************)
(* Lists.                                                                  *)
(***************************************************************************)
\* t[i] is h and, behind it, the first i of the items s.
Spelled(t, E, s, h) ==
  /\ t \in [0..Len(s) -> Bytestring] /\ t[0] = h
  /\ \A i \in 1..Len(s) : t[i] = t[i - 1] \o E[s[i]]

\* Every list can be spelled, ...
LEMMA SpelledExists ==
  ASSUME NEW V, NEW E \in [V -> Bytestring], NEW s \in Seq(V), NEW h \in Bytestring
  PROVE  \E t : Spelled(t, E, s, h)
<1>1. PICK n \in Nat : n = Len(s)
  OBVIOUS
<1>2. \A i \in 1..n : E[s[i]] \in Bytestring
  BY <1>1
<1> DEFINE G == [q \in Nat \X Bytestring |->
                   IF q[1] < n THEN q[2] \o E[s[q[1] + 1]] ELSE q[2]]
<1>3. G \in Steps(Bytestring)
  <2>1. ASSUME NEW q \in Nat \X Bytestring PROVE G[q] \in Bytestring
    <3>1. q[1] \in Nat /\ q[2] \in Bytestring
      OBVIOUS
    <3>2. CASE q[1] < n
      <4>1. q[1] + 1 \in 1..n
        BY <3>1, <3>2
      <4>2. PICK e \in Bytestring : e = E[s[q[1] + 1]]
        BY <1>2, <4>1
      <4>3. q[2] \o e \in Bytestring
        BY <3>1, Joining
      <4>4. QED
        BY <3>2, <4>2, <4>3
    <3>3. QED
      BY <3>1, <3>2
  <2>2. QED
    BY <2>1 DEF Steps
<1>4. PICK f : Iterates(f, Bytestring, h, G)
  <2> HIDE DEF G
  <2>1. QED
    BY <1>3, Recursion
<1>5. /\ f \in [Nat -> Bytestring] /\ f[0] = h
      /\ \A i \in Nat : f[i + 1] = G[<<i, f[i]>>]
  <2> HIDE DEF G
  <2>1. QED
    BY <1>4 DEF Iterates
<1> DEFINE t == [i \in 0..n |-> f[i]]
<1>6. t \in [0..n -> Bytestring] /\ t[0] = h
  <2>1. 0 \in 0..n /\ \A i \in 0..n : i \in Nat
    OBVIOUS
  <2>2. QED
    BY <1>5, <2>1
<1>7. ASSUME NEW i \in 1..n PROVE t[i] = t[i - 1] \o E[s[i]]
  <2>1. PICK k \in Nat : k = i - 1 /\ k < n /\ k + 1 = i
    OBVIOUS
  <2>2. f[i] = G[<<k, f[k]>>] /\ f[k] \in Bytestring
    <3> HIDE DEF G
    <3>1. QED
      BY <1>5, <2>1
  <2>3. G[<<k, f[k]>>] = f[k] \o E[s[i]]
    BY <2>1, <2>2
  <2>4. t[i] = f[i] /\ t[i - 1] = f[k]
    BY <2>1
  <2>5. QED
    BY <2>2, <2>3, <2>4
<1>8. Spelled(t, E, s, h)
  <2> HIDE DEF t
  <2>1. QED
    BY <1>1, <1>6, <1>7 DEF Spelled
<1>9. QED
  BY <1>8

\* ... in one way, ...
Follows(b, E, s, h) == b[0] = h /\ \A i \in 1..Len(s) : b[i] = b[i - 1] \o E[s[i]]

\* The two ways end with the same bytes.
LEMMA SpelledOnce ==
  ASSUME NEW V, NEW E, NEW s \in Seq(V), NEW h, NEW t, Spelled(t, E, s, h),
         NEW b, Follows(b, E, s, h)
  PROVE  b[Len(s)] = t[Len(s)]
<1>1. PICK n \in Nat : n = Len(s)
  OBVIOUS
<1> DEFINE P == {i \in Nat : i <= n => b[i] = t[i]}
<1>2. 0 \in P
  BY DEF Spelled, Follows
<1>3. ASSUME NEW i \in Nat, i \in P PROVE i + 1 \in P
  <2>1. SUFFICES ASSUME i + 1 <= n PROVE b[i + 1] = t[i + 1]
    OBVIOUS
  <2>2. i + 1 \in 1..n /\ (i + 1) - 1 = i /\ i <= n
    BY <2>1
  <2>3. b[i] = t[i]
    BY <1>3, <2>2
  <2>4. b[i + 1] = b[i] \o E[s[i + 1]] /\ t[i + 1] = t[i] \o E[s[i + 1]]
    BY <1>1, <2>2 DEF Spelled, Follows
  <2>5. QED
    BY <2>3, <2>4
<1>4. \A i \in Nat : i \in P
  <2> HIDE DEF P
  <2>1. QED
    BY <1>2, <1>3, Induction
<1>5. n \in P /\ n <= n
  BY <1>4
<1>6. QED
  BY <1>1, <1>5

\* ... and item i is behind the ones before it.
Begins(d, a) == \E z \in Bytestring : d = a \o z

\* The whole begins with each of its parts.
LEMMA SpelledGoesOn ==
  ASSUME NEW V, NEW E \in [V -> Bytestring], NEW s \in Seq(V), NEW h, NEW t,
         Spelled(t, E, s, h), NEW i \in 0..Len(s)
  PROVE  Begins(t[Len(s)], t[i])
<1>1. PICK n \in Nat : n = Len(s) /\ i <= n /\ i \in Nat
  OBVIOUS
<1>2. /\ \A k \in 0..n : t[k] \in Bytestring
      /\ \A k \in 1..n : t[k] = t[k - 1] \o E[s[k]] /\ E[s[k]] \in Bytestring
  <2>1. \A k \in 0..n : t[k] \in Bytestring
    BY <1>1 DEF Spelled
  <2>2. \A k \in 1..n : E[s[k]] \in Bytestring
    BY <1>1
  <2>3. QED
    BY <1>1, <2>1, <2>2 DEF Spelled
<1> DEFINE Ends(k) == \E z \in Bytestring : t[k] = t[i] \o z
           P == {k \in Nat : i <= k /\ k <= n => Ends(k)}
<1>3. \A k \in Nat : k \in P
  <2>1. 0 \in P
    <3>1. CASE i = 0
      <4>1. t[0] \in Bytestring /\ <<>> \in Bytestring
        BY <1>2, Joining
      <4>2. t[0] = t[i] \o <<>>
        BY <3>1, <4>1, Joining
      <4>3. QED
        BY <4>1, <4>2
    <3>2. CASE i # 0
      BY <3>2
    <3>3. QED
      BY <3>1, <3>2
  <2>2. ASSUME NEW k \in Nat, k \in P PROVE k + 1 \in P
    <3>1. SUFFICES ASSUME i <= k + 1, k + 1 <= n PROVE Ends(k + 1)
      OBVIOUS
    <3>2. CASE i = k + 1
      <4>1. t[i] \in Bytestring /\ <<>> \in Bytestring
        BY <1>1, <1>2, Joining
      <4>2. t[k + 1] = t[i] \o <<>>
        BY <3>2, <4>1, Joining
      <4>3. QED
        BY <4>1, <4>2
    <3>3. CASE i <= k
      <4>1. PICK z \in Bytestring : t[k] = t[i] \o z
        BY <2>2, <3>1, <3>3
      <4>2. k + 1 \in 1..n /\ (k + 1) - 1 = k
        BY <3>1
      <4>3. PICK e \in Bytestring : e = E[s[k + 1]] /\ t[k + 1] = t[k] \o e
        BY <1>2, <4>2
      <4>4. PICK u \in Bytestring : u = t[i]
        BY <1>1, <1>2
      <4>5. Grouped(u, z, e)
        BY Grouping
      <4>6. t[k + 1] = t[i] \o (z \o e)
        BY <4>1, <4>3, <4>4, <4>5 DEF Grouped
      <4>7. z \o e \in Bytestring
        BY Joining
      <4>8. QED
        BY <4>6, <4>7
    <3>4. i = k + 1 \/ i <= k
      BY <1>1, <3>1
    <3>5. QED
      BY <3>2, <3>3, <3>4
  <2>3. QED
    <3> HIDE DEF P
    <3>1. QED
      BY <2>1, <2>2, Induction
<1>4. n \in P /\ i <= n
  BY <1>1, <1>3
<1>5. QED
  BY <1>1, <1>4 DEF Begins

-----------------------------------------------------------------------------
\* The loop of a decoder over n items that begin at offset o.
ListStep(r, item) ==
  IF r.ok /\ item.ok THEN Taken(item.offset, Append(r.value, item.value)) ELSE Failed
ListOf(f, T, d, n, o) ==
  /\ f[0] = Taken(o, <<>>)
  /\ \A i \in 1..n : f[i] = ListStep(f[i - 1], T[<<d, f[i - 1].offset>>])

\* A step of the loop has a result.
LEMMA ListStepType ==
  ASSUME NEW V, NEW r \in Result(Seq(V)), NEW item \in Result(V)
  PROVE  ListStep(r, item) \in Result(Seq(V))
<1>1. CASE r.ok /\ item.ok
  <2>1. r.value \in Seq(V)
    BY <1>1, ResultIs
  <2>2. item.value \in V /\ item.offset \in Nat
    BY <1>1, ResultIs
  <2>3. Append(r.value, item.value) \in Seq(V)
    BY <2>1, <2>2
  <2>4. ListStep(r, item) = Taken(item.offset, Append(r.value, item.value))
    BY <1>1 DEF ListStep
  <2>5. QED
    BY <2>2, <2>3, <2>4, ResultTaken
<1>2. CASE ~(r.ok /\ item.ok)
  BY <1>2 DEF ListStep, Result
<1>3. QED
  BY <1>1, <1>2

\* The loop runs, and each of its results is a list of items or a failure.
LEMMA ListExists ==
  ASSUME NEW T, NEW E, NEW V, Codec(T, E, V),
         NEW d \in Bytestring, NEW n \in Nat, NEW o \in Nat
  PROVE  \E f \in [0..n -> Result(Seq(V))] : ListOf(f, T, d, n, o)
<1>1. PICK R : R = Result(Seq(V))
  OBVIOUS
<1>2. PICK r0 \in R : r0 = Taken(o, <<>>)
  <2>1. <<>> \in Seq(V)
    OBVIOUS
  <2>2. Taken(o, <<>>) \in Result(Seq(V))
    BY <2>1, ResultTaken
  <2>3. QED
    BY <1>1, <2>2
<1> DEFINE G == [q \in Nat \X R |-> ListStep(q[2], T[<<d, q[2].offset>>])]
<1>3. G \in Steps(R)
  <2>1. ASSUME NEW r \in R PROVE ListStep(r, T[<<d, r.offset>>]) \in R
    <3>1. r.offset \in Nat
      BY <1>1, ResultIs
    <3>2. T[<<d, r.offset>>] \in Result(V)
      BY <3>1, CodecUse
    <3>3. QED
      BY <1>1, <3>2, ListStepType
  <2>2. \A q \in Nat \X R : q[2] \in R
    OBVIOUS
  <2>3. QED
    BY <2>1, <2>2 DEF Steps
<1>4. PICK f : Iterates(f, R, r0, G)
  <2> HIDE DEF G
  <2>1. QED
    BY <1>3, Recursion
<1>5. /\ f \in [Nat -> R] /\ f[0] = r0
      /\ \A i \in Nat : f[i + 1] = G[<<i, f[i]>>]
  <2> HIDE DEF G
  <2>1. QED
    BY <1>4 DEF Iterates
<1> DEFINE g == [i \in 0..n |-> f[i]]
<1>6. g \in [0..n -> R] /\ g[0] = Taken(o, <<>>)
  <2>1. 0 \in 0..n /\ \A i \in 0..n : i \in Nat
    OBVIOUS
  <2>2. QED
    BY <1>2, <1>5, <2>1
<1>7. ASSUME NEW i \in 1..n PROVE g[i] = ListStep(g[i - 1], T[<<d, g[i - 1].offset>>])
  <2>1. PICK k \in Nat : k = i - 1 /\ k < n /\ k + 1 = i
    OBVIOUS
  <2>2. f[i] = G[<<k, f[k]>>] /\ f[k] \in R
    <3> HIDE DEF G
    <3>1. QED
      BY <1>5, <2>1
  <2>3. G[<<k, f[k]>>] = ListStep(f[k], T[<<d, f[k].offset>>])
    BY <2>2
  <2>4. g[i] = f[i] /\ g[i - 1] = f[k]
    BY <2>1
  <2>5. QED
    BY <2>2, <2>3, <2>4
<1>8. ListOf(g, T, d, n, o)
  <2> HIDE DEF g
  <2>1. QED
    BY <1>6, <1>7 DEF ListOf
<1>9. QED
  <2> HIDE DEF g
  <2>1. QED
    BY <1>1, <1>6, <1>8

\* q is r, which has k elements, and v behind them.
IsLonger(q, r, v, k) ==
  /\ q = Append(r, v) /\ Len(q) = k + 1
  /\ \A j \in 1..k : q[j] = r[j]
  /\ q[k + 1] = v

\* A list one longer.
LEMMA Longer ==
  ASSUME NEW V, NEW r \in Seq(V), NEW v \in V, NEW k \in Nat, Len(r) = k
  PROVE  \E q \in Seq(V) : IsLonger(q, r, v, k)
<1>1. IsLonger(Append(r, v), r, v, k)
  BY DEF IsLonger
<1>2. Append(r, v) \in Seq(V)
  OBVIOUS
<1>3. QED
  BY <1>1, <1>2

\* The loop reads the items as they were spelled, ...
InFront(d, t, s, c) == d = t[Len(s)] \o c
ReadAll(f, t, s)    == f[Len(s)] = Taken(Len(t[Len(s)]), s)

\* ... whatever follows them, ...
LEMMA ListReads ==
  ASSUME NEW T, NEW E, NEW V, Codec(T, E, V), NEW s \in Seq(V), NEW h \in Bytestring,
         NEW t, Spelled(t, E, s, h), NEW c \in Bytestring, NEW d, InFront(d, t, s, c),
         NEW f, ListOf(f, T, d, Len(s), Len(h))
  PROVE  ReadAll(f, t, s)
<1>1. PICK n \in Nat : n = Len(s)
  OBVIOUS
<1>2. E \in [V -> Bytestring]
  BY DEF Codec
<1>3. /\ t \in [0..n -> Bytestring] /\ t[0] = h
      /\ \A i \in 1..n : t[i] = t[i - 1] \o E[s[i]]
  BY <1>1 DEF Spelled
<1>4. /\ f[0] = Taken(Len(h), <<>>)
      /\ \A i \in 1..n : f[i] = ListStep(f[i - 1], T[<<d, f[i - 1].offset>>])
  BY <1>1 DEF ListOf
<1> DEFINE Read(k, r) == /\ Len(r) = k /\ \A j \in 1..k : r[j] = s[j]
                         /\ f[k] = Taken(Len(t[k]), r)
           P == {k \in Nat : k <= n => \E r \in Seq(V) : Read(k, r)}
<1>5. 0 \in P
  <2>1. Read(0, <<>>) /\ <<>> \in Seq(V)
    BY <1>3, <1>4
  <2>2. QED
    BY <2>1
<1>6. ASSUME NEW k \in Nat, k \in P PROVE k + 1 \in P
  <2>1. SUFFICES ASSUME k + 1 <= n PROVE \E r \in Seq(V) : Read(k + 1, r)
    OBVIOUS
  <2>2. PICK r \in Seq(V) : Read(k, r)
    BY <1>6, <2>1
  <2>3. k + 1 \in 1..n /\ (k + 1) - 1 = k /\ k \in 0..n /\ k + 1 \in 0..n
    BY <2>1
  <2>4. PICK u \in Bytestring : u = t[k]
    BY <1>3, <2>3
  <2>5. PICK v \in V : v = s[k + 1]
    BY <1>1, <2>3
  <2>6. PICK e \in Bytestring : e = E[v]
    BY <1>2
  <2>7. t[k + 1] = u \o e
    BY <1>3, <2>3, <2>4, <2>5, <2>6
  <2>8. PICK z \in Bytestring : t[n] = (u \o e) \o z
    <3>1. PICK i \in 0..Len(s) : i = k + 1
      BY <1>1, <2>3
    <3>2. Begins(t[Len(s)], t[i])
      BY <1>2, SpelledGoesOn
    <3>3. QED
      BY <1>1, <2>7, <3>1, <3>2 DEF Begins
  <2>9. d = Between(u, e, z \o c) /\ z \o c \in Bytestring
    <3>1. PICK y \in Bytestring : y = z \o c
      BY Joining
    <3>2. PICK b \in Bytestring : b = u \o e
      BY Joining
    <3>3. Grouped(b, z, c) /\ Grouped(u, e, y)
      BY Grouping
    <3>4. QED
      BY <1>1, <2>8, <3>1, <3>2, <3>3 DEF Grouped, Between, InFront
  <2>10. T[<<d, Len(u)>>] = Taken(Len(u) + Len(e), v)
    BY <2>6, <2>9, CodecUse
  <2>11. f[k].ok /\ f[k].offset = Len(u) /\ f[k].value = r
    BY <2>2, <2>4 DEF Taken
  <2>12. f[k + 1] = Taken(Len(u) + Len(e), Append(r, v))
    <3>1. PICK item : item = T[<<d, Len(u)>>]
      OBVIOUS
    <3>2. item.ok /\ item.offset = Len(u) + Len(e) /\ item.value = v
      BY <2>10, <3>1 DEF Taken
    <3>3. f[k + 1] = ListStep(f[k], item)
      BY <1>4, <2>3, <2>11, <3>1
    <3>4. QED
      BY <2>11, <3>2, <3>3 DEF ListStep
  <2>13. Len(t[k + 1]) = Len(u) + Len(e)
    BY <2>7, Joining
  <2>14. PICK q \in Seq(V) : IsLonger(q, r, v, k)
    <3>1. Len(r) = k
      BY <2>2
    <3>2. QED
      BY <3>1, Longer
  <2>15. \A j \in 1 .. k + 1 : q[j] = s[j]
    BY <2>2, <2>5, <2>14 DEF IsLonger
  <2>16. Read(k + 1, q)
    BY <2>12, <2>13, <2>14, <2>15 DEF IsLonger
  <2>17. QED
    <3> HIDE DEF Read
    <3>1. QED
      BY <2>16
<1>7. \A k \in Nat : k \in P
  <2> HIDE DEF P
  <2>1. QED
    BY <1>5, <1>6, Induction
<1>8. PICK r \in Seq(V) : Read(n, r)
  <2>1. n \in P /\ n <= n
    BY <1>7
  <2>2. QED
    BY <2>1
<1>9. r = s
  BY <1>1, <1>8, SeqEqual
<1>10. QED
  BY <1>1, <1>8, <1>9 DEF ReadAll

\* The spelling t of s goes on with v.
SpelledOn(t, E, s, h, v) ==
  \E t2 : /\ Spelled(t2, E, Append(s, v), h)
          /\ t2[Len(s) + 1] = t[Len(s)] \o E[v]

\* A list spelled one item further.
LEMMA SpelledLonger ==
  ASSUME NEW V, NEW E \in [V -> Bytestring], NEW s \in Seq(V), NEW h, NEW t,
         Spelled(t, E, s, h), NEW v \in V
  PROVE  SpelledOn(t, E, s, h, v)
<1>1. PICK k \in Nat : k = Len(s)
  OBVIOUS
<1>2. PICK q \in Seq(V) : q = Append(s, v) /\ Len(q) = k + 1
                          /\ (\A j \in 1..k : q[j] = s[j]) /\ q[k + 1] = v
  <2>1. PICK q \in Seq(V) : IsLonger(q, s, v, k)
    BY <1>1, Longer
  <2>2. QED
    BY <2>1 DEF IsLonger
<1>3. /\ t \in [0..k -> Bytestring] /\ t[0] = h
      /\ \A i \in 1..k : t[i] = t[i - 1] \o E[s[i]]
  BY <1>1 DEF Spelled
<1>4. PICK e \in Bytestring : e = t[k] \o E[v]
  <2>1. t[k] \in Bytestring /\ E[v] \in Bytestring
    BY <1>3
  <2>2. t[k] \o E[v] \in Bytestring
    BY <2>1, Joining
  <2>3. QED
    BY <2>2
<1> DEFINE t2 == [i \in 0 .. k + 1 |-> IF i = k + 1 THEN e ELSE t[i]]
<1>5. t2 \in [0 .. k + 1 -> Bytestring] /\ t2[0] = h /\ t2[k + 1] = e
  <2>1. \A i \in 0 .. k + 1 : i # k + 1 => i \in 0..k
    OBVIOUS
  <2>2. QED
    BY <1>3, <2>1
<1>6. ASSUME NEW i \in 1 .. k + 1 PROVE t2[i] = t2[i - 1] \o E[q[i]]
  <2>1. CASE i = k + 1
    <3>1. t2[i - 1] = t[k] /\ q[i] = v /\ t2[i] = e
      BY <1>2, <2>1
    <3>2. QED
      BY <1>4, <3>1
  <2>2. CASE i # k + 1
    <3>1. i \in 1..k /\ i \in 0 .. k + 1 /\ i - 1 \in 0 .. k + 1 /\ i - 1 # k + 1
      BY <2>2
    <3>2. t2[i - 1] = t[i - 1] /\ q[i] = s[i] /\ t2[i] = t[i]
      BY <1>2, <2>2, <3>1
    <3>3. QED
      BY <1>3, <3>1, <3>2
  <2>3. QED
    BY <2>1, <2>2
<1>7. Spelled(t2, E, q, h)
  <2> HIDE DEF t2
  <2>1. QED
    BY <1>2, <1>5, <1>6 DEF Spelled
<1>8. t2[k + 1] = t[k] \o E[v]
  BY <1>4, <1>5
<1>9. QED
  <2> HIDE DEF t2
  <2>1. QED
    BY <1>1, <1>2, <1>7, <1>8 DEF SpelledOn

\* d begins with the spelling of k items, and the loop has them.
Loaded(d, f, E, V, h, k) ==
  \E t : \E s \in Seq(V), c \in Bytestring :
    /\ Len(s) = k /\ Spelled(t, E, s, h) /\ d = t[k] \o c
    /\ f[k] = Taken(Len(t[k]), s)

\* ... and what it reads was spelled there.
LEMMA ListFinds ==
  ASSUME NEW T, NEW E, NEW V, Codec(T, E, V), NEW h \in Bytestring, NEW y \in Bytestring,
         NEW d \in Bytestring, d = h \o y, NEW n \in Nat,
         NEW f \in [0..n -> Result(Seq(V))], ListOf(f, T, d, n, Len(h)), f[n].ok
  PROVE  Loaded(d, f, E, V, h, n)
<1>1. E \in [V -> Bytestring]
  BY DEF Codec
<1>2. /\ f[0] = Taken(Len(h), <<>>)
      /\ \A i \in 1..n : f[i] = ListStep(f[i - 1], T[<<d, f[i - 1].offset>>])
  BY DEF ListOf
<1> DEFINE P == {k \in Nat : k <= n /\ f[k].ok => Loaded(d, f, E, V, h, k)}
<1>3. 0 \in P
  <2>1. PICK s \in Seq(V) : s = <<>> /\ Len(s) = 0
    <3>1. <<>> \in Seq(V) /\ Len(<<>>) = 0
      OBVIOUS
    <3>2. QED
      BY <3>1
  <2>2. PICK t : Spelled(t, E, s, h)
    BY <1>1, SpelledExists
  <2>3. t[0] = h
    BY <2>2 DEF Spelled
  <2>4. Loaded(d, f, E, V, h, 0)
    BY <1>2, <2>1, <2>2, <2>3 DEF Loaded
  <2>5. QED
    BY <2>4
<1>4. ASSUME NEW k \in Nat, k \in P PROVE k + 1 \in P
  <2>1. SUFFICES ASSUME k + 1 <= n, f[k + 1].ok PROVE Loaded(d, f, E, V, h, k + 1)
    OBVIOUS
  <2>2. k + 1 \in 1..n /\ (k + 1) - 1 = k /\ k \in 0..n /\ k <= n
    BY <2>1
  <2>3. PICK r \in Result(Seq(V)) : r = f[k]
    BY <2>2
  <2>4. PICK o \in Nat : o = r.offset
    BY ResultIs
  <2>5. PICK item \in Result(V) : item = T[<<d, o>>]
    BY CodecUse
  <2>6. f[k + 1] = ListStep(r, item)
    BY <1>2, <2>2, <2>3, <2>4, <2>5
  <2>7. r.ok /\ item.ok /\ f[k + 1] = Taken(item.offset, Append(r.value, item.value))
    BY <2>1, <2>6 DEF ListStep, Failed
  <2>8. Loaded(d, f, E, V, h, k)
    BY <1>4, <2>2, <2>3, <2>7
  <2>9. PICK t : \E s \in Seq(V), c \in Bytestring :
          /\ Len(s) = k /\ Spelled(t, E, s, h) /\ d = t[k] \o c
          /\ f[k] = Taken(Len(t[k]), s)
    BY <2>8 DEF Loaded
  <2>23. PICK s \in Seq(V), c \in Bytestring :
          /\ Len(s) = k /\ Spelled(t, E, s, h) /\ d = t[k] \o c
          /\ f[k] = Taken(Len(t[k]), s)
    BY <2>9
  <2>10. PICK u \in Bytestring : u = t[k]
    BY <2>23 DEF Spelled
  <2>11. r.value = s /\ o = Len(u)
    BY <2>3, <2>4, <2>23, <2>10 DEF Taken
  <2>12. Found(T, E, V, d, o)
    BY <2>5, <2>7, TakeFinds
  <2>13. PICK a, z \in Bytestring, v \in V :
           /\ d = Between(a, E[v], z) /\ Len(a) = o
           /\ item = Taken(o + Len(E[v]), v)
    BY <2>5, <2>12 DEF Found
  <2>14. PICK e \in Bytestring : e = E[v]
    BY <1>1
  <2>15. PICK w \in Bytestring : w = e \o z
    BY Joining
  <2>16. a = u
    <3>1. u \o c = a \o w
      BY <2>23, <2>10, <2>13, <2>14, <2>15 DEF Between
    <3>2. Len(u) = Len(a)
      BY <2>11, <2>13
    <3>3. QED
      BY <3>1, <3>2, CutAlike
  <2>17. d = (u \o e) \o z
    <3>1. Grouped(u, e, z)
      BY Grouping
    <3>2. QED
      BY <2>13, <2>14, <2>16, <3>1 DEF Grouped, Between
  <2>18. PICK t2 : Spelled(t2, E, Append(s, v), h) /\ t2[Len(s) + 1] = t[Len(s)] \o E[v]
    <3>1. SpelledOn(t, E, s, h, v)
      BY <1>1, <2>23, SpelledLonger
    <3>2. QED
      BY <3>1 DEF SpelledOn
  <2>19. t2[k + 1] = u \o e
    BY <2>23, <2>10, <2>14, <2>18
  <2>20. PICK q \in Seq(V) : q = Append(s, v) /\ Len(q) = k + 1
    <3>1. PICK q \in Seq(V) : IsLonger(q, s, v, k)
      BY <2>23, Longer
    <3>2. QED
      BY <3>1 DEF IsLonger
  <2>21. f[k + 1] = Taken(Len(t2[k + 1]), q)
    <3>1. Len(u \o e) = Len(u) + Len(e)
      BY Joining
    <3>2. item.offset = o + Len(e) /\ item.value = v
      BY <2>13, <2>14 DEF Taken
    <3>3. QED
      BY <2>7, <2>11, <2>19, <2>20, <3>1, <3>2
  <2>22. QED
    BY <2>17, <2>18, <2>19, <2>20, <2>21 DEF Loaded
<1>5. \A k \in Nat : k \in P
  <2> HIDE DEF P
  <2>1. QED
    BY <1>3, <1>4, Induction
<1>6. n \in P /\ n <= n
  BY <1>5
<1>7. QED
  BY <1>6

-----------------------------------------------------------------------------
(***************************************************************************)
(* Payloads.                                                               *)
(***************************************************************************)
\* D reads what E writes at the front of a payload, and nothing else.
Whole(D, E, V) ==
  /\ E \in [V -> Bytestring]
  /\ \A v \in V, c \in Bytestring : D[E[v] \o c] = Taken(Len(E[v]), v)
  /\ \A d \in Bytestring : D[d].ok =>
       \E v \in V, c \in Bytestring : d = E[v] \o c

\* decode undoes encode, and refuses every part that stops early.
Undoes(D, e, v) ==
  /\ D[e] = Taken(Len(e), v)
  /\ \A n \in 0 .. Len(e) - 1 : ~D[SubSeq(e, 1, n)].ok

\* So it is for every decoder that reads what is written and nothing else: were
\* the first n bytes accepted, the whole would be read as something that short.
LEMMA WholeUndoes ==
  ASSUME NEW D, NEW E, NEW V, Whole(D, E, V), NEW v \in V
  PROVE  Undoes(D, E[v], v)
<1>1. PICK e \in Bytestring : e = E[v]
  BY DEF Whole
<1>2. D[e] = Taken(Len(e), v)
  <2>1. e \o <<>> = e /\ <<>> \in Bytestring
    BY Joining
  <2>2. D[e \o <<>>] = Taken(Len(e), v)
    BY <1>1, <2>1 DEF Whole
  <2>3. QED
    BY <2>1, <2>2
<1>3. Len(e) \in Nat
  BY Joining
<1>4. ASSUME NEW n \in 0 .. Len(e) - 1, D[SubSeq(e, 1, n)].ok PROVE FALSE
  <2>1. n \in Nat /\ n <= Len(e) /\ n < Len(e)
    BY <1>3
  <2>2. PICK a, y \in Bytestring : a = SubSeq(e, 1, n) /\ Len(a) = n /\ e = a \o y
    BY <2>1, Cutting
  <2>3. PICK u \in V, c \in Bytestring : a = E[u] \o c
    BY <1>4, <2>2 DEF Whole
  <2>4. PICK b \in Bytestring : b = E[u]
    BY DEF Whole
  <2>5. PICK z \in Bytestring : z = c \o y
    BY Joining
  <2>6. e = b \o z
    <3>1. Grouped(b, c, y)
      BY Grouping
    <3>2. QED
      BY <2>2, <2>3, <2>4, <2>5, <3>1 DEF Grouped
  <2>7. D[e] = Taken(Len(b), u)
    BY <2>4, <2>6 DEF Whole
  <2>8. Len(b) = Len(e)
    BY <1>2, <2>7 DEF Taken
  <2>9. n = Len(b) + Len(c) /\ Len(b) \in Nat /\ Len(c) \in Nat
    BY <2>2, <2>3, <2>4, Joining
  <2>10. QED
    BY <2>1, <2>8, <2>9
<1>5. QED
  BY <1>1, <1>2, <1>4 DEF Undoes

\* What is accepted is the encoding of the result, inside the payload.
LEMMA WholeSound ==
  ASSUME NEW D, NEW E, NEW V, Whole(D, E, V), NEW d \in Bytestring, D[d].ok
  PROVE  /\ D[d].value \in V /\ D[d].offset <= Len(d)
         /\ E[D[d].value] = SubSeq(d, 1, D[d].offset)
<1>1. PICK v \in V, c \in Bytestring : d = E[v] \o c
  BY DEF Whole
<1>2. PICK e \in Bytestring : e = E[v]
  BY DEF Whole
<1>3. D[d] = Taken(Len(e), v)
  BY <1>1, <1>2 DEF Whole
<1>4. D[d].value = v /\ D[d].offset = Len(e)
  BY <1>3 DEF Taken
<1>5. Len(d) = Len(e) + Len(c) /\ Len(e) \in Nat /\ Len(c) \in Nat
  BY <1>1, <1>2, Joining
<1>6. SubSeq(d, 1, Len(e)) = e
  <2>1. Len(e) <= Len(e)
    BY <1>5
  <2>2. SubSeq(e \o c, 1, Len(e)) = SubSeq(e, 1, Len(e))
    BY <1>5, <2>1, ArrivedStays
  <2>3. SubSeq(e, 1, Len(e)) = e
    BY SubSeqFull DEF Bytestring
  <2>4. QED
    BY <1>1, <1>2, <2>2, <2>3
<1>7. QED
  BY <1>2, <1>4, <1>5, <1>6

\* A take from the front of a payload.
FrontTake(T) == [d \in Bytestring |-> T[<<d, 0>>]]

\* A codec reads a payload of one value.
LEMMA FrontWhole ==
  ASSUME NEW T, NEW E, NEW V, Codec(T, E, V)
  PROVE  Whole(FrontTake(T), E, V)
<1>1. PICK D : D = FrontTake(T)
  OBVIOUS
<1>2. E \in [V -> Bytestring]
  BY DEF Codec
<1>3. ASSUME NEW v \in V, NEW c \in Bytestring PROVE D[E[v] \o c] = Taken(Len(E[v]), v)
  <2>1. PICK e \in Bytestring : e = E[v]
    BY <1>2
  <2>2. PICK d \in Bytestring : d = e \o c /\ d = Between(<<>>, e, c)
    BY BetweenIs, Joining
  <2>3. <<>> \in Bytestring /\ Len(<<>>) = 0
    BY Joining
  <2>4. T[<<d, Len(<<>>)>>] = Taken(Len(<<>>) + Len(e), v)
    BY <2>1, <2>2, <2>3, CodecUse
  <2>5. Len(e) \in Nat
    BY Joining
  <2>6. D[d] = Taken(Len(e), v)
    BY <1>1, <2>3, <2>4, <2>5 DEF FrontTake
  <2>7. QED
    BY <2>1, <2>2, <2>6
<1>4. ASSUME NEW d \in Bytestring, D[d].ok
      PROVE  \E v \in V, c \in Bytestring : d = E[v] \o c
  <2>1. T[<<d, 0>>].ok
    BY <1>1, <1>4 DEF FrontTake
  <2>2. PICK a, c \in Bytestring, v \in V : d = Between(a, E[v], c) /\ Len(a) = 0
    BY <2>1, CodecUse
  <2>3. a = <<>>
    BY <2>2 DEF Bytestring
  <2>4. PICK e \in Bytestring : e = E[v]
    BY <1>2
  <2>5. d = e \o c
    BY <2>2, <2>3, <2>4, BetweenIs
  <2>6. QED
    BY <2>4, <2>5
<1>5. QED
  BY <1>1, <1>2, <1>3, <1>4 DEF Whole

-----------------------------------------------------------------------------
\* Lists and their encoding.
Count(s)     == BigEndian(Len(s), U16)
IsList(e, E, s) == \E t : Spelled(t, E, s, Count(s)) /\ e = t[Len(s)]

\* D reads a list with its count in front: it takes the count, and then runs the
\* loop over as many items.
ReadsList(D, T, V) ==
  \A d \in Bytestring :
    LET count == UIntTake(U16)[<<d, 0>>]
    IN  IF count.ok
        THEN \E f \in [0..count.value -> Result(Seq(V))] :
               ListOf(f, T, d, count.value, count.offset) /\ D[d] = f[count.value]
        ELSE D[d] = Failed

\* The count of a list is U16 bytes.
LEMMA CountIs ==
  ASSUME NEW V, NEW s \in Lists(V)
  PROVE  /\ s \in Seq(V) /\ Len(s) \in UInts(U16)
         /\ Count(s) \in Bytestring /\ Len(Count(s)) = U16
         /\ Count(s) = UIntBytes(U16)[Len(s)]
<1>1. PICK n \in Nat : n = Len(s) /\ n < Power[U16] /\ s \in Seq(V)
  BY DEF Lists
<1>2. U16 \in Nat
  BY CodecsAssumption
<1>3. Power[U16] \in Nat \ {0}
  BY <1>2, PowerIs
<1>4. n \in UInts(U16)
  BY <1>1, <1>3 DEF UInts
<1>5. BigEndian(n, U16) \in Bytestring /\ Len(BigEndian(n, U16)) = U16
  BY <1>2, BytesOfNumber DEF Bytestring
<1>6. QED
  BY <1>1, <1>4, <1>5 DEF Count, UIntBytes

\* The count in front of a list is found.
LEMMA CountReads ==
  ASSUME NEW V, NEW s \in Lists(V), NEW y \in Bytestring
  PROVE  UIntTake(U16)[<<Count(s) \o y, 0>>] = Taken(U16, Len(s))
<1>1. PICK h \in Bytestring : /\ h = Count(s) /\ Len(h) = U16
                              /\ h = UIntBytes(U16)[Len(s)] /\ Len(s) \in UInts(U16)
  BY CountIs
<1>2. U16 \in Nat
  BY CodecsAssumption
<1>3. PICK T, E, V2 : T = UIntTake(U16) /\ E = UIntBytes(U16) /\ V2 = UInts(U16)
  OBVIOUS
<1>4. Whole(FrontTake(T), E, V2)
  BY <1>2, <1>3, UIntCodec, FrontWhole
<1>5. FrontTake(T)[h \o y] = Taken(Len(h), Len(s))
  BY <1>1, <1>3, <1>4 DEF Whole
<1>6. h \o y \in Bytestring
  BY Joining
<1>7. QED
  BY <1>1, <1>3, <1>5, <1>6 DEF FrontTake

\* A decoder of lists reads what is written and nothing else.
LEMMA ListWhole ==
  ASSUME NEW T, NEW E, NEW V, Codec(T, E, V), NEW D, ReadsList(D, T, V),
         NEW F \in [Lists(V) -> Bytestring], \A s \in Lists(V) : IsList(F[s], E, s)
  PROVE  Whole(D, F, Lists(V))
<1>1. U16 \in Nat
  BY CodecsAssumption
<1>2. E \in [V -> Bytestring]
  BY DEF Codec
<1>3. ASSUME NEW s \in Lists(V), NEW c \in Bytestring
      PROVE  D[F[s] \o c] = Taken(Len(F[s]), s)
  <2>1. s \in Seq(V) /\ Len(s) \in Nat
    BY CountIs
  <2>2. PICK h \in Bytestring : h = Count(s) /\ Len(h) = U16
    BY CountIs
  <2>3. PICK t : Spelled(t, E, s, h) /\ F[s] = t[Len(s)]
    BY <2>2 DEF IsList
  <2>4. PICK e \in Bytestring : e = F[s] /\ e = t[Len(s)]
    BY <2>3
  <2>5. PICK d \in Bytestring : d = e \o c
    BY Joining
  <2>6. PICK y \in Bytestring : d = h \o y
    <3>1. PICK i \in 0..Len(s) : i = 0
      BY <2>1
    <3>2. Begins(t[Len(s)], t[i])
      BY <1>2, <2>1, <2>3, SpelledGoesOn
    <3>3. t[0] = h
      BY <2>3 DEF Spelled
    <3>4. PICK z \in Bytestring : e = h \o z
      BY <2>4, <3>1, <3>2, <3>3 DEF Begins
    <3>5. Grouped(h, z, c)
      BY Grouping
    <3>6. d = h \o (z \o c) /\ z \o c \in Bytestring
      BY <2>5, <3>4, <3>5, Joining DEF Grouped
    <3>7. QED
      BY <3>6
  <2>7. UIntTake(U16)[<<d, 0>>] = Taken(U16, Len(s))
    BY <2>2, <2>6, CountReads
  <2>8. PICK f : ListOf(f, T, d, Len(s), Len(h)) /\ D[d] = f[Len(s)]
    <3>1. PICK r : r = UIntTake(U16)[<<d, 0>>]
      OBVIOUS
    <3>2. r.ok /\ r.value = Len(s) /\ r.offset = Len(h)
      BY <2>2, <2>7, <3>1 DEF Taken
    <3>3. \E f \in [0..r.value -> Result(Seq(V))] :
            ListOf(f, T, d, r.value, r.offset) /\ D[d] = f[r.value]
      BY <3>1, <3>2 DEF ReadsList
    <3>4. QED
      BY <3>2, <3>3
  <2>9. f[Len(s)] = Taken(Len(t[Len(s)]), s)
    <3>1. InFront(d, t, s, c)
      BY <2>4, <2>5 DEF InFront
    <3>2. ReadAll(f, t, s)
      BY <2>1, <2>3, <2>8, <3>1, ListReads
    <3>3. QED
      BY <3>2 DEF ReadAll
  <2>10. QED
    BY <2>4, <2>5, <2>8, <2>9
<1>4. ASSUME NEW d \in Bytestring, D[d].ok
      PROVE  \E s \in Lists(V), c \in Bytestring : d = F[s] \o c
  <2>1. PICK r \in Result(UInts(U16)) : r = UIntTake(U16)[<<d, 0>>]
    BY <1>1, UIntCodec, CodecUse
  <2>2. r.ok
    BY <1>4, <2>1 DEF ReadsList, Failed
  <2>3. Found(UIntTake(U16), UIntBytes(U16), UInts(U16), d, 0)
    BY <1>1, <2>1, <2>2, UIntCodec, TakeFinds
  <2>4. PICK a, y \in Bytestring, n \in UInts(U16) :
          /\ d = Between(a, UIntBytes(U16)[n], y) /\ Len(a) = 0
          /\ r = Taken(0 + Len(UIntBytes(U16)[n]), n)
    BY <2>1, <2>3 DEF Found
  <2>5. PICK h \in Bytestring : h = UIntBytes(U16)[n] /\ h = BigEndian(n, U16)
    <3>1. UIntBytes(U16)[n] \in Bytestring
      BY <1>1, UIntCodec, CodecUse
    <3>2. QED
      BY <3>1 DEF UIntBytes
  <2>6. d = h \o y
    <3>1. a = <<>>
      BY <2>4 DEF Bytestring
    <3>2. QED
      BY <2>4, <2>5, <3>1, BetweenIs
  <2>7. r.value = n /\ r.offset = Len(h) /\ n \in Nat /\ n < Power[U16]
    <3>1. Len(h) \in Nat
      BY Joining
    <3>2. r.value = n /\ r.offset = Len(h)
      BY <2>4, <2>5, <3>1 DEF Taken
    <3>3. Power[U16] \in Nat \ {0}
      BY <1>1, PowerIs
    <3>4. n \in Nat /\ n < Power[U16]
      BY <3>3 DEF UInts
    <3>5. QED
      BY <3>2, <3>4
  <2>8. PICK f \in [0..n -> Result(Seq(V))] : ListOf(f, T, d, n, Len(h)) /\ D[d] = f[n]
    BY <2>1, <2>2, <2>7 DEF ReadsList
  <2>9. Loaded(d, f, E, V, h, n)
    BY <1>4, <2>6, <2>7, <2>8, ListFinds
  <2>15. PICK t : \E s \in Seq(V), c \in Bytestring :
           Len(s) = n /\ Spelled(t, E, s, h) /\ d = t[n] \o c
    BY <2>9 DEF Loaded
  <2>10. PICK s \in Seq(V), c \in Bytestring :
           Len(s) = n /\ Spelled(t, E, s, h) /\ d = t[n] \o c
    BY <2>15
  <2>11. s \in Lists(V) /\ Count(s) = h
    BY <2>5, <2>7, <2>10 DEF Lists, Count
  <2>12. PICK t2 : Spelled(t2, E, s, h) /\ F[s] = t2[n]
    BY <2>10, <2>11 DEF IsList
  <2>13. t2[Len(s)] = t[Len(s)]
    <3>1. Follows(t2, E, s, h)
      BY <2>12 DEF Spelled, Follows
    <3>2. QED
      BY <2>10, <3>1, SpelledOnce
  <2>14. QED
    BY <2>10, <2>11, <2>12, <2>13
<1>5. QED
  BY <1>3, <1>4 DEF Whole

-----------------------------------------------------------------------------
\* g runs the loop, as long as the offsets are numbers.
Loops(g, T, d, n, o) ==
  /\ g[0] = Taken(o, <<>>)
  /\ \A i \in 1..n : g[i - 1].offset \in Nat =>
       g[i] = ListStep(g[i - 1], T[<<d, g[i - 1].offset>>])

\* There is one way to run it.
LEMMA LoopsOnce ==
  ASSUME NEW T, NEW V, NEW d, NEW n \in Nat, NEW o \in Nat,
         NEW f \in [0..n -> Result(Seq(V))], ListOf(f, T, d, n, o),
         NEW g, Loops(g, T, d, n, o)
  PROVE  g[n] = f[n]
<1> DEFINE P == {i \in Nat : i <= n => g[i] = f[i]}
<1>1. 0 \in P
  BY DEF ListOf, Loops
<1>2. ASSUME NEW i \in Nat, i \in P PROVE i + 1 \in P
  <2>1. SUFFICES ASSUME i + 1 <= n PROVE g[i + 1] = f[i + 1]
    OBVIOUS
  <2>2. i + 1 \in 1..n /\ (i + 1) - 1 = i /\ i <= n /\ i \in 0..n
    BY <2>1
  <2>3. g[i] = f[i] /\ f[i].offset \in Nat
    <3>1. f[i] \in Result(Seq(V))
      BY <2>2
    <3>2. f[i].offset \in Nat
      BY <3>1, ResultIs
    <3>3. QED
      BY <1>2, <2>2, <3>2
  <2>4. g[i + 1] = ListStep(g[i], T[<<d, g[i].offset>>])
    BY <2>2, <2>3 DEF Loops
  <2>5. f[i + 1] = ListStep(f[i], T[<<d, f[i].offset>>])
    BY <2>2 DEF ListOf
  <2>6. QED
    BY <2>3, <2>4, <2>5
<1>3. \A i \in Nat : i \in P
  <2> HIDE DEF P
  <2>1. QED
    BY <1>1, <1>2, Induction
<1>4. n \in P /\ n <= n
  BY <1>3
<1>5. QED
  BY <1>4

HistoryTake   == [d \in Bytestring |-> decode_history(d)]
HistoryBytes  == [s \in Lists(ShortRecords) |-> encode_history(s)]
UserListTake  == [d \in Bytestring |-> decode_user_list(d)]
UserListBytes == [s \in Lists(Shorts(U16)) |-> encode_user_list(s)]

\* decode_history runs the loop with take_record, ...
LEMMA HistoryLoops == ReadsList(HistoryTake, RecordTake, ShortRecords)
<1>1. U16 \in Nat
  BY CodecsAssumption
<1>2. PICK V : V = ShortRecords
  OBVIOUS
<1>3. SUFFICES ASSUME NEW d \in Bytestring, NEW r, r = UIntTake(U16)[<<d, 0>>]
               PROVE  IF r.ok
                      THEN \E f \in [0..r.value -> Result(Seq(V))] :
                             ListOf(f, RecordTake, d, r.value, r.offset)
                             /\ HistoryTake[d] = f[r.value]
                      ELSE HistoryTake[d] = Failed
  BY <1>2 DEF ReadsList
<1>4. r = take_uint(d, 0, U16)
  BY <1>3 DEF UIntTake
<1>5. HistoryTake[d] = decode_history(d)
  BY DEF HistoryTake
<1>6. CASE ~r.ok
  BY <1>4, <1>5, <1>6 DEF decode_history, take_list
<1>7. CASE r.ok
  <2>1. r \in Result(UInts(U16))
    BY <1>1, <1>3, UIntCodec, CodecUse
  <2>2. PICK n \in Nat : n = r.value
    <3>1. r.value \in UInts(U16)
      BY <1>7, <2>1, ResultIs
    <3>2. Power[U16] \in Nat \ {0}
      BY <1>1, PowerIs
    <3>3. r.value \in Nat
      BY <3>1, <3>2 DEF UInts
    <3>4. QED
      BY <3>3
  <2>3. PICK o \in Nat : o = r.offset
    BY <2>1, ResultIs
  <2>4. PICK f \in [0..n -> Result(Seq(V))] : ListOf(f, RecordTake, d, n, o)
    BY <1>2, RecordCodec, ListExists
  <2> DEFINE Def(g) == g = [i \in 0..n |->
                              IF i = 0 THEN Taken(o, <<>>)
                              ELSE IF g[i - 1].ok /\ take_record(d, g[i - 1].offset).ok
                                   THEN Taken(take_record(d, g[i - 1].offset).offset,
                                              Append(g[i - 1].value,
                                                     take_record(d, g[i - 1].offset).value))
                                   ELSE Failed]
  <2>5. \A k \in Nat : RecordTake[<<d, k>>] = take_record(d, k)
    BY DEF RecordTake
  <2>6. Def(f)
    <3>1. ASSUME NEW i \in 0..n
          PROVE  f[i] = IF i = 0 THEN Taken(o, <<>>)
                        ELSE IF f[i - 1].ok /\ take_record(d, f[i - 1].offset).ok
                             THEN Taken(take_record(d, f[i - 1].offset).offset,
                                        Append(f[i - 1].value,
                                               take_record(d, f[i - 1].offset).value))
                             ELSE Failed
      <4>1. CASE i = 0
        BY <2>4, <4>1 DEF ListOf
      <4>2. CASE i # 0
        <5>1. i \in 1..n /\ i - 1 \in 0..n
          BY <4>2
        <5>2. f[i - 1] \in Result(Seq(V))
          BY <5>1
        <5>3. f[i - 1].offset \in Nat
          BY <5>2, ResultIs
        <5>4. f[i] = ListStep(f[i - 1], take_record(d, f[i - 1].offset))
          BY <2>4, <2>5, <5>1, <5>3 DEF ListOf
        <5>5. QED
          BY <4>2, <5>4 DEF ListStep
      <4>3. QED
        BY <4>1, <4>2
    <3>2. QED
      BY <3>1
  <2>7. PICK g : g = CHOOSE u : Def(u)
    OBVIOUS
  <2>8. Def(g)
    <3> HIDE DEF Def
    <3>1. QED
      BY <2>6, <2>7
  <2>9. decode_history(d) = g[n]
    BY <1>4, <1>7, <2>2, <2>3, <2>7 DEF decode_history, take_list
  <2>10. Loops(g, RecordTake, d, n, o)
    <3>1. \A i \in 0..n :
            g[i] = IF i = 0 THEN Taken(o, <<>>)
                   ELSE IF g[i - 1].ok /\ take_record(d, g[i - 1].offset).ok
                        THEN Taken(take_record(d, g[i - 1].offset).offset,
                                   Append(g[i - 1].value,
                                          take_record(d, g[i - 1].offset).value))
                        ELSE Failed
      BY <2>8
    <3>2. g[0] = Taken(o, <<>>)
      BY <3>1
    <3>3. ASSUME NEW i \in 1..n, g[i - 1].offset \in Nat
          PROVE  g[i] = ListStep(g[i - 1], RecordTake[<<d, g[i - 1].offset>>])
      <4>1. RecordTake[<<d, g[i - 1].offset>>] = take_record(d, g[i - 1].offset)
        BY <2>5, <3>3
      <4>2. i \in 0..n /\ i # 0
        OBVIOUS
      <4>3. QED
        BY <3>1, <4>1, <4>2 DEF ListStep
    <3>4. QED
      BY <3>2, <3>3 DEF Loops
  <2>11. g[n] = f[n]
    BY <2>4, <2>10, LoopsOnce
  <2>12. QED
    BY <1>5, <1>7, <2>2, <2>3, <2>4, <2>9, <2>11
<1>8. QED
  BY <1>6, <1>7

\* ... and encode_history spells the records.
LEMMA HistorySpelled ==
  /\ HistoryBytes \in [Lists(ShortRecords) -> Bytestring]
  /\ \A s \in Lists(ShortRecords) : IsList(HistoryBytes[s], RecordBytes, s)
<1>1. PICK V, E : V = ShortRecords /\ E = RecordBytes
  OBVIOUS
<1>2. E \in [V -> Bytestring] /\ \A m \in V : E[m] = encode_chat_message(m)
  BY <1>1, RecordCodec DEF Codec, RecordBytes
<1>3. ASSUME NEW s \in Lists(V)
      PROVE  IsList(HistoryBytes[s], E, s) /\ HistoryBytes[s] \in Bytestring
  <2>1. PICK n \in Nat : n = Len(s) /\ s \in Seq(V)
    BY CountIs
  <2>2. PICK h \in Bytestring : h = Count(s) /\ h = BigEndian(n, U16)
    BY <2>1, CountIs DEF Count
  <2>3. PICK t : Spelled(t, E, s, h)
    BY <1>2, <2>1, SpelledExists
  <2> DEFINE Def(b) == b = [i \in 0..n |-> IF i = 0 THEN BigEndian(n, U16)
                                           ELSE b[i - 1] \o encode_chat_message(s[i])]
  <2>4. \A i \in 1..n : s[i] \in V /\ E[s[i]] = encode_chat_message(s[i])
    BY <1>2, <2>1
  <2>5. Def(t)
    <3>1. t \in [0..n -> Bytestring] /\ t[0] = BigEndian(n, U16)
      BY <2>1, <2>2, <2>3 DEF Spelled
    <3>2. \A i \in 1..n : t[i] = t[i - 1] \o encode_chat_message(s[i])
      BY <2>1, <2>3, <2>4 DEF Spelled
    <3>3. ASSUME NEW i \in 0..n
          PROVE  t[i] = IF i = 0 THEN BigEndian(n, U16)
                        ELSE t[i - 1] \o encode_chat_message(s[i])
      <4>1. CASE i = 0
        BY <3>1, <4>1
      <4>2. CASE i # 0
        <5>1. i \in 1..n
          BY <4>2
        <5>2. QED
          BY <3>2, <4>2, <5>1
      <4>3. QED
        BY <4>1, <4>2
    <3>4. QED
      BY <3>1, <3>3
  <2>6. PICK b : b = CHOOSE u : Def(u)
    OBVIOUS
  <2>7. Def(b)
    <3> HIDE DEF Def
    <3>1. QED
      BY <2>5, <2>6
  <2>8. encode_history(s) = b[n]
    BY <2>1, <2>6 DEF encode_history, append_list
  <2>9. Follows(b, E, s, h)
    <3>1. \A i \in 0..n : b[i] = IF i = 0 THEN BigEndian(n, U16)
                                 ELSE b[i - 1] \o encode_chat_message(s[i])
      BY <2>7
    <3>2. b[0] = h
      BY <2>2, <3>1
    <3>3. ASSUME NEW i \in 1..n PROVE b[i] = b[i - 1] \o E[s[i]]
      <4>1. i \in 0..n /\ i # 0
        OBVIOUS
      <4>2. QED
        BY <2>4, <3>1, <4>1
    <3>4. QED
      BY <2>1, <3>2, <3>3 DEF Follows
  <2>10. b[Len(s)] = t[Len(s)]
    BY <2>1, <2>3, <2>9, SpelledOnce
  <2>11. HistoryBytes[s] = encode_history(s)
    BY <1>1 DEF HistoryBytes
  <2>12. t[n] \in Bytestring
    BY <2>1, <2>3 DEF Spelled
  <2>13. QED
    BY <2>1, <2>2, <2>3, <2>8, <2>10, <2>11, <2>12 DEF IsList
<1>4. HistoryBytes \in [Lists(V) -> Bytestring]
  BY <1>1, <1>3 DEF HistoryBytes
<1>5. QED
  BY <1>1, <1>3, <1>4

\* decode_user_list runs it with take_name, ...
LEMMA UserListLoops == ReadsList(UserListTake, StringTake(U16), Shorts(U16))
<1>1. U16 \in Nat
  BY CodecsAssumption
<1>2. PICK V : V = Shorts(U16)
  OBVIOUS
<1>3. SUFFICES ASSUME NEW d \in Bytestring, NEW r, r = UIntTake(U16)[<<d, 0>>]
               PROVE  IF r.ok
                      THEN \E f \in [0..r.value -> Result(Seq(V))] :
                             ListOf(f, StringTake(U16), d, r.value, r.offset)
                             /\ UserListTake[d] = f[r.value]
                      ELSE UserListTake[d] = Failed
  BY <1>2 DEF ReadsList
<1>4. r = take_uint(d, 0, U16)
  BY <1>3 DEF UIntTake
<1>5. UserListTake[d] = decode_user_list(d)
  BY DEF UserListTake
<1>6. CASE ~r.ok
  BY <1>4, <1>5, <1>6 DEF decode_user_list, take_list
<1>7. CASE r.ok
  <2>1. r \in Result(UInts(U16))
    BY <1>1, <1>3, UIntCodec, CodecUse
  <2>2. PICK n \in Nat : n = r.value
    <3>1. r.value \in UInts(U16)
      BY <1>7, <2>1, ResultIs
    <3>2. Power[U16] \in Nat \ {0}
      BY <1>1, PowerIs
    <3>3. r.value \in Nat
      BY <3>1, <3>2 DEF UInts
    <3>4. QED
      BY <3>3
  <2>3. PICK o \in Nat : o = r.offset
    BY <2>1, ResultIs
  <2>4. PICK f \in [0..n -> Result(Seq(V))] : ListOf(f, StringTake(U16), d, n, o)
    BY <1>1, <1>2, StringCodec, ListExists
  <2> DEFINE Def(g) == g = [i \in 0..n |->
                              IF i = 0 THEN Taken(o, <<>>)
                              ELSE IF g[i - 1].ok /\ take_name(d, g[i - 1].offset).ok
                                   THEN Taken(take_name(d, g[i - 1].offset).offset,
                                              Append(g[i - 1].value,
                                                     take_name(d, g[i - 1].offset).value))
                                   ELSE Failed]
  <2>5. \A k \in Nat : StringTake(U16)[<<d, k>>] = take_name(d, k)
    BY DEF StringTake, take_name
  <2>6. Def(f)
    <3>1. ASSUME NEW i \in 0..n
          PROVE  f[i] = IF i = 0 THEN Taken(o, <<>>)
                        ELSE IF f[i - 1].ok /\ take_name(d, f[i - 1].offset).ok
                             THEN Taken(take_name(d, f[i - 1].offset).offset,
                                        Append(f[i - 1].value,
                                               take_name(d, f[i - 1].offset).value))
                             ELSE Failed
      <4>1. CASE i = 0
        BY <2>4, <4>1 DEF ListOf
      <4>2. CASE i # 0
        <5>1. i \in 1..n /\ i - 1 \in 0..n
          BY <4>2
        <5>2. f[i - 1] \in Result(Seq(V))
          BY <5>1
        <5>3. f[i - 1].offset \in Nat
          BY <5>2, ResultIs
        <5>4. f[i] = ListStep(f[i - 1], take_name(d, f[i - 1].offset))
          BY <2>4, <2>5, <5>1, <5>3 DEF ListOf
        <5>5. QED
          BY <4>2, <5>4 DEF ListStep
      <4>3. QED
        BY <4>1, <4>2
    <3>2. QED
      BY <3>1
  <2>7. PICK g : g = CHOOSE u : Def(u)
    OBVIOUS
  <2>8. Def(g)
    <3> HIDE DEF Def
    <3>1. QED
      BY <2>6, <2>7
  <2>9. decode_user_list(d) = g[n]
    BY <1>4, <1>7, <2>2, <2>3, <2>7 DEF decode_user_list, take_list
  <2>10. Loops(g, StringTake(U16), d, n, o)
    <3>1. \A i \in 0..n :
            g[i] = IF i = 0 THEN Taken(o, <<>>)
                   ELSE IF g[i - 1].ok /\ take_name(d, g[i - 1].offset).ok
                        THEN Taken(take_name(d, g[i - 1].offset).offset,
                                   Append(g[i - 1].value,
                                          take_name(d, g[i - 1].offset).value))
                        ELSE Failed
      BY <2>8
    <3>2. g[0] = Taken(o, <<>>)
      BY <3>1
    <3>3. ASSUME NEW i \in 1..n, g[i - 1].offset \in Nat
          PROVE  g[i] = ListStep(g[i - 1], StringTake(U16)[<<d, g[i - 1].offset>>])
      <4>1. StringTake(U16)[<<d, g[i - 1].offset>>] = take_name(d, g[i - 1].offset)
        BY <2>5, <3>3
      <4>2. i \in 0..n /\ i # 0
        OBVIOUS
      <4>3. QED
        BY <3>1, <4>1, <4>2 DEF ListStep
    <3>4. QED
      BY <3>2, <3>3 DEF Loops
  <2>11. g[n] = f[n]
    BY <2>4, <2>10, LoopsOnce
  <2>12. QED
    BY <1>5, <1>7, <2>2, <2>3, <2>4, <2>9, <2>11
<1>8. QED
  BY <1>6, <1>7

\* ... and encode_user_list spells the names.
LEMMA UserListSpelled ==
  /\ UserListBytes \in [Lists(Shorts(U16)) -> Bytestring]
  /\ \A s \in Lists(Shorts(U16)) : IsList(UserListBytes[s], StringBytes(U16), s)
<1>1. PICK V, E : V = Shorts(U16) /\ E = StringBytes(U16)
  OBVIOUS
<1>2. E \in [V -> Bytestring] /\ \A m \in V : E[m] = append_name(m)
  BY <1>1, StringCodec, CodecsAssumption DEF Codec, StringBytes, append_name
<1>3. ASSUME NEW s \in Lists(V)
      PROVE  IsList(UserListBytes[s], E, s) /\ UserListBytes[s] \in Bytestring
  <2>1. PICK n \in Nat : n = Len(s) /\ s \in Seq(V)
    BY CountIs
  <2>2. PICK h \in Bytestring : h = Count(s) /\ h = BigEndian(n, U16)
    BY <2>1, CountIs DEF Count
  <2>3. PICK t : Spelled(t, E, s, h)
    BY <1>2, <2>1, SpelledExists
  <2> DEFINE Def(b) == b = [i \in 0..n |-> IF i = 0 THEN BigEndian(n, U16)
                                           ELSE b[i - 1] \o append_name(s[i])]
  <2>4. \A i \in 1..n : s[i] \in V /\ E[s[i]] = append_name(s[i])
    BY <1>2, <2>1
  <2>5. Def(t)
    <3>1. t \in [0..n -> Bytestring] /\ t[0] = BigEndian(n, U16)
      BY <2>1, <2>2, <2>3 DEF Spelled
    <3>2. \A i \in 1..n : t[i] = t[i - 1] \o append_name(s[i])
      BY <2>1, <2>3, <2>4 DEF Spelled
    <3>3. ASSUME NEW i \in 0..n
          PROVE  t[i] = IF i = 0 THEN BigEndian(n, U16)
                        ELSE t[i - 1] \o append_name(s[i])
      <4>1. CASE i = 0
        BY <3>1, <4>1
      <4>2. CASE i # 0
        <5>1. i \in 1..n
          BY <4>2
        <5>2. QED
          BY <3>2, <4>2, <5>1
      <4>3. QED
        BY <4>1, <4>2
    <3>4. QED
      BY <3>1, <3>3
  <2>6. PICK b : b = CHOOSE u : Def(u)
    OBVIOUS
  <2>7. Def(b)
    <3> HIDE DEF Def
    <3>1. QED
      BY <2>5, <2>6
  <2>8. encode_user_list(s) = b[n]
    BY <2>1, <2>6 DEF encode_user_list, append_list
  <2>9. Follows(b, E, s, h)
    <3>1. \A i \in 0..n : b[i] = IF i = 0 THEN BigEndian(n, U16)
                                 ELSE b[i - 1] \o append_name(s[i])
      BY <2>7
    <3>2. b[0] = h
      BY <2>2, <3>1
    <3>3. ASSUME NEW i \in 1..n PROVE b[i] = b[i - 1] \o E[s[i]]
      <4>1. i \in 0..n /\ i # 0
        OBVIOUS
      <4>2. QED
        BY <2>4, <3>1, <4>1
    <3>4. QED
      BY <2>1, <3>2, <3>3 DEF Follows
  <2>10. b[Len(s)] = t[Len(s)]
    BY <2>1, <2>3, <2>9, SpelledOnce
  <2>11. UserListBytes[s] = encode_user_list(s)
    BY <1>1 DEF UserListBytes
  <2>12. t[n] \in Bytestring
    BY <2>1, <2>3 DEF Spelled
  <2>13. QED
    BY <2>1, <2>2, <2>3, <2>8, <2>10, <2>11, <2>12 DEF IsList
<1>4. UserListBytes \in [Lists(V) -> Bytestring]
  BY <1>1, <1>3 DEF UserListBytes
<1>5. QED
  BY <1>1, <1>3, <1>4

\* The four decoders read what the encoders write, and nothing else.
LEMMA Decoders ==
  /\ Whole(FrontTake(RecordTake), RecordBytes, ShortRecords)
  /\ Whole(HistoryTake, HistoryBytes, Lists(ShortRecords))
  /\ Whole(UserListTake, UserListBytes, Lists(Shorts(U16)))
<1>1. Whole(FrontTake(RecordTake), RecordBytes, ShortRecords)
  BY RecordCodec, FrontWhole
<1>2. Whole(HistoryTake, HistoryBytes, Lists(ShortRecords))
  BY RecordCodec, HistoryLoops, HistorySpelled, ListWhole
<1>3. U16 \in Nat
  BY CodecsAssumption
<1>4. Whole(UserListTake, UserListBytes, Lists(Shorts(U16)))
  BY <1>3, StringCodec, UserListLoops, UserListSpelled, ListWhole
<1>5. QED
  BY <1>1, <1>2, <1>4
-----------------------------------------------------------------------------
(***************************************************************************)
(* The input picked.                                                       *)
(***************************************************************************)
\* An input is of the set that its kind names.
InputInv ==
  /\ Given("record")      => input.value \in Records
  /\ Given("history")     => input.value \in Histories
  /\ Given("user list")   => input.value \in NameLists
  /\ Given("bytes")       => input.value \in ByteStrings
  /\ Given("users")       => input.value \in Names \X Names
  /\ Given("text")        => input.value \in Names \X Texts
  /\ Given("line")        => input.value \in Commands \X Lines
  /\ Given("credentials") => input.value \in Fields \X Fields
  /\ Given("password")    => input.value \in Salts \X Passwords

\* What a step picks.
LEMMA PickedIs ==
  ASSUME NEW k, NEW S, Pick(k, S)
  PROVE  input'.kind = k /\ input'.value \in S
  BY DEF Pick

\* It stays so.
LEMMA InputPicked == Spec => []InputInv
<1>1. Init => InputInv
  BY DEF Init, InputInv, Given, None
<1>2. InputInv /\ [Next]_input => InputInv'
  <2> SUFFICES ASSUME InputInv, [Next]_input PROVE InputInv'
    OBVIOUS
  <2>1. CASE PickRecord
    <3>1. input'.kind = "record" /\ input'.value \in Records
      BY <2>1, PickedIs DEF PickRecord
    <3>2. QED
      BY <3>1 DEF InputInv, Given
  <2>2. CASE PickHistory
    <3>1. input'.kind = "history" /\ input'.value \in Histories
      BY <2>2, PickedIs DEF PickHistory
    <3>2. QED
      BY <3>1 DEF InputInv, Given
  <2>3. CASE PickNames
    <3>1. input'.kind = "user list" /\ input'.value \in NameLists
      BY <2>3, PickedIs DEF PickNames
    <3>2. QED
      BY <3>1 DEF InputInv, Given
  <2>4. CASE PickBytes
    <3>1. input'.kind = "bytes" /\ input'.value \in ByteStrings
      BY <2>4, PickedIs DEF PickBytes
    <3>2. QED
      BY <3>1 DEF InputInv, Given
  <2>5. CASE PickUsers
    <3>1. input'.kind = "users" /\ input'.value \in Names \X Names
      BY <2>5, PickedIs DEF PickUsers
    <3>2. QED
      BY <3>1 DEF InputInv, Given
  <2>6. CASE PickText
    <3>1. input'.kind = "text" /\ input'.value \in Names \X Texts
      BY <2>6, PickedIs DEF PickText
    <3>2. QED
      BY <3>1 DEF InputInv, Given
  <2>7. CASE PickLine
    <3>1. input'.kind = "line" /\ input'.value \in Commands \X Lines
      BY <2>7, PickedIs DEF PickLine
    <3>2. QED
      BY <3>1 DEF InputInv, Given
  <2>8. CASE PickCredentials
    <3>1. input'.kind = "credentials" /\ input'.value \in Fields \X Fields
      BY <2>8, PickedIs DEF PickCredentials
    <3>2. QED
      BY <3>1 DEF InputInv, Given
  <2>9. CASE PickPassword
    <3>1. input'.kind = "password" /\ input'.value \in Salts \X Passwords
      BY <2>9, PickedIs DEF PickPassword
    <3>2. QED
      BY <3>1 DEF InputInv, Given
  <2>10. CASE Done \/ UNCHANGED input
    BY <2>10 DEF Done, InputInv, Given
  <2>11. QED
    BY <2>1, <2>2, <2>3, <2>4, <2>5, <2>6, <2>7, <2>8, <2>9, <2>10 DEF Next
<1>3. QED
  BY <1>1, <1>2, PTL DEF Spec

-----------------------------------------------------------------------------
\* A decoded message encodes to what it was decoded from.
LEMMA MessageRoundTrip ==
  ASSUME NEW s \in Seq(Byte), s # <<>>
  PROVE  encode_message(decode_message(s).value.type, decode_message(s).value.payload) = s
<1>1. PICK S : S = Byte
  OBVIOUS
<1>2. PICK b \in S, r \in Seq(S) : b = Head(s) /\ r = Tail(s) /\ s = <<b>> \o r
  <2>1. s \in Seq(S)
    BY <1>1
  <2>2. /\ Head(s) \in S /\ Tail(s) \in Seq(S) /\ Len(Tail(s)) = Len(s) - 1
        /\ \A i \in 1 .. Len(s) - 1 : Tail(s)[i] = s[i + 1]
        /\ Head(s) = s[1] /\ Len(s) \in Nat /\ Len(s) >= 1
    BY <2>1
  <2>3. PICK u \in Seq(S) : u = <<Head(s)>> /\ Len(u) = 1 /\ u[1] = Head(s)
    <3>1. <<Head(s)>> \in Seq(S) /\ Len(<<Head(s)>>) = 1 /\ <<Head(s)>>[1] = Head(s)
      BY <2>2
    <3>2. QED
      BY <3>1
  <2>4. PICK r \in Seq(S) : r = Tail(s)
    BY <2>2
  <2>5. /\ u \o r \in Seq(S) /\ Len(u \o r) = Len(u) + Len(r)
        /\ \A i \in 1 .. Len(u) + Len(r) :
             (u \o r)[i] = IF i <= Len(u) THEN u[i] ELSE r[i - Len(u)]
    BY ConcatProperties
  <2>6. Len(u \o r) = Len(s)
    BY <2>2, <2>3, <2>4, <2>5
  <2>7. ASSUME NEW i \in 1..Len(s) PROVE (u \o r)[i] = s[i]
    <3>1. (u \o r)[i] = IF i <= 1 THEN u[i] ELSE r[i - 1]
      BY <2>2, <2>3, <2>4, <2>5
    <3>2. CASE i = 1
      BY <2>2, <2>3, <3>1, <3>2
    <3>3. CASE i # 1
      <4>1. i - 1 \in 1 .. Len(s) - 1 /\ (i - 1) + 1 = i /\ ~(i <= 1)
        BY <2>2, <3>3
      <4>2. r[i - 1] = s[i]
        BY <2>2, <2>4, <4>1
      <4>3. QED
        BY <3>1, <4>1, <4>2
    <3>4. QED
      BY <3>2, <3>3
  <2>8. u \o r = s
    BY <2>1, <2>5, <2>6, <2>7, SeqEqual
  <2>9. QED
    BY <2>2, <2>3, <2>4, <2>8
<1>3. decode_message(s).value.type = b /\ decode_message(s).value.payload = r
  BY <1>2 DEF decode_message, Taken
<1>4. QED
  BY <1>2, <1>3 DEF encode_message

\* protocol.cpp: every record, list and frame whose lengths fit comes back as it
\* was, negative times included, and every truncated one is refused, for bytes
\* and integers of any size.
THEOREM RoundTrips == Spec => []RecordsRoundTrip
<1>1. InputInv => RecordsRoundTrip
  <2> SUFFICES ASSUME InputInv PROVE RecordsRoundTrip
    OBVIOUS
  <2>1. ASSUME Given("record")
        PROVE  /\ RoundTrip(encode_chat_message, decode_chat_message, x)
               /\ RoundTrip(encode_direct_message, decode_direct_message, x)
    <3>1. PICK m \in ShortRecords : m = x
      BY <2>1, BytesInput DEF InputInv, x
    <3>2. Undoes(FrontTake(RecordTake), RecordBytes[m], m)
      BY Decoders, WholeUndoes
    <3>3. PICK e \in Bytestring : e = RecordBytes[m] /\ e = encode_chat_message(m)
      BY Decoders DEF Whole, RecordBytes
    <3>4. \A d \in Bytestring : FrontTake(RecordTake)[d] = take_record(d, 0)
      BY DEF FrontTake, RecordTake
    <3>5. \A n \in 0 .. Len(e) - 1 : SubSeq(e, 1, n) \in Bytestring
      <4>1. Len(e) \in Nat
        BY Joining
      <4>2. \A n \in 0 .. Len(e) - 1 : n \in Nat /\ n <= Len(e)
        BY <4>1
      <4>3. QED
        BY <4>2, Cutting
    <3>6. /\ take_record(e, 0) = Taken(Len(e), m)
          /\ \A n \in 0 .. Len(e) - 1 : ~take_record(SubSeq(e, 1, n), 0).ok
      BY <3>2, <3>3, <3>4, <3>5 DEF Undoes
    <3>7. QED
      BY <3>1, <3>3, <3>6 DEF RoundTrip, decode_chat_message, encode_direct_message,
                              decode_direct_message
  <2>2. ASSUME Given("history")
        PROVE  RoundTrip(encode_history, decode_history, x)
    <3>1. PICK s \in Lists(ShortRecords) : s = x
      BY <2>2, BytesInput DEF InputInv, x
    <3>2. Undoes(HistoryTake, HistoryBytes[s], s)
      BY Decoders, WholeUndoes
    <3>3. PICK e \in Bytestring : e = HistoryBytes[s] /\ e = encode_history(s)
      BY Decoders DEF Whole, HistoryBytes
    <3>4. \A d \in Bytestring : HistoryTake[d] = decode_history(d)
      BY DEF HistoryTake
    <3>5. \A n \in 0 .. Len(e) - 1 : SubSeq(e, 1, n) \in Bytestring
      <4>1. Len(e) \in Nat
        BY Joining
      <4>2. \A n \in 0 .. Len(e) - 1 : n \in Nat /\ n <= Len(e)
        BY <4>1
      <4>3. QED
        BY <4>2, Cutting
    <3>6. /\ decode_history(e) = Taken(Len(e), s)
          /\ \A n \in 0 .. Len(e) - 1 : ~decode_history(SubSeq(e, 1, n)).ok
      BY <3>2, <3>3, <3>4, <3>5 DEF Undoes
    <3>7. QED
      BY <3>1, <3>3, <3>6 DEF RoundTrip
  <2>3. ASSUME Given("user list")
        PROVE  RoundTrip(encode_user_list, decode_user_list, x)
    <3>1. PICK s \in Lists(Shorts(U16)) : s = x
      BY <2>3, BytesInput DEF InputInv, x
    <3>2. Undoes(UserListTake, UserListBytes[s], s)
      BY Decoders, WholeUndoes
    <3>3. PICK e \in Bytestring : e = UserListBytes[s] /\ e = encode_user_list(s)
      BY Decoders DEF Whole, UserListBytes
    <3>4. \A d \in Bytestring : UserListTake[d] = decode_user_list(d)
      BY DEF UserListTake
    <3>5. \A n \in 0 .. Len(e) - 1 : SubSeq(e, 1, n) \in Bytestring
      <4>1. Len(e) \in Nat
        BY Joining
      <4>2. \A n \in 0 .. Len(e) - 1 : n \in Nat /\ n <= Len(e)
        BY <4>1
      <4>3. QED
        BY <4>2, Cutting
    <3>6. /\ decode_user_list(e) = Taken(Len(e), s)
          /\ \A n \in 0 .. Len(e) - 1 : ~decode_user_list(SubSeq(e, 1, n)).ok
      BY <3>2, <3>3, <3>4, <3>5 DEF Undoes
    <3>7. QED
      BY <3>1, <3>3, <3>6 DEF RoundTrip
  <2>4. ASSUME Given("bytes"), x # <<>>
        PROVE  encode_message(decode_message(x).value.type,
                              decode_message(x).value.payload) = x
    <3>1. PICK s \in Seq(Byte) : s = x
      BY <2>4, BytesInput DEF InputInv, x, Paddable
    <3>2. QED
      BY <2>4, <3>1, MessageRoundTrip
  <2>5. QED
    BY <2>1, <2>2, <2>3, <2>4 DEF RecordsRoundTrip
<1>2. QED
  BY <1>1, InputPicked, PTL

\* protocol.cpp: whatever bytes arrive, a decoder that accepts them has read a
\* true encoding of its result from inside them.
THEOREM DecodersSound == Spec => []DecodingIsSound
<1>1. InputInv => DecodingIsSound
  <2> SUFFICES ASSUME InputInv, Given("bytes")
               PROVE  LET reads(d, bytes) == d.ok => /\ d.offset <= Len(x)
                                                     /\ bytes = SubSeq(x, 1, d.offset)
                      IN  /\ LET d == decode_chat_message(x)
                             IN  reads(d, IF d.ok THEN encode_chat_message(d.value) ELSE <<>>)
                          /\ LET d == decode_history(x)
                             IN  reads(d, IF d.ok THEN encode_history(d.value) ELSE <<>>)
                          /\ LET d == decode_user_list(x)
                             IN  reads(d, IF d.ok THEN encode_user_list(d.value) ELSE <<>>)
    BY DEF DecodingIsSound
  <2>1. PICK s \in Bytestring : s = x
    BY BytesInput DEF InputInv, x, Paddable, Bytestring
  <2>2. ASSUME NEW d, d = decode_chat_message(s), d.ok
        PROVE  d.offset <= Len(s) /\ encode_chat_message(d.value) = SubSeq(s, 1, d.offset)
    <3>1. d = FrontTake(RecordTake)[s]
      BY <2>2 DEF FrontTake, RecordTake, decode_chat_message
    <3>2. /\ d.value \in ShortRecords /\ d.offset <= Len(s)
          /\ RecordBytes[d.value] = SubSeq(s, 1, d.offset)
      BY <2>2, <3>1, Decoders, WholeSound
    <3>3. QED
      BY <3>2 DEF RecordBytes
  <2>3. ASSUME NEW d, d = decode_history(s), d.ok
        PROVE  d.offset <= Len(s) /\ encode_history(d.value) = SubSeq(s, 1, d.offset)
    <3>1. d = HistoryTake[s]
      BY <2>3 DEF HistoryTake
    <3>2. /\ d.value \in Lists(ShortRecords) /\ d.offset <= Len(s)
          /\ HistoryBytes[d.value] = SubSeq(s, 1, d.offset)
      BY <2>3, <3>1, Decoders, WholeSound
    <3>3. QED
      BY <3>2 DEF HistoryBytes
  <2>4. ASSUME NEW d, d = decode_user_list(s), d.ok
        PROVE  d.offset <= Len(s) /\ encode_user_list(d.value) = SubSeq(s, 1, d.offset)
    <3>1. d = UserListTake[s]
      BY <2>4 DEF UserListTake
    <3>2. /\ d.value \in Lists(Shorts(U16)) /\ d.offset <= Len(s)
          /\ UserListBytes[d.value] = SubSeq(s, 1, d.offset)
      BY <2>4, <3>1, Decoders, WholeSound
    <3>3. QED
      BY <3>2 DEF UserListBytes
  <2>5. QED
    BY <2>1, <2>2, <2>3, <2>4
<1>2. QED
  BY <1>1, InputPicked, PTL

-----------------------------------------------------------------------------
(***************************************************************************)
(* The padding of sha256_hex.                                              *)
(***************************************************************************)
\* k zeros bring n bytes and one more up to LengthSize bytes before a block's end.
Fills(n, k) == (n + 1 + k) % BlockSize = BlockSize - LengthSize

\* Some number of zeros below BlockSize does.
LEMMA SomeZerosFill ==
  ASSUME NEW n \in Nat
  PROVE  \E k \in 0 .. BlockSize - 1 : Fills(n, k)
<1>1. PICK b, l \in Nat \ {0} : b = BlockSize /\ l = LengthSize /\ b > l
  BY DigestAssumption
<1>2. PICK m \in Nat : m = n + 1 + l
  OBVIOUS
<1>3. PICK v \in Nat, r \in 0 .. b - 1 : m = b * v + r
  BY Division
<1>4. b - l \in 0 .. b - 1
  BY <1>1
<1>5. CASE r = 0
  <2>1. v # 0
    BY <1>2, <1>3, <1>5
  <2>2. PICK w \in Nat : v = w + 1
    <3>1. v - 1 \in Nat /\ v = (v - 1) + 1
      BY <2>1
    <3>2. QED
      BY <3>1
  <2>3. b * v = w * b + b /\ w * b \in Nat
    BY <2>2
  <2>4. n + 1 + 0 = w * b + (b - l)
    BY <1>2, <1>3, <1>5, <2>3
  <2>5. (n + 1 + 0) % b = b - l
    BY <1>4, <2>4, LastDigit
  <2>6. 0 \in 0 .. b - 1
    OBVIOUS
  <2>7. QED
    BY <1>1, <2>5, <2>6 DEF Fills
<1>6. CASE r # 0
  <2>1. b - r \in 0 .. b - 1
    BY <1>6
  <2>2. b * v = v * b /\ v * b \in Nat
    OBVIOUS
  <2>3. n + 1 + (b - r) = v * b + (b - l)
    BY <1>2, <1>3, <2>2
  <2>4. (n + 1 + (b - r)) % b = b - l
    BY <1>4, <2>3, LastDigit
  <2>5. QED
    BY <1>1, <2>1, <2>4 DEF Fills
<1>7. QED
  BY <1>5, <1>6

\* zeros() is such a number.
LEMMA ZerosAre ==
  ASSUME NEW n \in Nat
  PROVE  /\ zeros(n) \in 0 .. BlockSize - 1
         /\ \E v \in Nat : n + 1 + zeros(n) + LengthSize = v * BlockSize /\ v # 0
<1>1. PICK b, l \in Nat \ {0} : b = BlockSize /\ l = LengthSize /\ b > l
  BY DigestAssumption
<1>2. zeros(n) = CHOOSE k \in 0 .. BlockSize - 1 : Fills(n, k)
  BY DEF zeros, Fills
<1>3. PICK k : k = zeros(n)
  OBVIOUS
<1>4. k \in 0 .. BlockSize - 1 /\ Fills(n, k)
  BY <1>2, <1>3, SomeZerosFill
<1>5. PICK m \in Nat : m = n + 1 + k
  BY <1>1, <1>4
<1>6. m % b = b - l
  BY <1>1, <1>4, <1>5 DEF Fills
<1>7. PICK v \in Nat : m = b * v + (b - l)
  <2>1. m \div b \in Nat /\ m = b * (m \div b) + (m % b)
    BY Division
  <2>2. QED
    BY <1>6, <2>1
<1>8. PICK w \in Nat \ {0} : w = v + 1
  OBVIOUS
<1>9. w * b = b * v + b
  BY <1>8
<1>10. b * v \in Nat
  OBVIOUS
<1>11. m + l = w * b
  BY <1>7, <1>9, <1>10
<1>12. QED
  BY <1>1, <1>3, <1>4, <1>5, <1>11

\* The bytes that pad() puts behind the input.
LEMMA PadParts ==
  ASSUME NEW s \in Bytestring
  PROVE  \E u, e \in Bytestring, v \in Nat :
           /\ pad(s) = u \o e /\ Len(e) = LengthSize
           /\ e = BigEndian(BitsPerByte * Len(s), LengthSize)
           /\ Len(u) + LengthSize = v * BlockSize /\ v # 0
           /\ Len(s) <= Len(u) /\ SubSeq(u, 1, Len(s)) = s
           /\ Len(u) <= Len(s) + BlockSize
           /\ Len(u) = Len(s) + 1 + zeros(Len(s))
<1>1. PICK b, l, p \in Nat \ {0} : b = BlockSize /\ l = LengthSize /\ p = BitsPerByte
  BY DigestAssumption
<1>2. PICK n \in Nat : n = Len(s)
  BY Joining
<1>3. PICK k \in 0 .. b - 1, v \in Nat : k = zeros(n) /\ n + 1 + k + l = v * b /\ v # 0
  BY <1>1, ZerosAre
<1>4. PICK y \in Bytestring : y = <<ByteValues \div 2>> /\ Len(y) = 1
  <2>1. ByteValues \div 2 \in Byte
    BY BytesAssumption DEF Byte
  <2>2. PICK S : S = Byte
    OBVIOUS
  <2>3. PICK h \in S : h = ByteValues \div 2
    BY <2>1, <2>2
  <2>4. <<h>> \in Seq(S) /\ Len(<<h>>) = 1
    OBVIOUS
  <2>5. QED
    BY <2>2, <2>3, <2>4 DEF Bytestring
<1>5. PICK z \in Bytestring : z = [i \in 1..k |-> 0] /\ Len(z) = k
  <2>1. 0 \in Byte
    BY BytesAssumption DEF Byte
  <2>2. [i \in 1..k |-> 0] \in [1..k -> Byte] /\ k \in Nat
    BY <2>1
  <2>3. PICK S : S = Byte
    OBVIOUS
  <2>4. PICK z : z = [i \in 1..k |-> 0]
    OBVIOUS
  <2>5. z \in [1..k -> S]
    BY <2>2, <2>3, <2>4
  <2>6. z \in Seq(S) /\ Len(z) = k
    BY <2>2, <2>5
  <2>7. QED
    BY <2>3, <2>4, <2>6 DEF Bytestring
<1>6. p * n \in Nat
  OBVIOUS
<1>7. PICK e \in Bytestring : e = BigEndian(p * n, l) /\ Len(e) = l
  BY <1>6, BytesOfNumber DEF Bytestring
<1>8. PICK t \in Bytestring : t = s \o y /\ Len(t) = n + 1
  BY <1>2, <1>4, Joining
<1>9. PICK u \in Bytestring : u = t \o z /\ Len(u) = n + 1 + k
  <2>1. t \o z \in Bytestring /\ Len(t \o z) = Len(t) + Len(z)
    BY Joining
  <2>2. QED
    BY <1>5, <1>8, <2>1
<1>10. SubSeq(u, 1, n) = s
  <2>1. n <= Len(t) /\ n <= Len(s)
    BY <1>2, <1>8
  <2>2. SubSeq(u, 1, n) = SubSeq(t, 1, n)
    BY <1>9, <2>1, ArrivedStays
  <2>3. SubSeq(t, 1, n) = SubSeq(s, 1, n)
    BY <1>8, <2>1, ArrivedStays
  <2>4. SubSeq(s, 1, n) = s
    BY <1>2, SubSeqFull DEF Bytestring
  <2>5. QED
    BY <2>2, <2>3, <2>4
<1>11. pad(s) = u \o e
  BY <1>1, <1>2, <1>3, <1>4, <1>5, <1>7, <1>8, <1>9 DEF pad
<1>12. n <= Len(u) /\ Len(u) <= n + b /\ Len(u) + l = v * b
  BY <1>3, <1>9
<1>13. Len(u) = n + 1 + zeros(n)
  BY <1>3, <1>9
<1>14. QED
  BY <1>1, <1>2, <1>3, <1>7, <1>10, <1>11, <1>12, <1>13

\* m is the padded form of s: whole blocks, the last of which ends with the length.
Padded(m, s, v) ==
  /\ Len(m) = v * BlockSize /\ Len(m) <= Len(s) + (BlockSize + LengthSize)
  /\ Len(m) = Len(s) + 1 + zeros(Len(s)) + LengthSize
  /\ Drop(m, Len(m) - LengthSize) = BigEndian(BitsPerByte * Len(s), LengthSize)
  /\ Len(s) <= Len(m) /\ SubSeq(m, 1, Len(s)) = s

\* pad() gives it.
LEMMA PadIs ==
  ASSUME NEW s \in Bytestring
  PROVE  pad(s) \in Bytestring /\ \E v \in Nat : v # 0 /\ Padded(pad(s), s, v)
<1>1. PICK b, l \in Nat \ {0} : b = BlockSize /\ l = LengthSize
  BY DigestAssumption
<1>2. PICK u, e \in Bytestring, v \in Nat :
           /\ pad(s) = u \o e /\ Len(e) = LengthSize
           /\ e = BigEndian(BitsPerByte * Len(s), LengthSize)
           /\ Len(u) + LengthSize = v * BlockSize /\ v # 0
           /\ Len(s) <= Len(u) /\ SubSeq(u, 1, Len(s)) = s
           /\ Len(u) <= Len(s) + BlockSize
           /\ Len(u) = Len(s) + 1 + zeros(Len(s))
  BY PadParts
<1>3. PICK n, k \in Nat : n = Len(s) /\ k = Len(u)
  BY Joining
<1>4. PICK m \in Bytestring : m = u \o e /\ Len(m) = k + l
  BY <1>1, <1>2, <1>3, Joining
<1>5. Drop(m, k) = e
  <2>1. k <= Len(m)
    BY <1>4
  <2>2. PICK c, d \in Bytestring : c = SubSeq(m, 1, k) /\ d = Drop(m, k)
    BY <2>1, Cutting
  <2>3. Len(c) = k /\ m = c \o d
    BY <2>1, <2>2, Cutting
  <2>4. u \o e = c \o d /\ Len(u) = Len(c)
    BY <1>3, <1>4, <2>3
  <2>5. e = d
    BY <2>4, CutAlike
  <2>6. QED
    BY <2>2, <2>5
<1>6. SubSeq(m, 1, n) = s
  <2>1. n <= Len(u)
    BY <1>2, <1>3
  <2>2. SubSeq(m, 1, n) = SubSeq(u, 1, n)
    BY <1>4, <2>1, ArrivedStays
  <2>3. QED
    BY <1>2, <1>3, <2>2
<1>7. k + l - l = k /\ n <= k + l /\ k + l <= n + (b + l) /\ k + l = v * b
  BY <1>1, <1>2, <1>3
<1>8. Padded(m, s, v)
  <2>1. Len(m) = n + 1 + zeros(n) + l
    BY <1>2, <1>3, <1>4
  <2>2. QED
    BY <1>1, <1>2, <1>3, <1>4, <1>5, <1>6, <1>7, <2>1 DEF Padded
<1>9. QED
  BY <1>2, <1>4, <1>8

\* The length of what fits is told by the last bytes.
LEMMA LengthIsTold ==
  ASSUME NEW s \in Paddable
  PROVE  /\ s \in Bytestring
         /\ Value(BigEndian(BitsPerByte * Len(s), LengthSize)) \div BitsPerByte = Len(s)
<1>1. PICK p, l \in Nat \ {0} : p = BitsPerByte /\ l = LengthSize
  BY DigestAssumption
<1>2. s \in Bytestring /\ BitsPerByte * Len(s) < Power[LengthSize]
  BY DEF Paddable, Bytestring
<1>3. PICK n \in Nat : n = Len(s)
  BY <1>2, Joining
<1>4. PICK m \in Nat : m = p * n
  OBVIOUS
<1>5. m < Power[l]
  BY <1>1, <1>2, <1>3, <1>4
<1>6. Value(BigEndian(m, l)) = m
  BY <1>5, ReadWhatWasWritten
<1>7. m = n * p + 0 /\ 0 \in Nat /\ 0 < p
  BY <1>4
<1>8. m \div p = n
  BY <1>7, QuotientIs
<1>9. QED
  BY <1>1, <1>2, <1>3, <1>4, <1>6, <1>8

\* sha256_hex pads to whole blocks, no more of them than needed, and the input can
\* be read back, for every input whose length fits and any sizes.
THEOREM PaddingSound == Spec => []PaddingIsSound
<1>1. InputInv => PaddingIsSound
  <2> SUFFICES ASSUME InputInv, Given("bytes")
               PROVE  LET message == pad(x)
                          bits    == Value(Drop(message, Len(message) - LengthSize))
                      IN  /\ Len(message) % BlockSize = 0
                          /\ Len(message) - Len(x) <= BlockSize + LengthSize
                          /\ x = SubSeq(message, 1, bits \div BitsPerByte)
    BY DEF PaddingIsSound
  <2>1. PICK s \in Paddable : s = x
    BY BytesInput DEF InputInv, x
  <2>2. s \in Bytestring
    BY LengthIsTold
  <2>3. PICK m \in Bytestring, v \in Nat : m = pad(s) /\ Padded(m, s, v)
    BY <2>2, PadIs
  <2>4. PICK b, l \in Nat \ {0} : b = BlockSize /\ l = LengthSize
    BY DigestAssumption
  <2>5. PICK n, k \in Nat : n = Len(s) /\ k = Len(m)
    BY <2>2, Joining
  <2>6. k = v * b /\ k <= n + (b + l) /\ SubSeq(m, 1, n) = s
    BY <2>3, <2>4, <2>5 DEF Padded
  <2>7. k % b = 0
    <3>1. 0 \in 0 .. b - 1 /\ v * b + 0 = v * b
      OBVIOUS
    <3>2. QED
      BY <2>6, <3>1, LastDigit
  <2>8. k - n <= b + l
    BY <2>6
  <2>9. Value(Drop(m, k - l)) \div BitsPerByte = n
    BY <2>3, <2>4, <2>5, LengthIsTold DEF Padded
  <2>10. QED
    BY <2>1, <2>3, <2>4, <2>5, <2>6, <2>7, <2>8, <2>9
<1>2. QED
  BY <1>1, InputPicked, PTL

-----------------------------------------------------------------------------
(***************************************************************************)
(* The loop over the blocks.                                               *)
(***************************************************************************)
Block(m, i) == SubSeq(m, (i - 1) * BlockSize + 1, i * BlockSize)

\* The bytes of a block are those of the message.
LEMMA BlockIs ==
  ASSUME NEW m \in Bytestring, NEW v \in Nat, Len(m) = v * BlockSize, NEW i \in 1..v
  PROVE  /\ Block(m, i) \in [1..BlockSize -> Byte]
         /\ \A r \in 1..BlockSize : Block(m, i)[r] = m[(i - 1) * BlockSize + r]
<1>1. PICK b \in Nat \ {0} : b = BlockSize
  BY DigestAssumption
<1>2. PICK o \in Nat : o = (i - 1) * b
  <2>1. i - 1 \in Nat
    OBVIOUS
  <2>2. (i - 1) * b \in Nat
    BY <2>1
  <2>3. QED
    BY <2>2
<1>3. i * b = o + b
  BY <1>2
<1>4. o + b <= v * b
  <2>1. i * b <= v * b
    OBVIOUS
  <2>2. QED
    BY <1>3, <2>1
<1>5. PICK S : S = Byte
  OBVIOUS
<1>6. m \in Seq(S) /\ Len(m) = v * b
  BY <1>1, <1>5 DEF Bytestring
<1>7. PICK n \in Nat : n = v * b
  OBVIOUS
<1>8. \A r \in o + 1 .. o + b : m[r] \in S
  <2>1. \A r \in o + 1 .. o + b : r \in 1..n
    BY <1>4, <1>7
  <2>2. Len(m) = n /\ m \in Seq(S)
    BY <1>6, <1>7
  <2>3. \A r \in 1..n : m[r] \in S
    BY <2>2
  <2>4. QED
    BY <2>1, <2>3
<1>9. o + 1 \in Int /\ o + b \in Int /\ o + 1 <= o + b /\ (o + b) - (o + 1) + 1 = b
      /\ \A r \in 1..b : (o + 1) + r - 1 = o + r
  OBVIOUS
<1>10. PICK u : u = SubSeq(m, o + 1, o + b)
  OBVIOUS
<1>11. /\ u \in Seq(S) /\ Len(u) = IF o + 1 <= o + b THEN (o + b) - (o + 1) + 1 ELSE 0
       /\ \A r \in 1 .. (o + b) - (o + 1) + 1 : u[r] = m[(o + 1) + r - 1]
  BY <1>8, <1>9, <1>10, SubSeqProperties
<1>12. u \in Seq(S) /\ Len(u) = b /\ \A r \in 1..b : u[r] = m[o + r]
  BY <1>9, <1>11
<1>13. u \in [1..b -> S]
  BY <1>12
<1>14. u = Block(m, i)
  BY <1>1, <1>2, <1>3, <1>10 DEF Block
<1>15. QED
  BY <1>1, <1>2, <1>5, <1>12, <1>13, <1>14

\* What the compression takes and gives: a hash is a string.
Hashes == Seq(Int)
HashesAreStrings ==
  /\ kInitialHash \in Hashes
  /\ \A h \in Hashes : \A b \in [1..BlockSize -> Byte] : compress(h, b) \in Hashes

\* The hashes on the way through the blocks of m.
Chain(h, m) ==
  /\ h \in [0..blocks(m) -> Hashes] /\ h[0] = kInitialHash
  /\ \A i \in 1..blocks(m) : h[i] = compress(h[i - 1], Block(m, i))

\* The number of blocks.
LEMMA BlocksAre ==
  ASSUME NEW m, NEW v \in Nat, Len(m) = v * BlockSize
  PROVE  blocks(m) = v
<1>1. PICK b \in Nat \ {0} : b = BlockSize
  BY DigestAssumption
<1>2. v * b \in Nat /\ v * b = v * b + 0 /\ 0 < b /\ 0 \in Nat
  OBVIOUS
<1>3. (v * b) \div b = v
  BY <1>2, QuotientIs
<1>4. QED
  BY <1>1, <1>3 DEF blocks

\* digest() is the last of them.
LEMMA DigestIs ==
  ASSUME NEW m \in Bytestring, NEW N \in Nat, Len(m) = N * BlockSize, HashesAreStrings
  PROVE  \E h : Chain(h, m) /\ digest(m) = h[N] /\ h[N] \in Hashes
<1>1. blocks(m) = N
  BY BlocksAre
<1> DEFINE G == [p \in Nat \X Hashes |->
                   IF p[1] < N THEN compress(p[2], Block(m, p[1] + 1)) ELSE p[2]]
           Def(f) == f = [i \in 0..N |->
                            IF i = 0 THEN kInitialHash ELSE compress(f[i - 1], Block(m, i))]
<1>2. G \in Steps(Hashes)
  <2>1. ASSUME NEW p \in Nat \X Hashes PROVE G[p] \in Hashes
    <3>1. p[1] \in Nat /\ p[2] \in Hashes
      OBVIOUS
    <3>2. CASE p[1] < N
      <4>1. p[1] + 1 \in 1..N
        BY <3>1, <3>2
      <4>2. Block(m, p[1] + 1) \in [1..BlockSize -> Byte]
        BY <4>1, BlockIs
      <4>3. compress(p[2], Block(m, p[1] + 1)) \in Hashes
        BY <3>1, <4>2 DEF HashesAreStrings
      <4>4. QED
        BY <3>2, <4>3
    <3>3. QED
      BY <3>1, <3>2
  <2>2. QED
    BY <2>1 DEF Steps
<1>3. PICK f : Iterates(f, Hashes, kInitialHash, G)
  <2> HIDE DEF G
  <2>1. kInitialHash \in Hashes
    BY DEF HashesAreStrings
  <2>2. QED
    BY <1>2, <2>1, Recursion
<1> DEFINE v == [i \in 0..N |-> f[i]]
<1>4. v \in [0..N -> Hashes] /\ v[0] = kInitialHash
  <2>1. f \in [Nat -> Hashes] /\ f[0] = kInitialHash
    BY <1>3 DEF Iterates
  <2>2. 0 \in 0..N /\ \A i \in 0..N : i \in Nat
    OBVIOUS
  <2>3. QED
    BY <2>1, <2>2
<1>5. ASSUME NEW i \in 1..N PROVE v[i] = compress(v[i - 1], Block(m, i))
  <2>1. i - 1 \in Nat /\ (i - 1) + 1 = i /\ i - 1 < N /\ i \in Nat
    OBVIOUS
  <2>2. f[i] = G[<<i - 1, f[i - 1]>>] /\ f[i - 1] \in Hashes
    <3> HIDE DEF G
    <3>1. \A k \in Nat : f[k + 1] = G[<<k, f[k]>>]
      BY <1>3 DEF Iterates
    <3>2. f[(i - 1) + 1] = G[<<i - 1, f[i - 1]>>]
      BY <2>1, <3>1
    <3>3. f[i - 1] \in Hashes
      BY <1>3, <2>1 DEF Iterates
    <3>4. QED
      BY <2>1, <3>2, <3>3
  <2>3. v[i] = f[i] /\ v[i - 1] = f[i - 1]
    BY <2>1
  <2>4. QED
    BY <2>1, <2>2, <2>3
<1>6. Def(v)
  <2> HIDE DEF v
  <2>1. QED
    BY <1>4, <1>5
<1>7. PICK u : u = (CHOOSE g : Def(g)) /\ digest(m) = u[N]
  BY <1>1 DEF digest, Block
<1>8. Def(u)
  <2> HIDE DEF Def, v
  <2>1. QED
    BY <1>6, <1>7
<1>9. u = v
  <2> DEFINE P == {i \in Nat : i <= N => u[i] = v[i]}
  <2> HIDE DEF v
  <2>1. 0 \in P
    BY <1>4, <1>8
  <2>2. ASSUME NEW i \in Nat, i \in P PROVE i + 1 \in P
    <3>1. SUFFICES ASSUME i + 1 <= N PROVE u[i + 1] = v[i + 1]
      OBVIOUS
    <3>2. i + 1 \in 1..N /\ i + 1 # 0 /\ (i + 1) - 1 = i /\ u[i] = v[i]
      BY <2>2, <3>1
    <3>3. u[i + 1] = compress(u[i], Block(m, i + 1))
      BY <1>8, <3>2
    <3>4. v[i + 1] = compress(v[i], Block(m, i + 1))
      BY <1>5, <3>2
    <3>5. QED
      BY <3>2, <3>3, <3>4
  <2>3. \A i \in Nat : i \in P
    <3> HIDE DEF P
    <3>1. QED
      BY <2>1, <2>2, Induction
  <2>4. \A i \in 0..N : u[i] = v[i]
    BY <2>3
  <2>5. DOMAIN u = 0..N /\ u = [i \in 0..N |-> u[i]]
    BY <1>8
  <2>6. v = [i \in 0..N |-> v[i]]
    BY <1>4
  <2>7. QED
    BY <2>4, <2>5, <2>6
<1>10. Chain(v, m)
  <2> HIDE DEF v
  <2>1. QED
    BY <1>1, <1>4, <1>5 DEF Chain
<1>11. v[N] \in Hashes
  <2> HIDE DEF v
  <2>1. N \in 0..N
    OBVIOUS
  <2>2. QED
    BY <1>4, <2>1
<1>12. QED
  <2> HIDE DEF v
  <2>1. QED
    BY <1>7, <1>9, <1>10, <1>11

\* No two calls of the compression, of those that hashing a and b makes, give the
\* same hash but for the same hash and block.
Collides(a, b, g, h, i, j) ==
  g[i] = h[j] /\ ~(g[i - 1] = h[j - 1] /\ Block(a, i) = Block(b, j))
CollisionFree(a, b) ==
  \A g, h : Chain(g, a) /\ Chain(h, b) =>
    \A i \in 1..blocks(a), j \in 1..blocks(b) : ~Collides(a, b, g, h, i, j)

\* Messages of the same blocks are the same.
LEMMA BlocksMakeMessage ==
  ASSUME NEW m \in Bytestring, NEW n \in Bytestring, NEW v \in Nat,
         Len(m) = v * BlockSize, Len(n) = v * BlockSize,
         \A i \in 1..v : Block(m, i) = Block(n, i)
  PROVE  m = n
<1>1. PICK b \in Nat \ {0} : b = BlockSize
  BY DigestAssumption
<1>2. PICK l \in Nat : l = v * b
  OBVIOUS
<1>3. ASSUME NEW p \in 1..l PROVE m[p] = n[p]
  <2>1. PICK q \in Nat, r \in 0 .. b - 1 : p - 1 = b * q + r
    <3>1. PICK k \in Nat : k = p - 1
      OBVIOUS
    <3>2. QED
      BY <3>1, Division
  <2>2. q < v
    <3>1. v <= q => b * v <= b * q
      OBVIOUS
    <3>2. b * q < b * v
      <4>1. b * v = l /\ b * q \in Nat
        BY <1>2
      <4>2. QED
        BY <2>1, <4>1
    <3>3. b * q \in Nat /\ b * v \in Nat
      OBVIOUS
    <3>4. QED
      BY <3>1, <3>2, <3>3
  <2>3. PICK i \in 1..v : i = q + 1 /\ i - 1 = q
    <3>1. q + 1 \in 1..v /\ (q + 1) - 1 = q
      BY <2>2
    <3>2. QED
      BY <3>1
  <2>4. PICK k \in 1..b : k = r + 1
    OBVIOUS
  <2>5. (i - 1) * b + k = p
    <3>1. (i - 1) * b = b * q /\ b * q \in Nat
      BY <2>3
    <3>2. QED
      BY <2>1, <2>4, <3>1
  <2>6. Block(m, i)[k] = m[(i - 1) * b + k]
    <3>1. \A j \in 1..BlockSize : Block(m, i)[j] = m[(i - 1) * BlockSize + j]
      BY BlockIs
    <3>2. QED
      BY <1>1, <3>1
  <2>7. Block(n, i)[k] = n[(i - 1) * b + k]
    <3>1. \A j \in 1..BlockSize : Block(n, i)[j] = n[(i - 1) * BlockSize + j]
      BY BlockIs
    <3>2. QED
      BY <1>1, <3>1
  <2>8. QED
    BY <2>5, <2>6, <2>7
<1>4. PICK S : S = Byte
  OBVIOUS
<1>5. m \in Seq(S) /\ n \in Seq(S) /\ Len(m) = l /\ Len(n) = l
  BY <1>1, <1>2, <1>4 DEF Bytestring
<1>6. QED
  BY <1>3, <1>5, SeqEqual

\* Messages of the same number of blocks whose last hashes are equal have the same
\* blocks, from the last to the first.
LEMMA SameChains ==
  ASSUME NEW m \in Bytestring, NEW n \in Bytestring, NEW v \in Nat,
         Len(m) = v * BlockSize, Len(n) = v * BlockSize,
         CollisionFree(m, n), NEW g, NEW h, Chain(g, m), Chain(h, n), g[v] = h[v]
  PROVE  m = n
<1>1. blocks(m) = v /\ blocks(n) = v
  BY BlocksAre
<1>2. \A i \in 1..v : g[i] = h[i] => g[i - 1] = h[i - 1] /\ Block(m, i) = Block(n, i)
  BY <1>1 DEF CollisionFree, Collides
<1> DEFINE P == {i \in Nat : i <= v => g[v - i] = h[v - i]}
<1>3. 0 \in P
  <2>1. v - 0 = v
    OBVIOUS
  <2>2. QED
    BY <2>1
<1>4. ASSUME NEW i \in Nat, i \in P PROVE i + 1 \in P
  <2>1. SUFFICES ASSUME i + 1 <= v PROVE g[v - (i + 1)] = h[v - (i + 1)]
    OBVIOUS
  <2>2. PICK k \in 1..v : k = v - i /\ k - 1 = v - (i + 1)
    <3>1. v - i \in 1..v /\ (v - i) - 1 = v - (i + 1)
      BY <2>1
    <3>2. QED
      BY <3>1
  <2>3. g[v - i] = h[v - i]
    BY <1>4, <2>1
  <2>4. QED
    BY <1>2, <2>2, <2>3
<1>5. \A i \in Nat : i \in P
  <2> HIDE DEF P
  <2>1. QED
    BY <1>3, <1>4, Induction
<1>6. ASSUME NEW i \in 1..v PROVE Block(m, i) = Block(n, i)
  <2>1. v - i \in Nat /\ v - i <= v /\ v - (v - i) = i
    OBVIOUS
  <2>2. v - i \in P
    BY <1>5, <2>1
  <2>3. g[v - (v - i)] = h[v - (v - i)]
    BY <2>1, <2>2
  <2>4. g[i] = h[i]
    BY <2>1, <2>3
  <2>5. QED
    BY <1>2, <2>4
<1>7. QED
  BY <1>6, BlocksMakeMessage

\* The last bytes of a message are the last ones of its last block.
LEMMA LastBytes ==
  ASSUME NEW m \in Bytestring, NEW v \in Nat, v # 0, Len(m) = v * BlockSize,
         NEW i \in 1..LengthSize
  PROVE  Drop(m, Len(m) - LengthSize)[i] = Block(m, v)[BlockSize - LengthSize + i]
<1>1. PICK b, l \in Nat \ {0} : b = BlockSize /\ l = LengthSize /\ b > l
  BY DigestAssumption
<1>2. PICK n \in Nat : n = v * b /\ n = Len(m)
  BY <1>1
<1>3. PICK o \in Nat : o = (v - 1) * b
  <2>1. v - 1 \in Nat
    OBVIOUS
  <2>2. (v - 1) * b \in Nat
    BY <2>1
  <2>3. QED
    BY <2>2
<1>4. n = o + b
  BY <1>2, <1>3
<1>5. b - l + i \in 1..b /\ n - l \in Nat /\ n - l <= n /\ (n - l) + i \in 1..n
  BY <1>1, <1>4
<1>6. v \in 1..v
  OBVIOUS
<1>7. Block(m, v)[b - l + i] = m[o + (b - l + i)]
  BY <1>1, <1>3, <1>5, <1>6, BlockIs
<1>8. o + (b - l + i) = (n - l) + i
  BY <1>1, <1>4
<1>9. Drop(m, n - l)[i] = m[(n - l) + i]
  <2>1. PICK k \in Nat : k = n - l
    BY <1>5
  <2>2. PICK S : S = Byte
    OBVIOUS
  <2>3. m \in Seq(S) /\ Len(m) = n
    BY <1>2, <2>2 DEF Bytestring
  <2>4. \A r \in 1..n : m[r] \in S
    BY <2>3
  <2>5. \A r \in k + 1 .. n : m[r] \in S
    BY <2>4
  <2>6. k + 1 \in Int /\ n \in Int /\ i \in 1 .. n - (k + 1) + 1 /\ (k + 1) + i - 1 = k + i
    BY <1>1, <2>1
  <2>7. \A r \in 1 .. n - (k + 1) + 1 : SubSeq(m, k + 1, n)[r] = m[(k + 1) + r - 1]
    BY <2>5, <2>6, SubSeqProperties
  <2>8. SubSeq(m, k + 1, n)[i] = m[k + i]
    BY <2>6, <2>7
  <2>9. QED
    BY <1>2, <2>1, <2>8 DEF Drop
<1>10. QED
  BY <1>1, <1>2, <1>7, <1>8, <1>9

\* Byte strings with equal last blocks of their padded forms have equal lengths, ...
LEMMA SameLength ==
  ASSUME NEW a \in Paddable, NEW b \in Paddable,
         NEW m \in Bytestring, NEW v \in Nat, v # 0, Padded(m, a, v),
         NEW n \in Bytestring, NEW w \in Nat, w # 0, Padded(n, b, w),
         Block(m, v) = Block(n, w)
  PROVE  Len(a) = Len(b)
<1>1. PICK l \in Nat \ {0} : l = LengthSize
  BY DigestAssumption
<1>2. Len(m) = v * BlockSize /\ Len(n) = w * BlockSize
  BY DEF Padded
<1>3. PICK c : c = Drop(m, Len(m) - LengthSize)
  OBVIOUS
<1>4. PICK d : d = Drop(n, Len(n) - LengthSize)
  OBVIOUS
<1>5. ASSUME NEW i \in 1..l PROVE c[i] = d[i]
  <2>1. c[i] = Block(m, v)[BlockSize - LengthSize + i]
    BY <1>1, <1>2, <1>3, LastBytes
  <2>2. d[i] = Block(n, w)[BlockSize - LengthSize + i]
    BY <1>1, <1>2, <1>4, LastBytes
  <2>3. QED
    BY <2>1, <2>2
<1>6. /\ c = BigEndian(BitsPerByte * Len(a), LengthSize)
      /\ d = BigEndian(BitsPerByte * Len(b), LengthSize)
  BY <1>3, <1>4 DEF Padded
<1>7. c \in [1..l -> Byte] /\ d \in [1..l -> Byte]
  <2>1. \A s \in Paddable : BitsPerByte * Len(s) \in Nat
    <3> SUFFICES ASSUME NEW s \in Paddable PROVE BitsPerByte * Len(s) \in Nat
      OBVIOUS
    <3>1. PICK p \in Nat : p = BitsPerByte
      BY DigestAssumption
    <3>2. PICK k \in Nat : k = Len(s)
      BY LengthIsTold, Joining
    <3>3. p * k \in Nat
      OBVIOUS
    <3>4. QED
      BY <3>1, <3>2, <3>3
  <2>2. QED
    BY <1>1, <1>6, <2>1, BytesOfNumber
<1>8. c = d
  BY <1>5, <1>7
<1>9. Len(a) = Value(c) \div BitsPerByte
  BY <1>6, LengthIsTold
<1>10. Len(b) = Value(d) \div BitsPerByte
  BY <1>6, LengthIsTold
<1>11. QED
  BY <1>8, <1>9, <1>10

\* ... and with equal hashes they are equal.
LEMMA SameHash ==
  ASSUME NEW a \in Paddable, NEW b \in Paddable, HashesAreStrings,
         CollisionFree(pad(a), pad(b)), sha256_hex(a) = sha256_hex(b)
  PROVE  a = b
<1>1. a \in Bytestring /\ b \in Bytestring
  BY LengthIsTold
<1>2. PICK m \in Bytestring, v \in Nat : m = pad(a) /\ v # 0 /\ Padded(m, a, v)
  BY <1>1, PadIs
<1>3. PICK n \in Bytestring, w \in Nat : n = pad(b) /\ w # 0 /\ Padded(n, b, w)
  BY <1>1, PadIs
<1>4. Len(m) = v * BlockSize /\ Len(n) = w * BlockSize
  BY <1>2, <1>3 DEF Padded
<1>5. PICK g : Chain(g, m) /\ digest(m) = g[v]
  BY <1>4, DigestIs
<1>6. PICK h : Chain(h, n) /\ digest(n) = h[w]
  BY <1>4, DigestIs
<1>7. g[v] = h[w]
  BY <1>2, <1>3, <1>5, <1>6 DEF sha256_hex
<1>8. Block(m, v) = Block(n, w)
  <2>1. blocks(m) = v /\ blocks(n) = w
    BY <1>4, BlocksAre
  <2>2. v \in 1..v /\ w \in 1..w
    BY <1>2, <1>3
  <2>3. CollisionFree(m, n)
    BY <1>2, <1>3
  <2>4. ~Collides(m, n, g, h, v, w)
    BY <1>5, <1>6, <2>1, <2>2, <2>3 DEF CollisionFree
  <2>5. QED
    BY <1>7, <2>4 DEF Collides
<1>9. Len(a) = Len(b)
  BY <1>2, <1>3, <1>8, SameLength
<1>10. v = w
  <2>1. PICK k \in Nat \ {0} : k = BlockSize
    BY DigestAssumption
  <2>2. Len(m) = Len(n)
    BY <1>2, <1>3, <1>9 DEF Padded
  <2>3. v * k = w * k
    BY <1>4, <2>1, <2>2
  <2>4. (v * k) \div k = v /\ (w * k) \div k = w
    <3>1. 0 \in 0 .. k - 1 /\ v * k + 0 = v * k /\ w * k + 0 = w * k
      OBVIOUS
    <3>2. QED
      BY <3>1, LastDigit
  <2>5. QED
    BY <2>3, <2>4
<1>11. m = n
  <2>1. CollisionFree(m, n)
    BY <1>2, <1>3
  <2>2. Len(n) = v * BlockSize /\ g[v] = h[v]
    BY <1>4, <1>7, <1>10
  <2>3. QED
    BY <1>4, <1>5, <1>6, <2>1, <2>2, SameChains
<1>12. a = SubSeq(m, 1, Len(a)) /\ b = SubSeq(n, 1, Len(b))
  BY <1>2, <1>3 DEF Padded
<1>13. QED
  BY <1>9, <1>11, <1>12

-----------------------------------------------------------------------------
(***************************************************************************)
(* Stored passwords.                                                       *)
(***************************************************************************)
\* t is the salt s, the mark c and the hash h.
Stored(t, s, c, h) ==
  /\ DOMAIN t = 1 .. Len(s) + 1 + Len(h)
  /\ SubSeq(t, 1, Len(s)) = s /\ Drop(t, Len(s) + 1) = h
  /\ t[Len(s) + 1] = c /\ \A i \in 1..Len(s) : t[i] = s[i]

\* Three parts in a row.
LEMMA StoredIs ==
  ASSUME NEW S, NEW s \in Seq(S), NEW c \in S, NEW h \in Seq(S)
  PROVE  Stored(s \o <<c>> \o h, s, c, h)
<1>1. PICK m, n \in Nat : m = Len(s) /\ n = Len(h)
  OBVIOUS
<1>2. PICK y \in Seq(S) : y = <<c>> /\ Len(y) = 1 /\ y[1] = c
  <2>1. <<c>> \in Seq(S) /\ Len(<<c>>) = 1 /\ <<c>>[1] = c
    OBVIOUS
  <2>2. QED
    BY <2>1
<1>3. PICK u \in Seq(S) : /\ u = s \o y /\ Len(u) = m + 1
                          /\ (\A i \in 1..m : u[i] = s[i]) /\ u[m + 1] = c
  <2>1. /\ s \o y \in Seq(S) /\ Len(s \o y) = Len(s) + Len(y)
        /\ \A i \in 1 .. Len(s) + Len(y) :
             (s \o y)[i] = IF i <= Len(s) THEN s[i] ELSE y[i - Len(s)]
    BY ConcatProperties
  <2>2. \A i \in 1 .. m + 1 : (s \o y)[i] = IF i <= m THEN s[i] ELSE y[i - m]
    BY <1>1, <1>2, <2>1
  <2>3. \A i \in 1..m : i \in 1 .. m + 1 /\ i <= m
    OBVIOUS
  <2>4. m + 1 \in 1 .. m + 1 /\ ~(m + 1 <= m) /\ (m + 1) - m = 1
    OBVIOUS
  <2>5. (s \o y)[m + 1] = c
    BY <1>2, <2>2, <2>4
  <2>6. \A i \in 1..m : (s \o y)[i] = s[i]
    BY <2>2, <2>3
  <2>7. Len(s \o y) = m + 1
    BY <1>1, <1>2, <2>1
  <2>8. QED
    BY <2>1, <2>5, <2>6, <2>7
<1>4. PICK t \in Seq(S) : /\ t = u \o h /\ Len(t) = m + 1 + n
                          /\ (\A i \in 1 .. m + 1 : t[i] = u[i])
                          /\ (\A i \in 1..n : t[m + 1 + i] = h[i])
  <2>1. /\ u \o h \in Seq(S) /\ Len(u \o h) = Len(u) + Len(h)
        /\ \A i \in 1 .. Len(u) + Len(h) :
             (u \o h)[i] = IF i <= Len(u) THEN u[i] ELSE h[i - Len(u)]
    BY ConcatProperties
  <2>2. \A i \in 1 .. m + 1 + n : (u \o h)[i] = IF i <= m + 1 THEN u[i] ELSE h[i - (m + 1)]
    BY <1>1, <1>3, <2>1
  <2>3. \A i \in 1 .. m + 1 : i \in 1 .. m + 1 + n /\ i <= m + 1
    OBVIOUS
  <2>4. \A i \in 1..n : m + 1 + i \in 1 .. m + 1 + n /\ ~(m + 1 + i <= m + 1)
                        /\ (m + 1 + i) - (m + 1) = i
    OBVIOUS
  <2>5. \A i \in 1 .. m + 1 : (u \o h)[i] = u[i]
    BY <2>2, <2>3
  <2>6. \A i \in 1..n : (u \o h)[m + 1 + i] = h[i]
    BY <2>2, <2>4
  <2>7. Len(u \o h) = m + 1 + n
    BY <1>1, <1>3, <2>1
  <2>8. QED
    BY <2>1, <2>5, <2>6, <2>7
<1>5. (\A i \in 1..m : t[i] = s[i]) /\ t[m + 1] = c
  <2>1. m + 1 \in 1 .. m + 1 /\ \A i \in 1..m : i \in 1 .. m + 1
    OBVIOUS
  <2>2. QED
    BY <1>3, <1>4, <2>1
<1>6. SubSeq(t, 1, m) = s
  <2>1. \A i \in 1..m : t[i] \in S
    BY <1>1, <1>5
  <2>2. 1 \in Int /\ m \in Int /\ m - 1 + 1 = m /\ (~(1 <= m) => m = 0)
        /\ \A i \in 1..m : 1 + i - 1 = i
    OBVIOUS
  <2>3. PICK v : v = SubSeq(t, 1, m)
    OBVIOUS
  <2>4. /\ v \in Seq(S) /\ Len(v) = IF 1 <= m THEN m - 1 + 1 ELSE 0
        /\ \A i \in 1 .. m - 1 + 1 : v[i] = t[1 + i - 1]
    BY <2>1, <2>2, <2>3, SubSeqProperties
  <2>5. Len(v) = m /\ \A i \in 1..m : v[i] = s[i]
    BY <1>5, <2>2, <2>4
  <2>6. v = s
    BY <1>1, <2>4, <2>5, SeqEqual
  <2>7. QED
    BY <2>3, <2>6
<1>7. SubSeq(t, m + 2, m + 1 + n) = h
  <2>1. \A i \in 1 .. m + 1 + n : t[i] \in S
    BY <1>4
  <2>2. \A i \in m + 2 .. m + 1 + n : t[i] \in S
    BY <2>1
  <2>3. m + 2 \in Int /\ m + 1 + n \in Int /\ (m + 1 + n) - (m + 2) + 1 = n
        /\ (~(m + 2 <= m + 1 + n) => n = 0)
        /\ \A i \in 1..n : (m + 2) + i - 1 = m + 1 + i
    OBVIOUS
  <2>4. PICK v : v = SubSeq(t, m + 2, m + 1 + n)
    OBVIOUS
  <2>5. /\ v \in Seq(S)
        /\ Len(v) = IF m + 2 <= m + 1 + n THEN (m + 1 + n) - (m + 2) + 1 ELSE 0
        /\ \A i \in 1 .. (m + 1 + n) - (m + 2) + 1 : v[i] = t[(m + 2) + i - 1]
    BY <2>2, <2>3, <2>4, SubSeqProperties
  <2>6. Len(v) = n /\ \A i \in 1..n : v[i] = h[i]
    BY <1>4, <2>3, <2>5
  <2>7. v = h
    BY <1>1, <2>5, <2>6, SeqEqual
  <2>8. QED
    BY <2>4, <2>7
<1>8. DOMAIN t = 1 .. m + 1 + n
  BY <1>4
<1>9. Drop(t, m + 1) = h
  <2>1. (m + 1) + 1 = m + 2
    OBVIOUS
  <2>2. QED
    BY <1>4, <1>7, <2>1 DEF Drop
<1>10. Stored(t, s, c, h)
  BY <1>1, <1>5, <1>6, <1>8, <1>9 DEF Stored
<1>11. QED
  BY <1>2, <1>3, <1>4, <1>10

\* authenticate_user takes the stored form apart as it was put together.
LEMMA MatchesIs ==
  ASSUME NEW s \in Bytestring, NEW h, NEW t, NEW q, Stored(t, s, Dollar, h), Len(h) \in Nat
  PROVE  matches(t, q) <=> h = sha256_hex(s \o q)
<1>1. PICK k, n \in Nat : k = Len(s) /\ n = Len(h)
  BY Joining
<1>2. \A i \in 1..k : s[i] # Dollar
  <2>1. PICK S : S = Byte
    OBVIOUS
  <2>2. \A i \in 1..k : s[i] \in S
    BY <1>1, <2>1 DEF Bytestring
  <2>3. QED
    BY <2>1, <2>2, DigestAssumption
<1>3. /\ DOMAIN t = 1 .. k + 1 + n /\ SubSeq(t, 1, k) = s /\ Drop(t, k + 1) = h
      /\ t[k + 1] = Dollar /\ \A i \in 1..k : t[i] = s[i]
  BY <1>1 DEF Stored
<1>4. \A i \in 1..k : t[i] # Dollar
  BY <1>2, <1>3
<1>5. (k + 1) - 1 = k /\ k + 1 \in 1 .. k + 1 + n
  OBVIOUS
<1>6. ASSUME NEW e \in DOMAIN t, t[e] = Dollar, \A i \in 1 .. e - 1 : t[i] # Dollar
      PROVE  e = k + 1
  <2>1. e \in 1 .. k + 1 + n
    BY <1>3
  <2>2. e \notin 1..k
    BY <1>4, <1>6
  <2>3. k + 1 \notin 1 .. e - 1
    BY <1>3, <1>6
  <2>4. QED
    BY <2>1, <2>2, <2>3
<1>7. ASSUME h = sha256_hex(s \o q) PROVE matches(t, q)
  BY <1>3, <1>4, <1>5, <1>7 DEF matches
<1>8. ASSUME matches(t, q) PROVE h = sha256_hex(s \o q)
  <2>1. PICK e \in DOMAIN t : /\ t[e] = Dollar /\ \A i \in 1 .. e - 1 : t[i] # Dollar
                              /\ Drop(t, e) = sha256_hex(SubSeq(t, 1, e - 1) \o q)
    BY <1>8 DEF matches
  <2>2. e = k + 1
    BY <1>6, <2>1
  <2>3. QED
    BY <1>3, <1>5, <2>1, <2>2
<1>9. QED
  BY <1>7, <1>8

\* The compression has no collision among the calls that hashing the salted
\* passwords makes.
NoCollisions ==
  \A salt \in Salts, p, q \in Passwords : CollisionFree(pad(salt \o p), pad(salt \o q))

\* register_user and authenticate_user: a stored password accepts itself and no
\* other, for salts, passwords and blocks of any length, as long as the compression
\* makes no collision: neither the padding, nor the loop over the blocks, nor the
\* stored form adds one.
THEOREM PasswordsMatch ==
  ASSUME HashesAreStrings, NoCollisions
  PROVE  Spec => []PasswordMatchesItself
<1>1. InputInv => PasswordMatchesItself
  <2> SUFFICES ASSUME InputInv, Given("password"), NEW q \in Passwords
               PROVE  matches(hash_password(x[1], x[2]), q) <=> q = x[2]
    BY DEF PasswordMatchesItself
  <2>1. PICK salt \in Salts, p \in Passwords : salt = x[1] /\ p = x[2]
    BY DEF InputInv, x
  <2>2. salt \in Bytestring /\ p \in Bytestring /\ q \in Bytestring
    BY BytesInput DEF Bytestring
  <2>3. PICK a \in Paddable : a = salt \o p
    BY BytesInput
  <2>4. PICK b \in Paddable : b = salt \o q
    BY BytesInput
  <2>5. PICK h \in Hashes : h = sha256_hex(a)
    <3>1. a \in Bytestring
      BY LengthIsTold
    <3>2. PICK m \in Bytestring, v \in Nat : m = pad(a) /\ Padded(m, a, v)
      BY <3>1, PadIs
    <3>3. digest(m) \in Hashes
      BY <3>2, DigestIs DEF Padded
    <3>4. QED
      BY <3>2, <3>3 DEF sha256_hex
  <2>6. PICK t : t = hash_password(salt, p)
    OBVIOUS
  <2>7. Stored(t, salt, Dollar, h)
    <3>1. PICK S : S = Int
      OBVIOUS
    <3>2. salt \in Seq(S)
      <4>1. PICK B : B = Byte
        OBVIOUS
      <4>2. B \subseteq S
        BY <3>1, <4>1, BytesAssumption DEF Byte
      <4>3. salt \in Seq(B)
        BY <2>2, <4>1 DEF Bytestring
      <4>4. Len(salt) \in Nat /\ salt \in [1..Len(salt) -> B]
        BY <4>3
      <4>5. salt \in [1..Len(salt) -> S]
        BY <4>2, <4>4
      <4>6. QED
        BY <4>4, <4>5
    <3>3. Dollar \in S /\ h \in Seq(S)
      BY <3>1, DigestAssumption DEF Hashes
    <3>4. t = salt \o <<Dollar>> \o h
      BY <2>3, <2>5, <2>6 DEF hash_password
    <3>5. QED
      BY <3>2, <3>3, <3>4, StoredIs
  <2>8. Len(h) \in Nat
    BY DEF Hashes
  <2>9. matches(t, q) <=> sha256_hex(a) = sha256_hex(b)
    BY <2>2, <2>4, <2>5, <2>7, <2>8, MatchesIs
  <2>10. ASSUME sha256_hex(a) = sha256_hex(b) PROVE q = p
    <3>1. CollisionFree(pad(a), pad(b))
      BY <2>3, <2>4 DEF NoCollisions
    <3>2. a = b
      BY <2>10, <3>1, SameHash
    <3>3. salt \o p = salt \o q /\ Len(salt) = Len(salt)
      BY <2>3, <2>4, <3>2
    <3>4. QED
      BY <2>2, <3>3, CutAlike
  <2>11. q = p => sha256_hex(a) = sha256_hex(b)
    BY <2>3, <2>4
  <2>12. QED
    BY <2>1, <2>6, <2>9, <2>10, <2>11
<1>2. QED
  BY <1>1, InputPicked, PTL

-----------------------------------------------------------------------------
(***************************************************************************)
(* Strings.                                                                *)
(***************************************************************************)
\* The symbols, and those that the programs put in themselves.
Chars == Symbols \cup Words \cup {"d", "m", ":", "_", "-", "@", " ", "\n"}
Text  == Seq(Chars)

\* ch is nowhere in s.
Lacks(s, ch) == \A i \in 1..Len(s) : s[i] # ch

\* What consists of symbols is text.
LEMMA SymbolsAreText ==
  Symbols \subseteq Chars /\ Seq(Symbols) \subseteq Text /\ Alphabet \in Text
<1>1. PICK S : S = STRING
  OBVIOUS
<1>2. Alphabet \in Seq(S)
  BY <1>1, TextAssumption
<1>3. Len(Alphabet) \in Nat /\ DOMAIN Alphabet = 1..Len(Alphabet)
  BY <1>2
<1>4. PICK A : A = Symbols
  OBVIOUS
<1>5. \A i \in 1..Len(Alphabet) : Alphabet[i] \in A
  BY <1>3, <1>4 DEF Symbols
<1>6. Alphabet \in Seq(A)
  <2>1. Alphabet = [i \in 1..Len(Alphabet) |-> Alphabet[i]]
    BY <1>2, <1>3
  <2>2. QED
    BY <1>3, <1>5, <2>1, SeqDef
<1>7. A \subseteq Chars
  BY <1>4 DEF Chars
<1>8. Seq(A) \subseteq Seq(Chars)
  <2> SUFFICES ASSUME NEW s \in Seq(A) PROVE s \in Seq(Chars)
    OBVIOUS
  <2>1. Len(s) \in Nat /\ s \in [1..Len(s) -> A]
    OBVIOUS
  <2>2. s \in [1..Len(s) -> Chars]
    BY <1>7, <2>1
  <2>3. QED
    BY <2>1, <2>2
<1>9. QED
  BY <1>4, <1>6, <1>7, <1>8 DEF Text

\* The length of a text, and what it holds.
LEMMA TextIs ==
  ASSUME NEW s \in Text
  PROVE  Len(s) \in Nat /\ DOMAIN s = 1..Len(s) /\ \A i \in 1..Len(s) : s[i] \in Chars
  BY DEF Text

\* Two texts of the same symbols are one.
LEMMA SameText ==
  ASSUME NEW a \in Text, NEW b \in Text, Len(a) = Len(b),
         \A i \in 1..Len(a) : a[i] = b[i]
  PROVE  a = b
  BY SeqEqual DEF Text

\* One symbol.
LEMMA OneSymbol ==
  ASSUME NEW c \in Chars
  PROVE  <<c>> \in Text /\ Len(<<c>>) = 1 /\ <<c>>[1] = c
  BY DEF Text

\* Where find() finds a symbol it is, and not before.
LEMMA FindIs ==
  ASSUME NEW s \in Text, NEW ch
  PROVE  \/ find(s, ch) = 0 /\ Lacks(s, ch)
         \/ /\ find(s, ch) \in 1..Len(s) /\ s[find(s, ch)] = ch
            /\ \A i \in 1..Len(s) : i < find(s, ch) => s[i] # ch
<1>1. PICK at : at = {i \in DOMAIN s : s[i] = ch}
  OBVIOUS
<1>2. find(s, ch) = IF at = {} THEN 0 ELSE Min(at)
  BY <1>1 DEF find
<1>3. DOMAIN s = 1..Len(s) /\ Len(s) \in Nat
  BY TextIs
<1>4. CASE at = {}
  BY <1>1, <1>2, <1>3, <1>4 DEF Lacks
<1>5. CASE at # {}
  <2>1. at \in SUBSET Nat
    BY <1>1, <1>3
  <2>2. \E n \in at : \A m \in at : n <= m
    BY <1>5, <2>1, Least
  <2>3. PICK k : k = Min(at)
    OBVIOUS
  <2>4. k \in at /\ \A m \in at : k <= m
    BY <2>2, <2>3 DEF Min
  <2>5. k \in 1..Len(s) /\ s[k] = ch
    BY <1>1, <1>3, <2>4
  <2>6. ASSUME NEW i \in 1..Len(s), i < k PROVE s[i] # ch
    <3>1. i \notin at
      BY <2>4, <2>5, <2>6, <1>3
    <3>2. QED
      BY <1>1, <1>3, <3>1
  <2>7. QED
    BY <1>2, <1>5, <2>3, <2>5, <2>6
<1>6. QED
  BY <1>4, <1>5

\* The first place of a symbol is what find() finds.
LEMMA FindAt ==
  ASSUME NEW s \in Text, NEW ch, NEW k \in 1..Len(s), s[k] = ch,
         \A i \in 1..Len(s) : i < k => s[i] # ch
  PROVE  find(s, ch) = k
<1>1. Len(s) \in Nat
  BY TextIs
<1>2. PICK f : f = find(s, ch)
  OBVIOUS
<1>3. \/ f = 0 /\ \A i \in 1..Len(s) : s[i] # ch
      \/ f \in 1..Len(s) /\ s[f] = ch /\ \A i \in 1..Len(s) : i < f => s[i] # ch
  BY <1>2, FindIs DEF Lacks
<1>4. f \in 1..Len(s) /\ s[f] = ch /\ \A i \in 1..Len(s) : i < f => s[i] # ch
  BY <1>3
<1>5. ~(f < k) /\ ~(k < f)
  BY <1>4
<1>6. QED
  BY <1>1, <1>2, <1>4, <1>5

\* a, then b.
LEMMA TextJoins ==
  ASSUME NEW a \in Text, NEW b \in Text
  PROVE  /\ a \o b \in Text /\ Len(a \o b) = Len(a) + Len(b)
         /\ \A i \in 1..Len(a) : (a \o b)[i] = a[i]
         /\ \A i \in 1..Len(b) : (a \o b)[Len(a) + i] = b[i]
<1>1. PICK S : S = Chars
  OBVIOUS
<1>2. a \in Seq(S) /\ b \in Seq(S)
  BY <1>1 DEF Text
<1>3. /\ a \o b \in Seq(S) /\ Len(a \o b) = Len(a) + Len(b)
      /\ \A i \in 1 .. Len(a) + Len(b) :
           (a \o b)[i] = IF i <= Len(a) THEN a[i] ELSE b[i - Len(a)]
  BY <1>2, ConcatProperties
<1>4. PICK m, n \in Nat : m = Len(a) /\ n = Len(b)
  BY <1>2
<1>5. ASSUME NEW i \in 1..m PROVE (a \o b)[i] = a[i]
  <2>1. i \in 1 .. m + n /\ i <= m
    OBVIOUS
  <2>2. QED
    BY <1>3, <1>4, <2>1
<1>6. ASSUME NEW i \in 1..n PROVE (a \o b)[m + i] = b[i]
  <2>1. m + i \in 1 .. m + n /\ ~(m + i <= m) /\ (m + i) - m = i
    OBVIOUS
  <2>2. QED
    BY <1>3, <1>4, <2>1
<1>7. QED
  BY <1>1, <1>3, <1>4, <1>5, <1>6 DEF Text

\* A part of a text.
LEMMA TextPart ==
  ASSUME NEW s \in Text, NEW p \in Nat \ {0}, NEW q \in Nat, p <= q + 1, q <= Len(s)
  PROVE  /\ SubSeq(s, p, q) \in Text /\ Len(SubSeq(s, p, q)) = q + 1 - p
         /\ \A i \in 1 .. q + 1 - p : SubSeq(s, p, q)[i] = s[p + i - 1]
<1>1. PICK S : S = Chars
  OBVIOUS
<1>2. s \in Seq(S) /\ Len(s) \in Nat
  BY <1>1 DEF Text
<1>3. \A i \in p..q : s[i] \in S
  BY <1>2
<1>4. /\ SubSeq(s, p, q) \in Seq(S)
      /\ Len(SubSeq(s, p, q)) = IF p <= q THEN q - p + 1 ELSE 0
      /\ \A i \in 1 .. q - p + 1 : SubSeq(s, p, q)[i] = s[p + i - 1]
  BY <1>3, SubSeqProperties
<1>5. q - p + 1 = q + 1 - p /\ (~(p <= q) => q + 1 - p = 0)
  OBVIOUS
<1>6. QED
  BY <1>1, <1>4, <1>5 DEF Text

\* a, then the symbol c, then b.
Join(a, c, b) == a \o <<c>> \o b

\* w consists of a, c and b.
Joins(w, a, c, b) ==
  /\ Len(w) = Len(a) + 1 + Len(b) /\ w[Len(a) + 1] = c
  /\ \A i \in 1..Len(a) : w[i] = a[i]
  /\ \A i \in 1..Len(b) : w[Len(a) + 1 + i] = b[i]

\* The symbols of a joined text.
LEMMA JoinIs ==
  ASSUME NEW a \in Text, NEW c \in Chars, NEW b \in Text
  PROVE  /\ Join(a, c, b) \in Text /\ Len(Join(a, c, b)) = Len(a) + 1 + Len(b)
         /\ Len(a) \in Nat /\ Len(b) \in Nat
         /\ \A i \in 1..Len(a) : Join(a, c, b)[i] = a[i]
         /\ Join(a, c, b)[Len(a) + 1] = c
         /\ \A i \in 1..Len(b) : Join(a, c, b)[Len(a) + 1 + i] = b[i]
<1>1. PICK y \in Text : y = <<c>> /\ Len(y) = 1 /\ y[1] = c
  BY OneSymbol
<1>2. PICK m, n \in Nat : m = Len(a) /\ n = Len(b)
  BY TextIs
<1>3. PICK u \in Text : u = a \o y /\ Len(u) = m + 1
                        /\ (\A i \in 1..m : u[i] = a[i]) /\ u[m + 1] = c
  <2>1. /\ a \o y \in Text /\ Len(a \o y) = Len(a) + Len(y)
        /\ \A i \in 1..Len(a) : (a \o y)[i] = a[i]
        /\ \A i \in 1..Len(y) : (a \o y)[Len(a) + i] = y[i]
    BY TextJoins
  <2>2. 1 \in 1..Len(y)
    BY <1>1
  <2>3. (a \o y)[m + 1] = c
    BY <1>1, <1>2, <2>1, <2>2
  <2>4. QED
    BY <1>1, <1>2, <2>1, <2>3
<1>5. /\ u \o b \in Text /\ Len(u \o b) = Len(u) + Len(b)
      /\ \A i \in 1..Len(u) : (u \o b)[i] = u[i]
      /\ \A i \in 1..Len(b) : (u \o b)[Len(u) + i] = b[i]
  BY TextJoins
<1>6. Join(a, c, b) = u \o b
  BY <1>1, <1>3 DEF Join
<1>7. \A i \in 1..m : (u \o b)[i] = a[i]
  <2>1. \A i \in 1..m : i \in 1 .. m + 1
    OBVIOUS
  <2>2. QED
    BY <1>3, <1>5, <2>1
<1>8. (u \o b)[m + 1] = c
  <2>1. m + 1 \in 1 .. m + 1
    OBVIOUS
  <2>2. QED
    BY <1>3, <1>5, <2>1
<1>9. QED
  BY <1>2, <1>3, <1>5, <1>6, <1>7, <1>8

\* Where a symbol that is not in front of it stands, find() finds it.
LEMMA JoinFinds ==
  ASSUME NEW a \in Text, NEW c \in Chars, NEW b \in Text, Lacks(a, c)
  PROVE  find(Join(a, c, b), c) = Len(a) + 1
<1>1. PICK w \in Text : w = Join(a, c, b) /\ Len(w) = Len(a) + 1 + Len(b)
                        /\ w[Len(a) + 1] = c /\ \A i \in 1..Len(a) : w[i] = a[i]
  BY JoinIs
<1>2. PICK m, n \in Nat : m = Len(a) /\ n = Len(b)
  BY TextIs
<1>3. m + 1 \in 1..Len(w)
  BY <1>1, <1>2
<1>4. \A i \in 1..Len(w) : i < m + 1 => w[i] # c
  <2>1. \A i \in 1..Len(w) : i < m + 1 => i \in 1..m
    BY <1>1, <1>2
  <2>2. QED
    BY <1>1, <1>2, <2>1 DEF Lacks
<1>5. find(w, c) = m + 1
  BY <1>1, <1>2, <1>3, <1>4, FindAt
<1>6. QED
  BY <1>1, <1>2, <1>5

\* The parts before and behind the symbol.
LEMMA JoinParts ==
  ASSUME NEW a \in Text, NEW c \in Chars, NEW b \in Text
  PROVE  /\ Before(Join(a, c, b), Len(a) + 1) = a
         /\ From(Join(a, c, b), Len(a) + 2) = b
<1>1. PICK w \in Text : /\ w = Join(a, c, b) /\ Len(w) = Len(a) + 1 + Len(b)
                        /\ \A i \in 1..Len(a) : w[i] = a[i]
                        /\ \A i \in 1..Len(b) : w[Len(a) + 1 + i] = b[i]
  BY JoinIs
<1>2. PICK m, n \in Nat : m = Len(a) /\ n = Len(b)
  BY TextIs
<1>3. Before(w, m + 1) = a
  <2>1. Before(w, m + 1) = SubSeq(w, 1, m)
    <3>1. m + 1 # 0 /\ (m + 1) - 1 = m
      OBVIOUS
    <3>2. QED
      BY <3>1 DEF Before
  <2>2. 1 \in Nat \ {0} /\ 1 <= m + 1 /\ m <= Len(w) /\ m + 1 - 1 = m
        /\ \A i \in 1..m : 1 + i - 1 = i
    BY <1>1, <1>2
  <2>3. /\ SubSeq(w, 1, m) \in Text /\ Len(SubSeq(w, 1, m)) = m
        /\ \A i \in 1..m : SubSeq(w, 1, m)[i] = w[i]
    <3>1. /\ SubSeq(w, 1, m) \in Text /\ Len(SubSeq(w, 1, m)) = m + 1 - 1
          /\ \A i \in 1 .. m + 1 - 1 : SubSeq(w, 1, m)[i] = w[1 + i - 1]
      BY <2>2, TextPart
    <3>2. QED
      BY <2>2, <3>1
  <2>4. SubSeq(w, 1, m) = a
    BY <1>1, <1>2, <2>3, SameText
  <2>5. QED
    BY <2>1, <2>4
<1>4. From(w, m + 2) = b
  <2>1. PICK l \in Nat : l = m + 1 + n /\ l = Len(w)
    BY <1>1, <1>2
  <2>2. m + 2 \in Nat \ {0} /\ m + 2 <= l + 1 /\ l <= Len(w) /\ l + 1 - (m + 2) = n
        /\ \A i \in 1..n : (m + 2) + i - 1 = m + 1 + i
    BY <2>1
  <2>3. /\ SubSeq(w, m + 2, l) \in Text /\ Len(SubSeq(w, m + 2, l)) = n
        /\ \A i \in 1..n : SubSeq(w, m + 2, l)[i] = w[m + 1 + i]
    <3>1. /\ SubSeq(w, m + 2, l) \in Text /\ Len(SubSeq(w, m + 2, l)) = l + 1 - (m + 2)
          /\ \A i \in 1 .. l + 1 - (m + 2) : SubSeq(w, m + 2, l)[i] = w[(m + 2) + i - 1]
      BY <2>2, TextPart
    <3>2. QED
      BY <2>2, <3>1
  <2>4. PICK v \in Text : v = SubSeq(w, m + 2, l) /\ Len(v) = n
                          /\ \A i \in 1..n : v[i] = b[i]
    <3>1. \A i \in 1..n : w[m + 1 + i] = b[i]
      BY <1>1, <1>2
    <3>2. QED
      BY <2>3, <3>1
  <2>5. v = b
    BY <1>2, <2>4, SameText
  <2>6. QED
    BY <2>1, <2>4, <2>5 DEF From
<1>5. QED
  BY <1>1, <1>2, <1>3, <1>4

\* It is a text of these parts.
LEMMA JoinsIts ==
  ASSUME NEW a \in Text, NEW c \in Chars, NEW b \in Text
  PROVE  Join(a, c, b) \in Text /\ Joins(Join(a, c, b), a, c, b)
  BY JoinIs DEF Joins

\* Parts without the symbol can be told from the whole.
LEMMA JoinTellsParts ==
  ASSUME NEW a \in Text, NEW b \in Text, NEW c \in Text, NEW d \in Text, NEW ch \in Chars,
         Lacks(c, ch), Lacks(d, ch), Join(a, ch, b) = Join(c, ch, d)
  PROVE  a = c /\ b = d
<1>1. PICK w \in Text : w = Join(a, ch, b) /\ Joins(w, a, ch, b)
  BY JoinsIts
<1>2. PICK m, n, k, l \in Nat : m = Len(a) /\ n = Len(b) /\ k = Len(c) /\ l = Len(d)
  BY TextIs
<1>3. /\ Len(w) = m + 1 + n /\ w[m + 1] = ch
      /\ \A i \in 1..m : w[i] = a[i]
      /\ \A i \in 1..n : w[m + 1 + i] = b[i]
  BY <1>1, <1>2 DEF Joins
<1>4. /\ Len(w) = k + 1 + l
      /\ \A i \in 1..k : w[i] = c[i]
      /\ \A i \in 1..l : w[k + 1 + i] = d[i]
  <2>1. Joins(w, c, ch, d)
    BY <1>1, JoinsIts
  <2>2. QED
    BY <1>2, <2>1 DEF Joins
<1>5. m = k
  <2>1. ~(m < k)
    <3>1. m < k => m + 1 \in 1..k
      OBVIOUS
    <3>2. QED
      BY <1>2, <1>3, <1>4, <3>1 DEF Lacks
  <2>2. ~(k < m)
    <3>1. k < m => m - k \in 1..l /\ k + 1 + (m - k) = m + 1
      BY <1>3, <1>4
    <3>2. ASSUME k < m PROVE d[m - k] = ch
      BY <1>3, <1>4, <3>1, <3>2
    <3>3. QED
      BY <1>2, <3>1, <3>2 DEF Lacks
  <2>3. QED
    BY <2>1, <2>2
<1>6. n = l
  BY <1>3, <1>4, <1>5
<1>7. a = c
  <2>1. \A i \in 1..m : a[i] = c[i]
    BY <1>3, <1>4, <1>5
  <2>2. QED
    BY <1>2, <1>5, <2>1, SameText
<1>8. b = d
  <2>1. \A i \in 1..n : b[i] = d[i]
    BY <1>3, <1>4, <1>5, <1>6
  <2>2. QED
    BY <1>2, <1>6, <2>1, SameText
<1>9. QED
  BY <1>7, <1>8

-----------------------------------------------------------------------------
(***************************************************************************)
(* The order of strings.                                                   *)
(***************************************************************************)
Code(ch) == find(Alphabet, ch)

\* Different symbols have different codes.
LEMMA CodesDiffer ==
  ASSUME NEW c \in Symbols, NEW d \in Symbols, c # d
  PROVE  Code(c) \in Nat /\ Code(d) \in Nat /\ Code(c) # Code(d)
<1>1. Alphabet \in Text
  BY SymbolsAreText
<1>2. DOMAIN Alphabet = 1..Len(Alphabet) /\ Len(Alphabet) \in Nat
  BY <1>1, TextIs
<1>3. ASSUME NEW ch \in Symbols PROVE Code(ch) \in Nat /\ Alphabet[Code(ch)] = ch
  <2>1. PICK i \in 1..Len(Alphabet) : Alphabet[i] = ch
    BY <1>2 DEF Symbols
  <2>2. ~Lacks(Alphabet, ch)
    BY <2>1 DEF Lacks
  <2>3. find(Alphabet, ch) \in 1..Len(Alphabet) /\ Alphabet[find(Alphabet, ch)] = ch
    BY <1>1, <2>2, FindIs
  <2>4. QED
    BY <1>2, <2>3 DEF Code
<1>4. QED
  BY <1>3

\* The same up to n.
Alike(a, b, n) == \A i \in 1..n : a[i] = b[i]

\* The first n symbols are the same if each of them is.
LEMMA SameBeginning ==
  ASSUME NEW a \in Text, NEW b \in Text, NEW n \in Nat, n <= Len(a), n <= Len(b)
  PROVE  SubSeq(a, 1, n) = SubSeq(b, 1, n) <=> Alike(a, b, n)
<1>1. 1 \in Nat \ {0} /\ 1 <= n + 1 /\ n + 1 - 1 = n /\ \A i \in 1..n : 1 + i - 1 = i
  OBVIOUS
<1>2. ASSUME NEW s \in Text, n <= Len(s)
      PROVE  /\ SubSeq(s, 1, n) \in Text /\ Len(SubSeq(s, 1, n)) = n
             /\ \A i \in 1..n : SubSeq(s, 1, n)[i] = s[i]
  <2>1. /\ SubSeq(s, 1, n) \in Text /\ Len(SubSeq(s, 1, n)) = n + 1 - 1
        /\ \A i \in 1 .. n + 1 - 1 : SubSeq(s, 1, n)[i] = s[1 + i - 1]
    BY <1>1, <1>2, TextPart
  <2>2. QED
    BY <1>1, <2>1
<1>3. PICK u \in Text : u = SubSeq(a, 1, n) /\ Len(u) = n /\ \A i \in 1..n : u[i] = a[i]
  BY <1>2
<1>4. PICK v \in Text : v = SubSeq(b, 1, n) /\ Len(v) = n /\ \A i \in 1..n : v[i] = b[i]
  BY <1>2
<1>5. ASSUME u = v PROVE Alike(a, b, n)
  BY <1>3, <1>4, <1>5 DEF Alike
<1>6. ASSUME Alike(a, b, n) PROVE u = v
  <2>1. \A i \in 1..n : u[i] = v[i]
    BY <1>3, <1>4, <1>6 DEF Alike
  <2>2. QED
    BY <1>3, <1>4, <2>1, SameText
<1>7. QED
  BY <1>3, <1>4, <1>5, <1>6

\* operator< looks at the first n symbols, and at the next ones.
LessAt(a, b, n) ==
  /\ n <= Len(a) /\ n < Len(b) /\ Alike(a, b, n)
  /\ n = Len(a) \/ Code(a[n + 1]) < Code(b[n + 1])

\* It finds such an n.
LEMMA LessIs ==
  ASSUME NEW a \in Text, NEW b \in Text
  PROVE  Less(a, b) <=> \E n \in Nat : LessAt(a, b, n)
<1>1. PICK l \in Nat : l = Len(a)
  BY TextIs
<1>2. Less(a, b) <=> \E n \in 0..Len(a) :
                       /\ n < Len(b)
                       /\ SubSeq(a, 1, n) = SubSeq(b, 1, n)
                       /\ n = Len(a) \/ Code(a[n + 1]) < Code(b[n + 1])
  BY DEF Less, Code
<1>3. \A n : n \in 0..Len(a) <=> n \in Nat /\ n <= Len(a)
  BY <1>1
<1>4. ASSUME NEW n \in Nat, n <= Len(a), n < Len(b)
      PROVE  SubSeq(a, 1, n) = SubSeq(b, 1, n) <=> Alike(a, b, n)
  <2>1. n <= Len(b)
    BY <1>4, TextIs
  <2>2. QED
    BY <1>4, <2>1, SameBeginning
<1>5. QED
  BY <1>2, <1>3, <1>4 DEF LessAt

\* Where two strings first differ decides.
LEMMA LessWhereTheyDiffer ==
  ASSUME NEW a \in Text, NEW b \in Text, NEW k \in Nat, k < Len(a), k < Len(b),
         Alike(a, b, k), a[k + 1] # b[k + 1]
  PROVE  Less(a, b) <=> Code(a[k + 1]) < Code(b[k + 1])
<1>1. PICK m, n \in Nat : m = Len(a) /\ n = Len(b)
  BY TextIs
<1>2. ASSUME Code(a[k + 1]) < Code(b[k + 1]) PROVE Less(a, b)
  <2>1. k <= m
    BY <1>1
  <2>2. LessAt(a, b, k)
    BY <1>1, <1>2, <2>1 DEF LessAt
  <2>3. QED
    BY <2>2, LessIs
<1>3. ASSUME Less(a, b) PROVE Code(a[k + 1]) < Code(b[k + 1])
  <2>1. PICK i \in Nat : LessAt(a, b, i)
    BY <1>3, LessIs
  <2>2. i <= m /\ i < n /\ Alike(a, b, i) /\ (i = m \/ Code(a[i + 1]) < Code(b[i + 1]))
    BY <1>1, <2>1 DEF LessAt
  <2>3. ~(k < i)
    <3>1. k < i => k + 1 \in 1..i
      OBVIOUS
    <3>2. QED
      BY <2>2, <3>1 DEF Alike
  <2>4. ~(i < k)
    <3> SUFFICES ASSUME i < k PROVE FALSE
      OBVIOUS
    <3>1. i + 1 \in 1..k /\ i # m
      BY <1>1
    <3>2. a[i + 1] = b[i + 1]
      BY <3>1 DEF Alike
    <3>3. PICK c : c = Code(a[i + 1])
      OBVIOUS
    <3>4. c < c
      BY <2>2, <3>1, <3>2, <3>3
    <3>5. c \in Int
      <4>1. Alphabet \in Text
        BY SymbolsAreText
      <4>2. c = 0 \/ c \in 1..Len(Alphabet)
        BY <3>3, <4>1, FindIs DEF Code
      <4>3. QED
        BY <4>1, <4>2, TextIs
    <3>6. QED
      BY <3>4, <3>5
  <2>5. i = k
    BY <2>3, <2>4
  <2>6. QED
    BY <1>1, <2>2, <2>5
<1>4. QED
  BY <1>2, <1>3

\* A proper beginning of a string is less than it.
LEMMA LessIfBeginning ==
  ASSUME NEW a \in Text, NEW b \in Text, Len(a) < Len(b), Alike(a, b, Len(a))
  PROVE  Less(a, b) /\ ~Less(b, a)
<1>1. PICK m, n \in Nat : m = Len(a) /\ n = Len(b)
  BY TextIs
<1>2. LessAt(a, b, m)
  BY <1>1 DEF LessAt
<1>3. ASSUME NEW i \in Nat, LessAt(b, a, i) PROVE FALSE
  <2>1. i < m /\ (i = n \/ Code(b[i + 1]) < Code(a[i + 1]))
    BY <1>1, <1>3 DEF LessAt
  <2>2. i + 1 \in 1..m /\ i # n
    BY <1>1, <2>1
  <2>3. a[i + 1] = b[i + 1]
    BY <1>1, <2>2 DEF Alike
  <2>4. PICK c : c = Code(a[i + 1])
    OBVIOUS
  <2>5. c < c
    BY <2>1, <2>2, <2>3, <2>4
  <2>6. c \in Int
    <3>1. Alphabet \in Text
      BY SymbolsAreText
    <3>2. c = 0 \/ c \in 1..Len(Alphabet)
      BY <2>4, <3>1, FindIs DEF Code
    <3>3. QED
      BY <3>1, <3>2, TextIs
  <2>7. QED
    BY <2>5, <2>6
<1>4. QED
  BY <1>2, <1>3, LessIs

\* Two texts are alike up to the end of the shorter, or they differ somewhere first.
LEMMA AlikeOrNot ==
  ASSUME NEW a \in Text, NEW b \in Text, NEW n \in Nat
  PROVE  \/ Alike(a, b, n)
         \/ \E k \in Nat : k < n /\ Alike(a, b, k) /\ a[k + 1] # b[k + 1]
<1>1. PICK D : D = {k \in Nat : k < n /\ a[k + 1] # b[k + 1]}
  OBVIOUS
<1>2. CASE D = {}
  <2>1. ASSUME NEW i \in 1..n PROVE a[i] = b[i]
    <3>1. i - 1 \in Nat /\ i - 1 < n /\ (i - 1) + 1 = i
      OBVIOUS
    <3>2. i - 1 \notin D
      BY <1>2
    <3>3. QED
      BY <1>1, <3>1, <3>2
  <2>2. QED
    BY <2>1 DEF Alike
<1>3. CASE D # {}
  <2>1. D \in SUBSET Nat
    BY <1>1
  <2>2. PICK k \in D : \A m \in D : k <= m
    BY <1>3, <2>1, Least
  <2>3. k \in Nat /\ k < n /\ a[k + 1] # b[k + 1]
    BY <1>1, <2>2
  <2>4. ASSUME NEW i \in 1..k PROVE a[i] = b[i]
    <3>1. i - 1 \in Nat /\ i - 1 < n /\ (i - 1) + 1 = i /\ ~(k <= i - 1)
      BY <2>3
    <3>2. i - 1 \notin D
      BY <2>2, <3>1
    <3>3. QED
      BY <1>1, <3>1, <3>2
  <2>5. QED
    BY <2>3, <2>4 DEF Alike
<1>4. QED
  BY <1>2, <1>3

\* Of two different strings exactly one is less than the other.
LEMMA LessIsTotal ==
  ASSUME NEW a \in Seq(Symbols), NEW b \in Seq(Symbols), a # b
  PROVE  Less(a, b) <=> ~Less(b, a)
<1>1. a \in Text /\ b \in Text
  BY SymbolsAreText
<1>2. PICK m, n \in Nat : m = Len(a) /\ n = Len(b)
  BY <1>1, TextIs
<1>3. ASSUME NEW k \in Nat, k < m, k < n, Alike(a, b, k), a[k + 1] # b[k + 1]
      PROVE  Less(a, b) <=> ~Less(b, a)
  <2>1. a[k + 1] \in Symbols /\ b[k + 1] \in Symbols
    <3>1. k + 1 \in 1..Len(a) /\ k + 1 \in 1..Len(b)
      BY <1>2, <1>3
    <3>2. QED
      BY <3>1
  <2>2. PICK c, d \in Nat : c = Code(a[k + 1]) /\ d = Code(b[k + 1]) /\ c # d
    BY <1>3, <2>1, CodesDiffer
  <2>3. Less(a, b) <=> c < d
    BY <1>1, <1>2, <1>3, <2>2, LessWhereTheyDiffer
  <2>4. Alike(b, a, k)
    BY <1>3 DEF Alike
  <2>5. Less(b, a) <=> d < c
    BY <1>1, <1>2, <1>3, <2>2, <2>4, LessWhereTheyDiffer
  <2>6. QED
    BY <2>2, <2>3, <2>5
<1>4. CASE m < n
  <2>1. CASE Alike(a, b, m)
    BY <1>1, <1>2, <1>4, <2>1, LessIfBeginning
  <2>2. CASE ~Alike(a, b, m)
    <3>1. PICK k \in Nat : k < m /\ Alike(a, b, k) /\ a[k + 1] # b[k + 1]
      BY <1>1, <2>2, AlikeOrNot
    <3>2. k < n
      BY <1>4, <3>1
    <3>3. QED
      BY <1>3, <3>1, <3>2
  <2>3. QED
    BY <2>1, <2>2
<1>5. CASE n < m
  <2>1. CASE Alike(b, a, n)
    BY <1>1, <1>2, <1>5, <2>1, LessIfBeginning
  <2>2. CASE ~Alike(b, a, n)
    <3>1. ~Alike(a, b, n)
      BY <2>2 DEF Alike
    <3>2. PICK k \in Nat : k < n /\ Alike(a, b, k) /\ a[k + 1] # b[k + 1]
      BY <1>1, <3>1, AlikeOrNot
    <3>3. k < m
      BY <1>5, <3>2
    <3>4. QED
      BY <1>3, <3>2, <3>3
  <2>3. QED
    BY <2>1, <2>2
<1>6. CASE m = n
  <2>1. ~Alike(a, b, m)
    BY <1>1, <1>2, <1>6, SameText DEF Alike
  <2>2. PICK k \in Nat : k < m /\ Alike(a, b, k) /\ a[k + 1] # b[k + 1]
    BY <1>1, <2>1, AlikeOrNot
  <2>3. QED
    BY <1>3, <1>6, <2>2
<1>7. QED
  BY <1>4, <1>5, <1>6

-----------------------------------------------------------------------------
(***************************************************************************)
(* Keys of threads.                                                        *)
(***************************************************************************)
KeyFront == <<"d", "m", ":">>

\* A name is a text without a colon.
LEMMA NamesAreText ==
  ASSUME NEW name \in Names
  PROVE  name \in Seq(Symbols) /\ name \in Text /\ Lacks(name, ":")
<1>1. name \in Seq(Symbols) /\ \A i \in DOMAIN name : name[i] \in NameChars
  BY TextInput DEF valid_username
<1>2. name \in Text
  BY <1>1, SymbolsAreText
<1>3. ":" \notin NameChars
  BY TextAssumption DEF NameChars
<1>4. QED
  BY <1>1, <1>2, <1>3, TextIs DEF Lacks

\* What stands behind the front of a key.
LEMMA BehindFront ==
  ASSUME NEW w \in Text
  PROVE  /\ KeyFront \o w \in Text /\ Len(KeyFront \o w) = 3 + Len(w)
         /\ looks_direct(KeyFront \o w) /\ From(KeyFront \o w, 4) = w
<1>1. PICK f \in Text : f = KeyFront /\ Len(f) = 3
  <2>1. "d" \in Chars /\ "m" \in Chars /\ ":" \in Chars
    BY DEF Chars
  <2>2. PICK S : S = Chars
    OBVIOUS
  <2>3. PICK d, m, c \in S : d = "d" /\ m = "m" /\ c = ":"
    BY <2>1, <2>2
  <2>4. <<d, m, c>> \in Seq(S) /\ Len(<<d, m, c>>) = 3
    OBVIOUS
  <2>5. QED
    BY <2>2, <2>3, <2>4 DEF KeyFront, Text
<1>2. PICK n \in Nat : n = Len(w)
  BY TextIs
<1>3. PICK t \in Text : /\ t = f \o w /\ Len(t) = 3 + n
                        /\ \A i \in 1..3 : t[i] = f[i]
                        /\ \A i \in 1..n : t[3 + i] = w[i]
  <2>1. /\ f \o w \in Text /\ Len(f \o w) = Len(f) + Len(w)
        /\ \A i \in 1..Len(f) : (f \o w)[i] = f[i]
        /\ \A i \in 1..Len(w) : (f \o w)[Len(f) + i] = w[i]
    BY TextJoins
  <2>2. Len(f \o w) = 3 + n /\ \A i \in 1..3 : (f \o w)[i] = f[i]
    BY <1>1, <1>2, <2>1
  <2>3. \A i \in 1..n : (f \o w)[3 + i] = w[i]
    BY <1>1, <1>2, <2>1
  <2>4. PICK t : t = f \o w
    OBVIOUS
  <2>5. QED
    BY <2>1, <2>2, <2>3, <2>4
<1>4. SubSeq(t, 1, 3) = f
  <2>1. 1 \in Nat \ {0} /\ 3 \in Nat /\ 1 <= 3 + 1 /\ 3 <= Len(t) /\ 3 + 1 - 1 = 3
        /\ \A i \in 1..3 : 1 + i - 1 = i
    BY <1>3
  <2>2. /\ SubSeq(t, 1, 3) \in Text /\ Len(SubSeq(t, 1, 3)) = 3 + 1 - 1
        /\ \A i \in 1 .. 3 + 1 - 1 : SubSeq(t, 1, 3)[i] = t[1 + i - 1]
    BY <2>1, TextPart
  <2>3. PICK v \in Text : v = SubSeq(t, 1, 3) /\ Len(v) = 3 /\ \A i \in 1..3 : v[i] = f[i]
    <3>1. \A i \in 1..3 : SubSeq(t, 1, 3)[i] = f[i]
      BY <1>3, <2>1, <2>2
    <3>2. QED
      BY <2>1, <2>2, <3>1
  <2>4. v = f
    BY <1>1, <2>3, SameText
  <2>5. QED
    BY <2>3, <2>4
<1>5. SubSeq(t, 4, 3 + n) = w
  <2>1. 4 \in Nat \ {0} /\ 3 + n \in Nat /\ 4 <= (3 + n) + 1 /\ 3 + n <= Len(t)
        /\ (3 + n) + 1 - 4 = n /\ \A i \in 1..n : 4 + i - 1 = 3 + i
    BY <1>3
  <2>2. /\ SubSeq(t, 4, 3 + n) \in Text /\ Len(SubSeq(t, 4, 3 + n)) = (3 + n) + 1 - 4
        /\ \A i \in 1 .. (3 + n) + 1 - 4 : SubSeq(t, 4, 3 + n)[i] = t[4 + i - 1]
    BY <2>1, TextPart
  <2>3. PICK v \in Text : v = SubSeq(t, 4, 3 + n) /\ Len(v) = n /\ \A i \in 1..n : v[i] = w[i]
    <3>1. \A i \in 1..n : SubSeq(t, 4, 3 + n)[i] = w[i]
      BY <1>3, <2>1, <2>2
    <3>2. QED
      BY <2>1, <2>2, <3>1
  <2>4. v = w
    BY <1>2, <2>3, SameText
  <2>5. QED
    BY <2>3, <2>4
<1>6. looks_direct(t)
  <2>1. 3 + n >= 3
    OBVIOUS
  <2>2. QED
    BY <1>1, <1>3, <1>4, <2>1 DEF looks_direct, KeyFront
<1>7. From(t, 4) = w
  BY <1>3, <1>5 DEF From
<1>8. QED
  BY <1>1, <1>2, <1>3, <1>6, <1>7

\* k is the key of u and v in this order.
IsKey(k, u, v) == k = KeyFront \o Join(u, ":", v)

\* A key is made of its users in one of the two orders.
LEMMA KeyIs ==
  ASSUME NEW a, NEW b
  PROVE  /\ Less(a, b)  => IsKey(dm_room_key(a, b), a, b)
         /\ ~Less(a, b) => IsKey(dm_room_key(a, b), b, a)
<1>1. CASE Less(a, b)
  BY <1>1 DEF dm_room_key, IsKey, Join, KeyFront
<1>2. CASE ~Less(a, b)
  BY <1>2 DEF dm_room_key, IsKey, Join, KeyFront
<1>3. QED
  BY <1>1, <1>2

\* The names in a key can be told from it, even if the other one was made of any
\* two texts.
LEMMA KeyTellsNames ==
  ASSUME NEW k, NEW a \in Text, NEW b \in Text, NEW c \in Text, NEW d \in Text,
         Lacks(c, ":"), Lacks(d, ":"), IsKey(k, a, b), IsKey(k, c, d)
  PROVE  a = c /\ b = d
<1>1. ":" \in Chars
  BY DEF Chars
<1>2. PICK v \in Text : v = Join(a, ":", b)
  BY <1>1, JoinsIts
<1>3. PICK w \in Text : w = Join(c, ":", d)
  BY <1>1, JoinsIts
<1>4. k = KeyFront \o v /\ k = KeyFront \o w
  BY <1>2, <1>3 DEF IsKey
<1>5. v = From(k, 4) /\ w = From(k, 4)
  BY <1>4, BehindFront
<1>6. QED
  BY <1>1, <1>2, <1>3, <1>5, JoinTellsParts

\* The client finds the names in a key, the other one for each of the two.
LEMMA OthersIn ==
  ASSUME NEW k, NEW u \in Text, NEW v \in Text, Lacks(u, ":"), IsKey(k, u, v)
  PROVE  looks_direct(k) /\ other(k, u) = v /\ other(k, v) = u
<1>1. ":" \in Chars
  BY DEF Chars
<1>2. PICK w \in Text : w = Join(u, ":", v)
  BY <1>1, JoinsIts
<1>3. looks_direct(k) /\ From(k, 4) = w
  BY <1>2, BehindFront DEF IsKey
<1>4. PICK n \in Nat : n = Len(u)
  BY TextIs
<1>5. find(w, ":") = n + 1 /\ n + 1 # 0 /\ (n + 1) + 1 = n + 2
  BY <1>1, <1>2, <1>4, JoinFinds
<1>6. Before(w, n + 1) = u /\ From(w, n + 2) = v
  BY <1>1, <1>2, <1>4, JoinParts
<1>7. \A me : other(k, me) = IF u = me THEN v ELSE u
  BY <1>3, <1>5, <1>6 DEF other
<1>8. QED
  BY <1>3, <1>7

\* dm_room_key: two users have one key whoever writes, and no other two users have
\* the same, whatever the names.
THEOREM ThreadKeys == Spec => []OneKeyPerPair
<1>1. InputInv => OneKeyPerPair
  <2> SUFFICES ASSUME InputInv, Given("users")
               PROVE  /\ dm_room_key(x[1], x[2]) = dm_room_key(x[2], x[1])
                      /\ \A c, d \in Names :
                           dm_room_key(c, d) = dm_room_key(x[1], x[2])
                             => {c, d} = {x[1], x[2]}
    BY DEF OneKeyPerPair
  <2>1. PICK a, b \in Names : a = x[1] /\ b = x[2]
    BY DEF InputInv, x
  <2>2. dm_room_key(a, b) = dm_room_key(b, a)
    <3>1. CASE a = b
      BY <3>1
    <3>2. CASE a # b
      <4>1. Less(a, b) <=> ~Less(b, a)
        BY <3>2, NamesAreText, LessIsTotal
      <4>2. QED
        BY <4>1, KeyIs DEF IsKey
    <3>3. QED
      BY <3>1, <3>2
  <2>3. ASSUME NEW c \in Names, NEW d \in Names, dm_room_key(c, d) = dm_room_key(a, b)
        PROVE  {c, d} = {a, b}
    <3>1. PICK k : k = dm_room_key(a, b)
      OBVIOUS
    <3>2. IsKey(k, a, b) \/ IsKey(k, b, a)
      BY <3>1, KeyIs
    <3>3. IsKey(k, c, d) \/ IsKey(k, d, c)
      BY <2>3, <3>1, KeyIs
    <3>4. /\ a \in Text /\ b \in Text /\ c \in Text /\ d \in Text
          /\ Lacks(c, ":") /\ Lacks(d, ":")
      BY NamesAreText
    <3>5. (a = c /\ b = d) \/ (a = d /\ b = c)
      <4>1. CASE IsKey(k, a, b) /\ IsKey(k, c, d)
        BY <3>4, <4>1, KeyTellsNames
      <4>2. CASE IsKey(k, a, b) /\ IsKey(k, d, c)
        BY <3>4, <4>2, KeyTellsNames
      <4>3. CASE IsKey(k, b, a) /\ IsKey(k, c, d)
        BY <3>4, <4>3, KeyTellsNames
      <4>4. CASE IsKey(k, b, a) /\ IsKey(k, d, c)
        BY <3>4, <4>4, KeyTellsNames
      <4>5. QED
        BY <3>2, <3>3, <4>1, <4>2, <4>3, <4>4
    <3>6. QED
      BY <3>5
  <2>4. QED
    BY <2>1, <2>2, <2>3
<1>2. QED
  BY <1>1, InputPicked, PTL

\* print_chat_message: each of the two users of a thread sees the other's name on
\* it, whatever the names.
THEOREM ThreadLabels == Spec => []LabelNamesOther
<1>1. InputInv => LabelNamesOther
  <2> SUFFICES ASSUME InputInv, Given("users")
               PROVE  LET key == dm_room_key(x[1], x[2])
                      IN  /\ looks_direct(key) /\ other(key, x[1]) = x[2]
                          /\ other(key, x[2]) = x[1]
    BY DEF LabelNamesOther
  <2>1. PICK a, b \in Names : a = x[1] /\ b = x[2]
    BY DEF InputInv, x
  <2>2. PICK k : k = dm_room_key(a, b)
    OBVIOUS
  <2>3. IsKey(k, a, b) \/ IsKey(k, b, a)
    BY <2>2, KeyIs
  <2>4. a \in Text /\ b \in Text /\ Lacks(a, ":") /\ Lacks(b, ":")
    BY NamesAreText
  <2>5. looks_direct(k) /\ other(k, a) = b /\ other(k, b) = a
    <3>1. CASE IsKey(k, a, b)
      BY <2>4, <3>1, OthersIn
    <3>2. CASE IsKey(k, b, a)
      BY <2>4, <3>2, OthersIn
    <3>3. QED
      BY <2>3, <3>1, <3>2
  <2>6. QED
    BY <2>1, <2>2, <2>5
<1>2. QED
  BY <1>1, InputPicked, PTL

-----------------------------------------------------------------------------
(***************************************************************************)
(* Blanks.                                                                 *)
(***************************************************************************)
\* A set of numbers with a bound has a greatest one.
LEMMA Greatest ==
  ASSUME NEW n \in Nat, NEW T \in SUBSET (1..n), T # {}
  PROVE  \E k \in T : \A m \in T : m <= k
<1>1. PICK U : U = {k \in Nat : \A m \in T : m <= k}
  OBVIOUS
<1>2. n \in U
  BY <1>1
<1>3. U \in SUBSET Nat
  BY <1>1
<1>4. PICK k \in U : \A j \in U : k <= j
  BY <1>2, <1>3, Least
<1>5. k \in Nat /\ \A m \in T : m <= k
  BY <1>1, <1>4
<1>6. ASSUME k \notin T PROVE FALSE
  <2>1. \A m \in T : m \in 1..n /\ m <= k /\ m # k
    BY <1>5, <1>6
  <2>2. \A m \in T : m <= k - 1
    BY <1>5, <2>1
  <2>3. k - 1 \in Nat
    <3>1. PICK m \in T : TRUE
      OBVIOUS
    <3>2. m \in 1..n /\ m <= k
      BY <2>1
    <3>3. QED
      BY <1>5, <3>2
  <2>4. k - 1 \in U
    BY <1>1, <2>2, <2>3
  <2>5. QED
    BY <1>4, <1>5, <2>4
<1>7. QED
  BY <1>5, <1>6

\* p and q are the places of the first and the last symbol that is no blank.
Hull(s, p, q) ==
  /\ p \in 1..Len(s) /\ q \in 1..Len(s) /\ p <= q
  /\ s[p] \notin Blank /\ s[q] \notin Blank
  /\ \A i \in 1..Len(s) : (i < p \/ q < i) => s[i] \in Blank

AllBlank(s) == \A i \in 1..Len(s) : s[i] \in Blank

\* trim() leaves what is between them.
LEMMA TrimHull ==
  ASSUME NEW s \in Text, NEW p, NEW q, Hull(s, p, q)
  PROVE  trim(s) = SubSeq(s, p, q)
<1>1. PICK keep : keep = {i \in DOMAIN s : s[i] \notin Blank}
  OBVIOUS
<1>2. DOMAIN s = 1..Len(s) /\ Len(s) \in Nat
  BY TextIs
<1>3. p \in keep /\ q \in keep
  BY <1>1, <1>2 DEF Hull
<1>4. \A i \in keep : i \in Nat /\ p <= i /\ i <= q
  BY <1>1, <1>2 DEF Hull
<1>5. Min(keep) = p
  <2>1. PICK k : k = Min(keep)
    OBVIOUS
  <2>2. k \in keep /\ \A m \in keep : k <= m
    BY <1>3, <1>4, <2>1 DEF Min
  <2>3. k <= p /\ p <= k /\ k \in Nat /\ p \in Nat
    BY <1>3, <1>4, <2>2
  <2>4. QED
    BY <2>1, <2>3
<1>6. Max(keep) = q
  <2>1. PICK k : k = Max(keep)
    OBVIOUS
  <2>2. \E m \in keep : \A j \in keep : m >= j
    BY <1>3, <1>4
  <2>3. k \in keep /\ \A m \in keep : k >= m
    BY <2>1, <2>2 DEF Max
  <2>4. k <= q /\ k >= q /\ k \in Nat /\ q \in Nat
    BY <1>3, <1>4, <2>3
  <2>5. QED
    BY <2>1, <2>4
<1>7. trim(s) = IF keep = {} THEN <<>> ELSE SubSeq(s, Min(keep), Max(keep))
  BY <1>1 DEF trim
<1>8. QED
  BY <1>3, <1>5, <1>6, <1>7

\* It leaves nothing of blanks.
LEMMA TrimBlanks ==
  ASSUME NEW s \in Text, AllBlank(s)
  PROVE  trim(s) = <<>>
  BY TextIs DEF trim, AllBlank

\* There are only blanks, or there is a first and a last other symbol.
LEMMA BlankOrHull ==
  ASSUME NEW s \in Text
  PROVE  AllBlank(s) \/ \E p, q : Hull(s, p, q)
<1>1. PICK n \in Nat : n = Len(s)
  BY TextIs
<1>2. PICK keep : keep = {i \in 1..n : s[i] \notin Blank}
  OBVIOUS
<1>3. CASE keep = {}
  BY <1>1, <1>2, <1>3 DEF AllBlank
<1>4. CASE keep # {}
  <2>1. keep \in SUBSET Nat /\ keep \in SUBSET (1..n)
    BY <1>2
  <2>2. PICK p \in keep : \A m \in keep : p <= m
    BY <1>4, <2>1, Least
  <2>3. PICK q \in keep : \A m \in keep : m <= q
    BY <1>4, <2>1, Greatest
  <2>4. p \in 1..n /\ q \in 1..n /\ s[p] \notin Blank /\ s[q] \notin Blank /\ p <= q
    BY <1>2, <2>2, <2>3
  <2>5. ASSUME NEW i \in 1..n, i < p \/ q < i PROVE s[i] \in Blank
    <3>1. i \notin keep
      BY <2>2, <2>3, <2>4, <2>5
    <3>2. QED
      BY <1>2, <3>1
  <2>6. Hull(s, p, q)
    BY <1>1, <2>4, <2>5 DEF Hull
  <2>7. QED
    BY <2>6
<1>5. QED
  BY <1>3, <1>4

\* No blank at either end.
Tight(t) == t = <<>> \/ (Len(t) >= 1 /\ t[1] \notin Blank /\ t[Len(t)] \notin Blank)

\* t is a part of s.
PartOf(t, s) == \A ch : Lacks(s, ch) => Lacks(t, ch)

\* What is left has no blank at its ends, and is a part of what was there.
LEMMA TrimIs ==
  ASSUME NEW s \in Text
  PROVE  trim(s) \in Text /\ Tight(trim(s)) /\ PartOf(trim(s), s)
<1>1. CASE AllBlank(s)
  <2>1. trim(s) = <<>>
    BY <1>1, TrimBlanks
  <2>2. <<>> \in Text /\ Len(<<>>) = 0
    BY DEF Text
  <2>3. QED
    BY <2>1, <2>2 DEF Tight, PartOf, Lacks
<1>2. CASE ~AllBlank(s)
  <2>1. PICK p, q : Hull(s, p, q)
    BY <1>2, BlankOrHull
  <2>2. PICK n \in Nat : n = Len(s)
    BY TextIs
  <2>3. p \in 1..n /\ q \in 1..n /\ p <= q /\ s[p] \notin Blank /\ s[q] \notin Blank
    BY <2>1, <2>2 DEF Hull
  <2>4. PICK t : t = SubSeq(s, p, q)
    OBVIOUS
  <2>5. p \in Nat \ {0} /\ q \in Nat /\ p <= q + 1 /\ q <= Len(s)
    BY <2>2, <2>3
  <2>6. t \in Text /\ Len(t) = q + 1 - p /\ \A i \in 1 .. q + 1 - p : t[i] = s[p + i - 1]
    BY <2>4, <2>5, TextPart
  <2>7. q + 1 - p \in Nat /\ q + 1 - p >= 1 /\ p + 1 - 1 = p /\ p + (q + 1 - p) - 1 = q
        /\ 1 \in 1 .. q + 1 - p /\ q + 1 - p \in 1 .. q + 1 - p
    BY <2>3
  <2>8. t[1] = s[p] /\ t[Len(t)] = s[q]
    BY <2>6, <2>7
  <2>9. Tight(t)
    BY <2>3, <2>6, <2>7, <2>8 DEF Tight
  <2>10. PartOf(t, s)
    <3>1. \A i \in 1..Len(t) : p + i - 1 \in 1..Len(s) /\ t[i] = s[p + i - 1]
      BY <2>2, <2>3, <2>6
    <3>2. QED
      BY <3>1 DEF PartOf, Lacks
  <2>11. trim(s) = t
    BY <2>1, <2>4, TrimHull
  <2>12. QED
    BY <2>6, <2>9, <2>10, <2>11
<1>3. QED
  BY <1>1, <1>2

\* It changes nothing in what has no blank at its ends.
LEMMA TrimTight ==
  ASSUME NEW t \in Text, Tight(t)
  PROVE  trim(t) = t
<1>1. CASE t = <<>>
  <2>1. AllBlank(t)
    BY <1>1 DEF AllBlank
  <2>2. QED
    BY <1>1, <2>1, TrimBlanks
<1>2. CASE t # <<>>
  <2>1. PICK n \in Nat : n = Len(t)
    BY TextIs
  <2>2. n >= 1 /\ t[1] \notin Blank /\ t[n] \notin Blank
    BY <1>2, <2>1 DEF Tight
  <2>3. Hull(t, 1, n)
    BY <2>1, <2>2 DEF Hull
  <2>4. trim(t) = SubSeq(t, 1, n)
    BY <2>3, TrimHull
  <2>5. SubSeq(t, 1, n) = t
    BY <2>1, SubSeqFull DEF Text
  <2>6. QED
    BY <2>4, <2>5
<1>3. QED
  BY <1>1, <1>2

\* Name and password reach handle_auth as they were typed, but for blanks around
\* the name, whatever they are.
THEOREM CredentialsComeThrough == Spec => []CredentialsArrive
<1>1. InputInv => CredentialsArrive
  <2> SUFFICES ASSUME InputInv, Given("credentials")
               PROVE  server_credentials(client_credentials(x[1], x[2]))
                        = [ok |-> TRUE, username |-> trim(x[1]), password |-> x[2]]
    BY DEF CredentialsArrive
  <2>1. PICK a, b \in Fields : a = x[1] /\ b = x[2]
    BY DEF InputInv, x
  <2>2. a \in Text /\ b \in Text /\ find(a, "\n") = 0
    BY TextInput, SymbolsAreText
  <2>3. Lacks(a, "\n")
    <3>1. Len(a) \in Nat
      BY <2>2, TextIs
    <3>2. QED
      BY <2>2, <3>1, FindIs
  <2>4. PICK t \in Text : t = trim(a) /\ Tight(t) /\ Lacks(t, "\n")
    BY <2>2, <2>3, TrimIs DEF PartOf
  <2>5. "\n" \in Chars
    BY DEF Chars
  <2>6. PICK w \in Text : w = Join(t, "\n", b)
    BY <2>2, <2>5, JoinsIts
  <2>7. client_credentials(a, b) = w
    BY <2>4, <2>6 DEF client_credentials, Join
  <2>8. PICK n \in Nat : n = Len(t)
    BY TextIs
  <2>9. find(w, "\n") = n + 1 /\ n + 1 # 0 /\ (n + 1) + 1 = n + 2
    BY <2>2, <2>4, <2>5, <2>6, <2>8, JoinFinds
  <2>10. Before(w, n + 1) = t /\ From(w, n + 2) = b
    BY <2>2, <2>5, <2>6, <2>8, JoinParts
  <2>11. server_credentials(w) = [ok |-> TRUE, username |-> trim(t), password |-> b]
    BY <2>9, <2>10 DEF server_credentials
  <2>12. QED
    BY <2>1, <2>4, <2>7, <2>11, TrimTight
<1>2. QED
  BY <1>1, InputPicked, PTL

-----------------------------------------------------------------------------
(***************************************************************************)
(* Rooms.                                                                  *)
(***************************************************************************)
RoomChars == NameChars \cup {" "}

\* What a room may consist of.
Clean(r) == \A i \in 1..Len(r) : r[i] \in RoomChars

\* None of it is a colon or another blank than a space.
LEMMA RoomCharsAre ==
  /\ ":" \notin RoomChars /\ "_" \in RoomChars
  /\ \A c \in RoomChars : c \in Blank => c = " "
  /\ RoomChars \subseteq Chars
<1>1. Alnum \cap {" ", "\t", "\r", "\n", ":", "@"} = {} /\ Alnum \subseteq Symbols
  BY TextAssumption
<1>2. QED
  BY <1>1, SymbolsAreText DEF RoomChars, NameChars, Blank, Chars

\* The part of a text that a room's name is made of, and the name.
CutOf(s) == SubSeq(s, 1, IF Len(s) > RoomMax THEN RoomMax ELSE Len(s))
Cleaned(s) == [i \in DOMAIN s |-> IF s[i] \in RoomChars THEN s[i] ELSE "_"]

\* sanitize_room makes the one of the other.
LEMMA SanitizeIs ==
  ASSUME NEW s
  PROVE  sanitize_room(s) = Cleaned(CutOf(trim(s)))
  BY DEF sanitize_room, Cleaned, CutOf, RoomChars

\* The cut has a length between none and the limit.
LEMMA CutIs ==
  ASSUME NEW t \in Text
  PROVE  /\ CutOf(t) \in Text /\ Len(CutOf(t)) <= RoomMax
         /\ Len(t) <= RoomMax => CutOf(t) = t
         /\ ~(Len(t) <= RoomMax) => Len(CutOf(t)) = RoomMax
         /\ \A i \in 1..Len(CutOf(t)) : i \in 1..Len(t) /\ CutOf(t)[i] = t[i]
<1>1. PICK m, n \in Nat : m = Len(t) /\ n = RoomMax
  BY TextIs, TextAssumption
<1>2. PICK l \in Nat : l = IF m > n THEN n ELSE m
  OBVIOUS
<1>3. l <= m /\ l <= n /\ (m <= n => l = m) /\ (~(m <= n) => l = n)
  BY <1>2
<1>4. PICK c : c = SubSeq(t, 1, l)
  OBVIOUS
<1>5. 1 \in Nat \ {0} /\ 1 <= l + 1 /\ l <= Len(t) /\ l + 1 - 1 = l
      /\ \A i \in 1..l : 1 + i - 1 = i
  BY <1>1, <1>3
<1>6. c \in Text /\ Len(c) = l /\ \A i \in 1..l : c[i] = t[i]
  <2>1. c \in Text /\ Len(c) = l + 1 - 1 /\ \A i \in 1 .. l + 1 - 1 : c[i] = t[1 + i - 1]
    BY <1>4, <1>5, TextPart
  <2>2. QED
    BY <1>5, <2>1
<1>7. c = CutOf(t)
  BY <1>1, <1>2, <1>4 DEF CutOf
<1>8. m <= n => c = t
  <2>1. SubSeq(t, 1, m) = t
    BY <1>1, SubSeqFull DEF Text
  <2>2. QED
    BY <1>3, <1>4, <2>1
<1>9. \A i \in 1..l : i \in 1..m
  BY <1>3
<1>10. QED
  BY <1>1, <1>3, <1>6, <1>7, <1>8, <1>9

\* Cleaning keeps the length and what is clean.
LEMMA CleanedIs ==
  ASSUME NEW c \in Text
  PROVE  /\ Cleaned(c) \in Text /\ Len(Cleaned(c)) = Len(c) /\ Clean(Cleaned(c))
         /\ \A i \in 1..Len(c) :
              Cleaned(c)[i] = IF c[i] \in RoomChars THEN c[i] ELSE "_"
<1>1. PICK n \in Nat : n = Len(c) /\ DOMAIN c = 1..n
  BY TextIs
<1>2. PICK r : r = Cleaned(c)
  OBVIOUS
<1>3. r = [i \in 1..n |-> IF c[i] \in RoomChars THEN c[i] ELSE "_"]
  BY <1>1, <1>2 DEF Cleaned
<1>4. \A i \in 1..n : r[i] = IF c[i] \in RoomChars THEN c[i] ELSE "_"
  BY <1>3
<1>5. \A i \in 1..n : r[i] \in RoomChars
  BY <1>4, RoomCharsAre
<1>6. r \in [1..n -> Chars]
  <2>1. \A i \in 1..n : r[i] \in Chars
    BY <1>5, RoomCharsAre
  <2>2. QED
    BY <1>3, <2>1
<1>7. r \in Text /\ Len(r) = n
  BY <1>6 DEF Text
<1>8. QED
  BY <1>1, <1>2, <1>4, <1>5, <1>7 DEF Clean

\* What is clean stays as it is.
LEMMA CleanStays ==
  ASSUME NEW c \in Text, Clean(c)
  PROVE  Cleaned(c) = c
<1>1. PICK r \in Text : r = Cleaned(c) /\ Len(r) = Len(c)
                        /\ \A i \in 1..Len(c) : r[i] = IF c[i] \in RoomChars THEN c[i] ELSE "_"
  BY CleanedIs
<1>2. \A i \in 1..Len(r) : r[i] = c[i]
  BY <1>1 DEF Clean
<1>3. QED
  BY <1>1, <1>2, SameText

\* The name of a room.
LEMMA RoomIs ==
  ASSUME NEW s \in Text
  PROVE  sanitize_room(s) \in Text /\ Clean(sanitize_room(s)) /\ Len(sanitize_room(s)) <= RoomMax
<1>1. trim(s) \in Text
  BY TrimIs
<1>2. PICK c \in Text : c = CutOf(trim(s)) /\ Len(c) <= RoomMax
  BY <1>1, CutIs
<1>3. QED
  BY <1>2, CleanedIs, SanitizeIs

\* It has no blank at its ends, unless it was cut right behind one.
LEMMA RoomIsTight ==
  ASSUME NEW s \in Text
  PROVE  \/ Tight(sanitize_room(s))
         \/ Len(sanitize_room(s)) = RoomMax /\ sanitize_room(s)[RoomMax] = " "
<1>1. PICK t \in Text : t = trim(s) /\ Tight(t)
  BY TrimIs
<1>2. PICK c \in Text : c = CutOf(t)
  BY CutIs
<1>3. PICK r \in Text : /\ r = sanitize_room(s) /\ Len(r) = Len(c) /\ Clean(r)
                        /\ \A i \in 1..Len(c) :
                             r[i] = IF c[i] \in RoomChars THEN c[i] ELSE "_"
  <2>1. sanitize_room(s) = Cleaned(c)
    BY <1>1, <1>2, SanitizeIs
  <2>2. QED
    BY <2>1, CleanedIs
<1>4. PICK l, m, n \in Nat : l = Len(c) /\ m = Len(t) /\ n = RoomMax
  BY TextIs, TextAssumption
<1>5. /\ (m <= n => c = t) /\ (~(m <= n) => l = n)
      /\ \A i \in 1..l : i \in 1..m /\ c[i] = t[i]
  BY <1>2, <1>4, CutIs
<1>6. CASE l = 0
  <2>1. r = <<>>
    BY <1>3, <1>4, <1>6, EmptySeq DEF Text
  <2>2. QED
    BY <1>3, <2>1 DEF Tight
<1>7. CASE l # 0
  <2>1. 1 \in 1..l /\ l \in 1..l /\ l >= 1
    BY <1>7
  <2>2. m >= 1 /\ m \in Nat
    BY <1>5, <2>1
  <2>3. t[1] \notin Blank /\ t[m] \notin Blank
    <3>1. t # <<>>
      BY <1>4, <2>2
    <3>2. QED
      BY <1>1, <1>4, <3>1 DEF Tight
  <2>4. \A i \in 1..l : c[i] \notin Blank => r[i] \notin Blank
    <3>1. "_" \notin Blank
      BY DEF Blank
    <3>2. QED
      BY <1>3, <1>4, <3>1
  <2>5. r[1] \notin Blank
    BY <1>5, <2>1, <2>3, <2>4
  <2>6. CASE m <= n
    <3>1. l = m /\ c = t
      BY <1>4, <1>5, <2>6
    <3>2. r[l] \notin Blank
      BY <2>1, <2>3, <2>4, <3>1
    <3>3. QED
      BY <1>3, <1>4, <2>1, <2>5, <3>2 DEF Tight
  <2>7. CASE ~(m <= n)
    <3>1. l = n
      BY <1>5, <2>7
    <3>2. r[l] \in RoomChars
      BY <1>3, <1>4, <2>1 DEF Clean
    <3>3. r[l] \notin Blank \/ r[l] = " "
      BY <3>2, RoomCharsAre
    <3>4. QED
      BY <1>3, <1>4, <2>1, <2>5, <3>1, <3>3 DEF Tight
  <2>8. QED
    BY <2>6, <2>7
<1>8. QED
  BY <1>6, <1>7

\* A name without a blank at its ends is the name of its room.
LEMMA RoomStays ==
  ASSUME NEW r \in Text, Tight(r), Clean(r), Len(r) <= RoomMax
  PROVE  sanitize_room(r) = r
<1>1. trim(r) = r
  BY TrimTight
<1>2. CutOf(r) = r
  BY CutIs
<1>3. QED
  BY <1>1, <1>2, CleanStays, SanitizeIs

\* No clean name looks like the key of a thread.
LEMMA CleanIsNotDirect ==
  ASSUME NEW r \in Text, Clean(r)
  PROVE  ~looks_direct(r)
<1> SUFFICES ASSUME looks_direct(r) PROVE FALSE
  OBVIOUS
<1>1. PICK n \in Nat : n = Len(r) /\ n >= 3
  BY TextIs DEF looks_direct
<1>2. PICK v : v = SubSeq(r, 1, 3)
  OBVIOUS
<1>3. v = <<"d", "m", ":">>
  BY <1>2 DEF looks_direct
<1>4. v[3] = ":"
  BY <1>3
<1>5. 1 \in Nat \ {0} /\ 3 \in Nat /\ 1 <= 3 + 1 /\ 3 <= Len(r) /\ 3 \in 1 .. 3 + 1 - 1
      /\ 1 + 3 - 1 = 3
  BY <1>1
<1>6. \A i \in 1 .. 3 + 1 - 1 : v[i] = r[1 + i - 1]
  BY <1>2, <1>5, TextPart
<1>7. v[3] = r[3] /\ 3 \in 1..Len(r)
  BY <1>1, <1>5, <1>6
<1>8. QED
  BY <1>4, <1>7, RoomCharsAre DEF Clean

\* A key is a text that looks like one, whatever two texts it is made of.
LEMMA KeyIsDirect ==
  ASSUME NEW a \in Text, NEW b \in Text
  PROVE  looks_direct(dm_room_key(a, b))
<1>1. ASSUME NEW k, NEW u \in Text, NEW v \in Text, IsKey(k, u, v)
      PROVE  looks_direct(k)
  <2>1. ":" \in Chars
    BY DEF Chars
  <2>2. PICK w \in Text : w = Join(u, ":", v)
    BY <2>1, JoinsIts
  <2>3. QED
    BY <1>1, <2>2, BehindFront DEF IsKey
<1>2. PICK k : k = dm_room_key(a, b)
  OBVIOUS
<1>3. IsKey(k, a, b) \/ IsKey(k, b, a)
  BY <1>2, KeyIs
<1>4. QED
  BY <1>1, <1>2, <1>3

\* sanitize_room: no room is the key of a thread or is shown as one, whatever was
\* typed.
THEOREM RoomsApart == Spec => []RoomsAreNoThreads
<1>1. InputInv => RoomsAreNoThreads
  <2> SUFFICES ASSUME InputInv, Given("text")
               PROVE  /\ ~looks_direct(sanitize_room(x[2]))
                      /\ \A c, d \in Names : sanitize_room(x[2]) # dm_room_key(c, d)
    BY DEF RoomsAreNoThreads
  <2>1. PICK s \in Text : s = x[2]
    BY TextInput, SymbolsAreText DEF InputInv, x
  <2>2. ~looks_direct(sanitize_room(s))
    BY RoomIs, CleanIsNotDirect
  <2>3. \A c, d \in Names : looks_direct(dm_room_key(c, d))
    BY NamesAreText, KeyIsDirect
  <2>4. QED
    BY <2>1, <2>2, <2>3
<1>2. QED
  BY <1>1, InputPicked, PTL

\* The line that joins a room.
JoinLine(r) == <<"/join", " ">> \o r

\* The chat loop sends the name behind /join as it is.
LEMMA JoinLineIs ==
  ASSUME NEW r \in Text, r # <<>>, Tight(r)
  PROVE  client_request(JoinLine(r)) = Request("Join", r)
<1>1. PICK n \in Nat : n = Len(r) /\ n >= 1 /\ r[1] \notin Blank /\ r[n] \notin Blank
  BY TextIs DEF Tight
<1>12. PICK j, b \in Chars : j = "/join" /\ b = " "
  BY DEF Chars, Words
<1>2. PICK f \in Text : f = <<j, b>> /\ Len(f) = 2 /\ f[1] = j /\ f[2] = b
  <2>1. PICK S : S = Chars
    OBVIOUS
  <2>2. j \in S /\ b \in S
    BY <2>1
  <2>3. <<j, b>> \in Seq(S) /\ Len(<<j, b>>) = 2 /\ <<j, b>>[1] = j /\ <<j, b>>[2] = b
    BY <2>2
  <2>4. QED
    BY <2>1, <2>3 DEF Text
<1>3. PICK w \in Text : /\ w = f \o r /\ Len(w) = 2 + n /\ w[1] = j /\ w[2] = b
                        /\ \A i \in 1..n : w[2 + i] = r[i]
  <2>1. /\ f \o r \in Text /\ Len(f \o r) = Len(f) + Len(r)
        /\ \A i \in 1..Len(f) : (f \o r)[i] = f[i]
        /\ \A i \in 1..Len(r) : (f \o r)[Len(f) + i] = r[i]
    BY TextJoins
  <2>2. PICK w \in Text : w = f \o r
    BY <2>1
  <2>3. Len(w) = 2 + n /\ w[1] = j /\ w[2] = b
    BY <1>1, <1>2, <2>1, <2>2
  <2>4. \A i \in 1..n : w[2 + i] = r[i]
    BY <1>1, <1>2, <2>1, <2>2
  <2>5. QED
    BY <2>2, <2>3, <2>4
<1>13. w = JoinLine(r)
  BY <1>2, <1>3, <1>12 DEF JoinLine
<1>4. trim(w) = w
  <2>1. w[2 + n] = r[n]
    BY <1>1, <1>3
  <2>2. j \notin Blank
    BY <1>12 DEF Blank
  <2>3. Len(w) >= 1
    BY <1>3
  <2>4. Tight(w)
    BY <1>1, <1>3, <2>1, <2>2, <2>3 DEF Tight
  <2>5. QED
    BY <2>4, TrimTight
<1>5. PICK v \in Text : v = Tail(w) /\ Len(v) = 1 + n /\ v[1] = b
                        /\ \A i \in 1..n : v[1 + i] = r[i]
  <2>1. PICK S : S = Chars
    OBVIOUS
  <2>2. w \in Seq(S) /\ w # <<>>
    BY <1>3, <2>1 DEF Text
  <2>3. Tail(w) \in Seq(S) /\ Len(Tail(w)) = Len(w) - 1
        /\ \A i \in 1 .. Len(w) - 1 : Tail(w)[i] = w[i + 1]
    BY <2>2
  <2>4. Len(w) - 1 = 1 + n /\ 1 \in 1 .. 1 + n /\ 1 + 1 = 2
    BY <1>3
  <2>5. Tail(w)[1] = b
    BY <1>3, <2>3, <2>4
  <2>6. ASSUME NEW i \in 1..n PROVE Tail(w)[1 + i] = r[i]
    <3>1. 1 + i \in 1 .. Len(w) - 1 /\ (1 + i) + 1 = 2 + i
      BY <1>3
    <3>2. QED
      BY <1>3, <2>3, <3>1
  <2>7. PICK v \in Seq(S) : v = Tail(w)
    BY <2>3
  <2>8. QED
    BY <2>1, <2>3, <2>4, <2>5, <2>6, <2>7 DEF Text
<1>6. trim(v) = r
  <2>1. v[2] = r[1] /\ v[1 + n] = r[n]
    <3>1. 1 \in 1..n /\ n \in 1..n /\ 1 + 1 = 2
      BY <1>1
    <3>2. QED
      BY <1>5, <3>1
  <2>2. b \in Blank
    BY <1>12 DEF Blank
  <2>3. 2 \in 1 .. 1 + n /\ 1 + n \in 1 .. 1 + n /\ 2 <= 1 + n
        /\ \A i \in 1 .. 1 + n : (i < 2 \/ 1 + n < i) => i = 1
    BY <1>1
  <2>4. Hull(v, 2, 1 + n)
    BY <1>1, <1>5, <2>1, <2>2, <2>3 DEF Hull
  <2>5. trim(v) = SubSeq(v, 2, 1 + n)
    BY <2>4, TrimHull
  <2>6. 2 \in Nat \ {0} /\ 1 + n \in Nat /\ 2 <= (1 + n) + 1 /\ 1 + n <= Len(v)
        /\ (1 + n) + 1 - 2 = n /\ \A i \in 1..n : 2 + i - 1 = 1 + i
    BY <1>5
  <2>7. PICK u : u = SubSeq(v, 2, 1 + n)
    OBVIOUS
  <2>8. u \in Text /\ Len(u) = (1 + n) + 1 - 2
        /\ \A i \in 1 .. (1 + n) + 1 - 2 : u[i] = v[2 + i - 1]
    BY <2>6, <2>7, TextPart
  <2>9. Len(u) = n /\ \A i \in 1..n : u[i] = r[i]
    BY <1>5, <2>6, <2>8
  <2>10. u = r
    BY <1>1, <2>8, <2>9, SameText
  <2>11. QED
    BY <2>5, <2>7, <2>10
<1>7. Len(w) > 1 /\ Len(w) # 1 /\ Len(w) # 0
  BY <1>1, <1>3
<1>8. w # <<>> /\ \A c : w # <<c>>
  <2>1. Len(<<>>) = 0 /\ \A c : Len(<<c>>) = 1
    OBVIOUS
  <2>2. QED
    BY <1>7, <2>1
<1>9. Head(w) = j
  BY <1>3, <1>8 DEF Text
<1>10. client_request(w) = Request("Join", r)
  <2>1. /\ w \notin {<<>>, <<"/help">>} /\ w \notin {<<"exit">>, <<"/quit">>, <<"/q">>}
        /\ w # <<"/rooms">>
    BY <1>8
  <2>2. w[2] = " " /\ Len(w) > 1 /\ Head(w) = "/join"
    BY <1>3, <1>7, <1>9, <1>12
  <2>3. Tail(w) = v
    BY <1>5
  <2>4. QED
    BY <1>4, <1>6, <1>8, <2>1, <2>2, <2>3 DEF client_request
<1>11. QED
  BY <1>10, <1>13

\* A room's name, typed behind /join, leads to that room again, unless it was cut
\* at the length limit right behind a blank.
THEOREM RoomNamesLeadBack == Spec => []RoomNameLeadsBack
<1>1. InputInv => RoomNameLeadsBack
  <2> SUFFICES ASSUME InputInv, Given("text")
               PROVE  LET room  == sanitize_room(x[2])
                          again == client_request(<<"/join", " ">> \o room)
                      IN  \/ room = <<>>
                          \/ again.type = "Join" /\ sanitize_room(again.payload) = room
                          \/ Len(room) = RoomMax /\ room[RoomMax] = " "
    BY DEF RoomNameLeadsBack
  <2>1. PICK s \in Text : s = x[2]
    BY TextInput, SymbolsAreText DEF InputInv, x
  <2>2. PICK r \in Text : r = sanitize_room(s) /\ Clean(r) /\ Len(r) <= RoomMax
    BY RoomIs
  <2>3. Tight(r) \/ (Len(r) = RoomMax /\ r[RoomMax] = " ")
    BY <2>2, RoomIsTight
  <2>4. ASSUME r # <<>>, Tight(r)
        PROVE  /\ client_request(<<"/join", " ">> \o r).type = "Join"
               /\ sanitize_room(client_request(<<"/join", " ">> \o r).payload) = r
    <3>1. PICK line : line = <<"/join", " ">> \o r
      OBVIOUS
    <3>2. PICK m : m = client_request(line)
      OBVIOUS
    <3>3. m = Request("Join", r)
      BY <2>4, <3>1, <3>2, JoinLineIs DEF JoinLine
    <3>4. m.type = "Join" /\ m.payload = r
      BY <3>3 DEF Request
    <3>5. sanitize_room(r) = r
      BY <2>2, <2>4, RoomStays
    <3>6. QED
      BY <3>1, <3>2, <3>4, <3>5
  <2>5. QED
    BY <2>1, <2>2, <2>3, <2>4
<1>2. QED
  BY <1>1, InputPicked, PTL

-----------------------------------------------------------------------------
(***************************************************************************)
(* History requests.                                                       *)
(***************************************************************************)
\* What stoi returns is an int.
LEMMA StoiIsInt ==
  ASSUME NEW s, stoi(s).ok
  PROVE  stoi(s).value \in (-IntMax - 1)..IntMax
  BY DEF stoi

\* The number of rows is between one and the limit, whatever the text.
LEMMA LimitIs ==
  ASSUME NEW s
  PROVE  history_limit(s) \in 1..MaxHistory
<1>1. PICK m, d \in Nat : m = MaxHistory /\ d = kHistoryLimit /\ 1 <= d /\ d <= m
  <2>1. MaxHistory \in Nat /\ kHistoryLimit \in 1..MaxHistory
    BY TextAssumption
  <2>2. QED
    BY <2>1
<1>2. PICK n : n = IF stoi(s).ok THEN stoi(s).value ELSE kHistoryLimit
  OBVIOUS
<1>3. n \in Int
  <2>1. CASE stoi(s).ok
    BY <1>2, <2>1, StoiIsInt
  <2>2. CASE ~stoi(s).ok
    BY <1>1, <1>2, <2>2
  <2>3. QED
    BY <2>1, <2>2
<1>4. history_limit(s) = IF s = <<>> THEN d ELSE IF n <= 0 THEN 1
                         ELSE IF n > m THEN m ELSE n
  BY <1>1, <1>2 DEF history_limit
<1>5. QED
  BY <1>1, <1>3, <1>4

\* What find() leaves of a text.
LEMMA FindParts ==
  ASSUME NEW s \in Text, NEW ch
  PROVE  /\ Before(s, find(s, ch)) \in Text
         /\ find(s, ch) # 0 => From(s, find(s, ch) + 1) \in Text
<1>1. PICK n \in Nat : n = Len(s)
  BY TextIs
<1>2. PICK k : k = find(s, ch)
  OBVIOUS
<1>3. k = 0 \/ k \in 1..n
  BY <1>1, <1>2, FindIs
<1>4. CASE k = 0
  BY <1>2, <1>4 DEF Before
<1>5. CASE k \in 1..n
  <2>1. 1 \in Nat \ {0} /\ k - 1 \in Nat /\ 1 <= (k - 1) + 1 /\ k - 1 <= Len(s)
        /\ k + 1 \in Nat \ {0} /\ n \in Nat /\ k + 1 <= n + 1 /\ n <= Len(s) /\ k # 0
    BY <1>1, <1>5
  <2>2. SubSeq(s, 1, k - 1) \in Text
    BY <2>1, TextPart
  <2>3. SubSeq(s, k + 1, n) \in Text
    BY <2>1, TextPart
  <2>4. QED
    BY <1>1, <1>2, <2>1, <2>2, <2>3 DEF Before, From
<1>6. QED
  BY <1>3, <1>4, <1>5

\* A text without its first symbol.
LEMMA RestIsText ==
  ASSUME NEW s \in Text
  PROVE  From(s, 2) \in Text
<1>1. PICK n \in Nat : n = Len(s)
  BY TextIs
<1>2. CASE n = 0
  <2>1. SubSeq(s, 2, 0) = <<>>
    BY SubSeqEmpty
  <2>2. QED
    BY <1>1, <1>2, <2>1 DEF From, Text
<1>3. CASE n # 0
  <2>1. 2 \in Nat \ {0} /\ 2 <= n + 1 /\ n <= Len(s)
    BY <1>1, <1>3
  <2>2. QED
    BY <1>1, <2>1, TextPart DEF From
<1>4. QED
  BY <1>2, <1>3

\* handle_history_request: whatever the text says, it shows its author the current
\* room or a thread the author is part of, and between 1 and MaxHistory rows.
THEOREM HistoriesAreOwn == Spec => []HistoryIsOwn
<1>1. InputInv => HistoryIsOwn
  <2> SUFFICES ASSUME InputInv, Given("text"), NEW room, NEW answer,
                      answer = handle_history_request(x[2], x[1], room), answer.ok
               PROVE  /\ answer.limit \in 1..MaxHistory
                      /\ \/ answer.room = room
                         \/ looks_direct(answer.room)
                            /\ \A c, d \in Names :
                                 answer.room = dm_room_key(c, d) => x[1] \in {c, d}
    BY DEF HistoryIsOwn
  <2>1. PICK s \in Text : s = x[2]
    BY TextInput, SymbolsAreText DEF InputInv, x
  <2>2. PICK me \in Names : me = x[1]
    BY DEF InputInv, x
  <2>3. PICK t \in Text : t = trim(s)
    BY TrimIs
  <2>4. PICK to \in Text : to = From(Before(t, find(t, " ")), 2)
    BY FindParts, RestIsText
  <2>5. PICK rest : rest = IF find(t, " ") = 0 THEN <<>>
                           ELSE trim(From(t, find(t, " ") + 1))
    OBVIOUS
  <2>6. answer = IF t = <<>> \/ t[1] # "@"
                 THEN [ok |-> TRUE, room |-> room, limit |-> history_limit(t)]
                 ELSE IF to = <<>> THEN [ok |-> FALSE]
                 ELSE [ok |-> TRUE, room |-> dm_room_key(me, to),
                       limit |-> history_limit(rest)]
    BY <2>1, <2>2, <2>3, <2>4, <2>5 DEF handle_history_request, Refused
  <2>7. \/ answer.room = room /\ answer.limit = history_limit(t)
        \/ answer.room = dm_room_key(me, to) /\ answer.limit = history_limit(rest)
    BY <2>6
  <2>8. looks_direct(dm_room_key(me, to))
    BY NamesAreText, KeyIsDirect
  <2>9. ASSUME NEW c \in Names, NEW d \in Names, dm_room_key(me, to) = dm_room_key(c, d)
        PROVE  me \in {c, d}
    <3>1. PICK k : k = dm_room_key(me, to)
      OBVIOUS
    <3>2. IsKey(k, me, to) \/ IsKey(k, to, me)
      BY <3>1, KeyIs
    <3>3. IsKey(k, c, d) \/ IsKey(k, d, c)
      BY <2>9, <3>1, KeyIs
    <3>4. me \in Text /\ c \in Text /\ d \in Text /\ Lacks(c, ":") /\ Lacks(d, ":")
      BY NamesAreText
    <3>5. CASE IsKey(k, me, to) /\ IsKey(k, c, d)
      BY <3>4, <3>5, KeyTellsNames
    <3>6. CASE IsKey(k, me, to) /\ IsKey(k, d, c)
      BY <3>4, <3>6, KeyTellsNames
    <3>7. CASE IsKey(k, to, me) /\ IsKey(k, c, d)
      BY <3>4, <3>7, KeyTellsNames
    <3>8. CASE IsKey(k, to, me) /\ IsKey(k, d, c)
      BY <3>4, <3>8, KeyTellsNames
    <3>9. QED
      BY <3>2, <3>3, <3>5, <3>6, <3>7, <3>8
  <2>10. QED
    BY <2>2, <2>7, <2>8, <2>9, LimitIs
<1>2. QED
  BY <1>1, InputPicked, PTL

-----------------------------------------------------------------------------
(***************************************************************************)
(* Command lines.                                                          *)
(***************************************************************************)
\* s is u with one symbol c in front.
Prefixed(s, c, u) ==
  /\ Len(s) = Len(u) + 1 /\ s[1] = c
  /\ \A i \in 1..Len(u) : s[i + 1] = u[i]

\* <<c>> \o u is that.
LEMMA PrefixIs ==
  ASSUME NEW c \in Chars, NEW u \in Text
  PROVE  <<c>> \o u \in Text /\ Prefixed(<<c>> \o u, c, u)
<1>1. PICK y \in Text : y = <<c>> /\ Len(y) = 1 /\ y[1] = c
  BY OneSymbol
<1>2. PICK n \in Nat : n = Len(u)
  BY TextIs
<1>3. /\ y \o u \in Text /\ Len(y \o u) = Len(y) + Len(u)
      /\ \A i \in 1..Len(y) : (y \o u)[i] = y[i]
      /\ \A i \in 1..Len(u) : (y \o u)[Len(y) + i] = u[i]
  BY TextJoins
<1>4. PICK s \in Text : s = y \o u
  BY <1>3
<1>5. Len(s) = n + 1 /\ s[1] = c
  BY <1>1, <1>2, <1>3, <1>4
<1>6. ASSUME NEW i \in 1..n PROVE s[i + 1] = u[i]
  <2>1. 1 + i = i + 1
    OBVIOUS
  <2>2. s[1 + i] = u[i]
    BY <1>1, <1>2, <1>3, <1>4
  <2>3. QED
    BY <2>1, <2>2
<1>7. Prefixed(s, c, u)
  BY <1>2, <1>5, <1>6 DEF Prefixed
<1>8. QED
  BY <1>1, <1>4, <1>7

\* The end of a text from one of its places on.
LEMMA FromIs ==
  ASSUME NEW s \in Text, NEW k \in Nat \ {0}, k <= Len(s) + 1
  PROVE  /\ From(s, k) \in Text /\ Len(From(s, k)) = Len(s) + 1 - k
         /\ \A i \in 1 .. Len(s) + 1 - k : From(s, k)[i] = s[k + i - 1]
<1>1. PICK n \in Nat : n = Len(s)
  BY TextIs
<1>2. k <= n + 1 /\ n <= Len(s)
  BY <1>1
<1>3. /\ SubSeq(s, k, n) \in Text /\ Len(SubSeq(s, k, n)) = n + 1 - k
      /\ \A i \in 1 .. n + 1 - k : SubSeq(s, k, n)[i] = s[k + i - 1]
  BY <1>2, TextPart
<1>4. QED
  BY <1>1, <1>3 DEF From

\* The end from one place on has one symbol more than that from the next.
LEMMA FromNext ==
  ASSUME NEW s \in Text, NEW k \in 1..Len(s)
  PROVE  /\ From(s, k) \in Text /\ From(s, k + 1) \in Text
         /\ Prefixed(From(s, k), s[k], From(s, k + 1))
<1>1. PICK n \in Nat : n = Len(s)
  BY TextIs
<1>2. k \in Nat \ {0} /\ k <= n + 1 /\ k + 1 \in Nat \ {0} /\ k + 1 <= n + 1
  BY <1>1
<1>3. PICK u \in Text : u = From(s, k) /\ Len(u) = n + 1 - k
                        /\ \A i \in 1 .. n + 1 - k : u[i] = s[k + i - 1]
  BY <1>1, <1>2, FromIs
<1>4. PICK v \in Text : v = From(s, k + 1) /\ Len(v) = n + 1 - (k + 1)
                        /\ \A i \in 1 .. n + 1 - (k + 1) : v[i] = s[(k + 1) + i - 1]
  BY <1>1, <1>2, FromIs
<1>5. PICK m \in Nat : m = n - k /\ m + 1 = n + 1 - k /\ m = n + 1 - (k + 1)
  <2>1. n - k \in Nat /\ (n - k) + 1 = n + 1 - k /\ n - k = n + 1 - (k + 1)
    BY <1>1
  <2>2. QED
    BY <2>1
<1>6. u[1] = s[k]
  <2>1. 1 \in 1 .. n + 1 - k /\ k + 1 - 1 = k
    BY <1>5
  <2>2. QED
    BY <1>3, <2>1
<1>7. ASSUME NEW i \in 1..m PROVE u[i + 1] = v[i]
  <2>1. i + 1 \in 1 .. n + 1 - k /\ i \in 1 .. n + 1 - (k + 1)
        /\ k + (i + 1) - 1 = (k + 1) + i - 1
    BY <1>5
  <2>2. QED
    BY <1>3, <1>4, <2>1
<1>8. Prefixed(u, s[k], v)
  BY <1>3, <1>4, <1>5, <1>6, <1>7 DEF Prefixed
<1>9. QED
  BY <1>3, <1>4, <1>8

\* A blank in front does not matter to trim().
LEMMA BlankInFront ==
  ASSUME NEW s \in Text, NEW u \in Text, NEW c \in Blank, Prefixed(s, c, u)
  PROVE  trim(s) = trim(u)
<1>1. PICK n \in Nat : n = Len(u) /\ Len(s) = n + 1 /\ s[1] = c
                       /\ \A i \in 1..n : s[i + 1] = u[i]
  BY TextIs DEF Prefixed
<1>2. CASE AllBlank(u)
  <2>1. ASSUME NEW i \in 1 .. n + 1 PROVE s[i] \in Blank
    <3>1. CASE i = 1
      BY <1>1, <3>1
    <3>2. CASE i # 1
      <4>1. i - 1 \in 1..n /\ (i - 1) + 1 = i
        BY <3>2
      <4>2. s[i] = u[i - 1]
        BY <1>1, <4>1
      <4>3. QED
        BY <1>1, <1>2, <4>1, <4>2 DEF AllBlank
    <3>3. QED
      BY <3>1, <3>2
  <2>2. AllBlank(s)
    BY <1>1, <2>1 DEF AllBlank
  <2>3. QED
    BY <1>2, <2>2, TrimBlanks
<1>3. CASE ~AllBlank(u)
  <2>1. PICK p, q : Hull(u, p, q)
    BY <1>3, BlankOrHull
  <2>2. /\ p \in 1..n /\ q \in 1..n /\ p <= q /\ u[p] \notin Blank /\ u[q] \notin Blank
        /\ \A i \in 1..n : (i < p \/ q < i) => u[i] \in Blank
    BY <1>1, <2>1 DEF Hull
  <2>3. p + 1 \in 1 .. n + 1 /\ q + 1 \in 1 .. n + 1 /\ p + 1 <= q + 1
    BY <2>2
  <2>4. s[p + 1] = u[p] /\ s[q + 1] = u[q]
    BY <1>1, <2>2
  <2>5. ASSUME NEW i \in 1 .. n + 1, i < p + 1 \/ q + 1 < i PROVE s[i] \in Blank
    <3>1. CASE i = 1
      BY <1>1, <3>1
    <3>2. CASE i # 1
      <4>1. i - 1 \in 1..n /\ (i - 1) + 1 = i /\ (i - 1 < p \/ q < i - 1)
        BY <2>2, <2>5, <3>2
      <4>2. s[i] = u[i - 1]
        BY <1>1, <4>1
      <4>3. QED
        BY <2>2, <4>1, <4>2
    <3>3. QED
      BY <3>1, <3>2
  <2>6. Hull(s, p + 1, q + 1)
    BY <1>1, <2>2, <2>3, <2>4, <2>5 DEF Hull
  <2>7. trim(s) = SubSeq(s, p + 1, q + 1) /\ trim(u) = SubSeq(u, p, q)
    BY <2>1, <2>6, TrimHull
  <2>8. PICK m \in Nat : m = q + 1 - p /\ m = (q + 1) + 1 - (p + 1)
    <3>1. q + 1 - p \in Nat /\ q + 1 - p = (q + 1) + 1 - (p + 1)
      BY <2>2
    <3>2. QED
      BY <3>1
  <2>9. p \in Nat \ {0} /\ q \in Nat /\ p <= q + 1 /\ q <= Len(u)
        /\ p + 1 \in Nat \ {0} /\ q + 1 \in Nat /\ p + 1 <= (q + 1) + 1 /\ q + 1 <= Len(s)
    BY <1>1, <2>2
  <2>10. PICK v \in Text : v = SubSeq(u, p, q) /\ Len(v) = m
                           /\ \A i \in 1..m : v[i] = u[p + i - 1]
    <3>1. PICK z : z = SubSeq(u, p, q)
      OBVIOUS
    <3>2. z \in Text /\ Len(z) = q + 1 - p /\ \A i \in 1 .. q + 1 - p : z[i] = u[p + i - 1]
      BY <2>9, <3>1, TextPart
    <3>3. QED
      BY <2>8, <3>1, <3>2
  <2>11. PICK w \in Text : w = SubSeq(s, p + 1, q + 1) /\ Len(w) = m
                           /\ \A i \in 1..m : w[i] = s[(p + 1) + i - 1]
    <3>1. PICK z : z = SubSeq(s, p + 1, q + 1)
      OBVIOUS
    <3>2. z \in Text /\ Len(z) = (q + 1) + 1 - (p + 1)
          /\ \A i \in 1 .. (q + 1) + 1 - (p + 1) : z[i] = s[(p + 1) + i - 1]
      BY <2>9, <3>1, TextPart
    <3>3. QED
      BY <2>8, <3>1, <3>2
  <2>12. ASSUME NEW i \in 1..m PROVE v[i] = w[i]
    <3>1. p + i - 1 \in 1..n /\ (p + i - 1) + 1 = (p + 1) + i - 1
      BY <2>2, <2>8
    <3>2. s[(p + 1) + i - 1] = u[p + i - 1]
      BY <1>1, <3>1
    <3>3. QED
      BY <2>10, <2>11, <3>2
  <2>13. v = w
    BY <2>10, <2>11, <2>12, SameText
  <2>14. QED
    BY <2>7, <2>10, <2>11, <2>13
<1>4. QED
  BY <1>2, <1>3

\* trim() leaves nothing only of blanks.
LEMMA TrimEmpty ==
  ASSUME NEW s \in Text
  PROVE  trim(s) = <<>> <=> AllBlank(s)
<1>1. AllBlank(s) => trim(s) = <<>>
  BY TrimBlanks
<1>2. ASSUME ~AllBlank(s) PROVE trim(s) # <<>>
  <2>1. PICK p, q : Hull(s, p, q)
    BY <1>2, BlankOrHull
  <2>2. PICK n \in Nat : n = Len(s)
    BY TextIs
  <2>3. p \in 1..n /\ q \in 1..n /\ p <= q
    BY <2>1, <2>2 DEF Hull
  <2>4. p \in Nat \ {0} /\ q \in Nat /\ p <= q + 1 /\ q <= Len(s) /\ q + 1 - p # 0
    BY <2>2, <2>3
  <2>5. PICK t : t = SubSeq(s, p, q)
    OBVIOUS
  <2>6. Len(t) = q + 1 - p
    BY <2>4, <2>5, TextPart
  <2>7. t # <<>>
    <3>1. Len(<<>>) = 0
      OBVIOUS
    <3>2. QED
      BY <2>4, <2>6, <3>1
  <2>8. QED
    BY <2>1, <2>5, <2>7, TrimHull
<1>3. QED
  BY <1>1, <1>2

\* i is what the chat loop makes of the word w and the text t behind it.
Typed(i, w, t) ==
  /\ Tight(i) /\ i # <<>> /\ Head(i) = w /\ trim(Tail(i)) = trim(t)
  /\ AllBlank(t)  => i = <<w>> /\ Len(i) = 1
  /\ ~AllBlank(t) => Len(i) > 1 /\ i[2] = t[1]

\* Blanks at the end of the text do not matter to it.
LEMMA EndOfText ==
  ASSUME NEW t \in Text, NEW p, NEW q, Hull(t, p, q)
  PROVE  trim(SubSeq(t, 1, q)) = trim(t)
<1>1. PICK n \in Nat : n = Len(t)
  BY TextIs
<1>2. /\ p \in 1..n /\ q \in 1..n /\ p <= q /\ t[p] \notin Blank /\ t[q] \notin Blank
      /\ \A i \in 1..n : (i < p \/ q < i) => t[i] \in Blank
  BY <1>1 DEF Hull
<1>3. 1 \in Nat \ {0} /\ q \in Nat /\ 1 <= q + 1 /\ q <= Len(t) /\ q + 1 - 1 = q
      /\ \A i \in 1..q : 1 + i - 1 = i
  BY <1>1, <1>2
<1>4. PICK u \in Text : u = SubSeq(t, 1, q) /\ Len(u) = q /\ \A i \in 1..q : u[i] = t[i]
  <2>1. /\ SubSeq(t, 1, q) \in Text /\ Len(SubSeq(t, 1, q)) = q + 1 - 1
        /\ \A i \in 1 .. q + 1 - 1 : SubSeq(t, 1, q)[i] = t[1 + i - 1]
    BY <1>3, TextPart
  <2>2. \A i \in 1..q : SubSeq(t, 1, q)[i] = t[i]
    BY <1>3, <2>1
  <2>3. QED
    BY <1>3, <2>1, <2>2
<1>5. Hull(u, p, q)
  <2>1. p \in 1..q /\ q \in 1..q /\ \A i \in 1..q : i \in 1..n
    BY <1>2
  <2>2. QED
    BY <1>2, <1>4, <2>1 DEF Hull
<1>6. trim(t) = SubSeq(t, p, q) /\ trim(u) = SubSeq(u, p, q)
  BY <1>5, TrimHull
<1>7. p \in Nat \ {0} /\ p <= q + 1 /\ q <= Len(u)
  BY <1>2, <1>4
<1>8. PICK m \in Nat : m = q + 1 - p
  BY <1>2
<1>9. PICK v \in Text : v = SubSeq(t, p, q) /\ Len(v) = m
                        /\ \A i \in 1..m : v[i] = t[p + i - 1]
  <2>1. PICK z : z = SubSeq(t, p, q)
    OBVIOUS
  <2>2. z \in Text /\ Len(z) = q + 1 - p /\ \A i \in 1 .. q + 1 - p : z[i] = t[p + i - 1]
    BY <1>3, <1>7, <2>1, TextPart
  <2>3. QED
    BY <1>8, <2>1, <2>2
<1>10. PICK w \in Text : w = SubSeq(u, p, q) /\ Len(w) = m
                         /\ \A i \in 1..m : w[i] = u[p + i - 1]
  <2>1. PICK z : z = SubSeq(u, p, q)
    OBVIOUS
  <2>2. z \in Text /\ Len(z) = q + 1 - p /\ \A i \in 1 .. q + 1 - p : z[i] = u[p + i - 1]
    BY <1>3, <1>7, <2>1, TextPart
  <2>3. QED
    BY <1>8, <2>1, <2>2
<1>11. ASSUME NEW i \in 1..m PROVE v[i] = w[i]
  <2>1. p + i - 1 \in 1..q
    BY <1>2, <1>8
  <2>2. QED
    BY <1>4, <1>9, <1>10, <2>1
<1>12. v = w
  BY <1>9, <1>10, <1>11, SameText
<1>13. QED
  BY <1>4, <1>6, <1>9, <1>10, <1>12

\* It trims the line, and the text behind the word.
LEMMA TypedIs ==
  ASSUME NEW w \in Words, NEW t \in Text
  PROVE  trim(<<w>> \o t) \in Text /\ Typed(trim(<<w>> \o t), w, t)
<1>1. w \in Chars /\ w \notin Blank
  BY DEF Chars, Words, Blank
<1>2. PICK n \in Nat : n = Len(t)
  BY TextIs
<1>3. PICK s \in Text : s = <<w>> \o t /\ Len(s) = n + 1 /\ s[1] = w
                        /\ \A i \in 1..n : s[i + 1] = t[i]
  BY <1>1, <1>2, PrefixIs DEF Prefixed
<1>4. CASE AllBlank(t)
  <2>1. Hull(s, 1, 1)
    <3>1. 1 \in 1 .. n + 1 /\ 1 <= 1 /\ \A i \in 1 .. n + 1 : ~(i < 1)
      OBVIOUS
    <3>2. ASSUME NEW i \in 1 .. n + 1, 1 < i PROVE s[i] \in Blank
      <4>1. i - 1 \in 1..n /\ (i - 1) + 1 = i
        BY <3>2
      <4>2. s[i] = t[i - 1]
        BY <1>3, <4>1
      <4>3. QED
        BY <1>2, <1>4, <4>1, <4>2 DEF AllBlank
    <3>3. QED
      BY <1>1, <1>3, <3>1, <3>2 DEF Hull
  <2>2. trim(s) = SubSeq(s, 1, 1)
    BY <2>1, TrimHull
  <2>3. PICK y \in Text : y = <<w>> /\ Len(y) = 1 /\ y[1] = w
    BY <1>1, OneSymbol
  <2>4. SubSeq(s, 1, 1) = y
    <3>1. 1 \in Nat \ {0} /\ 1 \in Nat /\ 1 <= 1 + 1 /\ 1 <= Len(s) /\ 1 + 1 - 1 = 1
      BY <1>3
    <3>2. PICK v : v = SubSeq(s, 1, 1)
      OBVIOUS
    <3>3. v \in Text /\ Len(v) = 1 + 1 - 1 /\ \A i \in 1 .. 1 + 1 - 1 : v[i] = s[1 + i - 1]
      BY <3>1, <3>2, TextPart
    <3>4. Len(v) = 1 /\ \A i \in 1..1 : v[i] = y[i]
      BY <1>3, <2>3, <3>1, <3>3
    <3>5. v = y
      BY <2>3, <3>3, <3>4, SameText
    <3>6. QED
      BY <3>2, <3>5
  <2>5. y # <<>> /\ Head(y) = w /\ Tail(y) = <<>>
    BY <2>3
  <2>6. trim(<<>>) = <<>>
    <3>1. <<>> \in Text /\ Tight(<<>>)
      BY DEF Text, Tight
    <3>2. QED
      BY <3>1, TrimTight
  <2>7. trim(t) = <<>>
    BY <1>4, TrimBlanks
  <2>8. Tight(y)
    BY <1>1, <2>3 DEF Tight
  <2>9. Typed(y, w, t)
    BY <1>4, <2>3, <2>5, <2>6, <2>7, <2>8 DEF Typed
  <2>10. QED
    BY <1>3, <2>2, <2>4, <2>9
<1>5. CASE ~AllBlank(t)
  <2>1. PICK p, q : Hull(t, p, q)
    BY <1>5, BlankOrHull
  <2>2. /\ p \in 1..n /\ q \in 1..n /\ p <= q /\ t[q] \notin Blank
        /\ \A i \in 1..n : q < i => t[i] \in Blank
    BY <1>2, <2>1 DEF Hull
  <2>3. Hull(s, 1, q + 1)
    <3>1. 1 \in 1 .. n + 1 /\ q + 1 \in 1 .. n + 1 /\ 1 <= q + 1
          /\ \A i \in 1 .. n + 1 : ~(i < 1)
      BY <2>2
    <3>2. s[q + 1] = t[q]
      BY <1>3, <2>2
    <3>3. ASSUME NEW i \in 1 .. n + 1, q + 1 < i PROVE s[i] \in Blank
      <4>1. i - 1 \in 1..n /\ (i - 1) + 1 = i /\ q < i - 1
        BY <2>2, <3>3
      <4>2. s[i] = t[i - 1]
        BY <1>3, <4>1
      <4>3. QED
        BY <2>2, <4>1, <4>2
    <3>4. QED
      BY <1>1, <1>3, <2>2, <3>1, <3>2, <3>3 DEF Hull
  <2>4. 1 \in Nat \ {0} /\ q + 1 \in Nat /\ 1 <= (q + 1) + 1 /\ q + 1 <= Len(s)
        /\ (q + 1) + 1 - 1 = q + 1 /\ \A i \in 1 .. q + 1 : 1 + i - 1 = i
    BY <1>3, <2>2
  <2>5. PICK v \in Text : v = SubSeq(s, 1, q + 1) /\ Len(v) = q + 1
                          /\ \A i \in 1 .. q + 1 : v[i] = s[i]
    <3>1. PICK v : v = SubSeq(s, 1, q + 1)
      OBVIOUS
    <3>2. v \in Text /\ Len(v) = (q + 1) + 1 - 1
          /\ \A i \in 1 .. (q + 1) + 1 - 1 : v[i] = s[1 + i - 1]
      BY <2>4, <3>1, TextPart
    <3>3. \A i \in 1 .. q + 1 : v[i] = s[i]
      BY <2>4, <3>2
    <3>4. QED
      BY <2>4, <3>1, <3>2, <3>3
  <2>6. trim(s) = v
    BY <2>3, <2>5, TrimHull
  <2>7. v[1] = w /\ v[2] = t[1] /\ Len(v) > 1
    <3>1. 1 \in 1 .. q + 1 /\ 2 \in 1 .. q + 1 /\ 1 \in 1..n /\ 1 + 1 = 2 /\ q + 1 > 1
      BY <2>2
    <3>2. s[2] = t[1]
      BY <1>3, <3>1
    <3>3. QED
      BY <1>3, <2>5, <3>1, <3>2
  <2>8. Tight(v)
    BY <2>6, TrimIs
  <2>9. v # <<>> /\ Head(v) = w
    <3>1. Len(<<>>) = 0
      OBVIOUS
    <3>2. v # <<>>
      BY <2>7, <3>1
    <3>3. QED
      BY <2>7, <3>2 DEF Text
  <2>10. Tail(v) = SubSeq(t, 1, q)
    <3>1. PICK S : S = Chars
      OBVIOUS
    <3>2. v \in Seq(S) /\ v # <<>>
      BY <2>9, <3>1 DEF Text
    <3>3. /\ Tail(v) \in Seq(S) /\ Len(Tail(v)) = Len(v) - 1
          /\ \A i \in 1 .. Len(v) - 1 : Tail(v)[i] = v[i + 1]
      BY <3>2
    <3>4. PICK r \in Text : r = Tail(v) /\ Len(r) = q /\ \A i \in 1..q : r[i] = v[i + 1]
      <4>1. Len(v) - 1 = q
        BY <2>2, <2>5
      <4>2. QED
        BY <3>1, <3>3, <4>1 DEF Text
    <3>5. 1 \in Nat \ {0} /\ q \in Nat /\ 1 <= q + 1 /\ q <= Len(t) /\ q + 1 - 1 = q
          /\ \A i \in 1..q : 1 + i - 1 = i
      BY <1>2, <2>2
    <3>6. PICK u : u = SubSeq(t, 1, q)
      OBVIOUS
    <3>7. u \in Text /\ Len(u) = q + 1 - 1 /\ \A i \in 1 .. q + 1 - 1 : u[i] = t[1 + i - 1]
      BY <3>5, <3>6, TextPart
    <3>8. ASSUME NEW i \in 1..q PROVE r[i] = u[i]
      <4>1. i + 1 \in 1 .. q + 1 /\ i \in 1..n
        BY <2>2
      <4>2. r[i] = s[i + 1]
        BY <2>5, <3>4, <4>1
      <4>3. u[i] = t[i]
        BY <3>5, <3>7
      <4>4. QED
        BY <1>3, <4>1, <4>2, <4>3
    <3>9. r = u
      BY <3>4, <3>5, <3>7, <3>8, SameText
    <3>10. QED
      BY <3>4, <3>6, <3>9
  <2>11. trim(Tail(v)) = trim(t)
    BY <2>1, <2>10, EndOfText
  <2>12. Typed(v, w, t)
    BY <1>5, <2>7, <2>8, <2>9, <2>11 DEF Typed
  <2>13. QED
    BY <1>3, <2>6, <2>12
<1>6. QED
  BY <1>4, <1>5

-----------------------------------------------------------------------------
\* The first word of a trimmed text, and what follows it.
FirstOf(r)  == Before(r, find(r, " "))
OthersOf(r) == IF find(r, " ") = 0 THEN <<>> ELSE trim(From(r, find(r, " ") + 1))

\* The empty text.
LEMMA EmptyText == <<>> \in Text /\ Tight(<<>>) /\ trim(<<>>) = <<>> /\ Len(<<>>) = 0
<1>1. <<>> \in Text /\ Tight(<<>>) /\ Len(<<>>) = 0
  BY DEF Text, Tight
<1>2. QED
  BY <1>1, TrimTight

\* The first word of a trimmed text is not empty, nor a blank, and the others are
\* what follows it.
LEMMA FirstWordIs ==
  ASSUME NEW r \in Text, Tight(r), r # <<>>, NEW f, f = FirstOf(r)
  PROVE  /\ f \in Text /\ f # <<>> /\ trim(f) # <<>> /\ PartOf(f, r) /\ f[1] = r[1]
         /\ trim(From(r, Len(f) + 1)) = OthersOf(r)
<1>1. PICK n \in Nat : n = Len(r)
  BY TextIs
<1>2. n >= 1 /\ r[1] \notin Blank
  BY <1>1 DEF Tight
<1>3. PICK k : k = find(r, " ")
  OBVIOUS
<1>4. PICK b : b = " "
  OBVIOUS
<1>5. b \in Blank
  BY <1>4 DEF Blank
<1>6. k = 0 \/ (k \in 1..n /\ r[k] = b)
  BY <1>1, <1>3, <1>4, FindIs
<1>7. CASE k = 0
  <2>1. f = r
    BY <1>3, <1>7 DEF Before, FirstOf
  <2>2. trim(r) = r
    BY TrimTight
  <2>3. From(r, n + 1) = <<>>
    <3>1. n + 1 \in Int /\ n \in Int /\ n < n + 1
      OBVIOUS
    <3>2. SubSeq(r, n + 1, n) = <<>>
      BY <3>1, SubSeqEmpty
    <3>3. QED
      BY <1>1, <3>2 DEF From
  <2>4. OthersOf(r) = <<>>
    BY <1>3, <1>7 DEF OthersOf
  <2>5. QED
    BY <1>1, <2>1, <2>2, <2>3, <2>4, EmptyText DEF PartOf
<1>8. CASE k # 0
  <2>1. k \in 1..n /\ r[k] = b /\ k # 1
    BY <1>2, <1>5, <1>6, <1>8
  <2>2. f = SubSeq(r, 1, k - 1)
    BY <1>3, <1>8 DEF Before, FirstOf
  <2>3. PICK m \in Nat : m = k - 1 /\ m + 1 = k /\ m >= 1 /\ m <= n
    <3>1. k - 1 \in Nat /\ (k - 1) + 1 = k /\ k - 1 >= 1 /\ k - 1 <= n
      BY <2>1
    <3>2. QED
      BY <3>1
  <2>4. 1 \in Nat \ {0} /\ 1 <= m + 1 /\ m <= Len(r) /\ m + 1 - 1 = m
        /\ \A i \in 1..m : 1 + i - 1 = i /\ i \in 1..n
    BY <1>1, <2>3
  <2>5. f \in Text /\ Len(f) = m + 1 - 1 /\ \A i \in 1 .. m + 1 - 1 : f[i] = r[1 + i - 1]
    BY <2>2, <2>3, <2>4, TextPart
  <2>6. Len(f) = m /\ \A i \in 1..m : f[i] = r[i] /\ i \in 1..n
    BY <2>4, <2>5
  <2>7. f[1] \notin Blank /\ 1 \in 1..m /\ f[1] = r[1]
    BY <1>2, <2>3, <2>6
  <2>8. ~AllBlank(f)
    BY <2>6, <2>7 DEF AllBlank
  <2>9. trim(f) # <<>>
    BY <2>5, <2>8, TrimEmpty
  <2>10. f # <<>>
    BY <2>9, EmptyText
  <2>11. PartOf(f, r)
    BY <1>1, <2>6 DEF PartOf, Lacks
  <2>12. trim(From(r, k)) = trim(From(r, k + 1))
    <3>1. From(r, k) \in Text /\ From(r, k + 1) \in Text
          /\ Prefixed(From(r, k), r[k], From(r, k + 1))
      BY <1>1, <2>1, FromNext
    <3>2. QED
      BY <1>5, <2>1, <3>1, BlankInFront
  <2>13. OthersOf(r) = trim(From(r, k + 1))
    BY <1>3, <1>8 DEF OthersOf
  <2>14. QED
    BY <2>3, <2>5, <2>6, <2>7, <2>9, <2>10, <2>11, <2>12, <2>13
<1>9. QED
  BY <1>7, <1>8

\* handle_direct takes apart what the chat loop puts together.
LEMMA DirectArrives ==
  ASSUME NEW f \in Text, Lacks(f, "\n"), trim(f) # <<>>,
         NEW c \in Text, Tight(c), c # <<>>
  PROVE  handle_direct(Join(f, "\n", c)) = [ok |-> TRUE, target |-> trim(f), content |-> c]
<1>1. "\n" \in Chars
  BY DEF Chars
<1>2. PICK w \in Text : w = Join(f, "\n", c)
  BY <1>1, JoinsIts
<1>3. PICK n \in Nat : n = Len(f)
  BY TextIs
<1>4. find(w, "\n") = n + 1 /\ n + 1 # 0 /\ (n + 1) + 1 = n + 2
  BY <1>1, <1>2, <1>3, JoinFinds
<1>5. Before(w, n + 1) = f /\ From(w, n + 2) = c
  BY <1>1, <1>2, <1>3, JoinParts
<1>6. trim(c) = c
  BY TrimTight
<1>7. handle_direct(w) = [ok |-> TRUE, target |-> trim(f), content |-> c]
  BY <1>4, <1>5, <1>6 DEF handle_direct
<1>8. QED
  BY <1>2, <1>7

\* handle_history_request finds the words behind the @.
LEMMA ThreadAsked ==
  ASSUME NEW r \in Text, Tight(r), r # <<>>, NEW me, NEW room
  PROVE  handle_history_request(<<"@">> \o r, me, room)
           = [ok |-> TRUE, room |-> dm_room_key(me, Before(r, find(r, " "))),
              limit |-> history_limit(OthersOf(r))]
<1>1. PICK n \in Nat : n = Len(r)
  BY TextIs
<1>2. n >= 1 /\ r[n] \notin Blank
  BY <1>1 DEF Tight
<1>3. PICK a \in Chars : a = "@"
  BY DEF Chars
<1>4. PICK b : b = " "
  OBVIOUS
<1>5. a \notin Blank /\ a # b
  BY <1>3, <1>4 DEF Blank
<1>6. PICK s \in Text : s = <<a>> \o r /\ Prefixed(s, a, r)
  BY PrefixIs
<1>7. Len(s) = n + 1 /\ s[1] = a /\ \A i \in 1..n : s[i + 1] = r[i]
  BY <1>1, <1>6 DEF Prefixed
<1>8. trim(s) = s
  <2>1. s[n + 1] = r[n] /\ Len(s) >= 1
    BY <1>2, <1>7
  <2>2. Tight(s)
    BY <1>2, <1>5, <1>7, <2>1 DEF Tight
  <2>3. QED
    BY <2>2, TrimTight
<1>9. s # <<>>
  BY <1>7, EmptyText
<1>10. PICK k : k = find(r, b)
  OBVIOUS
<1>11. \/ k = 0 /\ \A i \in 1..n : r[i] # b
       \/ k \in 1..n /\ r[k] = b /\ \A i \in 1..n : i < k => r[i] # b
  BY <1>1, <1>10, FindIs DEF Lacks
<1>12. ASSUME NEW i \in 1 .. n + 1, i # 1 PROVE i - 1 \in 1..n /\ s[i] = r[i - 1]
  <2>1. i - 1 \in 1..n /\ (i - 1) + 1 = i
    BY <1>12
  <2>2. QED
    BY <1>7, <2>1
<1>13. find(s, b) = IF k = 0 THEN 0 ELSE k + 1
  <2>1. CASE k = 0
    <3>1. \A i \in 1..n : r[i] # b
      BY <1>11, <2>1
    <3>2. \A i \in 1 .. n + 1 : s[i] # b
      BY <1>5, <1>7, <1>12, <3>1
    <3>3. Lacks(s, b)
      BY <1>7, <3>2 DEF Lacks
    <3>4. find(s, b) = 0
      BY <3>3, FindIs DEF Lacks
    <3>5. QED
      BY <2>1, <3>4
  <2>2. CASE k # 0
    <3>1. k \in 1..n /\ r[k] = b /\ \A i \in 1..n : i < k => r[i] # b
      BY <1>11, <2>2
    <3>2. k + 1 \in 1 .. n + 1 /\ s[k + 1] = b
      BY <1>7, <3>1
    <3>3. ASSUME NEW i \in 1 .. n + 1, i < k + 1 PROVE s[i] # b
      <4>1. CASE i = 1
        BY <1>5, <1>7, <4>1
      <4>2. CASE i # 1
        <5>1. i - 1 \in 1..n /\ s[i] = r[i - 1]
          BY <1>12, <4>2
        <5>2. i - 1 < k
          BY <3>1, <3>3
        <5>3. QED
          BY <3>1, <5>1, <5>2
      <4>3. QED
        BY <4>1, <4>2
    <3>4. find(s, b) = k + 1
      BY <1>7, <3>2, <3>3, FindAt
    <3>5. QED
      BY <2>2, <3>4
  <2>3. QED
    BY <2>1, <2>2
<1>14. From(s, 2) = r
  <2>1. 2 \in Nat \ {0} /\ 2 <= (n + 1) + 1 /\ (n + 1) + 1 - 2 = n
        /\ \A i \in 1..n : 2 + i - 1 = i + 1
    OBVIOUS
  <2>2. PICK v : v = From(s, 2)
    OBVIOUS
  <2>3. v \in Text /\ Len(v) = (n + 1) + 1 - 2
        /\ \A i \in 1 .. (n + 1) + 1 - 2 : v[i] = s[2 + i - 1]
    <3>1. 2 <= Len(s) + 1 /\ Len(s) = n + 1
      BY <1>7, <2>1
    <3>2. v \in Text /\ Len(v) = Len(s) + 1 - 2
          /\ \A i \in 1 .. Len(s) + 1 - 2 : v[i] = s[2 + i - 1]
      BY <2>1, <2>2, <3>1, FromIs
    <3>3. QED
      BY <3>1, <3>2
  <2>4. Len(v) = n /\ \A i \in 1..n : v[i] = r[i]
    BY <1>7, <2>1, <2>3
  <2>5. v = r
    BY <1>1, <2>3, <2>4, SameText
  <2>6. QED
    BY <2>2, <2>5
<1>15. PICK f : f = Before(r, k)
  OBVIOUS
<1>16. f # <<>>
  BY <1>4, <1>10, <1>15, FirstWordIs DEF FirstOf
<1>17. From(Before(s, find(s, b)), 2) = f
  <2>1. CASE k = 0
    BY <1>13, <1>14, <1>15, <2>1 DEF Before
  <2>2. CASE k # 0
    <3>1. k \in 1..n
      BY <1>11, <2>2
    <3>2. PICK m \in Nat : m = k - 1 /\ m + 1 = k /\ m <= n
      <4>1. k - 1 \in Nat /\ (k - 1) + 1 = k /\ k - 1 <= n
        BY <3>1
      <4>2. QED
        BY <4>1
    <3>3. PICK u : u = SubSeq(s, 1, k)
      OBVIOUS
    <3>4. Before(s, find(s, b)) = u
      <4>1. k + 1 # 0 /\ (k + 1) - 1 = k
        BY <3>1
      <4>2. QED
        BY <1>13, <2>2, <3>3, <4>1 DEF Before
    <3>5. 1 \in Nat \ {0} /\ k \in Nat /\ 1 <= k + 1 /\ k <= Len(s) /\ k + 1 - 1 = k
          /\ \A i \in 1..k : 1 + i - 1 = i
      BY <1>7, <3>1
    <3>6. u \in Text /\ Len(u) = k + 1 - 1 /\ \A i \in 1 .. k + 1 - 1 : u[i] = s[1 + i - 1]
      BY <3>3, <3>5, TextPart
    <3>7. Len(u) = k /\ \A i \in 1..k : u[i] = s[i]
      BY <3>5, <3>6
    <3>8. 2 \in Nat \ {0} /\ 2 <= k + 1 /\ k + 1 - 2 = m /\ \A i \in 1..m : 2 + i - 1 = i + 1
      BY <3>1, <3>2
    <3>9. PICK v : v = From(u, 2)
      OBVIOUS
    <3>10. v \in Text /\ Len(v) = k + 1 - 2 /\ \A i \in 1 .. k + 1 - 2 : v[i] = u[2 + i - 1]
      BY <3>6, <3>7, <3>8, <3>9, FromIs
    <3>11. ASSUME NEW i \in 1..m PROVE v[i] = r[i]
      <4>1. i + 1 \in 1..k /\ i \in 1..n /\ v[i] = u[i + 1]
        BY <3>2, <3>8, <3>10
      <4>2. QED
        BY <1>7, <3>7, <4>1
    <3>12. f = SubSeq(r, 1, m)
      BY <1>15, <2>2, <3>2 DEF Before
    <3>13. 1 <= m + 1 /\ m <= Len(r) /\ m + 1 - 1 = m /\ \A i \in 1..m : 1 + i - 1 = i
      BY <1>1, <3>2
    <3>14. f \in Text /\ Len(f) = m + 1 - 1 /\ \A i \in 1 .. m + 1 - 1 : f[i] = r[1 + i - 1]
      BY <3>5, <3>12, <3>13, TextPart
    <3>15. Len(f) = m /\ \A i \in 1..m : f[i] = r[i]
      BY <3>13, <3>14
    <3>16. Len(v) = m /\ \A i \in 1..m : v[i] = f[i]
      BY <3>8, <3>10, <3>11, <3>15
    <3>17. v = f
      BY <3>10, <3>14, <3>15, <3>16, SameText
    <3>18. QED
      BY <3>4, <3>9, <3>17
  <2>3. QED
    BY <2>1, <2>2
<1>18. OthersOf(r) = IF find(s, b) = 0 THEN <<>> ELSE trim(From(s, find(s, b) + 1))
  <2>1. CASE k = 0
    BY <1>4, <1>10, <1>13, <2>1 DEF OthersOf
  <2>2. CASE k # 0
    <3>1. k \in 1..n
      BY <1>11, <2>2
    <3>2. PICK m \in Nat : m = n - k
      BY <3>1
    <3>3. k + 1 \in Nat \ {0} /\ k + 1 <= n + 1 /\ n + 1 - (k + 1) = m
          /\ \A i \in 1..m : (k + 1) + i - 1 = k + i /\ k + i \in 1..n
      BY <3>1, <3>2
    <3>4. PICK u : u = From(r, k + 1)
      OBVIOUS
    <3>5. u \in Text /\ Len(u) = n + 1 - (k + 1)
          /\ \A i \in 1 .. n + 1 - (k + 1) : u[i] = r[(k + 1) + i - 1]
      BY <1>1, <3>3, <3>4, FromIs
    <3>6. Len(u) = m /\ \A i \in 1..m : u[i] = r[k + i]
      BY <3>3, <3>5
    <3>7. k + 2 \in Nat \ {0} /\ k + 2 <= (n + 1) + 1 /\ (n + 1) + 1 - (k + 2) = m
          /\ \A i \in 1..m : (k + 2) + i - 1 = (k + i) + 1
      BY <3>1, <3>2
    <3>8. PICK v : v = From(s, k + 2)
      OBVIOUS
    <3>9. v \in Text /\ Len(v) = (n + 1) + 1 - (k + 2)
          /\ \A i \in 1 .. (n + 1) + 1 - (k + 2) : v[i] = s[(k + 2) + i - 1]
      <4>1. k + 2 <= Len(s) + 1 /\ Len(s) = n + 1
        BY <1>7, <3>7
      <4>2. v \in Text /\ Len(v) = Len(s) + 1 - (k + 2)
            /\ \A i \in 1 .. Len(s) + 1 - (k + 2) : v[i] = s[(k + 2) + i - 1]
        BY <3>7, <3>8, <4>1, FromIs
      <4>3. QED
        BY <4>1, <4>2
    <3>10. Len(v) = m /\ \A i \in 1..m : v[i] = s[(k + i) + 1]
      BY <3>7, <3>9
    <3>11. ASSUME NEW i \in 1..m PROVE v[i] = u[i]
      <4>1. PICK j \in 1..n : j = k + i
        BY <3>3
      <4>2. v[i] = s[j + 1] /\ u[i] = r[j]
        BY <3>6, <3>10, <4>1
      <4>3. QED
        BY <1>7, <4>2
    <3>12. v = u
      BY <3>5, <3>6, <3>9, <3>10, <3>11, SameText
    <3>13. (k + 1) + 1 = k + 2 /\ k + 1 # 0
      BY <3>1
    <3>14. OthersOf(r) = trim(u)
      BY <1>4, <1>10, <2>2, <3>4 DEF OthersOf
    <3>15. find(s, b) = k + 1
      BY <1>13, <2>2
    <3>16. QED
      BY <3>8, <3>12, <3>13, <3>14, <3>15
  <2>3. QED
    BY <2>1, <2>2
<1>19. handle_history_request(s, me, room)
         = [ok |-> TRUE, room |-> dm_room_key(me, f), limit |-> history_limit(OthersOf(r))]
  <2>1. s[1] = "@" /\ b = " "
    BY <1>3, <1>4, <1>7
  <2>2. QED
    BY <1>8, <1>9, <1>16, <1>17, <1>18, <2>1 DEF handle_history_request
<1>20. QED
  BY <1>3, <1>4, <1>6, <1>10, <1>15, <1>19

\* A text that is not blank names a room.
LEMMA RoomIsNamed ==
  ASSUME NEW s \in Text, s # <<>>, Tight(s)
  PROVE  sanitize_room(s) # <<>>
<1>1. PICK m, n \in Nat : m = Len(s) /\ n = RoomMax /\ m >= 1 /\ n >= 1
  <2>1. Len(s) \in Nat /\ Len(s) >= 1
    BY TextIs DEF Tight
  <2>2. RoomMax \in Nat \ {0}
    BY TextAssumption
  <2>3. RoomMax >= 1
    BY <2>2
  <2>4. QED
    BY <2>1, <2>2, <2>3
<1>2. trim(s) = s
  BY TrimTight
<1>3. PICK c \in Text : c = CutOf(s)
  BY CutIs
<1>4. Len(c) = m \/ Len(c) = n
  BY <1>1, <1>3, CutIs
<1>5. PICK r \in Text : r = sanitize_room(s) /\ Len(r) = Len(c)
  BY <1>2, <1>3, CleanedIs, SanitizeIs
<1>6. Len(r) # 0
  BY <1>1, <1>4, <1>5
<1>7. QED
  BY <1>5, <1>6, EmptyText

\* The chat loop sends a line as it is.
Chatted(i) == IF Len(i) > ChatMax THEN Nothing ELSE Request("Chat", i)
Spaced(i)  == Len(i) > 1 /\ i[2] = " "

\* What it makes of the line i that begins with the word w, rest being the others.
Asked(i, w, rest) ==
  CASE w = "/join"          -> IF Spaced(i) THEN Request("Join", rest) ELSE Chatted(i)
    [] w = "/history"       -> Request("HistoryReq", rest)
    [] w \in {"/msg", "/w"} -> IF Spaced(i) THEN direct_request(rest) ELSE Chatted(i)
    [] w = "/who"           -> IF Spaced(i) \/ Len(i) = 1 THEN Request("UsersReq", rest)
                               ELSE Chatted(i)
    [] w = "/dmhistory"     -> IF ~Spaced(i) THEN Chatted(i)
                               ELSE IF rest = <<>> THEN Nothing
                               ELSE Request("HistoryReq", <<"@">> \o rest)
    [] OTHER                -> Chatted(i)

\* Words that stand alone.
Alone == {<<"/help">>, <<"exit">>, <<"/quit">>, <<"/q">>, <<"/rooms">>}

\* The line decides, but for the words that stand alone.
LEMMA RequestIs ==
  ASSUME NEW line, NEW i, i = trim(line), i # <<>>, i \notin Alone
  PROVE  client_request(line) = Asked(i, Head(i), trim(Tail(i)))
<1>1. PICK w : w = Head(i)
  OBVIOUS
<1>2. PICK rest : rest = trim(Tail(i))
  OBVIOUS
<1>3. PICK sp : sp = (Len(i) > 1 /\ i[2] = " ")
  OBVIOUS
<1>4. /\ i \notin {<<>>, <<"/help">>} /\ i \notin {<<"exit">>, <<"/quit">>, <<"/q">>}
      /\ i # <<"/rooms">>
  BY DEF Alone
<1>5. client_request(line)
        = CASE w = "/join" /\ sp -> Request("Join", rest)
            [] w = "/history" -> Request("HistoryReq", rest)
            [] w \in {"/msg", "/w"} /\ sp -> direct_request(rest)
            [] w = "/who" /\ (sp \/ Len(i) = 1) -> Request("UsersReq", rest)
            [] w = "/dmhistory" /\ sp
                 -> IF rest = <<>> THEN Nothing ELSE Request("HistoryReq", <<"@">> \o rest)
            [] OTHER -> Chatted(i)
  BY <1>1, <1>2, <1>3, <1>4 DEF client_request, Chatted
<1>6. sp = Spaced(i)
  BY <1>3 DEF Spaced
<1>7. QED
  BY <1>1, <1>2, <1>5, <1>6 DEF Asked

\* A word that stands alone is no request with a payload.
LEMMA AloneIs ==
  ASSUME NEW line, trim(line) \in Alone
  PROVE  client_request(line).type \in {"none", "Quit", "RoomsReq"}
<1>1. PICK i : i = trim(line)
  OBVIOUS
<1>2. CASE i = <<"/help">>
  BY <1>1, <1>2 DEF client_request, Nothing, Request
<1>3. CASE i \in {<<"exit">>, <<"/quit">>, <<"/q">>}
  <2>1. CASE i = <<"exit">>
    BY <1>1, <2>1 DEF client_request, Request
  <2>2. CASE i = <<"/quit">>
    BY <1>1, <2>2 DEF client_request, Request
  <2>3. CASE i = <<"/q">>
    BY <1>1, <2>3 DEF client_request, Request
  <2>4. QED
    BY <1>3, <2>1, <2>2, <2>3
<1>4. CASE i = <<"/rooms">>
  BY <1>1, <1>4 DEF client_request, Nothing, Request
<1>5. QED
  BY <1>1, <1>2, <1>3, <1>4 DEF Alone

\* The server has no complaint about it.
LEMMA OthersAccepted ==
  ASSUME NEW q, q.type \in {"none", "Quit", "RoomsReq"}, NEW me, NEW room
  PROVE  Accepted(q, me, room) /\ q.type # "Direct"
<1>1. q.type \notin {"Chat", "Join", "HistoryReq", "Direct", "UsersReq"}
  OBVIOUS
<1>2. QED
  BY <1>1 DEF Accepted

\* Nor about a chat line.
LEMMA ChattedAccepted ==
  ASSUME NEW i \in Text, Tight(i), i # <<>>, NEW me, NEW room
  PROVE  Accepted(Chatted(i), me, room) /\ Chatted(i).type # "Direct"
<1>1. PICK q : q = Chatted(i)
  OBVIOUS
<1>2. trim(i) = i
  BY TrimTight
<1>3. \/ q = [type |-> "none", payload |-> <<>>]
      \/ q = [type |-> "Chat", payload |-> i]
  BY <1>1 DEF Chatted, Nothing, Request
<1>4. CASE q = [type |-> "none", payload |-> <<>>]
  <2>1. q.type \in {"none", "Quit", "RoomsReq"}
    BY <1>4
  <2>2. QED
    BY <1>1, <2>1, OthersAccepted
<1>5. CASE q = [type |-> "Chat", payload |-> i]
  <2>1. q.type = "Chat" /\ q.payload = i
    BY <1>5
  <2>2. QED
    BY <1>1, <1>2, <2>1 DEF Accepted
<1>6. QED
  BY <1>3, <1>4, <1>5

\* Nor about a room that is named, to join it or to list its users, ...
LEMMA NamedAccepted ==
  ASSUME NEW r \in Text, Tight(r), NEW me, NEW room
  PROVE  /\ r # <<>> => Accepted(Request("Join", r), me, room)
         /\ Accepted(Request("UsersReq", r), me, room)
         /\ Request("Join", r).type # "Direct" /\ Request("UsersReq", r).type # "Direct"
<1>1. trim(r) = r
  BY TrimTight
<1>2. r # <<>> => sanitize_room(r) # <<>>
  BY RoomIsNamed
<1>3. PICK p, q : p = Request("Join", r) /\ q = Request("UsersReq", r)
  OBVIOUS
<1>4. p.type = "Join" /\ p.payload = r /\ q.type = "UsersReq" /\ q.payload = r
  BY <1>3 DEF Request
<1>5. r # <<>> => Accepted(p, me, room)
  BY <1>2, <1>4 DEF Accepted
<1>6. Accepted(q, me, room)
  BY <1>1, <1>2, <1>4 DEF Accepted
<1>7. QED
  BY <1>3, <1>4, <1>5, <1>6

\* ... nor about a request for a history, unless a thread without a user is asked for.
LEMMA HistoryAccepted ==
  ASSUME NEW r \in Text, Tight(r), NEW me, NEW room
  PROVE  /\ \/ Accepted(Request("HistoryReq", r), me, room)
            \/ r # <<>> /\ FirstOf(r) = <<"@">>
         /\ Request("HistoryReq", r).type # "Direct"
<1>1. trim(r) = r
  BY TrimTight
<1>2. PICK q : q = Request("HistoryReq", r)
  OBVIOUS
<1>3. q.type = "HistoryReq" /\ q.payload = r
  BY <1>2 DEF Request
<1>4. PICK answer : answer = handle_history_request(r, me, room)
  OBVIOUS
<1>5. Accepted(q, me, room) <=> answer.ok
  BY <1>3, <1>4 DEF Accepted
<1>6. PICK rest : rest = IF find(r, " ") = 0 THEN <<>> ELSE trim(From(r, find(r, " ") + 1))
  OBVIOUS
<1>7. answer = IF r = <<>> \/ r[1] # "@"
               THEN [ok |-> TRUE, room |-> room, limit |-> history_limit(r)]
               ELSE IF From(FirstOf(r), 2) = <<>> THEN [ok |-> FALSE]
               ELSE [ok |-> TRUE, room |-> dm_room_key(me, From(FirstOf(r), 2)),
                     limit |-> history_limit(rest)]
  BY <1>1, <1>4, <1>6 DEF handle_history_request, Refused, FirstOf
<1>8. ASSUME r # <<>>, r[1] = "@", From(FirstOf(r), 2) = <<>>
      PROVE  FirstOf(r) = <<"@">>
  <2>1. PICK f \in Text : f = FirstOf(r) /\ f # <<>> /\ f[1] = r[1]
    BY <1>8, FirstWordIs
  <2>2. PICK n \in Nat : n = Len(f)
    BY TextIs
  <2>3. n # 0
    BY <2>1, <2>2, EmptySeq DEF Text
  <2>4. 2 \in Nat \ {0} /\ 2 <= n + 1
    BY <2>3
  <2>5. Len(From(f, 2)) = n + 1 - 2
    BY <2>2, <2>4, FromIs
  <2>6. From(f, 2) = <<>>
    BY <1>8, <2>1
  <2>7. n = 1
    BY <2>5, <2>6, EmptyText
  <2>9. PICK a \in Chars : a = "@"
    BY DEF Chars
  <2>10. PICK y \in Text : y = <<a>> /\ Len(y) = 1 /\ y[1] = a
    BY OneSymbol
  <2>11. f[1] = a
    BY <1>8, <2>1, <2>9
  <2>12. f = y
    <3>1. Len(f) = 1 /\ Len(y) = 1
      BY <2>2, <2>7, <2>10
    <3>2. \A i \in 1..1 : f[i] = y[i]
      BY <2>10, <2>11
    <3>3. \A i \in 1..Len(f) : f[i] = y[i]
      BY <3>1, <3>2
    <3>4. QED
      BY <3>1, <3>3, SameText
  <2>13. QED
    BY <2>1, <2>9, <2>10, <2>12
<1>9. answer.ok \/ (r # <<>> /\ r[1] = "@" /\ From(FirstOf(r), 2) = <<>>)
  BY <1>7
<1>10. QED
  BY <1>2, <1>3, <1>5, <1>8, <1>9

\* Nor about a direct message, whose words arrive.
LEMMA DirectIs ==
  ASSUME NEW r \in Text, Tight(r), r # <<>>, Lacks(r, "\n"), NEW me, NEW room,
         NEW q, q = direct_request(r)
  PROVE  /\ Accepted(q, me, room)
         /\ q.type = "Direct" => /\ handle_direct(q.payload).target = trim(FirstOf(r))
                                 /\ handle_direct(q.payload).content = OthersOf(r)
         /\ OthersOf(r) # <<>> => q.type = "Direct"
<1>1. PICK f \in Text : f = FirstOf(r) /\ f # <<>> /\ trim(f) # <<>> /\ Lacks(f, "\n")
  BY FirstWordIs DEF PartOf
<1>2. PICK k : k = find(r, " ")
  OBVIOUS
<1>3. PICK c : c = OthersOf(r)
  OBVIOUS
<1>4. ASSUME q = Nothing
      PROVE  Accepted(q, me, room) /\ q.type # "Direct"
  <2>1. q.type \in {"none", "Quit", "RoomsReq"}
    BY <1>4 DEF Nothing, Request
  <2>2. QED
    BY <2>1, OthersAccepted
<1>5. CASE k = 0
  <2>1. q = Nothing
    BY <1>2, <1>5 DEF direct_request
  <2>2. c = <<>>
    BY <1>2, <1>3, <1>5 DEF OthersOf
  <2>3. QED
    BY <1>3, <1>4, <2>1, <2>2
<1>6. CASE k # 0 /\ c = <<>>
  <2>1. c = trim(From(r, k + 1))
    BY <1>2, <1>3, <1>6 DEF OthersOf
  <2>2. q = Nothing
    BY <1>2, <1>6, <2>1 DEF direct_request
  <2>3. QED
    BY <1>3, <1>4, <1>6, <2>2
<1>7. CASE k # 0 /\ c # <<>>
  <2>1. c = trim(From(r, k + 1))
    BY <1>2, <1>3, <1>7 DEF OthersOf
  <2>2. c \in Text /\ Tight(c)
    BY <1>2, <1>7, <2>1, FindParts, TrimIs
  <2>3. q = Request("Direct", Join(f, "\n", c))
    BY <1>1, <1>2, <1>7, <2>1 DEF direct_request, Join, FirstOf
  <2>4. q.type = "Direct" /\ q.payload = Join(f, "\n", c)
    BY <2>3 DEF Request
  <2>5. handle_direct(q.payload) = [ok |-> TRUE, target |-> trim(f), content |-> c]
    BY <1>1, <1>7, <2>2, <2>4, DirectArrives
  <2>6. PICK d : d = handle_direct(q.payload)
    OBVIOUS
  <2>7. d.ok /\ d.target = trim(f) /\ d.content = c
    BY <2>5, <2>6
  <2>8. Accepted(q, me, room)
    BY <2>4, <2>6, <2>7 DEF Accepted
  <2>9. QED
    BY <1>1, <1>3, <2>4, <2>6, <2>7, <2>8
<1>8. QED
  BY <1>5, <1>6, <1>7

\* The words as the property names them.
LEMMA WordsAre ==
  ASSUME NEW t \in Text
  PROVE  /\ FirstWord(t) = FirstOf(trim(t)) /\ OtherWords(t) = OthersOf(trim(t))
         /\ trim(t) = <<>> => OtherWords(t) = <<>>
<1>1. PICK r \in Text : r = trim(t) /\ Tight(r)
  BY TrimIs
<1>2. PICK f : f = FirstOf(r)
  OBVIOUS
<1>3. FirstWord(t) = f
  BY <1>1, <1>2 DEF FirstWord, FirstOf
<1>4. OtherWords(t) = trim(From(r, Len(f) + 1))
  BY <1>1, <1>3 DEF OtherWords
<1>5. CASE r # <<>>
  BY <1>1, <1>2, <1>3, <1>4, <1>5, FirstWordIs
<1>6. CASE r = <<>>
  <2>1. find(r, " ") = 0
    <3>1. Len(r) = 0
      BY <1>6, EmptyText
    <3>2. find(r, " ") \notin 1..Len(r)
      BY <3>1
    <3>3. QED
      BY <3>2, FindIs
  <2>2. f = r /\ OthersOf(r) = <<>>
    BY <1>2, <2>1 DEF FirstOf, Before, OthersOf
  <2>3. From(r, Len(f) + 1) = <<>>
    <3>1. Len(r) = 0 /\ Len(f) = 0
      BY <1>6, <2>2, EmptyText
    <3>2. SubSeq(r, 0 + 1, 0) = <<>>
      BY SubSeqEmpty
    <3>3. QED
      BY <3>1, <3>2 DEF From
  <2>4. QED
    BY <1>1, <1>2, <1>3, <1>4, <2>2, <2>3, EmptyText
<1>7. QED
  BY <1>5, <1>6

\* What CommandsAreUnderstood says of the request q for the command c and the text t.
Understood(q, c, t, me, room) ==
  /\ Accepted(q, me, room) \/ (c = <<"/history">> /\ FirstWord(t) = <<"@">>)
  /\ q.type = "Direct" => /\ handle_direct(q.payload).target = trim(FirstWord(t))
                          /\ handle_direct(q.payload).content = OtherWords(t)
  /\ (c = <<"/msg">> /\ t # <<>> /\ t[1] = " " /\ OtherWords(t) # <<>>) => q.type = "Direct"
  /\ (c = <<"/dmhistory">> /\ t # <<>> /\ t[1] = " " /\ trim(t) # <<>>) =>
       /\ handle_history_request(q.payload, me, room).room = dm_room_key(me, FirstWord(t))
       /\ handle_history_request(q.payload, me, room).limit = history_limit(OtherWords(t))

\* Most commands have only to be accepted.
LEMMA PlainlyUnderstood ==
  ASSUME NEW q, NEW c, NEW t, NEW me, NEW room, Accepted(q, me, room), q.type # "Direct",
         c # <<"/msg">>, c # <<"/dmhistory">>
  PROVE  Understood(q, c, t, me, room)
  BY DEF Understood

\* A line without a command word.
LEMMA ChatUnderstood ==
  ASSUME NEW t \in Seq(Symbols), NEW me, NEW room
  PROVE  Understood(client_request(<<>> \o t), <<>>, t, me, room)
<1>1. t \in Text
  BY SymbolsAreText
<1>2. PICK i \in Text : i = trim(t) /\ Tight(i) /\ PartOf(i, t)
  BY <1>1, TrimIs
<1>3. <<>> \o t = t
  BY ConcatEmptySeq
<1>4. PICK q : q = client_request(t)
  OBVIOUS
<1>5. Accepted(q, me, room) /\ q.type # "Direct"
  <2>1. CASE i = <<>>
    <3>1. q = Nothing
      BY <1>2, <1>4, <2>1 DEF client_request
    <3>2. q.type \in {"none", "Quit", "RoomsReq"}
      BY <3>1 DEF Nothing, Request
    <3>3. QED
      BY <3>2, OthersAccepted
  <2>2. CASE i # <<>>
    <3>1. PICK n \in Nat : n = Len(i) /\ n >= 1
      BY <1>2, <2>2, TextIs DEF Tight
    <3>2. ASSUME NEW w \in Words PROVE i[1] # w
      <4>1. \A j \in 1..Len(t) : t[j] \in Symbols
        OBVIOUS
      <4>2. w \notin Symbols
        BY TextAssumption
      <4>3. Lacks(t, w)
        BY <4>1, <4>2 DEF Lacks
      <4>4. Lacks(i, w)
        BY <1>2, <4>3 DEF PartOf
      <4>5. 1 \in 1..Len(i)
        BY <3>1
      <4>6. QED
        BY <4>4, <4>5 DEF Lacks
    <3>3. PICK w : w = i[1] /\ w \notin Words
      BY <3>2
    <3>4. Head(i) = w
      BY <2>2, <3>3 DEF Text
    <3>5. i \notin Alone
      <4>1. ASSUME NEW a, i = <<a>> PROVE a = w
        BY <3>3, <4>1
      <4>2. QED
        BY <3>3, <4>1 DEF Alone, Words
    <3>6. q = Asked(i, w, trim(Tail(i)))
      BY <1>2, <1>4, <2>2, <3>4, <3>5, RequestIs
    <3>7. q = Chatted(i)
      BY <3>3, <3>6 DEF Asked, Words
    <3>8. QED
      BY <1>2, <2>2, <3>7, ChattedAccepted
  <2>3. QED
    BY <2>1, <2>2
<1>6. <<>> # <<"/msg">> /\ <<>> # <<"/dmhistory">>
  OBVIOUS
<1>7. Understood(q, <<>>, t, me, room)
  BY <1>5, <1>6, PlainlyUnderstood
<1>8. QED
  BY <1>3, <1>4, <1>7

\* A line with one.
LEMMA CommandUnderstood ==
  ASSUME NEW w \in Words, NEW t \in Text, Lacks(t, "\n"), NEW me, NEW room
  PROVE  Understood(client_request(<<w>> \o t), <<w>>, t, me, room)
<1>1. PICK line : line = <<w>> \o t
  OBVIOUS
<1>2. PICK i \in Text : i = trim(line) /\ Typed(i, w, t)
  BY <1>1, TypedIs
<1>3. PICK r \in Text : r = trim(t) /\ Tight(r) /\ Lacks(r, "\n")
  BY TrimIs DEF PartOf
<1>4. r = <<>> <=> AllBlank(t)
  BY <1>3, TrimEmpty
<1>5. Tight(i) /\ i # <<>> /\ Head(i) = w /\ trim(Tail(i)) = r
  BY <1>2, <1>3 DEF Typed
<1>6. PICK b : b = " "
  OBVIOUS
<1>7. Spaced(i) <=> r # <<>> /\ t[1] = b
  <2>1. CASE AllBlank(t)
    <3>1. Len(i) = 1
      BY <1>2, <2>1 DEF Typed
    <3>2. ~(Len(i) > 1)
      BY <3>1
    <3>3. QED
      BY <1>4, <2>1, <3>2 DEF Spaced
  <2>2. CASE ~AllBlank(t)
    <3>1. Len(i) > 1 /\ i[2] = t[1]
      BY <1>2, <2>2 DEF Typed
    <3>2. QED
      BY <1>4, <1>6, <2>2, <3>1 DEF Spaced
  <2>3. QED
    BY <2>1, <2>2
<1>8. Len(i) = 1 \/ r # <<>>
  BY <1>2, <1>4 DEF Typed
<1>9. PICK q : q = client_request(line)
  OBVIOUS
<1>10. PICK c : c = <<w>>
  OBVIOUS
<1>11. \A v : c = <<v>> => v = w
  BY <1>10
<1>12. FirstWord(t) = FirstOf(r) /\ OtherWords(t) = OthersOf(r)
       /\ (r = <<>> => OtherWords(t) = <<>>)
  BY <1>3, WordsAre
<1>13. Accepted(Chatted(i), me, room) /\ Chatted(i).type # "Direct"
  BY <1>5, ChattedAccepted
<1> SUFFICES Understood(q, c, t, me, room)
  BY <1>1, <1>9, <1>10
<1>14. CASE i \in Alone
  <2>1. q.type \in {"none", "Quit", "RoomsReq"}
    BY <1>2, <1>9, <1>14, AloneIs
  <2>2. w \in {"/help", "exit", "/quit", "/q", "/rooms"}
    <3>1. \A a : Head(<<a>>) = a
      OBVIOUS
    <3>2. QED
      BY <1>5, <1>14, <3>1 DEF Alone
  <2>3. c # <<"/msg">> /\ c # <<"/dmhistory">>
    BY <1>11, <2>2
  <2>4. QED
    BY <2>1, <2>3, OthersAccepted, PlainlyUnderstood
<1>15. CASE i \notin Alone
  <2>1. q = Asked(i, w, r)
    BY <1>2, <1>5, <1>9, <1>15, RequestIs
  <2>2. ASSUME q = Chatted(i), w # "/msg", w # "/dmhistory"
        PROVE  Understood(q, c, t, me, room)
    <3>1. c # <<"/msg">> /\ c # <<"/dmhistory">>
      BY <1>11, <2>2
    <3>2. QED
      BY <1>13, <2>2, <3>1, PlainlyUnderstood
  <2>3. CASE w \in {"/help", "/quit", "/q", "exit", "/rooms"}
    <3>1. q = Chatted(i)
      BY <2>1, <2>3 DEF Asked
    <3>2. QED
      BY <2>2, <2>3, <3>1
  <2>4. CASE w = "/join"
    <3>1. q = IF Spaced(i) THEN Request("Join", r) ELSE Chatted(i)
      BY <2>1, <2>4 DEF Asked
    <3>2. CASE Spaced(i)
      <4>1. Accepted(q, me, room) /\ q.type # "Direct"
        BY <1>3, <1>7, <3>1, <3>2, NamedAccepted
      <4>2. c # <<"/msg">> /\ c # <<"/dmhistory">>
        BY <1>11, <2>4
      <4>3. QED
        BY <4>1, <4>2, PlainlyUnderstood
    <3>3. CASE ~Spaced(i)
      BY <2>2, <2>4, <3>1, <3>3
    <3>4. QED
      BY <3>2, <3>3
  <2>5. CASE w = "/who"
    <3>1. q = IF Spaced(i) \/ Len(i) = 1 THEN Request("UsersReq", r) ELSE Chatted(i)
      BY <2>1, <2>5 DEF Asked
    <3>2. CASE Spaced(i) \/ Len(i) = 1
      <4>1. Accepted(q, me, room) /\ q.type # "Direct"
        BY <1>3, <3>1, <3>2, NamedAccepted
      <4>2. c # <<"/msg">> /\ c # <<"/dmhistory">>
        BY <1>11, <2>5
      <4>3. QED
        BY <4>1, <4>2, PlainlyUnderstood
    <3>3. CASE ~(Spaced(i) \/ Len(i) = 1)
      BY <2>2, <2>5, <3>1, <3>3
    <3>4. QED
      BY <3>2, <3>3
  <2>6. CASE w = "/history"
    <3>1. q = Request("HistoryReq", r)
      BY <2>1, <2>6 DEF Asked
    <3>2. Accepted(q, me, room) \/ FirstOf(r) = <<"@">>
      BY <1>3, <3>1, HistoryAccepted
    <3>3. q.type # "Direct"
      BY <1>3, <3>1, HistoryAccepted
    <3>4. c = <<"/history">>
      BY <1>10, <2>6
    <3>5. c # <<"/msg">> /\ c # <<"/dmhistory">>
      BY <1>11, <2>6
    <3>6. QED
      BY <1>12, <3>2, <3>3, <3>4, <3>5 DEF Understood
  <2>7. CASE w \in {"/msg", "/w"}
    <3>1. q = IF Spaced(i) THEN direct_request(r) ELSE Chatted(i)
      BY <2>1, <2>7 DEF Asked
    <3>2. c # <<"/dmhistory">>
      BY <1>11, <2>7
    <3>3. CASE Spaced(i)
      <4>1. r # <<>>
        BY <1>7, <3>3
      <4>2. q = direct_request(r)
        BY <3>1, <3>3
      <4>3. /\ Accepted(q, me, room)
            /\ q.type = "Direct" => /\ handle_direct(q.payload).target = trim(FirstOf(r))
                                    /\ handle_direct(q.payload).content = OthersOf(r)
            /\ OthersOf(r) # <<>> => q.type = "Direct"
        BY <1>3, <4>1, <4>2, DirectIs
      <4>4. QED
        BY <1>12, <3>2, <4>3 DEF Understood
    <3>4. CASE ~Spaced(i)
      <4>1. q = Chatted(i)
        BY <3>1, <3>4
      <4>2. t[1] = " " => OtherWords(t) = <<>>
        BY <1>6, <1>7, <1>12, <3>4
      <4>3. QED
        BY <1>13, <3>2, <4>1, <4>2 DEF Understood
    <3>5. QED
      BY <3>3, <3>4
  <2>8. CASE w = "/dmhistory"
    <3>1. q = IF ~Spaced(i) THEN Chatted(i)
              ELSE IF r = <<>> THEN Nothing ELSE Request("HistoryReq", <<"@">> \o r)
      BY <2>1, <2>8 DEF Asked
    <3>2. c # <<"/msg">>
      BY <1>11, <2>8
    <3>3. CASE Spaced(i)
      <4>1. r # <<>>
        BY <1>7, <3>3
      <4>2. PICK p : p = <<"@">> \o r
        OBVIOUS
      <4>3. q = Request("HistoryReq", p)
        BY <3>1, <3>3, <4>1, <4>2
      <4>4. q.type = "HistoryReq" /\ q.payload = p
        BY <4>3 DEF Request
      <4>5. PICK answer : answer = handle_history_request(p, me, room)
        OBVIOUS
      <4>6. answer = [ok |-> TRUE, room |-> dm_room_key(me, FirstOf(r)),
                      limit |-> history_limit(OthersOf(r))]
        BY <1>3, <4>1, <4>2, <4>5, ThreadAsked DEF FirstOf
      <4>7. /\ answer.ok /\ answer.room = dm_room_key(me, FirstOf(r))
            /\ answer.limit = history_limit(OthersOf(r))
        BY <4>6
      <4>8. Accepted(q, me, room)
        BY <4>4, <4>5, <4>7 DEF Accepted
      <4>9. QED
        BY <1>12, <3>2, <4>4, <4>5, <4>7, <4>8 DEF Understood
    <3>4. CASE ~Spaced(i)
      <4>1. q = Chatted(i)
        BY <3>1, <3>4
      <4>2. t[1] = " " => trim(t) = <<>>
        BY <1>3, <1>6, <1>7, <3>4
      <4>3. QED
        BY <1>13, <3>2, <4>1, <4>2 DEF Understood
    <3>5. QED
      BY <3>3, <3>4
  <2>9. QED
    BY <1>5, <2>3, <2>4, <2>5, <2>6, <2>7, <2>8 DEF Words
<1>16. QED
  BY <1>14, <1>15

\* The chat loop and the switch of handle_client: no line typed at the prompt is
\* malformed to the server, but for a /history of a nameless user, and the handlers
\* find the words that were typed, whatever they are.
THEOREM CommandsUnderstood == Spec => []CommandsAreUnderstood
<1>1. InputInv => CommandsAreUnderstood
  <2> SUFFICES ASSUME InputInv, Given("line") PROVE CommandsAreUnderstood
    BY DEF CommandsAreUnderstood
  <2>1. PICK c \in Commands, t \in Lines : c = x[1] /\ t = x[2]
    BY DEF InputInv, x
  <2>2. t \in Seq(Symbols) /\ t \in Text /\ find(t, "\n") = 0
    BY TextInput, SymbolsAreText
  <2>3. Lacks(t, "\n")
    <3>1. Len(t) \in Nat
      BY <2>2, TextIs
    <3>2. QED
      BY <2>2, <3>1, FindIs
  <2>4. PICK me, room : me = <<"a">> /\ room = <<"b">>
    OBVIOUS
  <2>5. PICK q : q = client_request(c \o t)
    OBVIOUS
  <2>6. Understood(q, c, t, me, room)
    <3>1. CASE c = <<>>
      BY <2>2, <2>5, <3>1, ChatUnderstood
    <3>2. CASE c # <<>>
      <4>1. PICK w \in Words : c = <<w>>
        BY <3>2, TextInput
      <4>2. QED
        BY <2>2, <2>3, <2>5, <4>1, CommandUnderstood
    <3>3. QED
      BY <3>1, <3>2
  <2>7. QED
    BY <2>1, <2>4, <2>5, <2>6 DEF Understood, CommandsAreUnderstood
<1>2. QED
  BY <1>1, InputPicked, PTL
=============================================================================

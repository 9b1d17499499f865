--------------------------- MODULE FramingProofs ----------------------------
(***************************************************************************)
(* Framing is correct for bytes and headers of any size, payloads of any   *)
(* length and any number of frames, however send() and recv() cut the      *)
(* stream.  The induction and the facts about bytes are in BytesProofs.    *)
(***************************************************************************)
EXTENDS Framing, BytesProofs

-----------------------------------------------------------------------------
(***************************************************************************)
(* Headers.                                                                *)
(***************************************************************************)
\* A header is kFrameHeaderSize bytes, whatever the length in it, ...
LEMMA HeaderType ==
  ASSUME NEW n \in Nat
  PROVE  htonl(n) \in Seq(Byte) /\ Len(htonl(n)) = kFrameHeaderSize
<1>1. kFrameHeaderSize \in Nat
  BY FramingAssumption
<1>2. QED
  BY <1>1, BytesOfNumber DEF htonl

\* ... a length that send_frame accepts is read as it was written, ...
LEMMA HeaderRead ==
  ASSUME NEW n \in Nat, \/ n <= kMaxFramePayloadSize
                        \/ Strangers /\ n = kMaxFramePayloadSize + 1
  PROVE  ntohl(htonl(n)) = n
<1>1. kFrameHeaderSize \in Nat
  BY FramingAssumption
<1>2. Power[kFrameHeaderSize] \in Nat
  BY <1>1, PowerIs
<1>3. n < Power[kFrameHeaderSize]
  BY <1>2, FramingAssumption
<1>4. QED
  BY <1>1, <1>3, ReadWhatWasWritten DEF htonl, ntohl

\* ... and the header of a length that was read is what was read.
LEMMA HeaderWritten ==
  ASSUME NEW h \in Seq(Byte), Len(h) = kFrameHeaderSize
  PROVE  ntohl(h) \in Nat /\ htonl(ntohl(h)) = h
  BY WriteWhatWasRead DEF htonl, ntohl

-----------------------------------------------------------------------------
(***************************************************************************)
(* Frames in a row.                                                        *)
(***************************************************************************)
\* What one frame puts on the wire.
Wire(p) == htonl(Len(p)) \o p

\* It is never empty.
LEMMA WireType ==
  ASSUME NEW p \in Bytestring
  PROVE  /\ Wire(p) \in Bytestring /\ Len(p) \in Nat
         /\ Len(Wire(p)) = kFrameHeaderSize + Len(p) /\ Len(Wire(p)) > 0
<1>1. Len(p) \in Nat
  BY DEF Bytestring
<1>2. PICK h \in Seq(Byte) : h = htonl(Len(p)) /\ Len(h) = kFrameHeaderSize
  BY <1>1, HeaderType
<1>3. h \o p \in Seq(Byte) /\ Len(h \o p) = Len(h) + Len(p)
  BY ConcatProperties DEF Bytestring
<1>4. QED
  BY <1>1, <1>2, <1>3, FramingAssumption DEF Wire, Bytestring

\* Encoded puts the frames one after the other.
LEMMA EncodedIs ==
  ASSUME NEW fs \in Seq(Bytestring)
  PROVE  \E e \in [0..Len(fs) -> Bytestring] :
           /\ e[0] = <<>> /\ Encoded(fs) = e[Len(fs)]
           /\ \A i \in 1..Len(fs) : e[i] = e[i - 1] \o Wire(fs[i])
<1>1. Len(fs) \in Nat /\ \A i \in 1..Len(fs) : fs[i] \in Bytestring
  OBVIOUS
<1> DEFINE G == [x \in Nat \X Bytestring |->
                   IF x[1] < Len(fs) THEN x[2] \o Wire(fs[x[1] + 1]) ELSE x[2]]
           Def(f) == f = [i \in 0..Len(fs) |->
                            IF i = 0 THEN <<>>
                            ELSE f[i - 1] \o htonl(Len(fs[i])) \o fs[i]]
<1>2. \A i \in 1..Len(fs) : /\ Wire(fs[i]) \in Bytestring
                            /\ \A x \in Bytestring : x \o Wire(fs[i]) \in Bytestring
  BY <1>1, Joining, WireType
<1>3. G \in Steps(Bytestring)
  <2>1. ASSUME NEW x \in Nat \X Bytestring PROVE G[x] \in Bytestring
    <3>1. x[1] \in Nat /\ x[2] \in Bytestring
      OBVIOUS
    <3>2. CASE x[1] < Len(fs)
      <4>1. x[1] + 1 \in 1..Len(fs)
        BY <1>1, <3>1, <3>2
      <4>2. QED
        BY <1>2, <3>1, <3>2, <4>1
    <3>3. QED
      BY <3>1, <3>2
  <2>2. QED
    BY <2>1 DEF Steps
<1>4. PICK f : Iterates(f, Bytestring, <<>>, G)
  <2>1. PICK a \in Bytestring : a = <<>>
    BY Joining
  <2> HIDE DEF G
  <2>2. \E f : Iterates(f, Bytestring, a, G)
    BY <1>3, Recursion
  <2>3. QED
    BY <2>1, <2>2
<1> DEFINE v == [i \in 0..Len(fs) |-> f[i]]
<1>5. v \in [0..Len(fs) -> Bytestring] /\ v[0] = <<>>
  <2>1. f \in [Nat -> Bytestring] /\ f[0] = <<>>
    BY <1>4 DEF Iterates
  <2>2. 0 \in 0..Len(fs) /\ \A i \in 0..Len(fs) : i \in Nat
    BY <1>1
  <2>3. QED
    BY <2>1, <2>2
<1>6. ASSUME NEW i \in 1..Len(fs) PROVE v[i] = v[i - 1] \o Wire(fs[i])
  <2>1. i - 1 \in Nat /\ (i - 1) + 1 = i /\ i - 1 < Len(fs) /\ i \in Nat
    BY <1>1
  <2>2. f[i] = G[<<i - 1, f[i - 1]>>] /\ f[i - 1] \in Bytestring
    BY <1>4, <2>1 DEF Iterates
  <2>3. v[i] = f[i] /\ v[i - 1] = f[i - 1]
    BY <1>1, <2>1
  <2>4. QED
    BY <2>1, <2>2, <2>3
<1>7. \A i \in 1..Len(fs) : \A x \in Bytestring :
        x \o htonl(Len(fs[i])) \o fs[i] = x \o Wire(fs[i])
  <2> SUFFICES ASSUME NEW i \in 1..Len(fs), NEW x \in Bytestring
               PROVE  x \o htonl(Len(fs[i])) \o fs[i] = x \o Wire(fs[i])
    OBVIOUS
  <2>1. PICK p \in Bytestring : p = fs[i]
    BY <1>1
  <2>2. PICK h \in Bytestring : h = htonl(Len(p))
    BY HeaderType DEF Bytestring
  <2>3. (x \o h) \o p = x \o (h \o p)
    <3>1. Grouped(x, h, p)
      BY Grouping
    <3>2. QED
      BY <3>1 DEF Grouped
  <2>4. QED
    BY <2>1, <2>2, <2>3 DEF Wire
<1> HIDE DEF v
<1>8. Def(v)
  <2>1. ASSUME NEW i \in 0..Len(fs)
        PROVE  v[i] = IF i = 0 THEN <<>> ELSE v[i - 1] \o htonl(Len(fs[i])) \o fs[i]
    <3>1. CASE i # 0
      <4>1. i \in 1..Len(fs) /\ i - 1 \in 0..Len(fs)
        BY <1>1, <3>1
      <4>2. v[i] = v[i - 1] \o Wire(fs[i]) /\ v[i - 1] \in Bytestring
        BY <1>5, <1>6, <4>1
      <4>3. QED
        BY <1>7, <3>1, <4>1, <4>2
    <3>2. QED
      BY <1>5, <3>1
  <2>2. v = [i \in 0..Len(fs) |-> v[i]]
    BY <1>5
  <2>3. QED
    BY <2>1, <2>2
<1>9. PICK u : u = (CHOOSE g : Def(g)) /\ Encoded(fs) = u[Len(fs)]
  BY DEF Encoded
<1>10. Def(u)
  <2> HIDE DEF Def
  <2>1. QED
    BY <1>8, <1>9
<1>11. u[Len(fs)] = v[Len(fs)]
  <2> DEFINE P == {i \in Nat : i <= Len(fs) => u[i] = v[i]}
  <2>1. 0 \in P
    BY <1>1, <1>5, <1>10
  <2>2. ASSUME NEW i \in Nat, i \in P PROVE i + 1 \in P
    <3>1. SUFFICES ASSUME i + 1 <= Len(fs) PROVE u[i + 1] = v[i + 1]
      OBVIOUS
    <3>2. i + 1 \in 0..Len(fs) /\ i + 1 # 0 /\ (i + 1) - 1 = i /\ u[i] = v[i]
      BY <1>1, <2>2, <3>1
    <3>3. u[i + 1] = u[i] \o htonl(Len(fs[i + 1])) \o fs[i + 1]
      BY <1>10, <3>2
    <3>4. v[i + 1] = v[i] \o htonl(Len(fs[i + 1])) \o fs[i + 1]
      BY <1>8, <3>2
    <3>5. QED
      BY <3>2, <3>3, <3>4
  <2>3. \A i \in Nat : i \in P
    <3> HIDE DEF P
    <3>1. QED
      BY <2>1, <2>2, Induction
  <2>4. QED
    BY <1>1, <2>3
<1>12. QED
  BY <1>5, <1>6, <1>9, <1>11

\* Encoded, frame by frame.
LEMMA EncodedEmpty == Encoded(<<>>) = <<>>
<1>1. PICK fs \in Seq(Bytestring) : fs = <<>> /\ Len(fs) = 0
  BY EmptySeq
<1>2. QED
  BY <1>1, EncodedIs

\* One frame more adds what that frame puts on the wire.
LEMMA EncodedAppend ==
  ASSUME NEW fs \in Seq(Bytestring), NEW p \in Bytestring
  PROVE  Encoded(fs) \in Bytestring /\ Encoded(Append(fs, p)) = Encoded(fs) \o Wire(p)
<1>1. PICK gs \in Seq(Bytestring) :
        /\ gs = Append(fs, p) /\ Len(gs) = Len(fs) + 1 /\ gs[Len(fs) + 1] = p
        /\ \A i \in 1..Len(fs) : gs[i] = fs[i]
  <2>1. /\ Append(fs, p) \in Seq(Bytestring) /\ Len(Append(fs, p)) = Len(fs) + 1
        /\ Append(fs, p)[Len(fs) + 1] = p
        /\ \A i \in 1..Len(fs) : Append(fs, p)[i] = fs[i]
    BY AppendProperties
  <2>2. QED
    BY <2>1
<1>2. PICK m \in Nat : m = Len(fs) /\ Len(gs) = m + 1
  BY <1>1
<1>3. PICK e \in [0..m -> Bytestring] :
        /\ e[0] = <<>> /\ Encoded(fs) = e[m]
        /\ \A i \in 1..m : e[i] = e[i - 1] \o Wire(fs[i])
  BY <1>2, EncodedIs
<1>4. PICK d \in [0 .. m + 1 -> Bytestring] :
        /\ d[0] = <<>> /\ Encoded(gs) = d[m + 1]
        /\ \A i \in 1 .. m + 1 : d[i] = d[i - 1] \o Wire(gs[i])
  BY <1>2, EncodedIs
<1> DEFINE P == {i \in Nat : i <= m => d[i] = e[i]}
<1>5. 0 \in P
  BY <1>3, <1>4
<1>6. ASSUME NEW i \in Nat, i \in P PROVE i + 1 \in P
  <2>1. SUFFICES ASSUME i + 1 <= m PROVE d[i + 1] = e[i + 1]
    OBVIOUS
  <2>2. i + 1 \in 1..m /\ i + 1 \in 1 .. m + 1 /\ (i + 1) - 1 = i /\ d[i] = e[i]
    BY <1>6, <2>1
  <2>3. gs[i + 1] = fs[i + 1]
    BY <1>1, <1>2, <2>2
  <2>4. d[i + 1] = d[i] \o Wire(gs[i + 1]) /\ e[i + 1] = e[i] \o Wire(fs[i + 1])
    BY <1>3, <1>4, <2>2
  <2>5. QED
    BY <2>2, <2>3, <2>4
<1>7. d[m] = e[m]
  <2>1. \A i \in Nat : i \in P
    <3> HIDE DEF P
    <3>1. QED
      BY <1>5, <1>6, Induction
  <2>2. QED
    BY <2>1
<1>8. d[m + 1] = d[m] \o Wire(p)
  <2>1. m + 1 \in 1 .. m + 1 /\ (m + 1) - 1 = m /\ gs[m + 1] = p
    BY <1>1, <1>2
  <2>2. QED
    BY <1>4, <2>1
<1>9. QED
  BY <1>1, <1>3, <1>4, <1>7, <1>8

\* Encoded frames are a byte string.
LEMMA EncodedType ==
  ASSUME NEW fs \in Seq(Bytestring)
  PROVE  Encoded(fs) \in Bytestring
  BY Joining, EncodedAppend

\* What comes before a frame of a row, the frame itself, and the rest.
LEMMA EncodedSplit ==
  ASSUME NEW fs \in Seq(Bytestring), NEW n \in Nat, n < Len(fs)
  PROVE  \E z \in Bytestring :
           Encoded(fs) = Encoded(SubSeq(fs, 1, n)) \o (Wire(fs[n + 1]) \o z)
<1>1. PICK m \in Nat : m = Len(fs) /\ n < m
  OBVIOUS
<1>2. ASSUME NEW k \in 0..m
      PROVE  /\ SubSeq(fs, 1, k) \in Seq(Bytestring)
             /\ k < m => SubSeq(fs, 1, k + 1) = Append(SubSeq(fs, 1, k), fs[k + 1])
  <2>1. \A i \in 1..k : fs[i] \in Bytestring
    BY <1>1
  <2>2. SubSeq(fs, 1, k) \in Seq(Bytestring)
    BY <2>1, SubSeqProperties
  <2>3. ASSUME k < m
        PROVE  SubSeq(fs, 1, k + 1) = Append(SubSeq(fs, 1, k), fs[k + 1])
    <3>1. 1 \in 1..Len(fs) /\ k + 1 \in 1..Len(fs) /\ (k + 1) - 1 = k
          /\ fs[k + 1] \in Bytestring
      BY <1>1, <2>3
    <3>2. SubSeq(fs, 1, k + 1) = SubSeq(fs, 1, (k + 1) - 1) \o <<fs[k + 1]>>
      BY <3>1, SubSeqRecursiveSecond
    <3>3. QED
      BY <2>2, <3>1, <3>2, AppendIsConcat
  <2>4. QED
    BY <2>2, <2>3
<1> DEFINE E(k) == Encoded(SubSeq(fs, 1, k))
<1>3. ASSUME NEW k \in 0..m
      PROVE  E(k) \in Bytestring /\ (k < m => E(k + 1) = E(k) \o Wire(fs[k + 1]))
  <2>1. PICK gs \in Seq(Bytestring) : gs = SubSeq(fs, 1, k)
    BY <1>2
  <2>2. ASSUME k < m PROVE E(k + 1) = E(k) \o Wire(fs[k + 1])
    <3>1. PICK p \in Bytestring : p = fs[k + 1]
      BY <1>1, <2>2
    <3>2. SubSeq(fs, 1, k + 1) = Append(gs, p)
      BY <1>2, <2>1, <2>2, <3>1
    <3>3. QED
      BY <2>1, <3>1, <3>2, EncodedAppend
  <2>3. QED
    BY <2>1, <2>2, EncodedType
<1>4. \A k \in 1..m : Wire(fs[k]) \in Bytestring
  BY <1>1, WireType
<1> HIDE DEF E
<1> DEFINE Begins(i) == \E z \in Bytestring : E(i) = E(n) \o (Wire(fs[n + 1]) \o z)
           P == {k \in Nat : n + 1 + k <= m => Begins(n + 1 + k)}
<1>5. 0 \in P
  <2>1. n + 1 + 0 = n + 1 /\ n + 1 \in 1..m /\ n \in 0..m /\ n < m
    BY <1>1
  <2>2. PICK w \in Bytestring : w = Wire(fs[n + 1])
    BY <1>4, <2>1
  <2>3. E(n + 1) = E(n) \o (w \o <<>>) /\ <<>> \in Bytestring
    BY <1>3, <2>1, <2>2, Joining
  <2>4. Begins(n + 1)
    BY <2>2, <2>3
  <2>5. QED
    BY <2>1, <2>4
<1>6. ASSUME NEW k \in Nat, k \in P PROVE k + 1 \in P
  <2>1. SUFFICES ASSUME n + 1 + (k + 1) <= m PROVE Begins(n + 1 + (k + 1))
    <3> HIDE DEF Begins
    <3>1. QED
      OBVIOUS
  <2>2. PICK j \in 0..m : j = n + 1 + k /\ n + 1 + (k + 1) = j + 1 /\ j < m
    BY <1>1, <2>1
  <2>3. PICK z \in Bytestring : E(j) = E(n) \o (Wire(fs[n + 1]) \o z)
    <3>1. Begins(j)
      <4> HIDE DEF Begins
      <4>1. QED
        BY <1>6, <2>1, <2>2
    <3>2. QED
      BY <3>1
  <2>4. PICK a \in Bytestring : a = E(n)
    BY <1>1, <1>3
  <2>5. PICK w \in Bytestring : w = Wire(fs[n + 1])
    BY <1>1, <1>4
  <2>6. PICK y \in Bytestring : y = Wire(fs[j + 1])
    BY <1>4, <2>2
  <2>7. E(j + 1) = (a \o (w \o z)) \o y
    BY <1>3, <2>2, <2>3, <2>4, <2>5, <2>6
  <2>8. (a \o (w \o z)) \o y = a \o (w \o (z \o y)) /\ z \o y \in Bytestring
    <3>1. w \o z \in Bytestring /\ z \o y \in Bytestring
      BY Joining
    <3>2. (w \o z) \o y = w \o (z \o y)
      <4>1. Grouped(w, z, y)
        BY Grouping
      <4>2. QED
        BY <4>1 DEF Grouped
    <3>3. PICK x \in Bytestring : x = w \o z
      BY <3>1
    <3>4. (a \o x) \o y = a \o (x \o y)
      <4>1. Grouped(a, x, y)
        BY Grouping
      <4>2. QED
        BY <4>1 DEF Grouped
    <3>5. QED
      BY <3>1, <3>2, <3>3, <3>4
  <2>9. E(j + 1) = E(n) \o (Wire(fs[n + 1]) \o (z \o y)) /\ z \o y \in Bytestring
    BY <2>4, <2>5, <2>7, <2>8
  <2>10. Begins(j + 1)
    BY <2>9
  <2>11. QED
    BY <2>2, <2>10
<1>7. \A k \in Nat : k \in P
  <2> HIDE DEF P
  <2>1. QED
    BY <1>5, <1>6, Induction
<1>8. PICK z \in Bytestring : E(m) = E(n) \o (Wire(fs[n + 1]) \o z)
  <2>1. PICK k \in Nat : n + 1 + k = m
    <3>1. m - (n + 1) \in Nat /\ n + 1 + (m - (n + 1)) = m
      BY <1>1
    <3>2. QED
      BY <3>1
  <2>2. k \in P /\ Begins(n + 1 + k)
    <3> HIDE DEF Begins
    <3>1. QED
      BY <1>7, <2>1
  <2>3. QED
    BY <2>1, <2>2
<1>9. SubSeq(fs, 1, m) = fs
  BY <1>1, SubSeqFull
<1>10. QED
  BY <1>8, <1>9 DEF E

-----------------------------------------------------------------------------
(***************************************************************************)
(* Cutting byte strings.                                                   *)
(***************************************************************************)
\* ... and recv() adds to it what it takes off the wire.
LEMMA FirstOfThree ==
  ASSUME NEW a \in Bytestring, NEW c \in Bytestring, NEW d \in Bytestring
  PROVE  /\ a \o c \in Bytestring /\ Len(a \o c) = Len(a) + Len(c)
         /\ SubSeq(a \o (c \o d), 1, Len(a) + Len(c)) = a \o c
<1>1. PICK f \in Bytestring : f = a \o c /\ Len(f) = Len(a) + Len(c)
  BY Joining
<1>2. f \o d = a \o (c \o d)
  <2>1. Grouped(a, c, d)
    BY Grouping
  <2>2. QED
    BY <1>1, <2>1 DEF Grouped
<1>3. Len(f) \in Nat /\ SubSeq(f, 1, Len(f)) = f
  BY SubSeqFull DEF Bytestring
<1>4. SubSeq(f \o d, 1, Len(f)) = SubSeq(f, 1, Len(f))
  BY <1>3, ArrivedStays
<1>5. QED
  BY <1>1, <1>2, <1>3, <1>4

\* A recv() of n bytes makes what has arrived n bytes longer.
LEMMA ArrivedGrows ==
  ASSUME NEW s \in Bytestring, NEW r \in Nat, r <= Len(s),
         NEW n \in Nat, n <= Len(Drop(s, r))
  PROVE  /\ SubSeq(Drop(s, r), 1, n) \in Bytestring /\ r + n <= Len(s)
         /\ SubSeq(s, 1, r + n) = SubSeq(s, 1, r) \o SubSeq(Drop(s, r), 1, n)
<1>1. PICK a \in Bytestring : a = SubSeq(s, 1, r) /\ Len(a) = r
  BY Cutting
<1>2. PICK b \in Bytestring : b = Drop(s, r) /\ s = a \o b /\ Len(b) = Len(s) - r
  BY <1>1, Cutting
<1>3. PICK c \in Bytestring : c = SubSeq(b, 1, n) /\ Len(c) = n
  BY <1>2, Cutting
<1>4. PICK d \in Bytestring : b = c \o d
  BY <1>2, <1>3, Cutting
<1>5. Len(s) \in Nat /\ r + n <= Len(s)
  BY <1>2, Joining
<1>6. SubSeq(a \o (c \o d), 1, Len(a) + Len(c)) = a \o c
  BY FirstOfThree
<1>7. QED
  BY <1>1, <1>2, <1>3, <1>4, <1>5, <1>6

-----------------------------------------------------------------------------
(***************************************************************************)
(* The reader, whoever writes.                                             *)
(***************************************************************************)
\* Everything that extract_frames has found.
Found == delivered \o queue \o frames

TypeOK ==
  /\ sent \in Seq(Bytestring) /\ writing \in [Writers -> Seq(Bytestring)]
  /\ stream \in Bytestring /\ strange \in BOOLEAN /\ open \in BOOLEAN
  /\ received \in Nat /\ received <= Len(stream)
  /\ before \in Nat /\ before <= received
  /\ reader \in {"recv", "extract", "invalid", "closed"}
  /\ pending \in Bytestring
  /\ frames \in Seq(Bytestring) /\ queue \in Seq(Bytestring)
  /\ delivered \in Seq(Bytestring)

\* Frames are found between a recv() and the end of extract_frames, and the queue
\* is empty then.
Phases ==
  /\ reader # "extract" => frames = <<>>
  /\ reader # "recv" => queue = <<>>

ReaderInv == TypeOK /\ Phases /\ StreamAccounted

\* A step of a writer adds bytes to the stream and leaves the reader alone.
WriterStep ==
  /\ sent' \in Seq(Bytestring) /\ writing' \in [Writers -> Seq(Bytestring)]
  /\ strange' \in BOOLEAN /\ open' \in BOOLEAN
  /\ \E x \in Bytestring : stream' = stream \o x
  /\ UNCHANGED <<inputVars, readerVars>>

\* All frames found, when one more is or when they move on.
LEMMA FoundMoves ==
  ASSUME NEW d \in Seq(Bytestring), NEW q \in Seq(Bytestring), NEW f \in Seq(Bytestring)
  PROVE  /\ d \o q \o f \in Seq(Bytestring) /\ Len(d \o q \o f) = Len(d) + Len(q) + Len(f)
         /\ d \o (q \o f) \o <<>> = d \o q \o f
         /\ \A p \in Bytestring : d \o q \o Append(f, p) = Append(d \o q \o f, p)
         /\ q # <<>> => Append(d, Head(q)) \o Tail(q) = d \o q
<1>1. PICK S : S = Bytestring
  OBVIOUS
<1>2. d \in Seq(S) /\ q \in Seq(S) /\ f \in Seq(S)
  BY <1>1
<1>3. PICK c \in Seq(S) : c = d \o q /\ Len(c) = Len(d) + Len(q)
  BY <1>2, ConcatProperties
<1>4. c \o f \in Seq(S) /\ Len(c \o f) = Len(c) + Len(f)
  BY <1>2, ConcatProperties
<1>5. d \o (q \o f) = c \o f
  BY <1>2, <1>3, ConcatAssociative
<1>6. (c \o f) \o <<>> = c \o f
  BY <1>4, ConcatEmptySeq
<1>7. ASSUME NEW p \in S PROVE c \o Append(f, p) = Append(c \o f, p)
  <2>1. Append(f, p) = f \o <<p>> /\ <<p>> \in Seq(S)
    BY <1>2, AppendIsConcat
  <2>2. Append(c \o f, p) = (c \o f) \o <<p>>
    BY <1>4, AppendIsConcat
  <2>3. (c \o f) \o <<p>> = c \o (f \o <<p>>)
    <3>1. PICK t \in Seq(S) : t = <<p>>
      BY <2>1
    <3>2. Grouped(c, f, t)
      BY <1>2, SequencesGroup
    <3>3. QED
      BY <3>1, <3>2 DEF Grouped
  <2>4. QED
    BY <2>1, <2>2, <2>3
<1>8. ASSUME q # <<>> PROVE Append(d, Head(q)) \o Tail(q) = c
  <2>1. PICK h \in S : h = Head(q)
    BY <1>2, <1>8
  <2>2. PICK t \in Seq(S) : t = Tail(q) /\ q = <<h>> \o t
    <3>1. 1 \in 1..Len(q) /\ Len(q) \in 1..Len(q) /\ q[1] = h /\ Tail(q) \in Seq(S)
      BY <1>2, <1>8, <2>1
    <3>2. PICK t : t = SubSeq(q, 1 + 1, Len(q))
      OBVIOUS
    <3>3. SubSeq(q, 1, Len(q)) = <<q[1]>> \o t /\ SubSeq(q, 1, Len(q)) = q
      BY <1>2, <3>1, <3>2, SubSeqRecursiveFirst, SubSeqFull
    <3>4. t = Tail(q)
      <4>1. Tail(q) = SubSeq(q, 2, Len(q))
        BY <1>2, <1>8, TailIsSubSeq
      <4>2. 1 + 1 = 2
        OBVIOUS
      <4>3. QED
        BY <3>2, <4>1, <4>2
    <3>5. q = <<h>> \o t
      BY <3>1, <3>3
    <3>6. QED
      BY <3>1, <3>4, <3>5
  <2>3. Append(d, h) = d \o <<h>> /\ <<h>> \in Seq(S)
    BY <1>2, AppendIsConcat
  <2>4. (d \o <<h>>) \o t = d \o (<<h>> \o t)
    BY <1>2, <2>3, ConcatAssociative
  <2>5. QED
    BY <1>3, <2>1, <2>2, <2>3, <2>4
<1>9. QED
  BY <1>1, <1>3, <1>4, <1>5, <1>6, <1>7, <1>8

\* Such a step keeps the invariant of the reader.
LEMMA WriterKeeps ==
  ASSUME ReaderInv, WriterStep
  PROVE  ReaderInv'
<1>1. /\ UNCHANGED <<received, before, reader, pending>>
      /\ UNCHANGED <<frames, queue, delivered>>
  BY DEF WriterStep, inputVars, readerVars
<1>2. PICK s \in Bytestring : s = stream /\ received <= Len(s)
  BY DEF ReaderInv, TypeOK
<1>3. PICK x \in Bytestring : stream' = s \o x
  BY <1>2 DEF WriterStep
<1>4. PICK n \in Nat : n = received
  BY DEF ReaderInv, TypeOK
<1>5. /\ s \o x \in Bytestring /\ Len(s \o x) = Len(s) + Len(x)
      /\ Len(s) \in Nat /\ Len(x) \in Nat
  BY Joining
<1>6. TypeOK'
  BY <1>1, <1>2, <1>3, <1>4, <1>5 DEF ReaderInv, TypeOK, WriterStep
<1>7. Phases'
  BY <1>1 DEF ReaderInv, Phases
<1>8. SubSeq(s \o x, 1, n) = SubSeq(s, 1, n)
  BY <1>2, <1>4, ArrivedStays
<1>9. StreamAccounted'
  BY <1>1, <1>2, <1>3, <1>4, <1>8 DEF ReaderInv, StreamAccounted
<1>10. QED
  BY <1>6, <1>7, <1>9 DEF ReaderInv

\* A frame at the front of the buffer is cut off as it stands on the wire.
LEMMA FrameCut ==
  ASSUME pending \in Bytestring, HasHeader
  PROVE  /\ payload_length \in Nat /\ frame_size \in Nat
         /\ Len(pending) >= frame_size =>
              \E p, z \in Bytestring :
                /\ p = SubSeq(pending, kFrameHeaderSize + 1, frame_size)
                /\ z = Drop(pending, frame_size)
                /\ Len(p) = payload_length /\ pending = Wire(p) \o z
<1>1. PICK H \in Nat : H = kFrameHeaderSize
  BY FramingAssumption
<1>2. PICK s \in Bytestring : s = pending /\ H <= Len(s) /\ Len(s) \in Nat
  BY <1>1, Joining DEF HasHeader
<1>3. PICK h \in Bytestring : h = SubSeq(s, 1, H) /\ Len(h) = H
  BY <1>2, Cutting
<1>4. PICK b \in Bytestring : b = Drop(s, H) /\ s = h \o b /\ Len(b) = Len(s) - H
  BY <1>2, <1>3, Cutting
<1>5. PICK L \in Nat : L = ntohl(h) /\ htonl(L) = h
  BY <1>1, <1>3, HeaderWritten DEF Bytestring
<1>6. payload_length = L /\ frame_size = H + L
  BY <1>1, <1>2, <1>3, <1>5 DEF payload_length, frame_size
<1>7. ASSUME Len(s) >= H + L
      PROVE  \E p, z \in Bytestring :
                /\ p = SubSeq(s, H + 1, H + L) /\ z = Drop(s, H + L)
                /\ Len(p) = L /\ s = Wire(p) \o z
  <2>1. L <= Len(b)
    BY <1>2, <1>4, <1>7
  <2>2. PICK p \in Bytestring : p = SubSeq(b, 1, L) /\ Len(p) = L
    BY <2>1, Cutting
  <2>3. PICK z \in Bytestring : z = Drop(b, L) /\ b = p \o z
    BY <2>1, <2>2, Cutting
  <2>4. PICK w \in Bytestring : w = Wire(p) /\ w = h \o p /\ Len(w) = H + L
    <3>1. Wire(p) \in Bytestring /\ Len(Wire(p)) = kFrameHeaderSize + Len(p)
      BY WireType
    <3>2. Wire(p) = h \o p
      BY <1>5, <2>2 DEF Wire
    <3>3. QED
      BY <1>1, <2>2, <3>1, <3>2
  <2>5. s = w \o z
    <3>1. (h \o p) \o z = h \o (p \o z)
      <4>1. Grouped(h, p, z)
        BY Grouping
      <4>2. QED
        BY <4>1 DEF Grouped
    <3>2. QED
      BY <1>4, <2>3, <2>4, <3>1
  <2>6. SubSeq(s, 1, H + L) = w /\ Drop(s, H + L) = z
    <3>1. PICK t \in Nat : t = H + L /\ t <= Len(s)
      BY <1>2, <1>7
    <3>2. PICK c \in Bytestring : c = SubSeq(s, 1, t) /\ Len(c) = t
      BY <3>1, Cutting
    <3>3. PICK d \in Bytestring : d = Drop(s, t) /\ s = c \o d
      BY <3>1, <3>2, Cutting
    <3>4. c \o d = w \o z /\ Len(c) = Len(w)
      BY <2>4, <2>5, <3>1, <3>2, <3>3
    <3>5. c = w /\ d = z
      BY <3>4, CutAlike
    <3>6. QED
      BY <3>1, <3>2, <3>3, <3>5
  <2>7. SubSeq(s, H + 1, H + L) = p
    <3>1. /\ H + 1 \in Int /\ H + L \in Int
          /\ \A i \in H + 1 .. H + L : s[i] \in Byte
      BY <1>2, <1>7 DEF Bytestring
    <3>2. PICK u \in Bytestring : u = SubSeq(s, H + 1, H + L) /\ Len(u) = L
      <4>1. SubSeq(s, H + 1, H + L) \in Seq(Byte)
        BY <3>1, SubSeqProperties
      <4>2. Len(SubSeq(s, H + 1, H + L))
              = IF H + 1 <= H + L THEN H + L - (H + 1) + 1 ELSE 0
        BY <3>1, SubSeqProperties
      <4>3. (IF H + 1 <= H + L THEN H + L - (H + 1) + 1 ELSE 0) = L
        OBVIOUS
      <4>4. PICK u \in Bytestring : u = SubSeq(s, H + 1, H + L)
        BY <4>1 DEF Bytestring
      <4>5. QED
        BY <4>2, <4>3, <4>4
    <3>3. SubSeq(s, 1, H) \o SubSeq(s, H + 1, H + L) = SubSeq(s, 1, H + L)
      <4>1. 1 \in 1 .. Len(s) + 1 /\ H \in 1 - 1 .. Len(s) /\ H + L \in H .. Len(s)
        BY <1>2, <1>7
      <4>2. QED
        BY <4>1, ConcatAdjacentSubSeq DEF Bytestring
    <3>4. h \o u = h \o p
      BY <1>3, <2>4, <2>6, <3>2, <3>3
    <3>5. QED
      BY <3>2, <3>4, CutAlike
  <2>8. QED
    BY <2>2, <2>4, <2>5, <2>6, <2>7
<1>8. QED
  BY <1>1, <1>2, <1>6, <1>7

\* Each step of a writer is one.
LEMMA SendFrameWrites ==
  ASSUME ReaderInv, NEW w \in Writers, NEW p \in Payloads, SendFrame(w, p)
  PROVE  WriterStep
<1>1. /\ p \in Bytestring /\ Len(p) \in Nat /\ htonl(Len(p)) \in Bytestring
      /\ sent \in Seq(Bytestring) /\ writing \in [Writers -> Seq(Bytestring)]
      /\ stream \in Bytestring /\ strange \in BOOLEAN /\ open \in BOOLEAN
  <2>1. p \in Bytestring /\ Len(p) \in Nat
    BY FramingAssumption, Joining DEF Bytestring
  <2>2. QED
    BY <2>1, HeaderType DEF Bytestring, ReaderInv, TypeOK
<1>2. <<htonl(Len(p)), p>> \in Seq(Bytestring)
  BY <1>1
<1>3. Append(sent, p) \in Seq(Bytestring)
  BY <1>1, AppendProperties
<1>4. sent' \in Seq(Bytestring) /\ writing' \in [Writers -> Seq(Bytestring)]
  BY <1>1, <1>2, <1>3 DEF SendFrame
<1>5. stream' = stream \o <<>> /\ <<>> \in Bytestring
  BY <1>1, Joining DEF SendFrame
<1>6. QED
  BY <1>1, <1>4, <1>5 DEF SendFrame, WriterStep

\* A send() of part of a buffer.
LEMMA SendWrites ==
  ASSUME ReaderInv, NEW w \in Writers, NEW n, Send(w, n)
  PROVE  WriterStep
<1>1. /\ sent \in Seq(Bytestring) /\ writing \in [Writers -> Seq(Bytestring)]
      /\ stream \in Bytestring /\ strange \in BOOLEAN /\ open \in BOOLEAN
  BY DEF ReaderInv, TypeOK
<1>2. writing[w] # <<>> /\ writing[w] \in Seq(Bytestring)
  BY <1>1 DEF Send
<1>3. PICK data \in Bytestring : data = Head(writing[w])
  BY <1>2
<1>4. PICK t \in Seq(Bytestring) : t = Tail(writing[w])
  BY <1>2, HeadTailProperties
<1>5. n \in Nat /\ n <= Len(data)
  BY <1>3, Joining DEF Send
<1>6. SubSeq(data, 1, n) \in Bytestring /\ Drop(data, n) \in Bytestring
  BY <1>5, Cutting
<1>7. <<Drop(data, n)>> \o t \in Seq(Bytestring)
  <2>1. <<Drop(data, n)>> \in Seq(Bytestring)
    BY <1>6
  <2>2. QED
    BY <2>1, ConcatProperties
<1>8. writing' \in [Writers -> Seq(Bytestring)]
  <2>1. writing' = [writing EXCEPT ![w] = IF n < Len(data) THEN <<Drop(data, n)>> \o t
                                          ELSE t]
    BY <1>1, <1>3, <1>4 DEF Send
  <2>2. QED
    BY <1>1, <1>7, <2>1
<1>9. stream' = stream \o SubSeq(data, 1, n)
  BY <1>3 DEF Send
<1>10. QED
  BY <1>1, <1>6, <1>8, <1>9 DEF Send, WriterStep

\* The writer's other steps, and those of the connection and the peer.
LEMMA OthersWrite ==
  ASSUME ReaderInv,
         \/ \E w \in Writers : SendNothing(w) \/ SendFails(w)
         \/ Break \/ Strange
  PROVE  WriterStep
<1>1. /\ sent \in Seq(Bytestring) /\ writing \in [Writers -> Seq(Bytestring)]
      /\ stream \in Bytestring /\ strange \in BOOLEAN /\ open \in BOOLEAN
  BY DEF ReaderInv, TypeOK
<1>2. stream = stream \o <<>> /\ <<>> \in Bytestring /\ <<>> \in Seq(Bytestring)
  BY <1>1, Joining
<1>3. ASSUME NEW w \in Writers, SendNothing(w) PROVE WriterStep
  <2>1. Tail(writing[w]) \in Seq(Bytestring)
    BY <1>1, <1>3 DEF SendNothing
  <2>2. writing' \in [Writers -> Seq(Bytestring)]
    BY <1>1, <1>3, <2>1 DEF SendNothing
  <2>3. QED
    BY <1>1, <1>2, <1>3, <2>2 DEF SendNothing, WriterStep
<1>4. ASSUME NEW w \in Writers, SendFails(w) PROVE WriterStep
  <2>1. writing' \in [Writers -> Seq(Bytestring)]
    BY <1>1, <1>2, <1>4 DEF SendFails
  <2>2. QED
    BY <1>1, <1>2, <1>4, <2>1 DEF SendFails, WriterStep
<1>5. CASE Break
  BY <1>1, <1>2, <1>5 DEF Break, writerVars, WriterStep
<1>6. CASE Strange
  <2>1. htonl(kMaxFramePayloadSize + 1) \in Bytestring
    <3>1. kMaxFramePayloadSize + 1 \in Nat
      BY FramingAssumption
    <3>2. QED
      BY <3>1, HeaderType DEF Bytestring
  <2>2. QED
    BY <1>1, <1>6, <2>1 DEF Strange, WriterStep
<1>7. QED
  BY <1>3, <1>4, <1>5, <1>6

\* The reader's steps.
LEMMA RecvKeeps ==
  ASSUME ReaderInv, NEW n, Recv(n)
  PROVE  ReaderInv'
<1>1. /\ reader = "recv" /\ reader' = "extract" /\ frames = <<>> /\ frames' = <<>>
      /\ queue = <<>> /\ queue' = queue /\ delivered' = delivered
      /\ before' = received /\ received' = received + n /\ stream' = stream
      /\ UNCHANGED <<sent, writing, strange, open>>
      /\ pending' = pending \o SubSeq(wire, 1, n)
  BY DEF Recv, ReaderInv, Phases, writerVars
<1>2. PICK s \in Bytestring : s = stream
  BY DEF ReaderInv, TypeOK
<1>3. PICK r \in Nat : r = received /\ r <= Len(s)
  BY <1>2 DEF ReaderInv, TypeOK
<1>4. PICK v \in Bytestring : v = wire /\ v = Drop(s, r)
  BY <1>2, <1>3, Cutting DEF wire
<1>5. n \in Nat /\ n <= Len(v)
  BY <1>4, Joining DEF Recv
<1>6. PICK x \in Bytestring : x = SubSeq(v, 1, n)
  BY <1>5, Cutting
<1>7. r + n <= Len(s) /\ SubSeq(s, 1, r + n) = SubSeq(s, 1, r) \o x
  BY <1>3, <1>4, <1>5, <1>6, ArrivedGrows
<1>8. PICK b \in Bytestring : b = pending
  BY DEF ReaderInv, TypeOK
<1>9. pending' = b \o x /\ b \o x \in Bytestring
  BY <1>1, <1>4, <1>6, <1>8, Joining
<1>10. TypeOK'
  <2>1. /\ received' \in Nat /\ received' <= Len(stream')
        /\ before' \in Nat /\ before' <= received'
    BY <1>1, <1>2, <1>3, <1>5, <1>7
  <2>2. frames' \in Seq(Bytestring)
    BY <1>1
  <2>3. QED
    BY <1>1, <1>9, <2>1, <2>2 DEF ReaderInv, TypeOK
<1>11. Phases'
  BY <1>1 DEF Phases
<1>12. PICK e \in Bytestring : e = Encoded(Found)
  <2>1. Found \in Seq(Bytestring)
    BY FoundMoves DEF Found, ReaderInv, TypeOK
  <2>2. QED
    BY <2>1, EncodedType
<1>13. e \o b = SubSeq(s, 1, r)
  BY <1>1, <1>2, <1>3, <1>8, <1>12 DEF ReaderInv, StreamAccounted, Found
<1>14. e \o (b \o x) = (e \o b) \o x
  <2>1. Grouped(e, b, x)
    BY Grouping
  <2>2. QED
    BY <2>1 DEF Grouped
<1>15. Encoded(delivered \o queue \o frames)' = e
  BY <1>1, <1>12 DEF Found
<1>16. StreamAccounted'
  BY <1>1, <1>2, <1>3, <1>7, <1>9, <1>13, <1>14, <1>15 DEF StreamAccounted
<1>17. QED
  BY <1>10, <1>11, <1>16 DEF ReaderInv

\* A turn of the loop of extract_frames that cuts off a frame.
LEMMA ExtractKeeps ==
  ASSUME ReaderInv, Extract
  PROVE  ReaderInv'
<1>1. /\ reader = "extract" /\ reader' = reader /\ Complete
      /\ UNCHANGED <<sent, writing, strange, open, stream, received, before>>
      /\ UNCHANGED <<queue, delivered>>
      /\ frames' = Append(frames, SubSeq(pending, kFrameHeaderSize + 1, frame_size))
      /\ pending' = Drop(pending, frame_size)
  BY DEF Extract, writerVars, inputVars
<1>2. PICK b \in Bytestring : b = pending
  BY DEF ReaderInv, TypeOK
<1>3. PICK p, z \in Bytestring :
        /\ p = SubSeq(pending, kFrameHeaderSize + 1, frame_size)
        /\ z = Drop(pending, frame_size) /\ pending = Wire(p) \o z
  BY <1>1, <1>2, FrameCut DEF Complete
<1>4. frames' = Append(frames, p) /\ pending' = z
  BY <1>1, <1>3
<1>5. PICK d, q, f \in Seq(Bytestring) : d = delivered /\ q = queue /\ f = frames
  BY DEF ReaderInv, TypeOK
<1>6. Append(f, p) \in Seq(Bytestring)
  BY AppendProperties
<1>7. TypeOK'
  BY <1>1, <1>4, <1>5, <1>6 DEF ReaderInv, TypeOK
<1>8. Phases'
  BY <1>1 DEF ReaderInv, Phases
<1>9. PICK g \in Seq(Bytestring) : g = d \o q \o f /\ d \o q \o Append(f, p) = Append(g, p)
  <2>1. d \o q \o f \in Seq(Bytestring)
    BY FoundMoves
  <2>2. d \o q \o Append(f, p) = Append(d \o q \o f, p)
    BY FoundMoves
  <2>3. QED
    BY <2>1, <2>2
<1>10. PICK e \in Bytestring : e = Encoded(g) /\ Encoded(Append(g, p)) = e \o Wire(p)
  BY EncodedAppend
<1>11. PICK w \in Bytestring : w = Wire(p)
  BY WireType
<1>12. e \o (w \o z) = SubSeq(stream, 1, received)
  BY <1>1, <1>3, <1>5, <1>9, <1>10, <1>11 DEF ReaderInv, StreamAccounted
<1>13. (e \o w) \o z = e \o (w \o z)
  <2>1. Grouped(e, w, z)
    BY Grouping
  <2>2. QED
    BY <2>1 DEF Grouped
<1>14. Encoded(delivered \o queue \o frames)' = e \o w
  BY <1>1, <1>4, <1>5, <1>9, <1>10, <1>11
<1>15. StreamAccounted'
  BY <1>1, <1>4, <1>12, <1>13, <1>14 DEF StreamAccounted
<1>16. QED
  BY <1>7, <1>8, <1>15 DEF ReaderInv

\* The ends of the loop, the end of the input, and a frame handed on.
LEMMA OthersKeep ==
  ASSUME ReaderInv, RecvEnds \/ ExtractFails \/ ExtractReturns \/ Take
  PROVE  ReaderInv'
<1>1. PICK d, q, f \in Seq(Bytestring) : d = delivered /\ q = queue /\ f = frames
  BY DEF ReaderInv, TypeOK
<1>2. <<>> \in Seq(Bytestring)
  OBVIOUS
<1>3. CASE RecvEnds
  <2>1. /\ reader = "recv" /\ reader' = "closed" /\ queue = <<>>
        /\ UNCHANGED <<sent, writing, strange, open, stream, received, before>>
        /\ UNCHANGED <<pending, frames, queue, delivered>>
    BY <1>3 DEF RecvEnds, writerVars, inputVars
  <2>2. TypeOK'
    BY <2>1 DEF ReaderInv, TypeOK
  <2>3. Phases' /\ StreamAccounted'
    BY <2>1 DEF ReaderInv, Phases, StreamAccounted
  <2>4. QED
    BY <2>2, <2>3 DEF ReaderInv
<1>4. CASE ExtractFails
  <2>1. /\ reader = "extract" /\ reader' = "invalid" /\ frames' = <<>>
        /\ UNCHANGED <<sent, writing, strange, open, stream, received, before>>
        /\ UNCHANGED <<pending, queue, delivered>>
    BY <1>4 DEF ExtractFails, writerVars, inputVars
  <2>2. TypeOK'
    BY <1>2, <2>1 DEF ReaderInv, TypeOK
  <2>3. Phases' /\ StreamAccounted'
    BY <2>1 DEF ReaderInv, Phases, StreamAccounted
  <2>4. QED
    BY <2>2, <2>3 DEF ReaderInv
<1>5. CASE ExtractReturns
  <2>1. /\ reader = "extract" /\ reader' = "recv" /\ frames' = <<>> /\ queue' = queue \o frames
        /\ UNCHANGED <<sent, writing, strange, open, stream, received, before>>
        /\ UNCHANGED <<pending, delivered>>
    BY <1>5 DEF ExtractReturns, writerVars, inputVars
  <2>2. q \o f \in Seq(Bytestring)
    BY ConcatProperties
  <2>3. TypeOK'
    BY <1>1, <1>2, <2>1, <2>2 DEF ReaderInv, TypeOK
  <2>4. Phases'
    BY <2>1 DEF Phases
  <2>5. d \o (q \o f) \o <<>> = d \o q \o f
    BY FoundMoves
  <2>6. StreamAccounted'
    BY <1>1, <2>1, <2>5 DEF ReaderInv, StreamAccounted
  <2>7. QED
    BY <2>3, <2>4, <2>6 DEF ReaderInv
<1>6. CASE Take
  <2>1. /\ reader = "recv" /\ queue # <<>>
        /\ delivered' = Append(delivered, Head(queue)) /\ queue' = Tail(queue)
        /\ UNCHANGED <<sent, writing, strange, open, stream, received, before>>
        /\ UNCHANGED <<reader, pending, frames>>
    BY <1>6 DEF Take, writerVars, inputVars
  <2>2. Head(q) \in Bytestring /\ Tail(q) \in Seq(Bytestring)
    BY <1>1, <2>1
  <2>3. Append(d, Head(q)) \in Seq(Bytestring)
    BY <2>2, AppendProperties
  <2>4. TypeOK'
    BY <1>1, <2>1, <2>2, <2>3 DEF ReaderInv, TypeOK
  <2>5. Phases'
    BY <2>1 DEF ReaderInv, Phases
  <2>6. Append(d, Head(q)) \o Tail(q) = d \o q
    BY <1>1, <2>1, FoundMoves
  <2>7. StreamAccounted'
    BY <1>1, <2>1, <2>6 DEF ReaderInv, StreamAccounted
  <2>8. QED
    BY <2>4, <2>5, <2>7 DEF ReaderInv
<1>7. QED
  BY <1>3, <1>4, <1>5, <1>6

\* A step is one of a writer, of the reader, or none.
LEMMA StepIs ==
  ASSUME Next
  PROVE  \/ \E w \in Writers : \/ \E p \in Payloads : SendFrame(w, p)
                               \/ \E n : Send(w, n)
                               \/ SendNothing(w) \/ SendFails(w)
         \/ Break \/ Strange
         \/ (\E n : Recv(n)) \/ Extract
         \/ RecvEnds \/ ExtractFails \/ ExtractReturns \/ Take
         \/ UNCHANGED vars
  BY DEF Next, Sending, Reading, Idle

\* The invariant of the reader holds at the start ...
LEMMA ReaderInit == Init => ReaderInv
<1> SUFFICES ASSUME Init PROVE ReaderInv
  OBVIOUS
<1>1. <<>> \in Bytestring /\ <<>> \in Seq(Bytestring) /\ Len(<<>>) = 0
  BY Joining
<1>2. TypeOK
  <2>1. writing \in [Writers -> Seq(Bytestring)]
    BY <1>1 DEF Init
  <2>2. /\ received \in Nat /\ received <= Len(stream)
        /\ before \in Nat /\ before <= received
    BY <1>1 DEF Init
  <2>3. /\ sent \in Seq(Bytestring) /\ frames \in Seq(Bytestring)
        /\ queue \in Seq(Bytestring) /\ delivered \in Seq(Bytestring)
        /\ stream \in Bytestring /\ pending \in Bytestring
    BY <1>1 DEF Init
  <2>4. /\ strange \in BOOLEAN /\ open \in BOOLEAN
        /\ reader \in {"recv", "extract", "invalid", "closed"}
    BY DEF Init
  <2>5. QED
    BY <2>1, <2>2, <2>3, <2>4 DEF TypeOK
<1>3. Phases
  BY DEF Init, Phases
<1>4. Encoded(<<>> \o <<>> \o <<>>) \o <<>> = <<>>
  <2>1. <<>> \o <<>> = <<>>
    OBVIOUS
  <2>2. QED
    BY <2>1, EncodedEmpty
<1>5. SubSeq(<<>>, 1, 0) = <<>>
  BY SubSeqEmpty
<1>6. StreamAccounted
  BY <1>4, <1>5 DEF Init, StreamAccounted
<1>7. QED
  BY <1>2, <1>3, <1>6 DEF ReaderInv

\* ... and every step keeps it.
LEMMA ReaderStep == ReaderInv /\ [Next]_vars => ReaderInv'
<1> SUFFICES ASSUME ReaderInv, [Next]_vars PROVE ReaderInv'
  OBVIOUS
<1>1. CASE \/ \E w \in Writers : \/ \E p \in Payloads : SendFrame(w, p)
                                 \/ \E n : Send(w, n)
                                 \/ SendNothing(w) \/ SendFails(w)
           \/ Break \/ Strange
  BY <1>1, SendFrameWrites, SendWrites, OthersWrite, WriterKeeps
<1>2. CASE \E n : Recv(n)
  BY <1>2, RecvKeeps
<1>3. CASE Extract
  BY <1>3, ExtractKeeps
<1>4. CASE RecvEnds \/ ExtractFails \/ ExtractReturns \/ Take
  BY <1>4, OthersKeep
<1>5. CASE UNCHANGED vars
  <2>1. /\ UNCHANGED <<sent, writing, strange, open, stream, received, before>>
        /\ UNCHANGED <<reader, pending, frames, queue, delivered>>
    BY <1>5 DEF vars, writerVars, inputVars, readerVars
  <2>2. TypeOK'
    BY <2>1 DEF ReaderInv, TypeOK
  <2>3. Phases' /\ StreamAccounted'
    BY <2>1 DEF ReaderInv, Phases, StreamAccounted
  <2>4. QED
    BY <2>2, <2>3 DEF ReaderInv
<1>6. QED
  BY <1>1, <1>2, <1>3, <1>4, <1>5, StepIs

\* However many threads write to the socket, and whatever they write, the frames
\* that extract_frames has found and the bytes it keeps are exactly what recv()
\* returned: no byte is dropped, repeated or moved, wherever recv() cuts.
THEOREM BytesAccounted == Spec => []StreamAccounted
<1>1. ReaderInv => StreamAccounted
  BY DEF ReaderInv
<1>2. QED
  BY <1>1, ReaderInit, ReaderStep, PTL DEF Spec

-----------------------------------------------------------------------------
(***************************************************************************)
(* One writer.                                                             *)
(***************************************************************************)
OneWriter == \E w : Writers = {w}

\* What thread w has still to send: nothing, one buffer or two.
Unsent(w, z) ==
  \/ writing[w] = <<>> /\ z = <<>>
  \/ writing[w] = <<z>>
  \/ \E a, b \in Bytestring : writing[w] = <<a, b>> /\ z = a \o b

\* The length a strange peer writes.
TooLong == htonl(kMaxFramePayloadSize + 1)

\* The stream is the encoding of the frames sent, but for what is still to be
\* sent or got lost with the connection; a strange peer's length comes last.
WriterInv ==
  /\ \A i \in 1..Len(sent) : Len(sent[i]) <= kMaxFramePayloadSize
  /\ strange => /\ Strangers /\ stream = Encoded(sent) \o TooLong
                /\ \A w \in Writers : writing[w] = <<>>
  /\ ~strange => \E z \in Bytestring :
                   /\ stream \o z = Encoded(sent)
                   /\ open => \A w \in Writers : Unsent(w, z)

\* The invariant of the writer holds at the start.
LEMMA WriterInit == Init => WriterInv
<1> SUFFICES ASSUME Init PROVE WriterInv
  OBVIOUS
<1>1. 1..Len(sent) = {} /\ strange = FALSE
  BY DEF Init
<1>2. <<>> \in Bytestring /\ stream \o <<>> = Encoded(sent)
  BY Joining, EncodedEmpty DEF Init
<1>3. \A w \in Writers : Unsent(w, <<>>)
  BY DEF Init, Unsent
<1>4. QED
  BY <1>1, <1>2, <1>3 DEF WriterInv

\* Nothing of it changes when the reader moves.
LEMMA WriterUnmoved ==
  ASSUME WriterInv, UNCHANGED <<sent, writing, strange, stream, open>>
  PROVE  WriterInv'
  BY DEF WriterInv, Unsent

\* A frame that send_frame accepts is what is still to be sent.
LEMMA SendFrameKeepsWriter ==
  ASSUME ReaderInv, WriterInv, OneWriter, NEW w \in Writers, NEW p \in Payloads,
         SendFrame(w, p)
  PROVE  WriterInv'
<1>1. /\ writing[w] = <<>> /\ ~strange /\ ~strange' /\ stream' = stream /\ open' = open
      /\ writing \in [Writers -> Seq(Bytestring)] /\ sent \in Seq(Bytestring)
      /\ p \in Bytestring /\ Len(p) \in Nat /\ \A v \in Writers : v = w
  <2>1. p \in Bytestring
    BY FramingAssumption DEF Bytestring
  <2>2. QED
    BY <2>1, Joining DEF SendFrame, ReaderInv, TypeOK, OneWriter
<1>2. CASE UNCHANGED <<sent, writing>>
  BY <1>1, <1>2 DEF WriterInv, Unsent
<1>3. CASE /\ Len(p) <= kMaxFramePayloadSize /\ sent' = Append(sent, p)
           /\ writing' = [writing EXCEPT ![w] = <<htonl(Len(p)), p>>]
  <2>1. PICK s \in Bytestring : s = stream
    BY DEF ReaderInv, TypeOK
  <2>2. PICK z \in Bytestring : s \o z = Encoded(sent) /\ (open => Unsent(w, z))
    BY <1>1, <2>1 DEF WriterInv
  <2>3. PICK h \in Bytestring : h = htonl(Len(p))
    BY <1>1, HeaderType DEF Bytestring
  <2>4. PICK x \in Bytestring : x = Wire(p) /\ x = h \o p
    BY <1>1, <2>3, WireType DEF Wire
  <2>5. Encoded(sent') = (s \o z) \o x
    BY <1>1, <1>3, <2>2, <2>4, EncodedAppend
  <2>6. (s \o z) \o x = s \o (z \o x) /\ z \o x \in Bytestring
    <3>1. Grouped(s, z, x)
      BY Grouping
    <3>2. QED
      BY <3>1, Joining DEF Grouped
  <2>7. open => z \o x = h \o p
    BY <1>1, <2>2, <2>4, Joining DEF Unsent
  <2>8. writing'[w] = <<h, p>>
    BY <1>1, <1>3, <2>3
  <2>9. open => \A v \in Writers : Unsent(v, z \o x)'
    BY <1>1, <2>7, <2>8 DEF Unsent
  <2>10. \A i \in 1..Len(sent') : Len(sent'[i]) <= kMaxFramePayloadSize
    <3>1. /\ Len(sent') = Len(sent) + 1 /\ sent'[Len(sent) + 1] = p
          /\ \A i \in 1..Len(sent) : sent'[i] = sent[i]
      BY <1>1, <1>3, AppendProperties
    <3>2. Len(sent) \in Nat
      BY <1>1
    <3>3. QED
      BY <1>3, <3>1, <3>2 DEF WriterInv
  <2>11. QED
    BY <1>1, <2>1, <2>5, <2>6, <2>9, <2>10 DEF WriterInv
<1>4. QED
  BY <1>2, <1>3 DEF SendFrame

\* send() takes the first part x of a buffer, and the rest c stays.
LEMMA SendTakes ==
  ASSUME ReaderInv, NEW w \in Writers, NEW n, Send(w, n),
         NEW a \in Bytestring, a = Head(writing[w])
  PROVE  \E x, c \in Bytestring :
           /\ a = x \o c /\ stream' = stream \o x
           /\ \/ writing'[w] = <<c>> \o Tail(writing[w])
              \/ writing'[w] = Tail(writing[w]) /\ c = <<>>
<1>1. Len(a) \in Nat /\ n \in Nat /\ n <= Len(a)
  BY Joining DEF Send
<1>2. PICK x, c \in Bytestring : x = SubSeq(a, 1, n) /\ c = Drop(a, n) /\ a = x \o c
  <2>1. /\ SubSeq(a, 1, n) \in Bytestring /\ Drop(a, n) \in Bytestring
        /\ a = SubSeq(a, 1, n) \o Drop(a, n)
    BY <1>1, Cutting
  <2>2. QED
    BY <2>1
<1>3. ~(n < Len(a)) => c = <<>>
  <2>1. ~(n < Len(a)) => Len(a) < n + 1
    BY <1>1
  <2>2. QED
    BY <1>1, <1>2, <2>1, SubSeqEmpty DEF Drop
<1>4. writing \in [Writers -> Seq(Bytestring)]
  BY DEF ReaderInv, TypeOK
<1>5. stream' = stream \o x
  BY <1>2 DEF Send
<1>6. writing'[w] = IF n < Len(a) THEN <<c>> \o Tail(writing[w]) ELSE Tail(writing[w])
  BY <1>2, <1>4 DEF Send
<1>7. QED
  BY <1>2, <1>3, <1>5, <1>6

\* One send() of the only writer.
LEMMA SendKeepsWriter ==
  ASSUME ReaderInv, WriterInv, OneWriter, NEW w \in Writers, NEW n, Send(w, n)
  PROVE  WriterInv'
<1>1. /\ writing[w] # <<>> /\ open /\ open' = open /\ sent' = sent
      /\ strange' = strange /\ ~strange
      /\ writing \in [Writers -> Seq(Bytestring)] /\ \A v \in Writers : v = w
  BY DEF Send, ReaderInv, TypeOK, OneWriter, WriterInv
<1>2. PICK s \in Bytestring : s = stream
  BY DEF ReaderInv, TypeOK
<1>3. PICK z \in Bytestring : s \o z = Encoded(sent) /\ Unsent(w, z)
  BY <1>1, <1>2 DEF WriterInv
<1>4. SUFFICES \E y \in Bytestring : stream' \o y = s \o z /\ Unsent(w, y)'
  BY <1>1, <1>3 DEF WriterInv
<1>5. CASE writing[w] = <<z>>
  <2>1. Head(writing[w]) = z /\ Tail(writing[w]) = <<>>
    BY <1>5, TwoBuffers
  <2>2. PICK x, y \in Bytestring :
          /\ z = x \o y /\ stream' = stream \o x
          /\ \/ writing'[w] = <<y>> \o Tail(writing[w])
             \/ writing'[w] = Tail(writing[w]) /\ y = <<>>
    BY <2>1, SendTakes
  <2>3. (s \o x) \o y = s \o (x \o y)
    <3>1. Grouped(s, x, y)
      BY Grouping
    <3>2. QED
      BY <3>1 DEF Grouped
  <2>4. Unsent(w, y)'
    BY <2>1, <2>2, TwoBuffers DEF Unsent
  <2>5. QED
    BY <1>2, <2>2, <2>3, <2>4
<1>6. ASSUME NEW a \in Bytestring, NEW b \in Bytestring,
             writing[w] = <<a, b>>, z = a \o b
      PROVE  \E y \in Bytestring : stream' \o y = s \o z /\ Unsent(w, y)'
  <2>1. Head(writing[w]) = a /\ Tail(writing[w]) = <<b>>
    BY <1>6, TwoBuffers
  <2>2. PICK x, c \in Bytestring :
          /\ a = x \o c /\ stream' = stream \o x
          /\ \/ writing'[w] = <<c>> \o Tail(writing[w])
             \/ writing'[w] = Tail(writing[w]) /\ c = <<>>
    BY <2>1, SendTakes
  <2>3. PICK y \in Bytestring : y = c \o b
    BY Joining
  <2>4. Regrouped(s, x, c, b)
    BY FourInARow
  <2>5. c = <<>> => y = b
    BY <2>3, Joining
  <2>6. writing'[w] = <<c, b>> \/ writing'[w] = <<y>>
    <3>1. <<c>> \o <<b>> = <<c, b>>
      BY TwoBuffers
    <3>2. QED
      BY <2>1, <2>2, <2>5, <3>1
  <2>7. Unsent(w, y)'
    BY <2>3, <2>6 DEF Unsent
  <2>8. QED
    BY <1>2, <1>6, <2>2, <2>3, <2>4, <2>7 DEF Regrouped
<1>7. QED
  BY <1>1, <1>3, <1>5, <1>6 DEF Unsent

\* An empty payload, an error of send(), and the steps of the peer.
LEMMA OthersKeepWriter ==
  ASSUME ReaderInv, WriterInv, OneWriter,
         \/ \E w \in Writers : SendNothing(w) \/ SendFails(w)
         \/ Break \/ Strange
  PROVE  WriterInv'
<1>1. PICK w : Writers = {w}
  BY DEF OneWriter
<1>2. PICK s \in Bytestring : s = stream
  BY DEF ReaderInv, TypeOK
<1>3. writing \in [Writers -> Seq(Bytestring)] /\ writing[w] \in Seq(Bytestring)
  BY <1>1 DEF ReaderInv, TypeOK
<1>4. CASE SendNothing(w)
  <2>1. /\ writing[w] # <<>> /\ Head(writing[w]) = <<>> /\ writing'[w] = Tail(writing[w])
        /\ UNCHANGED <<sent, strange, stream, open>> /\ ~strange
    BY <1>1, <1>3, <1>4 DEF SendNothing, WriterInv
  <2>2. PICK z \in Bytestring : s \o z = Encoded(sent) /\ (open => Unsent(w, z))
    BY <1>1, <1>2, <2>1 DEF WriterInv
  <2>3. open => Unsent(w, z)'
    <3>1. CASE open /\ writing[w] = <<z>>
      <4>1. Tail(<<z>>) = <<>> /\ Head(<<z>>) = z
        OBVIOUS
      <4>2. QED
        BY <2>1, <3>1, <4>1 DEF Unsent
    <3>2. ASSUME NEW a \in Bytestring, NEW b \in Bytestring,
                 writing[w] = <<a, b>>, z = a \o b
          PROVE  Unsent(w, z)'
      <4>1. Tail(<<a, b>>) = <<b>> /\ Head(<<a, b>>) = a
        OBVIOUS
      <4>2. z = b /\ writing'[w] = <<b>>
        BY <2>1, <3>2, <4>1, Joining
      <4>3. QED
        BY <4>2 DEF Unsent
    <3>3. QED
      BY <2>1, <2>2, <3>1, <3>2 DEF Unsent
  <2>4. QED
    BY <1>1, <1>2, <2>1, <2>2, <2>3 DEF WriterInv
<1>5. CASE SendFails(w)
  <2>1. /\ UNCHANGED <<sent, strange, stream, open>> /\ ~open /\ ~strange
    BY <1>1, <1>5 DEF SendFails, WriterInv
  <2>2. QED
    BY <2>1 DEF WriterInv
<1>6. CASE Break
  <2>1. UNCHANGED <<sent, writing, strange, stream>> /\ ~open'
    BY <1>6 DEF Break, writerVars
  <2>2. QED
    BY <2>1 DEF WriterInv
<1>7. CASE Strange
  <2>1. /\ Strangers /\ open /\ ~strange /\ strange' /\ writing[w] = <<>>
        /\ UNCHANGED <<sent, writing>> /\ stream' = s \o TooLong
    BY <1>1, <1>2, <1>7 DEF Strange, TooLong
  <2>2. PICK z \in Bytestring : s \o z = Encoded(sent) /\ Unsent(w, z)
    BY <1>1, <1>2, <2>1 DEF WriterInv
  <2>3. z = <<>>
    BY <2>1, <2>2 DEF Unsent
  <2>4. s = Encoded(sent)
    BY <2>2, <2>3, Joining
  <2>5. QED
    BY <1>1, <2>1, <2>4 DEF WriterInv
<1>8. QED
  BY <1>1, <1>4, <1>5, <1>6, <1>7

-----------------------------------------------------------------------------
(***************************************************************************)
(* What stands at the front of the buffer.                                 *)
(***************************************************************************)
\* The frames f are the first ones of s.
StartOf(f, s) == Len(f) <= Len(s) /\ \A i \in 1..Len(f) : f[i] = s[i]

\* Everything found so far was sent, in that order.
InOrder == StartOf(Found, sent)

\* The first n frames.
LEMMA FirstFrames ==
  ASSUME NEW s \in Seq(Bytestring), NEW n \in Nat, n <= Len(s)
  PROVE  /\ SubSeq(s, 1, n) \in Seq(Bytestring) /\ Len(SubSeq(s, 1, n)) = n
         /\ \A i \in 1..n : SubSeq(s, 1, n)[i] = s[i]
<1>1. PICK S : S = Bytestring
  OBVIOUS
<1>2. s \in Seq(S) /\ Len(s) \in Nat
  BY <1>1
<1>3. 1 \in Int /\ n \in Int /\ \A i \in 1..n : s[i] \in S
  BY <1>2
<1>4. SubSeq(s, 1, n) \in Seq(S)
  BY <1>3, SubSeqProperties
<1>5. Len(SubSeq(s, 1, n)) = IF 1 <= n THEN n - 1 + 1 ELSE 0
  BY <1>3, SubSeqProperties
<1>6. \A i \in 1 .. n - 1 + 1 : SubSeq(s, 1, n)[i] = s[1 + i - 1]
  BY <1>3, SubSeqProperties
<1>7. ASSUME NEW i \in 1..n PROVE SubSeq(s, 1, n)[i] = s[i]
  <2>1. i \in 1 .. n - 1 + 1 /\ 1 + i - 1 = i
    OBVIOUS
  <2>2. QED
    BY <1>6, <2>1
<1>8. QED
  BY <1>1, <1>4, <1>5, <1>7

\* They are the only ones of their number.
LEMMA StartIs ==
  ASSUME NEW f \in Seq(Bytestring), NEW s \in Seq(Bytestring), StartOf(f, s)
  PROVE  f = SubSeq(s, 1, Len(f))
<1>1. PICK n \in Nat : n = Len(f) /\ n <= Len(s)
  BY DEF StartOf
<1>2. PICK g \in Seq(Bytestring) : /\ g = SubSeq(s, 1, n) /\ Len(g) = n
                                   /\ \A i \in 1..n : g[i] = s[i]
  BY <1>1, FirstFrames
<1>3. Len(f) = Len(g) /\ \A i \in 1..Len(f) : f[i] = g[i]
  BY <1>1, <1>2 DEF StartOf
<1>4. PICK S : S = Bytestring
  OBVIOUS
<1>5. f \in Seq(S) /\ g \in Seq(S)
  BY <1>4
<1>6. f = g
  BY <1>3, <1>5, SeqEqual
<1>7. QED
  BY <1>1, <1>2, <1>6

\* More frames take more bytes.
LEMMA EncodedLonger ==
  ASSUME NEW s \in Seq(Bytestring), NEW m \in Nat, NEW n \in Nat, m < n, n <= Len(s)
  PROVE  Len(Encoded(SubSeq(s, 1, n)))
           >= Len(Encoded(SubSeq(s, 1, m))) + (kFrameHeaderSize + Len(s[m + 1]))
<1>1. PICK g \in Seq(Bytestring) : /\ g = SubSeq(s, 1, n) /\ Len(g) = n
                                   /\ \A i \in 1..n : g[i] = s[i]
  BY FirstFrames
<1>2. PICK h \in Seq(Bytestring) : /\ h = SubSeq(g, 1, m) /\ Len(h) = m
                                   /\ \A i \in 1..m : h[i] = g[i]
  <2>1. m <= Len(g)
    BY <1>1
  <2>2. QED
    BY <2>1, FirstFrames
<1>3. h = SubSeq(s, 1, m)
  <2>1. StartOf(h, s)
    BY <1>1, <1>2 DEF StartOf
  <2>2. QED
    BY <1>2, <2>1, StartIs
<1>4. PICK p \in Bytestring : p = s[m + 1] /\ g[m + 1] = p
  BY <1>1
<1>5. PICK z \in Bytestring : Encoded(g) = Encoded(h) \o (Wire(p) \o z)
  <2>1. m < Len(g)
    BY <1>1
  <2>2. \E z \in Bytestring : Encoded(g) = Encoded(SubSeq(g, 1, m)) \o (Wire(g[m + 1]) \o z)
    BY <2>1, EncodedSplit
  <2>3. QED
    BY <1>2, <1>4, <2>2
<1>6. PICK e \in Bytestring : e = Encoded(h)
  BY EncodedType
<1>7. PICK w \in Bytestring : w = Wire(p) /\ Len(w) = kFrameHeaderSize + Len(p)
  BY WireType
<1>8. Len(e \o (w \o z)) = Len(e) + (Len(w) + Len(z)) /\ Len(z) \in Nat
      /\ Len(e) \in Nat /\ Len(w) \in Nat
  BY Joining
<1>9. QED
  BY <1>1, <1>3, <1>4, <1>5, <1>6, <1>7, <1>8

\* Past the frames found, the stream goes on with the buffer.
GoesOn(b, y, u, x, v) == b \o (y \o u) = x \o v

\* What follows the same front is the same.
LEMMA PastTheFound ==
  ASSUME NEW e \in Bytestring, NEW b \in Bytestring, NEW y \in Bytestring,
         NEW u \in Bytestring, NEW x \in Bytestring, NEW v \in Bytestring,
         ((e \o b) \o y) \o u = (e \o x) \o v
  PROVE  GoesOn(b, y, u, x, v)
<1>1. PICK p \in Bytestring : p = b \o (y \o u)
  BY Joining
<1>2. PICK q \in Bytestring : q = x \o v
  BY Joining
<1>3. (e \o x) \o v = e \o q
  <2>1. Grouped(e, x, v)
    BY Grouping
  <2>2. QED
    BY <1>2, <2>1 DEF Grouped
<1>4. ((e \o b) \o y) \o u = e \o p
  <2>1. PICK c \in Bytestring : c = e \o b
    BY Joining
  <2>2. PICK d \in Bytestring : d = y \o u
    BY Joining
  <2>3. Grouped(c, y, u) /\ Grouped(e, b, d)
    BY Grouping
  <2>4. QED
    BY <1>1, <2>1, <2>2, <2>3 DEF Grouped
<1>5. e \o p = e \o q
  BY <1>3, <1>4
<1>6. p = q
  BY <1>5, CutAlike
<1>7. QED
  BY <1>1, <1>2, <1>6 DEF GoesOn

\* The stream as the writer sees it is the stream as the reader sees it: after
\* the frames found comes the buffer, and the next frame or a strange length.
LEMMA StreamIs ==
  ASSUME ReaderInv, WriterInv
  PROVE  \E u, v \in Bytestring :
           /\ stream \o u = Encoded(sent) \o v
           /\ (strange /\ u = <<>> /\ v = TooLong) \/ (~strange /\ v = <<>>)
<1>1. PICK s, E0 \in Bytestring : s = stream /\ E0 = Encoded(sent)
  BY EncodedType DEF ReaderInv, TypeOK
<1>2. CASE strange
  <2>1. TooLong \in Bytestring
    <3>1. kMaxFramePayloadSize + 1 \in Nat
      BY FramingAssumption
    <3>2. QED
      BY <3>1, HeaderType DEF Bytestring, TooLong
  <2>2. stream = Encoded(sent) \o TooLong
    BY <1>2 DEF WriterInv
  <2>3. s \o <<>> = s /\ <<>> \in Bytestring
    BY Joining
  <2>4. QED
    BY <1>1, <1>2, <2>1, <2>2, <2>3
<1>3. CASE ~strange
  <2>1. PICK z \in Bytestring : stream \o z = Encoded(sent)
    BY <1>3 DEF WriterInv
  <2>2. E0 \o <<>> = E0 /\ <<>> \in Bytestring
    BY Joining
  <2>3. QED
    BY <1>1, <1>3, <2>1, <2>2
<1>4. QED
  BY <1>2, <1>3

\* The buffer begins with the next frame, or with a strange length if all were found.
LEMMA BufferStarts ==
  ASSUME ReaderInv, WriterInv, InOrder, reader # "invalid"
  PROVE  /\ Len(Found) < Len(sent) =>
              \E t, r \in Bytestring : pending \o t = Wire(sent[Len(Found) + 1]) \o r
         /\ Len(Found) = Len(sent) =>
              \E t \in Bytestring : \/ strange /\ pending \o t = TooLong
                                    \/ pending \o t = <<>>
<1>1. PICK f, s \in Seq(Bytestring) : f = Found /\ s = sent
  BY FoundMoves DEF Found, ReaderInv, TypeOK
<1>2. PICK m \in Nat : m = Len(f) /\ f = SubSeq(s, 1, m)
  BY <1>1, StartIs DEF InOrder
<1>3. PICK e \in Bytestring : e = Encoded(f)
  BY EncodedType
<1>4. PICK b \in Bytestring : b = pending
  BY DEF ReaderInv, TypeOK
<1>5. PICK y \in Bytestring : stream = (e \o b) \o y
  <2>1. PICK c \in Bytestring : c = stream /\ received \in Nat /\ received <= Len(c)
    BY DEF ReaderInv, TypeOK
  <2>2. e \o b = SubSeq(c, 1, received)
    BY <1>1, <1>3, <1>4, <2>1 DEF ReaderInv, StreamAccounted, Found
  <2>3. PICK n \in Nat : n = received /\ n <= Len(c)
    BY <2>1
  <2>4. Drop(c, n) \in Bytestring /\ c = SubSeq(c, 1, n) \o Drop(c, n)
    BY <2>3, Cutting
  <2>5. QED
    BY <2>1, <2>2, <2>3, <2>4
<1>6. PICK u, v \in Bytestring :
        /\ stream \o u = Encoded(s) \o v
        /\ (strange /\ u = <<>> /\ v = TooLong) \/ (~strange /\ v = <<>>)
  BY <1>1, StreamIs
<1>7. ASSUME m < Len(s)
      PROVE  \E t, r \in Bytestring : b \o t = Wire(s[m + 1]) \o r
  <2>1. PICK w \in Bytestring : w = Wire(s[m + 1])
    BY <1>7, WireType
  <2>2. PICK z \in Bytestring : Encoded(s) = e \o (w \o z)
    <3>1. \E z \in Bytestring : Encoded(s) = Encoded(SubSeq(s, 1, m)) \o (Wire(s[m + 1]) \o z)
      BY <1>7, EncodedSplit
    <3>2. QED
      BY <1>2, <1>3, <2>1, <3>1
  <2>3. PICK x \in Bytestring : x = w \o z
    BY Joining
  <2>4. GoesOn(b, y, u, x, v)
    <3>1. ((e \o b) \o y) \o u = (e \o x) \o v
      BY <1>5, <1>6, <2>2, <2>3
    <3>2. QED
      BY <3>1, PastTheFound
  <2>5. Grouped(w, z, v)
    BY Grouping
  <2>6. y \o u \in Bytestring /\ z \o v \in Bytestring
    BY Joining
  <2>7. b \o (y \o u) = w \o (z \o v)
    BY <2>3, <2>4, <2>5 DEF GoesOn, Grouped
  <2>8. QED
    BY <2>1, <2>6, <2>7
<1>8. ASSUME m = Len(s)
      PROVE  \E t \in Bytestring : \/ strange /\ b \o t = TooLong
                                   \/ b \o t = <<>>
  <2>1. f = s
    BY <1>2, <1>8, SubSeqFull
  <2>2. <<>> \in Bytestring /\ e \o <<>> = e /\ <<>> \o v = v
    BY Joining
  <2>3. GoesOn(b, y, u, <<>>, v)
    <3>1. ((e \o b) \o y) \o u = (e \o <<>>) \o v
      BY <1>3, <1>5, <1>6, <2>1, <2>2
    <3>2. QED
      BY <2>2, <3>1, PastTheFound
  <2>4. y \o u \in Bytestring
    BY Joining
  <2>5. b \o (y \o u) = v
    BY <2>2, <2>3 DEF GoesOn
  <2>6. QED
    BY <1>6, <2>4, <2>5
<1>9. QED
  BY <1>1, <1>2, <1>4, <1>7, <1>8

\* A header in the buffer is that of the next frame, and the frame behind it is
\* the next frame; or it is a strange peer's.
LEMMA HeadOfPending ==
  ASSUME ReaderInv, WriterInv, InOrder, reader # "invalid", HasHeader
  PROVE  \/ strange /\ payload_length = kMaxFramePayloadSize + 1
         \/ /\ Len(Found) < Len(sent)
            /\ payload_length = Len(sent[Len(Found) + 1])
            /\ payload_length <= kMaxFramePayloadSize
            /\ Len(pending) >= frame_size =>
                 SubSeq(pending, kFrameHeaderSize + 1, frame_size) = sent[Len(Found) + 1]
<1>1. PICK f, s \in Seq(Bytestring) : f = Found /\ s = sent
  BY FoundMoves DEF Found, ReaderInv, TypeOK
<1>2. PICK m \in Nat : m = Len(f) /\ m <= Len(s)
  BY <1>1 DEF InOrder, StartOf
<1>3. PICK b \in Bytestring : b = pending /\ kFrameHeaderSize <= Len(b)
  BY DEF ReaderInv, TypeOK, HasHeader
<1>4. kFrameHeaderSize \in Nat /\ kFrameHeaderSize > 0 /\ kMaxFramePayloadSize \in Nat
  BY FramingAssumption
<1>5. CASE m < Len(s)
  <2>1. PICK p \in Bytestring : /\ p = s[m + 1] /\ Len(p) \in Nat
                                /\ Len(p) <= kMaxFramePayloadSize
    <3>1. m + 1 \in 1..Len(s) /\ s[m + 1] \in Bytestring
      BY <1>5
    <3>2. QED
      BY <1>1, <3>1, Joining DEF WriterInv
  <2>2. PICK t, r \in Bytestring : b \o t = Wire(p) \o r
    BY <1>1, <1>2, <1>3, <1>5, <2>1, BufferStarts
  <2>3. PICK h \in Bytestring : h = htonl(Len(p)) /\ Len(h) = kFrameHeaderSize
    BY <2>1, HeaderType DEF Bytestring
  <2>4. SubSeq(b, 1, kFrameHeaderSize) = h
    <3>1. PICK d \in Bytestring : d = p \o r
      BY Joining
    <3>2. Grouped(h, p, r)
      BY Grouping
    <3>3. b \o t = h \o d
      BY <2>2, <2>3, <3>1, <3>2 DEF Wire, Grouped
    <3>4. SubSeq(b, 1, Len(h)) = h
      BY <1>3, <2>3, <3>3, SameFront
    <3>5. QED
      BY <2>3, <3>4
  <2>5. payload_length = Len(p)
    <3>1. ntohl(htonl(Len(p))) = Len(p)
      BY <2>1, HeaderRead
    <3>2. QED
      BY <1>3, <2>3, <2>4, <3>1 DEF payload_length
  <2>6. ASSUME Len(pending) >= frame_size
        PROVE  SubSeq(pending, kFrameHeaderSize + 1, frame_size) = p
    <3>1. PICK q, z \in Bytestring :
            /\ q = SubSeq(pending, kFrameHeaderSize + 1, frame_size)
            /\ Len(q) = payload_length /\ pending = Wire(q) \o z
      BY <1>3, <2>6, FrameCut
    <3>2. PICK w, x \in Bytestring : w = Wire(q) /\ x = Wire(p) /\ Len(w) = Len(x)
      BY <2>5, <3>1, WireType
    <3>3. PICK d \in Bytestring : d = z \o t
      BY Joining
    <3>4. Grouped(w, z, t)
      BY Grouping
    <3>5. w \o d = x \o r
      BY <1>3, <2>2, <3>1, <3>2, <3>3, <3>4 DEF Grouped
    <3>6. w = x
      BY <3>2, <3>5, CutAlike
    <3>7. h \o q = h \o p
      BY <2>3, <2>5, <3>1, <3>2, <3>6 DEF Wire
    <3>8. q = p
      BY <3>7, CutAlike
    <3>9. QED
      BY <3>1, <3>8
  <2>7. QED
    BY <1>1, <1>2, <1>5, <2>1, <2>5, <2>6
<1>6. CASE m = Len(s)
  <2>1. PICK t \in Bytestring : (strange /\ b \o t = TooLong) \/ b \o t = <<>>
    BY <1>1, <1>2, <1>3, <1>6, BufferStarts
  <2>2. b \o t # <<>>
    <3>1. Len(b \o t) = Len(b) + Len(t) /\ Len(b) \in Nat /\ Len(t) \in Nat
      BY Joining
    <3>2. Len(b \o t) > 0
      BY <1>3, <1>4, <3>1
    <3>3. QED
      BY <3>2
  <2>3. Strangers
    BY <2>1, <2>2 DEF WriterInv
  <2>4. PICK h \in Bytestring : h = TooLong /\ Len(h) = kFrameHeaderSize
    <3>1. kMaxFramePayloadSize + 1 \in Nat
      BY <1>4
    <3>2. QED
      BY <3>1, HeaderType DEF Bytestring, TooLong
  <2>5. SubSeq(b, 1, kFrameHeaderSize) = h
    <3>1. b \o t = h \o <<>> /\ <<>> \in Bytestring
      BY <2>1, <2>2, <2>4, Joining
    <3>2. SubSeq(b, 1, Len(h)) = h
      BY <1>3, <2>4, <3>1, SameFront
    <3>3. QED
      BY <2>4, <3>2
  <2>6. ntohl(htonl(kMaxFramePayloadSize + 1)) = kMaxFramePayloadSize + 1
    <3>1. PICK n \in Nat : n = kMaxFramePayloadSize + 1
      BY <1>4
    <3>2. QED
      BY <2>3, <3>1, HeaderRead
  <2>7. QED
    BY <1>3, <2>1, <2>2, <2>4, <2>5, <2>6 DEF payload_length, TooLong
<1>7. QED
  BY <1>2, <1>5, <1>6

-----------------------------------------------------------------------------
(***************************************************************************)
(* The frames come out as they were sent.                                  *)
(***************************************************************************)
\* Frames move from one list of the reader to the next and none is passed over.
LEMMA FoundStays ==
  ASSUME ReaderInv, (\E n : Recv(n)) \/ RecvEnds \/ ExtractReturns \/ Take
  PROVE  Found' = Found
<1>1. PICK d, q, f \in Seq(Bytestring) : d = delivered /\ q = queue /\ f = frames
  BY DEF ReaderInv, TypeOK
<1>2. CASE (\E n : Recv(n)) \/ RecvEnds
  <2>1. frames' = frames /\ queue' = queue /\ delivered' = delivered
    BY <1>2 DEF Recv, RecvEnds, ReaderInv, Phases
  <2>2. QED
    BY <2>1 DEF Found
<1>3. CASE ExtractReturns
  <2>1. frames' = <<>> /\ queue' = q \o f /\ delivered' = d
    BY <1>1, <1>3 DEF ExtractReturns
  <2>2. d \o (q \o f) \o <<>> = d \o q \o f
    BY FoundMoves
  <2>3. QED
    BY <1>1, <2>1, <2>2 DEF Found
<1>4. CASE Take
  <2>1. q # <<>> /\ frames' = f /\ queue' = Tail(q) /\ delivered' = Append(d, Head(q))
    BY <1>1, <1>4 DEF Take
  <2>2. Append(d, Head(q)) \o Tail(q) = d \o q
    BY <2>1, FoundMoves
  <2>3. QED
    BY <1>1, <2>1, <2>2 DEF Found
<1>5. QED
  BY <1>2, <1>3, <1>4

\* What has been delivered, what waits in the queue, and all that was found.
LEMMA FoundParts ==
  ASSUME NEW d \in Seq(Bytestring), NEW q \in Seq(Bytestring), NEW f \in Seq(Bytestring)
  PROVE  /\ Len(d) \in Nat /\ Len(q) \in Nat /\ Len(f) \in Nat
         /\ Len(d \o q \o f) = Len(d) + Len(q) + Len(f)
         /\ \A i \in 1..Len(d) : (d \o q \o f)[i] = d[i]
         /\ q # <<>> => Len(q) > 0 /\ (d \o q \o f)[Len(d) + 1] = Head(q)
<1>1. PICK S : S = Bytestring
  OBVIOUS
<1>2. d \in Seq(S) /\ q \in Seq(S) /\ f \in Seq(S)
  BY <1>1
<1>3. Len(d) \in Nat /\ Len(q) \in Nat /\ Len(f) \in Nat
  BY <1>2
<1>4. PICK c \in Seq(S) :
        /\ c = d \o q /\ Len(c) = Len(d) + Len(q)
        /\ \A i \in 1 .. Len(d) + Len(q) :
             c[i] = IF i <= Len(d) THEN d[i] ELSE q[i - Len(d)]
  <2>1. /\ d \o q \in Seq(S) /\ Len(d \o q) = Len(d) + Len(q)
        /\ \A i \in 1 .. Len(d) + Len(q) :
             (d \o q)[i] = IF i <= Len(d) THEN d[i] ELSE q[i - Len(d)]
    BY <1>2, ConcatProperties
  <2>2. QED
    BY <2>1
<1>5. /\ Len(c \o f) = Len(c) + Len(f)
      /\ \A i \in 1 .. Len(c) + Len(f) :
           (c \o f)[i] = IF i <= Len(c) THEN c[i] ELSE f[i - Len(c)]
  BY <1>2, ConcatProperties
<1>6. \A i \in 1..Len(c) : (c \o f)[i] = c[i]
  BY <1>3, <1>4, <1>5
<1>7. \A i \in 1..Len(d) : c[i] = d[i] /\ i \in 1..Len(c)
  BY <1>3, <1>4
<1>8. ASSUME q # <<>> PROVE Len(q) > 0 /\ (c \o f)[Len(d) + 1] = Head(q)
  <2>1. Len(q) > 0 /\ q[1] = Head(q)
    BY <1>2, <1>8
  <2>2. Len(d) + 1 \in 1 .. Len(d) + Len(q) /\ (Len(d) + 1) - Len(d) = 1
        /\ ~(Len(d) + 1 <= Len(d))
    BY <1>3, <2>1
  <2>3. c[Len(d) + 1] = q[1]
    BY <1>4, <2>2
  <2>4. QED
    BY <1>4, <1>6, <2>1, <2>2, <2>3
<1>9. QED
  BY <1>3, <1>4, <1>5, <1>6, <1>7, <1>8

\* What may happen to the frames sent and to a strange peer's mark.
LEMMA SentGrows ==
  ASSUME ReaderInv, [Next]_vars
  PROVE  /\ strange => strange'
         /\ \/ sent' = sent
            \/ \E w \in Writers, p \in Payloads :
                 /\ SendFrame(w, p) /\ Len(p) <= kMaxFramePayloadSize
                 /\ sent' = Append(sent, p)
<1>1. CASE \E w \in Writers, p \in Payloads : SendFrame(w, p)
  BY <1>1 DEF SendFrame
<1>2. CASE \/ \E w \in Writers : (\E n : Send(w, n)) \/ SendNothing(w) \/ SendFails(w)
           \/ Break \/ Strange
  <2>1. ASSUME NEW w \in Writers, (\E n : Send(w, n)) \/ SendNothing(w) \/ SendFails(w)
        PROVE  strange' = strange /\ sent' = sent
    BY <2>1 DEF Send, SendNothing, SendFails
  <2>2. CASE Break
    BY <2>2 DEF Break, writerVars
  <2>3. CASE Strange
    BY <2>3 DEF Strange
  <2>4. QED
    BY <1>2, <2>1, <2>2, <2>3
<1>3. CASE \/ (\E n : Recv(n)) \/ Extract
           \/ RecvEnds \/ ExtractFails \/ ExtractReturns \/ Take
  BY <1>3 DEF Recv, Extract, RecvEnds, ExtractFails, ExtractReturns, Take, writerVars
<1>4. CASE UNCHANGED vars
  BY <1>4 DEF vars, writerVars
<1>5. QED
  BY <1>1, <1>2, <1>3, <1>4, StepIs

\* The first frames stay the first frames when another is sent.
LEMMA StartGrows ==
  ASSUME NEW f \in Seq(Bytestring), NEW s \in Seq(Bytestring), StartOf(f, s),
         NEW p \in Bytestring
  PROVE  /\ StartOf(f, Append(s, p))
         /\ Len(f) < Len(s) => StartOf(Append(f, s[Len(f) + 1]), s)
<1>1. PICK m, n \in Nat : m = Len(f) /\ n = Len(s) /\ m <= n
  BY DEF StartOf
<1>2. Len(Append(s, p)) = n + 1 /\ \A i \in 1..n : Append(s, p)[i] = s[i]
  BY <1>1, AppendProperties
<1>3. StartOf(f, Append(s, p))
  BY <1>1, <1>2 DEF StartOf
<1>4. ASSUME m < n PROVE StartOf(Append(f, s[m + 1]), s)
  <2>1. s[m + 1] \in Bytestring
    BY <1>1, <1>4
  <2>2. /\ Len(Append(f, s[m + 1])) = m + 1 /\ Append(f, s[m + 1])[m + 1] = s[m + 1]
        /\ \A i \in 1..m : Append(f, s[m + 1])[i] = f[i]
    BY <1>1, <2>1, AppendProperties
  <2>3. QED
    BY <1>1, <1>4, <2>2 DEF StartOf
<1>5. QED
  BY <1>1, <1>3, <1>4

\* The inductive invariant for one writer.
FrameInv == ReaderInv /\ WriterInv /\ InOrder

\* It holds at the start ...
LEMMA FrameInit == Init => FrameInv
<1> SUFFICES ASSUME Init PROVE InOrder
  BY ReaderInit, WriterInit DEF FrameInv
<1>1. Found = <<>> /\ sent = <<>>
  BY DEF Init, Found
<1>2. QED
  BY <1>1 DEF InOrder, StartOf

\* The reader finds the next frame or no frame.
LEMMA OrderKept ==
  ASSUME FrameInv, [Next]_vars
  PROVE  InOrder'
<1>1. PICK f, s \in Seq(Bytestring) : f = Found /\ s = sent
  BY FoundMoves DEF Found, FrameInv, ReaderInv, TypeOK
<1>2. StartOf(f, s)
  BY <1>1 DEF FrameInv, InOrder
<1>3. ReaderInv
  BY DEF FrameInv
<1>4. CASE \/ \E w \in Writers : \/ \E p \in Payloads : SendFrame(w, p)
                                 \/ \E n : Send(w, n)
                                 \/ SendNothing(w) \/ SendFails(w)
           \/ Break \/ Strange
  <2>1. WriterStep
    BY <1>3, <1>4, SendFrameWrites, SendWrites, OthersWrite
  <2>2. Found' = f
    BY <1>1, <2>1 DEF WriterStep, readerVars, Found
  <2>3. sent' = s \/ \E p \in Bytestring : sent' = Append(s, p)
    <3>1. Payloads \subseteq Bytestring
      BY FramingAssumption DEF Bytestring
    <3>2. QED
      BY <1>1, <1>3, <3>1, SentGrows
  <2>4. QED
    BY <1>2, <2>2, <2>3, StartGrows DEF InOrder
<1>5. CASE (\E n : Recv(n)) \/ RecvEnds \/ ExtractReturns \/ Take
  <2>1. Found' = f
    BY <1>1, <1>3, <1>5, FoundStays
  <2>2. sent' = s
    BY <1>1, <1>5 DEF Recv, RecvEnds, ExtractReturns, Take, writerVars
  <2>3. QED
    BY <1>2, <2>1, <2>2 DEF InOrder
<1>6. CASE Extract
  <2>1. /\ reader = "extract" /\ Complete /\ sent' = s
        /\ queue' = queue /\ delivered' = delivered
        /\ frames' = Append(frames, SubSeq(pending, kFrameHeaderSize + 1, frame_size))
    BY <1>1, <1>6 DEF Extract, writerVars
  <2>2. /\ HasHeader /\ ~(payload_length > kMaxFramePayloadSize)
        /\ Len(pending) >= frame_size
    BY <2>1 DEF Complete, Invalid
  <2>3. /\ Len(f) < Len(s)
        /\ SubSeq(pending, kFrameHeaderSize + 1, frame_size) = s[Len(f) + 1]
    <3>1. kMaxFramePayloadSize \in Nat
      BY FramingAssumption
    <3>2. payload_length # kMaxFramePayloadSize + 1
      BY <2>2, <3>1
    <3>3. QED
      BY <1>1, <2>1, <2>2, <3>2, HeadOfPending DEF FrameInv
  <2>4. PICK p \in Bytestring : p = s[Len(f) + 1] /\ frames' = Append(frames, p)
    <3>1. s[Len(f) + 1] \in Bytestring
      BY <2>3
    <3>2. QED
      BY <2>1, <2>3, <3>1
  <2>5. Found' = Append(f, p)
    <3>1. PICK d, q, g \in Seq(Bytestring) : d = delivered /\ q = queue /\ g = frames
      BY <1>3 DEF ReaderInv, TypeOK
    <3>2. d \o q \o Append(g, p) = Append(d \o q \o g, p)
      BY FoundMoves
    <3>3. QED
      BY <1>1, <2>1, <2>4, <3>1, <3>2 DEF Found
  <2>6. StartOf(Append(f, s[Len(f) + 1]), s)
    BY <1>2, <2>3, <2>4, StartGrows
  <2>7. QED
    BY <2>1, <2>4, <2>5, <2>6 DEF InOrder
<1>7. CASE ExtractFails
  <2>1. PICK d, q, g \in Seq(Bytestring) : d = delivered /\ q = queue /\ g = frames
    BY <1>3 DEF ReaderInv, TypeOK
  <2>2. sent' = s /\ frames' = <<>> /\ queue' = q /\ delivered' = d /\ q = <<>>
    BY <1>1, <1>3, <1>7, <2>1 DEF ExtractFails, writerVars, ReaderInv, Phases
  <2>3. Found' = d
    <3>1. d \o <<>> = d
      BY ConcatEmptySeq
    <3>2. QED
      BY <2>2, <3>1 DEF Found
  <2>4. /\ Len(d) \in Nat /\ Len(q) \in Nat /\ Len(g) \in Nat
        /\ Len(f) = Len(d) + Len(q) + Len(g)
        /\ \A i \in 1..Len(d) : f[i] = d[i]
    BY <1>1, <2>1, FoundParts DEF Found
  <2>5. StartOf(d, s)
    BY <1>2, <2>4 DEF StartOf
  <2>6. QED
    BY <2>2, <2>3, <2>5 DEF InOrder
<1>8. CASE UNCHANGED vars
  BY <1>1, <1>2, <1>8 DEF vars, writerVars, readerVars, InOrder, Found
<1>9. QED
  BY <1>4, <1>5, <1>6, <1>7, <1>8, StepIs

\* Every step keeps what the writer's half says ...
LEMMA WriterInvKept ==
  ASSUME ReaderInv, WriterInv, OneWriter, [Next]_vars
  PROVE  WriterInv'
<1>1. CASE \E w \in Writers, p \in Payloads : SendFrame(w, p)
  BY <1>1, SendFrameKeepsWriter
<1>2. CASE \E w \in Writers : \E n : Send(w, n)
  BY <1>2, SendKeepsWriter
<1>3. CASE \/ \E w \in Writers : SendNothing(w) \/ SendFails(w)
           \/ Break \/ Strange
  BY <1>3, OthersKeepWriter
<1>4. CASE \/ (\E n : Recv(n)) \/ Extract
           \/ RecvEnds \/ ExtractFails \/ ExtractReturns \/ Take
  <2>1. UNCHANGED <<sent, writing, strange, stream, open>>
    BY <1>4 DEF Recv, Extract, RecvEnds, ExtractFails, ExtractReturns, Take, writerVars
  <2>2. QED
    BY <2>1, WriterUnmoved
<1>5. CASE UNCHANGED vars
  <2>1. UNCHANGED <<sent, writing, strange, stream, open>>
    BY <1>5 DEF vars, writerVars
  <2>2. QED
    BY <2>1, WriterUnmoved
<1>6. QED
  BY <1>1, <1>2, <1>3, <1>4, <1>5, StepIs

\* ... and the whole of it.
LEMMA FrameStep == OneWriter /\ FrameInv /\ [Next]_vars => FrameInv'
<1> SUFFICES ASSUME OneWriter, FrameInv, [Next]_vars PROVE FrameInv'
  OBVIOUS
<1>1. ReaderInv'
  BY ReaderStep DEF FrameInv
<1>2. WriterInv'
  BY WriterInvKept DEF FrameInv
<1>3. InOrder'
  BY OrderKept
<1>4. QED
  BY <1>1, <1>2, <1>3 DEF FrameInv

\* With one writer of this program the reader never refuses a length: send_frame
\* and extract_frames apply the same limit, and no cut of send() or recv() makes
\* the reader take payload bytes for a header.
THEOREM ReaderStaysInStep ==
  ASSUME OneWriter
  PROVE  Spec => []InvalidMeansStrange
<1>1. Init => InvalidMeansStrange
  BY DEF Init, InvalidMeansStrange
<1>2. FrameInv /\ InvalidMeansStrange /\ [Next]_vars => InvalidMeansStrange'
  <2> SUFFICES ASSUME FrameInv, InvalidMeansStrange, [Next]_vars PROVE InvalidMeansStrange'
    OBVIOUS
  <2>1. strange => strange'
    BY SentGrows DEF FrameInv
  <2>2. CASE ExtractFails
    <3>1. HasHeader /\ payload_length > kMaxFramePayloadSize /\ reader # "invalid"
      BY <2>2 DEF ExtractFails, Invalid
    <3>2. kMaxFramePayloadSize \in Nat
      BY FramingAssumption
    <3>3. payload_length \in Nat
      BY <3>1, FrameCut DEF FrameInv, ReaderInv, TypeOK
    <3>4. ~(payload_length <= kMaxFramePayloadSize)
      BY <3>1, <3>2, <3>3
    <3>5. strange
      BY <3>1, <3>4, HeadOfPending DEF FrameInv
    <3>6. QED
      BY <2>1, <3>5 DEF InvalidMeansStrange
  <2>3. CASE \/ \E w \in Writers : \/ \E p \in Payloads : SendFrame(w, p)
                                   \/ \E n : Send(w, n)
                                   \/ SendNothing(w) \/ SendFails(w)
             \/ Break \/ Strange
    <3>1. WriterStep
      BY <2>3, SendFrameWrites, SendWrites, OthersWrite DEF FrameInv
    <3>2. QED
      BY <2>1, <3>1 DEF WriterStep, readerVars, InvalidMeansStrange
  <2>4. CASE (\E n : Recv(n)) \/ Extract \/ RecvEnds \/ ExtractReturns \/ Take
    <3>1. reader' # "invalid"
      BY <2>4 DEF Recv, Extract, RecvEnds, ExtractReturns, Take
    <3>2. QED
      BY <3>1 DEF InvalidMeansStrange
  <2>5. CASE UNCHANGED vars
    BY <2>5 DEF vars, writerVars, readerVars, InvalidMeansStrange
  <2>6. QED
    BY <2>2, <2>3, <2>4, <2>5, StepIs
<1>3. FrameInv /\ [Next]_vars => FrameInv'
  BY FrameStep
<1>4. QED
  BY <1>1, <1>2, <1>3, FrameInit, PTL DEF Spec

\* With one writer the frames come out whole, in order and once each, whatever
\* send() and recv() cut and whatever a strange peer adds: send_frame and the
\* reader implement FrameChannel.
THEOREM ChannelImplemented ==
  ASSUME OneWriter
  PROVE  Spec => ImplementsChannel
<1>1. Init => Channel!Init
  BY DEF Init, Channel!Init
<1>2. FrameInv /\ [Next]_vars => [Channel!Next]_<<sent, delivered>>
  <2> SUFFICES ASSUME FrameInv, [Next]_vars
               PROVE  Channel!SendFrame \/ Channel!Deliver \/ UNCHANGED <<sent, delivered>>
    BY DEF Channel!Next
  <2>1. CASE \/ \E w \in Writers : \/ \E p \in Payloads : SendFrame(w, p)
                                   \/ \E n : Send(w, n)
                                   \/ SendNothing(w) \/ SendFails(w)
             \/ Break \/ Strange
    <3>1. WriterStep
      BY <2>1, SendFrameWrites, SendWrites, OthersWrite DEF FrameInv
    <3>2. delivered' = delivered
      BY <3>1 DEF WriterStep, readerVars
    <3>3. sent' = sent \/ \E p \in Payloads : sent' = Append(sent, p)
      BY SentGrows DEF FrameInv
    <3>4. QED
      BY <3>2, <3>3 DEF Channel!SendFrame
  <2>2. CASE (\E n : Recv(n)) \/ Extract \/ RecvEnds \/ ExtractFails \/ ExtractReturns
    BY <2>2 DEF Recv, Extract, RecvEnds, ExtractFails, ExtractReturns, writerVars
  <2>3. CASE Take
    <3>1. PICK d, q, g, s \in Seq(Bytestring) :
            d = delivered /\ q = queue /\ g = frames /\ s = sent
      BY DEF FrameInv, ReaderInv, TypeOK
    <3>2. q # <<>> /\ sent' = sent /\ delivered' = Append(delivered, Head(q))
      BY <2>3, <3>1 DEF Take, writerVars
    <3>3. PICK f : f = d \o q \o g
      OBVIOUS
    <3>4. /\ Len(d) \in Nat /\ Len(q) \in Nat /\ Len(g) \in Nat
          /\ Len(f) = Len(d) + Len(q) + Len(g)
          /\ Len(q) > 0 /\ f[Len(d) + 1] = Head(q)
      BY <3>2, <3>3, FoundParts
    <3>5. Len(f) <= Len(s) /\ \A i \in 1..Len(f) : f[i] = s[i]
      BY <3>1, <3>3 DEF FrameInv, InOrder, StartOf, Found
    <3>6. Len(d) + 1 \in 1..Len(f) /\ Len(d) < Len(s)
      BY <3>4, <3>5
    <3>7. Head(q) = s[Len(d) + 1]
      BY <3>4, <3>5, <3>6
    <3>8. QED
      BY <3>1, <3>2, <3>6, <3>7 DEF Channel!Deliver
  <2>4. CASE UNCHANGED vars
    BY <2>4 DEF vars, writerVars, readerVars
  <2>5. QED
    BY <2>1, <2>2, <2>3, <2>4, StepIs
<1>3. FrameInv /\ [Next]_vars => FrameInv'
  BY FrameStep
<1>4. QED
  BY <1>1, <1>2, <1>3, FrameInit, PTL DEF Spec, ImplementsChannel, Channel!Spec

-----------------------------------------------------------------------------
(***************************************************************************)
(* A refused length costs one recv().                                      *)
(***************************************************************************)
\* Every frame that lies within the first c bytes is among the first k.
Reached(c, k) ==
  \A n \in DOMAIN sent : Len(Encoded(SubSeq(sent, 1, n))) <= c => k >= n

\* Between calls of extract_frames all complete frames have been found; during
\* one, all that were complete before the recv() have been handed on.
Handed ==
  /\ reader = "recv" => Reached(received, Len(delivered) + Len(queue))
  /\ reader \in {"extract", "invalid"} => Reached(before, Len(delivered))

\* A frame that send_frame has accepted a moment ago has not arrived.
LEMMA NewIsOut ==
  ASSUME FrameInv, OneWriter, NEW w \in Writers, NEW p \in Payloads, SendFrame(w, p),
         sent' = Append(sent, p), NEW c \in Nat, c <= received, NEW k \in Nat,
         Reached(c, k)
  PROVE  Reached(c, k)'
<1>1. PICK s \in Seq(Bytestring) : s = sent
  BY DEF FrameInv, ReaderInv, TypeOK
<1>2. p \in Bytestring
  BY FramingAssumption DEF Bytestring
<1>3. PICK t \in Seq(Bytestring) : /\ t = Append(s, p) /\ Len(t) = Len(s) + 1
                                   /\ \A i \in 1..Len(s) : t[i] = s[i]
  <2>1. /\ Append(s, p) \in Seq(Bytestring) /\ Len(Append(s, p)) = Len(s) + 1
        /\ \A i \in 1..Len(s) : Append(s, p)[i] = s[i]
    BY <1>2, AppendProperties
  <2>2. QED
    BY <2>1
<1>4. sent' = t
  BY <1>1, <1>3
<1>5. Len(s) \in Nat
  OBVIOUS
<1>6. SUFFICES ASSUME NEW n \in 1 .. Len(s) + 1, Len(Encoded(SubSeq(t, 1, n))) <= c
               PROVE  k >= n
  <2>1. DOMAIN t = 1 .. Len(s) + 1
    BY <1>3
  <2>2. QED
    BY <1>4, <2>1 DEF Reached
<1>7. CASE n <= Len(s)
  <2>1. PICK g \in Seq(Bytestring) : /\ g = SubSeq(t, 1, n) /\ Len(g) = n
                                     /\ \A i \in 1..n : g[i] = t[i]
    <3>1. n \in Nat /\ n <= Len(t)
      BY <1>3, <1>5
    <3>2. QED
      BY <3>1, FirstFrames
  <2>2. StartOf(g, s)
    BY <1>3, <1>5, <1>7, <2>1 DEF StartOf
  <2>3. SubSeq(t, 1, n) = SubSeq(s, 1, n)
    BY <2>1, <2>2, StartIs
  <2>4. n \in DOMAIN s
    BY <1>5, <1>7
  <2>5. QED
    BY <1>1, <1>6, <2>3, <2>4 DEF Reached
<1>8. CASE n = Len(s) + 1
  <2>1. SubSeq(t, 1, n) = t
    BY <1>3, <1>8, SubSeqFull
  <2>2. PICK e \in Bytestring : e = Encoded(s) /\ Encoded(t) = e \o Wire(p)
    BY <1>2, <1>3, EncodedAppend
  <2>3. PICK x \in Bytestring : x = Wire(p) /\ Len(x) > 0
    BY <1>2, WireType
  <2>4. PICK y \in Bytestring : y = stream /\ received <= Len(y) /\ received \in Nat
    BY DEF FrameInv, ReaderInv, TypeOK
  <2>5. ~strange
    BY DEF SendFrame
  <2>6. PICK z \in Bytestring : y \o z = e
    BY <1>1, <2>2, <2>4, <2>5 DEF FrameInv, WriterInv
  <2>7. Len(y \o z) = Len(y) + Len(z) /\ Len(e \o x) = Len(e) + Len(x)
        /\ Len(y) \in Nat /\ Len(z) \in Nat /\ Len(e) \in Nat /\ Len(x) \in Nat
    BY Joining
  <2>8. PICK l \in Nat : l = Len(Encoded(t)) /\ l = Len(e) + Len(x)
    BY <2>2, <2>3, <2>7
  <2>9. l > received
    BY <2>3, <2>4, <2>6, <2>7, <2>8
  <2>10. l <= c
    BY <1>6, <2>1, <2>8
  <2>11. QED
    BY <2>4, <2>9, <2>10
<1>9. QED
  BY <1>5, <1>7, <1>8

\* When extract_frames returns, no complete frame is left in the buffer.
LEMMA NoneIsLeft ==
  ASSUME FrameInv, reader = "extract", ~Complete, ~Invalid
  PROVE  Reached(received, Len(Found))
<1>1. PICK f, s \in Seq(Bytestring) : f = Found /\ s = sent
  BY FoundMoves DEF Found, FrameInv, ReaderInv, TypeOK
<1>2. PICK m \in Nat : m = Len(f) /\ m <= Len(s) /\ f = SubSeq(s, 1, m)
  <2>1. StartOf(f, s) /\ Len(f) \in Nat
    BY <1>1 DEF FrameInv, InOrder
  <2>2. f = SubSeq(s, 1, Len(f))
    BY <2>1, StartIs
  <2>3. QED
    BY <2>1, <2>2 DEF StartOf
<1>3. SUFFICES ASSUME NEW n \in DOMAIN s, Len(Encoded(SubSeq(s, 1, n))) <= received, m < n
               PROVE  FALSE
  <2>1. \A n \in DOMAIN s : n \in Nat
    OBVIOUS
  <2>2. QED
    BY <1>1, <1>2, <2>1 DEF Reached
<1>4. n \in Nat /\ n <= Len(s) /\ Len(s) \in Nat
  OBVIOUS
<1>5. PICK e \in Bytestring : e = Encoded(f) /\ Len(e) \in Nat
  BY EncodedType, Joining
<1>6. PICK b \in Bytestring : b = pending /\ Len(b) \in Nat
  BY Joining DEF FrameInv, ReaderInv, TypeOK
<1>7. Len(e) + Len(b) = received
  <2>1. PICK c \in Bytestring : c = stream /\ received \in Nat /\ received <= Len(c)
    BY DEF FrameInv, ReaderInv, TypeOK
  <2>2. e \o b = SubSeq(c, 1, received)
    BY <1>1, <1>5, <1>6, <2>1 DEF FrameInv, ReaderInv, StreamAccounted, Found
  <2>3. PICK r \in Nat : r = received /\ r <= Len(c)
    BY <2>1
  <2>4. Len(SubSeq(c, 1, r)) = r
    BY <2>3, Cutting
  <2>5. QED
    BY <2>2, <2>3, <2>4, Joining
<1>8. PICK p \in Bytestring : p = s[m + 1] /\ Len(p) \in Nat
  BY <1>2, <1>3, <1>4, Joining
<1>9. kFrameHeaderSize \in Nat /\ kMaxFramePayloadSize \in Nat
  BY FramingAssumption
<1>10. Len(b) >= kFrameHeaderSize + Len(p)
  <2>1. Len(Encoded(SubSeq(s, 1, n)))
          >= Len(Encoded(SubSeq(s, 1, m))) + (kFrameHeaderSize + Len(s[m + 1]))
    BY <1>3, <1>4, EncodedLonger
  <2>2. Len(Encoded(SubSeq(s, 1, n))) \in Nat
    <3>1. SubSeq(s, 1, n) \in Seq(Bytestring)
      BY <1>4, FirstFrames
    <3>2. QED
      BY <3>1, EncodedType, Joining
  <2>3. PICK l \in Nat : l = Len(Encoded(SubSeq(s, 1, n))) /\ l <= received
    BY <1>3, <2>2
  <2>4. l >= Len(e) + (kFrameHeaderSize + Len(p))
    BY <1>2, <1>5, <1>8, <2>1, <2>3
  <2>5. QED
    BY <1>5, <1>6, <1>7, <1>8, <1>9, <2>3, <2>4
<1>11. HasHeader
  BY <1>6, <1>8, <1>9, <1>10 DEF HasHeader
<1>12. payload_length \in Nat /\ ~(payload_length > kMaxFramePayloadSize)
  BY <1>11, FrameCut DEF FrameInv, ReaderInv, TypeOK, Invalid
<1>13. payload_length = Len(p)
  <2>1. payload_length # kMaxFramePayloadSize + 1
    BY <1>9, <1>12
  <2>2. QED
    BY <1>1, <1>2, <1>8, <1>11, <2>1, HeadOfPending DEF FrameInv
<1>14. Len(pending) >= frame_size
  BY <1>6, <1>10, <1>13 DEF frame_size
<1>15. QED
  BY <1>11, <1>14 DEF Complete

\* Every step keeps this.
LEMMA HandedStep ==
  ASSUME OneWriter, FrameInv, Handed, [Next]_vars
  PROVE  Handed'
<1>1. PICK d, q, g \in Seq(Bytestring) : d = delivered /\ q = queue /\ g = frames
  BY DEF FrameInv, ReaderInv, TypeOK
<1>2. /\ Len(d) \in Nat /\ Len(q) \in Nat /\ Len(g) \in Nat
      /\ received \in Nat /\ before \in Nat /\ before <= received
  BY DEF FrameInv, ReaderInv, TypeOK
<1>3. CASE \/ \E w \in Writers : \/ \E p \in Payloads : SendFrame(w, p)
                                 \/ \E n : Send(w, n)
                                 \/ SendNothing(w) \/ SendFails(w)
           \/ Break \/ Strange
  <2>1. WriterStep
    BY <1>3, SendFrameWrites, SendWrites, OthersWrite DEF FrameInv
  <2>2. /\ reader' = reader /\ received' = received /\ before' = before
        /\ delivered' = delivered /\ queue' = queue
    BY <2>1 DEF WriterStep, readerVars, inputVars
  <2>3. CASE sent' = sent
    BY <2>2, <2>3 DEF Handed, Reached
  <2>4. CASE sent' # sent
    <3>1. PICK w \in Writers, p \in Payloads : SendFrame(w, p) /\ sent' = Append(sent, p)
      BY <2>4, SentGrows DEF FrameInv
    <3>2. ASSUME NEW c \in Nat, c <= received, NEW k \in Nat, Reached(c, k)
          PROVE  Reached(c, k)'
      BY <3>1, <3>2, NewIsOut
    <3>3. ASSUME reader = "recv" PROVE Reached(received, Len(delivered) + Len(queue))'
      <4>1. PICK c, k \in Nat : c = received /\ k = Len(delivered) + Len(queue) /\ c <= received
        BY <1>1, <1>2
      <4>2. Reached(c, k)
        BY <3>3, <4>1 DEF Handed
      <4>3. Reached(c, k)'
        BY <3>2, <4>1, <4>2
      <4>4. QED
        BY <2>2, <4>1, <4>3
    <3>4. ASSUME reader \in {"extract", "invalid"} PROVE Reached(before, Len(delivered))'
      <4>1. PICK c, k \in Nat : c = before /\ k = Len(delivered) /\ c <= received
        BY <1>1, <1>2
      <4>2. Reached(c, k)
        BY <3>4, <4>1 DEF Handed
      <4>3. Reached(c, k)'
        BY <3>2, <4>1, <4>2
      <4>4. QED
        BY <2>2, <4>1, <4>3
    <3>5. QED
      BY <2>2, <3>3, <3>4 DEF Handed
  <2>5. QED
    BY <2>3, <2>4
<1>4. CASE \E n : Recv(n)
  <2>1. /\ reader = "recv" /\ reader' = "extract" /\ before' = received
        /\ sent' = sent /\ delivered' = delivered /\ queue = <<>>
    BY <1>4 DEF Recv, writerVars
  <2>2. Len(delivered) + Len(queue) = Len(delivered)
    BY <1>1, <1>2, <2>1
  <2>3. Reached(received, Len(delivered))
    BY <2>1, <2>2 DEF Handed
  <2>4. QED
    BY <2>1, <2>3 DEF Handed, Reached
<1>5. CASE Extract \/ ExtractFails
  <2>1. /\ reader = "extract" /\ reader' \in {"extract", "invalid"} /\ before' = before
        /\ sent' = sent /\ delivered' = delivered
    BY <1>5 DEF Extract, ExtractFails, writerVars, inputVars
  <2>2. QED
    BY <2>1 DEF Handed, Reached
<1>6. CASE ExtractReturns
  <2>1. /\ reader' = "recv" /\ received' = received /\ sent' = sent
        /\ delivered' = d /\ queue' = q \o g /\ q = <<>>
    BY <1>1, <1>6 DEF ExtractReturns, writerVars, inputVars, FrameInv, ReaderInv, Phases
  <2>2. Reached(received, Len(Found))
    BY <1>6, NoneIsLeft DEF ExtractReturns
  <2>3. Len(Found) = Len(d) + Len(q) + Len(g)
    BY <1>1, FoundParts DEF Found
  <2>4. Len(q \o g) = Len(q) + Len(g)
    BY ConcatProperties
  <2>5. Len(delivered') + Len(queue') = Len(Found)
    BY <1>2, <2>1, <2>3, <2>4
  <2>6. Reached(received, Len(delivered) + Len(queue))'
    BY <2>1, <2>2, <2>5 DEF Reached
  <2>7. QED
    BY <2>1, <2>6 DEF Handed
<1>7. CASE Take
  <2>1. /\ reader = "recv" /\ reader' = "recv" /\ received' = received /\ sent' = sent
        /\ q # <<>> /\ delivered' = Append(d, Head(q)) /\ queue' = Tail(q)
    BY <1>1, <1>7 DEF Take, writerVars, inputVars
  <2>2. Len(Append(d, Head(q))) = Len(d) + 1
    <3>1. Head(q) \in Bytestring
      BY <2>1
    <3>2. QED
      BY <3>1, AppendProperties
  <2>3. Len(Tail(q)) = Len(q) - 1
    BY <2>1, HeadTailProperties
  <2>4. Len(delivered') + Len(queue') = Len(delivered) + Len(queue)
    BY <1>1, <1>2, <2>1, <2>2, <2>3
  <2>5. Reached(received, Len(delivered) + Len(queue))'
    BY <2>1, <2>4 DEF Handed, Reached
  <2>6. QED
    BY <2>1, <2>5 DEF Handed
<1>8. CASE RecvEnds
  BY <1>8 DEF RecvEnds, Handed
<1>9. CASE UNCHANGED vars
  BY <1>9 DEF vars, writerVars, readerVars, inputVars, Handed, Reached
<1>10. QED
  BY <1>3, <1>4, <1>5, <1>6, <1>7, <1>8, <1>9, StepIs

\* When extract_frames refuses a length, every frame that was complete before the
\* last recv() has been handed on: read_next_frame empties its queue first.
THEOREM RefusalCostsOneRead ==
  ASSUME OneWriter
  PROVE  Spec => []InvalidCostsOneRead
<1>1. Init => Handed
  BY DEF Init, Handed, Reached
<1>2. FrameInv /\ Handed /\ [Next]_vars => Handed'
  BY HandedStep
<1>3. FrameInv /\ [Next]_vars => FrameInv'
  BY FrameStep
<1>4. Handed => InvalidCostsOneRead
  BY DEF Handed, Reached, InvalidCostsOneRead
<1>5. QED
  BY <1>1, <1>2, <1>3, <1>4, FrameInit, PTL DEF Spec
=============================================================================

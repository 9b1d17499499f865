---------------------------- MODULE BytesProofs -----------------------------
(***************************************************************************)
(* What the operators of Bytes compute, for bytes and integers of any size, *)
(* and how byte strings are put together and taken apart.                  *)
(*                                                                         *)
(* The functions that put integers into bytes are recursive.  What they    *)
(* compute is proved by induction on a number, with the set of the numbers *)
(* for which a fact holds in the place of the fact.                        *)
(***************************************************************************)
EXTENDS Bytes, NaturalsInduction, WellFoundedInduction, SequenceTheorems, TLAPS

-----------------------------------------------------------------------------
(***************************************************************************)
(* Induction and recursion.                                                *)
(***************************************************************************)
\* A set of numbers has a least one.
LEMMA Least ==
  ASSUME NEW T \in SUBSET Nat, T # {}
  PROVE  \E n \in T : \A m \in T : n <= m
<1>1. IsWellFoundedOn(OpToRel(<, Nat), Nat)
  BY NatLessThanWellFounded
<1>2. PICK n \in T : \A m \in T : ~(<<m, n>> \in OpToRel(<, Nat))
  BY <1>1, WFMin
<1>3. ASSUME NEW m \in T PROVE n <= m
  <2>1. m \in Nat /\ n \in Nat
    OBVIOUS
  <2>2. CASE m < n
    <3>1. <<m, n>> \in OpToRel(<, Nat)
      BY <2>1, <2>2 DEF OpToRel
    <3>2. QED
      BY <1>2, <3>1
  <2>3. QED
    BY <2>1, <2>2
<1>4. QED
  BY <1>3

\* A set that holds 0, and the successor of each number it holds, holds all.
LEMMA Induction ==
  ASSUME NEW P, 0 \in P, \A n \in Nat : n \in P => n + 1 \in P
  PROVE  \A n \in Nat : n \in P
<1> DEFINE T == Nat \ P
<1>1. SUFFICES ASSUME T # {} PROVE FALSE
  OBVIOUS
<1>2. PICK n \in T : \A m \in T : n <= m
  <2>1. T \in SUBSET Nat
    OBVIOUS
  <2> HIDE DEF T
  <2>2. QED
    BY <1>1, <2>1, Least
<1>3. n - 1 \in Nat /\ (n - 1) + 1 = n
  OBVIOUS
<1>4. n - 1 \in P
  BY <1>2, <1>3
<1>5. QED
  BY <1>3, <1>4

\* f starts with a and goes on with the step G.
Steps(S) == [Nat \X S -> S]
Iterates(f, S, a, G) == /\ f \in [Nat -> S] /\ f[0] = a
                        /\ \A n \in Nat : f[n + 1] = G[<<n, f[n]>>]

\* A function can be defined by its value at 0 and a step.
LEMMA Recursion ==
  ASSUME NEW S, NEW a \in S, NEW G \in Steps(S)
  PROVE  \E f : Iterates(f, S, a, G)
<1> USE DEF Steps
<1> DEFINE Upto(n, f) == /\ f \in [0..n -> S] /\ f[0] = a
                         /\ \A i \in 0 .. n - 1 : f[i + 1] = G[<<i, f[i]>>]
           P == {n \in Nat : \E f : Upto(n, f)}
<1>1. 0 \in P
  <2>1. Upto(0, [i \in 0..0 |-> a])
    OBVIOUS
  <2>2. QED
    BY <2>1
<1>2. ASSUME NEW n \in Nat, n \in P PROVE n + 1 \in P
  <2>1. PICK f : Upto(n, f)
    BY <1>2
  <2>2. PICK b \in S : b = G[<<n, f[n]>>]
    BY <2>1
  <2> DEFINE g == [i \in 0 .. n + 1 |-> IF i = n + 1 THEN b ELSE f[i]]
  <2>3. g \in [0 .. n + 1 -> S] /\ g[0] = a
    BY <2>1
  <2>4. ASSUME NEW i \in 0 .. (n + 1) - 1 PROVE g[i + 1] = G[<<i, g[i]>>]
    <3>1. CASE i = n
      <4>1. g[i + 1] = b /\ g[i] = f[n]
        BY <3>1
      <4>2. QED
        BY <2>2, <3>1, <4>1
    <3>2. CASE i # n
      BY <2>1, <3>2
    <3>3. QED
      BY <3>1, <3>2
  <2>5. Upto(n + 1, g)
    BY <2>3, <2>4
  <2>6. \E f2 : Upto(n + 1, f2)
    <3> HIDE DEF g, Upto
    <3>1. QED
      BY <2>5
  <2>7. QED
    BY <2>6
<1>3. \A n \in Nat : n \in P
  <2> HIDE DEF P
  <2>1. QED
    BY <1>1, <1>2, Induction
<1> DEFINE h == [n \in Nat |-> CHOOSE f : Upto(n, f)]
           r == [n \in Nat |-> h[n][n]]
<1>4. \A n \in Nat : Upto(n, h[n])
  <2> HIDE DEF Upto
  <2>1. QED
    BY <1>3
<1> HIDE DEF h
<1>5. ASSUME NEW n \in Nat PROVE h[n + 1][n] = h[n][n]
  <2> DEFINE Q == {i \in Nat : i <= n => h[n + 1][i] = h[n][i]}
  <2>1. 0 \in Q
    <3>1. n + 1 \in Nat
      OBVIOUS
    <3>2. h[n + 1][0] = a /\ h[n][0] = a
      BY <1>4, <3>1
    <3>3. QED
      BY <3>2
  <2>2. ASSUME NEW i \in Nat, i \in Q PROVE i + 1 \in Q
    <3>1. SUFFICES ASSUME i + 1 <= n PROVE h[n + 1][i + 1] = h[n][i + 1]
      OBVIOUS
    <3>2. h[n + 1][i] = h[n][i]
      BY <2>2, <3>1
    <3>3. h[n + 1][i + 1] = G[<<i, h[n + 1][i]>>] /\ h[n][i + 1] = G[<<i, h[n][i]>>]
      <4>1. i \in 0 .. n - 1 /\ i \in 0 .. (n + 1) - 1
        BY <3>1
      <4>2. Upto(n, h[n]) /\ Upto(n + 1, h[n + 1])
        <5> HIDE DEF Upto
        <5>1. n \in Nat /\ n + 1 \in Nat
          OBVIOUS
        <5>2. QED
          BY <1>4, <5>1
      <4>3. QED
        BY <4>1, <4>2
    <3>4. QED
      BY <3>2, <3>3
  <2>3. \A i \in Nat : i \in Q
    <3> HIDE DEF Q
    <3>1. QED
      BY <2>1, <2>2, Induction
  <2>4. n \in Q /\ n <= n
    BY <2>3
  <2>5. QED
    BY <2>4
<1>6. r \in [Nat -> S] /\ r[0] = a
  BY <1>4
<1>7. ASSUME NEW n \in Nat PROVE r[n + 1] = G[<<n, r[n]>>]
  <2>1. Upto(n + 1, h[n + 1]) /\ n \in 0 .. (n + 1) - 1
    <3>1. n + 1 \in Nat /\ n \in 0 .. (n + 1) - 1
      OBVIOUS
    <3> HIDE DEF Upto
    <3>2. QED
      BY <1>4, <3>1
  <2>2. h[n + 1][n + 1] = G[<<n, h[n + 1][n]>>]
    BY <2>1
  <2>3. r[n + 1] = h[n + 1][n + 1] /\ r[n] = h[n + 1][n]
    BY <1>5
  <2>4. QED
    BY <2>2, <2>3
<1>8. Iterates(r, S, a, G)
  BY <1>6, <1>7 DEF Iterates
<1>9. QED
  BY <1>8

-----------------------------------------------------------------------------
(***************************************************************************)
(* Integers in bytes.                                                      *)
(***************************************************************************)
\* Quotient and remainder.
LEMMA Division ==
  ASSUME NEW b \in Nat \ {0}, NEW q \in Nat
  PROVE  /\ q \div b \in Nat /\ q % b \in 0 .. b - 1
         /\ q = b * (q \div b) + (q % b)
  OBVIOUS

\* A number is its last digit and the rest.
LEMMA LastDigit ==
  ASSUME NEW b \in Nat \ {0}, NEW v \in Nat, NEW d \in 0 .. b - 1
  PROVE  (v * b + d) \div b = v /\ (v * b + d) % b = d
  OBVIOUS

\* Quotients are unique, ...
LEMMA QuotientIs ==
  ASSUME NEW b \in Nat \ {0}, NEW q \in Nat, NEW v \in Nat, NEW r \in Nat,
         r < b, q = v * b + r
  PROVE  q \div b = v
<1>1. r \in 0 .. b - 1
  OBVIOUS
<1>2. QED
  BY <1>1, LastDigit

\* ... so that dividing twice is dividing by the product.
LEMMA DivideTwice ==
  ASSUME NEW b \in Nat \ {0}, NEW p \in Nat \ {0}, NEW n \in Nat
  PROVE  (n \div p) \div b = n \div (b * p)
<1>1. PICK q \in Nat : q = n \div p
  BY Division
<1>2. PICK r \in 0 .. p - 1 : n = p * q + r
  BY <1>1, Division
<1>3. PICK v \in Nat, d \in 0 .. b - 1 : q = b * v + d /\ v = q \div b
  BY <1>1, Division
<1>4. PICK e : e = d * p + r
  OBVIOUS
<1>5. e \in Nat /\ b * p \in Nat \ {0}
  BY <1>4
<1>6. e < b * p
  <2>1. (d + 1) * p <= b * p
    OBVIOUS
  <2>2. d * p + r < (d + 1) * p
    OBVIOUS
  <2>3. QED
    BY <1>4, <1>5, <2>1, <2>2
<1>7. n = v * (b * p) + e
  <2>1. p * (b * v + d) = v * (b * p) + d * p
    OBVIOUS
  <2>2. p * q = v * (b * p) + d * p
    BY <1>3, <2>1
  <2>3. v * (b * p) \in Nat /\ d * p \in Nat /\ p * q \in Nat
    OBVIOUS
  <2>4. QED
    BY <1>2, <1>4, <2>2, <2>3
<1>8. QED
  BY <1>1, <1>3, <1>5, <1>6, <1>7, QuotientIs

\* Power is what its definition says.
LEMMA PowerIs ==
  /\ Power[0] = 1
  /\ \A n \in Nat : Power[n] \in Nat \ {0} /\ Power[n + 1] = ByteValues * Power[n]
<1> DEFINE G == [x \in Nat \X Nat |-> ByteValues * x[2]]
           Def(f) == f = [n \in Nat |-> IF n = 0 THEN 1 ELSE ByteValues * f[n - 1]]
<1>1. G \in Steps(Nat)
  BY BytesAssumption DEF Steps
<1>2. PICK f \in [Nat -> Nat] : f[0] = 1 /\ \A n \in Nat : f[n + 1] = G[<<n, f[n]>>]
  <2> HIDE DEF G
  <2>1. \E f : Iterates(f, Nat, 1, G)
    BY <1>1, Recursion
  <2>2. QED
    BY <2>1 DEF Iterates
<1>3. ASSUME NEW n \in Nat PROVE f[n] = IF n = 0 THEN 1 ELSE ByteValues * f[n - 1]
  <2>1. CASE n # 0
    <3>1. n - 1 \in Nat /\ (n - 1) + 1 = n
      BY <2>1
    <3>2. f[n] = G[<<n - 1, f[n - 1]>>]
      BY <1>2, <3>1
    <3>3. QED
      BY <1>2, <2>1, <3>1, <3>2
  <2>2. QED
    BY <1>2, <2>1
<1>4. Def(f)
  BY <1>3
<1>5. Def(Power)
  <2>1. Power = CHOOSE g : Def(g)
    BY DEF Power
  <2> HIDE DEF Def
  <2>2. QED
    BY <1>4, <2>1
<1>6. Power[0] = 1 /\ \A n \in Nat : Power[n + 1] = ByteValues * Power[n]
  <2>1. PICK g : g = Power
    OBVIOUS
  <2>2. g = [n \in Nat |-> IF n = 0 THEN 1 ELSE ByteValues * g[n - 1]]
    BY <1>5, <2>1
  <2>3. g[0] = 1
    BY <2>2
  <2>4. ASSUME NEW n \in Nat PROVE g[n + 1] = ByteValues * g[n]
    <3>1. n + 1 \in Nat /\ n + 1 # 0 /\ (n + 1) - 1 = n
      OBVIOUS
    <3>2. QED
      BY <2>2, <3>1
  <2>5. QED
    BY <2>1, <2>3, <2>4
<1> DEFINE P == {n \in Nat : Power[n] \in Nat \ {0}}
<1>7. 0 \in P
  BY <1>6
<1>8. ASSUME NEW n \in Nat, n \in P PROVE n + 1 \in P
  BY <1>6, <1>8, BytesAssumption
<1>9. \A n \in Nat : n \in P
  <2> HIDE DEF P
  <2>1. QED
    BY <1>7, <1>8, Induction
<1>10. QED
  BY <1>6, <1>9

\* Value adds the digits one by one.
LEMMA ValueIs ==
  ASSUME NEW b \in Seq(Byte)
  PROVE  \E v \in [0..Len(b) -> Nat] :
           /\ v[0] = 0 /\ Value(b) = v[Len(b)]
           /\ \A i \in 1..Len(b) : v[i] = v[i - 1] * ByteValues + b[i]
<1>1. Len(b) \in Nat /\ \A i \in 1..Len(b) : b[i] \in Nat
  BY BytesAssumption DEF Byte
<1> DEFINE G == [x \in Nat \X Nat |->
                   IF x[1] < Len(b) THEN x[2] * ByteValues + b[x[1] + 1] ELSE x[2]]
           Def(f) == f = [i \in 0..Len(b) |->
                            IF i = 0 THEN 0 ELSE f[i - 1] * ByteValues + b[i]]
<1>2. G \in Steps(Nat)
  <2>1. ASSUME NEW x \in Nat \X Nat PROVE G[x] \in Nat
    <3>1. x[1] \in Nat /\ x[2] \in Nat /\ x[2] * ByteValues \in Nat
      BY BytesAssumption
    <3>2. CASE x[1] < Len(b)
      <4>1. x[1] + 1 \in 1..Len(b)
        BY <1>1, <3>1, <3>2
      <4>2. QED
        BY <1>1, <3>1, <3>2, <4>1
    <3>3. QED
      BY <3>1, <3>2
  <2>2. QED
    BY <2>1 DEF Steps
<1>3. PICK f : Iterates(f, Nat, 0, G)
  <2> HIDE DEF G
  <2>1. QED
    BY <1>2, Recursion
<1> DEFINE v == [i \in 0..Len(b) |-> f[i]]
<1>4. v \in [0..Len(b) -> Nat] /\ v[0] = 0
  <2>1. f \in [Nat -> Nat] /\ f[0] = 0
    BY <1>3 DEF Iterates
  <2>2. 0 \in 0..Len(b) /\ \A i \in 0..Len(b) : i \in Nat
    BY <1>1
  <2>3. QED
    BY <2>1, <2>2
<1>5. ASSUME NEW i \in 1..Len(b) PROVE v[i] = v[i - 1] * ByteValues + b[i]
  <2>1. i - 1 \in Nat /\ (i - 1) + 1 = i /\ i - 1 < Len(b) /\ i \in Nat
    BY <1>1
  <2>2. f[i] = G[<<i - 1, f[i - 1]>>] /\ f[i - 1] \in Nat
    <3> HIDE DEF G
    <3>1. \A k \in Nat : f[k + 1] = G[<<k, f[k]>>]
      BY <1>3 DEF Iterates
    <3>2. f[(i - 1) + 1] = G[<<i - 1, f[i - 1]>>]
      BY <2>1, <3>1
    <3>3. f[i - 1] \in Nat
      BY <1>3, <2>1 DEF Iterates
    <3>4. QED
      BY <2>1, <3>2, <3>3
  <2>3. v[i] = f[i] /\ v[i - 1] = f[i - 1]
    BY <1>1, <2>1
  <2>4. QED
    BY <2>1, <2>2, <2>3
<1>6. Def(v)
  <2> HIDE DEF v
  <2>1. QED
    BY <1>4, <1>5
<1>7. PICK u : u = (CHOOSE g : Def(g)) /\ Value(b) = u[Len(b)]
  BY DEF Value
<1>8. Def(u)
  <2> HIDE DEF Def, v
  <2>1. QED
    BY <1>6, <1>7
<1>9. u = v
  <2> DEFINE P == {i \in Nat : i <= Len(b) => u[i] = v[i]}
  <2> HIDE DEF v
  <2>1. 0 \in P
    BY <1>1, <1>4, <1>8
  <2>2. ASSUME NEW i \in Nat, i \in P PROVE i + 1 \in P
    <3>1. SUFFICES ASSUME i + 1 <= Len(b) PROVE u[i + 1] = v[i + 1]
      OBVIOUS
    <3>2. i + 1 \in 1..Len(b) /\ i + 1 # 0 /\ (i + 1) - 1 = i /\ u[i] = v[i]
      BY <1>1, <2>2, <3>1
    <3>3. u[i + 1] = u[i] * ByteValues + b[i + 1]
      BY <1>8, <3>2
    <3>4. v[i + 1] = v[i] * ByteValues + b[i + 1]
      BY <1>5, <3>2
    <3>5. QED
      BY <3>2, <3>3, <3>4
  <2>3. \A i \in Nat : i \in P
    <3> HIDE DEF P
    <3>1. QED
      BY <2>1, <2>2, Induction
  <2>4. \A i \in 0..Len(b) : u[i] = v[i]
    BY <1>1, <2>3
  <2>5. DOMAIN u = 0..Len(b) /\ u = [i \in 0..Len(b) |-> u[i]]
    BY <1>8
  <2>6. v = [i \in 0..Len(b) |-> v[i]]
    BY <1>4
  <2>7. QED
    BY <2>4, <2>5, <2>6
<1>10. QED
  BY <1>4, <1>5, <1>7, <1>9

\* A number of w bytes.
LEMMA BytesOfNumber ==
  ASSUME NEW w \in Nat, NEW n \in Nat
  PROVE  /\ BigEndian(n, w) \in [1..w -> Byte]
         /\ BigEndian(n, w) \in Seq(Byte) /\ Len(BigEndian(n, w)) = w
<1>1. ASSUME NEW i \in 1..w PROVE (n \div Power[w - i]) % ByteValues \in Byte
  <2>1. w - i \in Nat /\ ByteValues \in Nat \ {0}
    BY BytesAssumption
  <2>2. Power[w - i] \in Nat \ {0}
    BY <2>1, PowerIs
  <2>3. n \div Power[w - i] \in Nat
    BY <2>2, Division
  <2>4. QED
    BY <2>1, <2>3, Division DEF Byte
<1>2. BigEndian(n, w) \in [1..w -> Byte]
  BY <1>1 DEF BigEndian
<1>3. QED
  BY <1>2

\* Writing a number that fits and reading it back gives the number.
LEMMA ReadWhatWasWritten ==
  ASSUME NEW w \in Nat, NEW n \in Nat, n < Power[w]
  PROVE  Value(BigEndian(n, w)) = n
<1>1. PICK b \in Seq(Byte) : b = BigEndian(n, w) /\ Len(b) = w
  BY BytesOfNumber
<1>2. PICK v \in [0..Len(b) -> Nat] :
        /\ v[0] = 0 /\ Value(b) = v[Len(b)]
        /\ \A i \in 1..Len(b) : v[i] = v[i - 1] * ByteValues + b[i]
  BY ValueIs
<1> DEFINE P == {i \in Nat : i <= w => v[i] = n \div Power[w - i]}
<1>3. 0 \in P
  <2>1. Power[w] \in Nat \ {0} /\ w - 0 = w
    BY PowerIs
  <2>2. n \div Power[w] = 0
    BY <2>1, QuotientIs
  <2>3. QED
    BY <1>2, <2>1, <2>2
<1>4. ASSUME NEW i \in Nat, i \in P PROVE i + 1 \in P
  <2>1. SUFFICES ASSUME i + 1 <= w PROVE v[i + 1] = n \div Power[w - (i + 1)]
    OBVIOUS
  <2>2. PICK k \in Nat : k = w - (i + 1) /\ w - i = k + 1
    BY <2>1
  <2>3. PICK p \in Nat \ {0} : p = Power[k] /\ Power[w - i] = ByteValues * p
    BY <2>2, PowerIs
  <2>4. PICK q \in Nat : q = n \div p
    BY Division
  <2>5. ByteValues \in Nat \ {0}
    BY BytesAssumption
  <2>6. v[i] = q \div ByteValues
    <3>1. v[i] = n \div (ByteValues * p)
      BY <1>4, <2>1, <2>3
    <3>2. (n \div p) \div ByteValues = n \div (ByteValues * p)
      BY <2>5, DivideTwice
    <3>3. QED
      BY <2>4, <3>1, <3>2
  <2>7. i + 1 \in 1..w /\ (i + 1) - 1 = i
    BY <2>1
  <2>8. b[i + 1] = q % ByteValues
    BY <1>1, <2>2, <2>3, <2>4, <2>7 DEF BigEndian
  <2>9. v[i + 1] = v[i] * ByteValues + b[i + 1]
    BY <1>1, <1>2, <2>7
  <2>10. q = ByteValues * (q \div ByteValues) + (q % ByteValues) /\ q \div ByteValues \in Nat
    BY <2>5, Division
  <2>11. ByteValues * (q \div ByteValues) = (q \div ByteValues) * ByteValues
    BY <2>5, <2>10
  <2>12. v[i + 1] = q
    BY <2>6, <2>8, <2>9, <2>10, <2>11
  <2>13. QED
    BY <2>2, <2>3, <2>4, <2>12
<1>5. w \in P
  <2>1. \A i \in Nat : i \in P
    <3> HIDE DEF P
    <3>1. QED
      BY <1>3, <1>4, Induction
  <2>2. QED
    BY <2>1
<1>6. n \div Power[w - w] = n
  <2>1. w - w = 0 /\ Power[0] = 1
    BY PowerIs
  <2>2. QED
    BY <2>1
<1>7. QED
  BY <1>1, <1>2, <1>5, <1>6

\* Reading bytes and writing the number again gives the bytes.
LEMMA WriteWhatWasRead ==
  ASSUME NEW b \in Seq(Byte)
  PROVE  Value(b) \in Nat /\ BigEndian(Value(b), Len(b)) = b
<1>1. PICK v \in [0..Len(b) -> Nat] :
        /\ v[0] = 0 /\ Value(b) = v[Len(b)]
        /\ \A i \in 1..Len(b) : v[i] = v[i - 1] * ByteValues + b[i]
  BY ValueIs
<1>2. PICK w \in Nat : w = Len(b)
  OBVIOUS
<1>3. PICK n \in Nat : n = Value(b) /\ n = v[w]
  BY <1>1, <1>2
<1>4. ByteValues \in Nat \ {0} /\ \A i \in 1..w : b[i] \in 0 .. ByteValues - 1
  BY <1>2, BytesAssumption DEF Byte
<1>5. ASSUME NEW i \in 1..w
      PROVE  v[i] \div ByteValues = v[i - 1] /\ v[i] % ByteValues = b[i]
  <2>1. PICK u \in Nat : u = v[i - 1]
    BY <1>2
  <2>2. PICK d \in 0 .. ByteValues - 1 : d = b[i]
    BY <1>4
  <2>3. v[i] = u * ByteValues + d
    BY <1>1, <1>2, <2>1, <2>2
  <2>4. (u * ByteValues + d) \div ByteValues = u /\ (u * ByteValues + d) % ByteValues = d
    BY <1>4, LastDigit
  <2>5. QED
    BY <2>1, <2>2, <2>3, <2>4
<1> DEFINE P == {k \in Nat : k <= w => n \div Power[k] = v[w - k]}
<1>6. 0 \in P
  <2>1. Power[0] = 1 /\ w - 0 = w
    BY PowerIs
  <2>2. n \div 1 = n
    OBVIOUS
  <2>3. QED
    BY <1>3, <2>1, <2>2
<1>7. ASSUME NEW k \in Nat, k \in P PROVE k + 1 \in P
  <2>1. SUFFICES ASSUME k + 1 <= w PROVE n \div Power[k + 1] = v[w - (k + 1)]
    OBVIOUS
  <2>2. PICK p \in Nat \ {0} : p = Power[k] /\ Power[k + 1] = ByteValues * p
    BY PowerIs
  <2>3. n \div p = v[w - k]
    BY <1>7, <2>1, <2>2
  <2>4. n \div (ByteValues * p) = (n \div p) \div ByteValues
    BY <1>4, DivideTwice
  <2>5. w - k \in 1..w /\ (w - k) - 1 = w - (k + 1)
    BY <2>1
  <2>6. v[w - k] \div ByteValues = v[w - (k + 1)]
    BY <1>5, <2>5
  <2>7. QED
    BY <2>2, <2>3, <2>4, <2>6
<1>8. \A k \in Nat : k \in P
  <2> HIDE DEF P
  <2>1. QED
    BY <1>6, <1>7, Induction
<1>9. ASSUME NEW i \in 1..w PROVE (n \div Power[w - i]) % ByteValues = b[i]
  <2>1. PICK k \in Nat : k = w - i /\ k <= w /\ w - k = i
    OBVIOUS
  <2>2. n \div Power[k] = v[i]
    BY <1>8, <2>1
  <2>3. QED
    BY <1>5, <2>1, <2>2
<1>10. BigEndian(n, w) = b
  <2>1. BigEndian(n, w) = [i \in 1..w |-> b[i]]
    BY <1>9 DEF BigEndian
  <2>2. b = [i \in 1..w |-> b[i]]
    BY <1>2
  <2>3. QED
    BY <2>1, <2>2
<1>11. QED
  BY <1>2, <1>3, <1>10

-----------------------------------------------------------------------------
(***************************************************************************)
(* Byte strings in a row.                                                  *)
(***************************************************************************)
Bytestring == Seq(Byte)

\* Byte strings one after the other.
LEMMA Joining ==
  /\ <<>> \in Bytestring
  /\ \A x, y \in Bytestring : x \o y \in Bytestring /\ Len(x \o y) = Len(x) + Len(y)
  /\ \A x \in Bytestring : x \o <<>> = x /\ <<>> \o x = x /\ Len(x) \in Nat
<1>1. PICK S : S = Byte
  OBVIOUS
<1>2. /\ <<>> \in Seq(S)
      /\ \A x, y \in Seq(S) : x \o y \in Seq(S) /\ Len(x \o y) = Len(x) + Len(y)
  BY ConcatProperties
<1>3. \A x \in Seq(S) : x \o <<>> = x /\ <<>> \o x = x /\ Len(x) \in Nat
  BY ConcatEmptySeq
<1>4. QED
  BY <1>1, <1>2, <1>3 DEF Bytestring

\* How three sequences are grouped does not matter.
Grouped(x, y, z) == (x \o y) \o z = x \o (y \o z)

\* So it is for sequences of anything, ...
LEMMA SequencesGroup ==
  ASSUME NEW S, NEW x \in Seq(S), NEW y \in Seq(S), NEW z \in Seq(S)
  PROVE  Grouped(x, y, z)
  BY ConcatAssociative DEF Grouped

\* ... and for byte strings.
LEMMA Grouping ==
  ASSUME NEW x \in Bytestring, NEW y \in Bytestring, NEW z \in Bytestring
  PROVE  Grouped(x, y, z)
<1>1. PICK S : S = Byte
  OBVIOUS
<1>2. x \in Seq(S) /\ y \in Seq(S) /\ z \in Seq(S)
  BY <1>1 DEF Bytestring
<1>3. QED
  BY <1>2, SequencesGroup

\* Four byte strings in a row.
Regrouped(s, x, c, b) == (s \o x) \o (c \o b) = s \o ((x \o c) \o b)

\* However they are grouped, they are the same bytes.
LEMMA FourInARow ==
  ASSUME NEW s \in Bytestring, NEW x \in Bytestring,
         NEW c \in Bytestring, NEW b \in Bytestring
  PROVE  Regrouped(s, x, c, b)
<1>1. (x \o c) \o b = x \o (c \o b)
  <2>1. Grouped(x, c, b)
    BY Grouping
  <2>2. QED
    BY <2>1 DEF Grouped
<1>2. PICK y \in Bytestring : y = c \o b
  BY Joining
<1>3. (s \o x) \o y = s \o (x \o y)
  <2>1. Grouped(s, x, y)
    BY Grouping
  <2>2. QED
    BY <2>1 DEF Grouped
<1>4. QED
  BY <1>1, <1>2, <1>3 DEF Regrouped

\* Two sequences of one buffer.
LEMMA TwoBuffers ==
  ASSUME NEW c, NEW b
  PROVE  /\ <<c>> \o <<b>> = <<c, b>> /\ <<c>> \o <<>> = <<c>>
         /\ Head(<<c, b>>) = c /\ Tail(<<c, b>>) = <<b>>
         /\ Head(<<c>>) = c /\ Tail(<<c>>) = <<>>
<1>1. PICK S : S = {c, b}
  OBVIOUS
<1>2. <<c>> \in Seq(S) /\ <<b>> \in Seq(S) /\ <<c, b>> \in Seq(S)
  BY <1>1
<1>3. <<c>> \o <<b>> = <<c, b>>
  <2>1. PICK x, y \in Seq(S) : /\ x = <<c>> /\ y = <<b>> /\ Len(x) = 1 /\ Len(y) = 1
                               /\ x[1] = c /\ y[1] = b
    BY <1>2
  <2>2. PICK u \in Seq(S) : u = x \o y /\ Len(u) = 2 /\ u[1] = c /\ u[2] = b
    <3>1. /\ x \o y \in Seq(S) /\ Len(x \o y) = Len(x) + Len(y)
          /\ \A i \in 1 .. Len(x) + Len(y) :
               (x \o y)[i] = IF i <= Len(x) THEN x[i] ELSE y[i - Len(x)]
      BY ConcatProperties
    <3>2. (x \o y)[1] = x[1] /\ (x \o y)[2] = y[1]
      BY <2>1, <3>1
    <3>3. Len(x \o y) = 2
      BY <2>1, <3>1
    <3>4. QED
      BY <2>1, <3>1, <3>2, <3>3
  <2>3. PICK v \in Seq(S) : v = <<c, b>> /\ Len(v) = 2 /\ v[1] = c /\ v[2] = b
    BY <1>2
  <2>4. u = v
    <3>1. Len(u) = Len(v) /\ \A i \in 1..Len(u) : u[i] = v[i]
      BY <2>2, <2>3
    <3>2. QED
      BY <3>1, SeqEqual
  <2>5. QED
    BY <2>1, <2>2, <2>3, <2>4
<1>4. <<c>> \o <<>> = <<c>>
  BY <1>2, ConcatEmptySeq
<1>5. Head(<<c, b>>) = c /\ Tail(<<c, b>>) = <<b>>
  OBVIOUS
<1>6. Head(<<c>>) = c /\ Tail(<<c>>) = <<>>
  OBVIOUS
<1>7. QED
  BY <1>3, <1>4, <1>5, <1>6

-----------------------------------------------------------------------------
(***************************************************************************)
(* Cutting byte strings.                                                   *)
(***************************************************************************)
\* The first n bytes and the others.
LEMMA Cutting ==
  ASSUME NEW s \in Bytestring, NEW n \in Nat, n <= Len(s)
  PROVE  /\ SubSeq(s, 1, n) \in Bytestring /\ Len(SubSeq(s, 1, n)) = n
         /\ Drop(s, n) \in Bytestring /\ Len(Drop(s, n)) = Len(s) - n
         /\ s = SubSeq(s, 1, n) \o Drop(s, n)
<1>1. PICK S : S = Byte
  OBVIOUS
<1>2. s \in Seq(S) /\ Len(s) \in Nat
  BY <1>1 DEF Bytestring
<1>3. \A i \in 1..Len(s) : s[i] \in S
  BY <1>2
<1>4. SubSeq(s, 1, n) \in Seq(S) /\ Len(SubSeq(s, 1, n)) = n
  <2>1. \A i \in 1..n : s[i] \in S
    BY <1>2, <1>3
  <2>2. Len(SubSeq(s, 1, n)) = IF 1 <= n THEN n - 1 + 1 ELSE 0
    BY <2>1, SubSeqProperties
  <2>3. SubSeq(s, 1, n) \in Seq(S)
    BY <2>1, SubSeqProperties
  <2>4. QED
    BY <2>2, <2>3
<1>5. SubSeq(s, n + 1, Len(s)) \in Seq(S) /\ Len(SubSeq(s, n + 1, Len(s))) = Len(s) - n
  <2>1. n + 1 \in Int /\ Len(s) \in Int /\ \A i \in n + 1 .. Len(s) : s[i] \in S
    BY <1>2, <1>3
  <2>2. Len(SubSeq(s, n + 1, Len(s)))
          = IF n + 1 <= Len(s) THEN Len(s) - (n + 1) + 1 ELSE 0
    BY <2>1, SubSeqProperties
  <2>3. SubSeq(s, n + 1, Len(s)) \in Seq(S)
    BY <2>1, SubSeqProperties
  <2>4. QED
    BY <1>2, <2>2, <2>3
<1>6. SubSeq(s, 1, n) \o SubSeq(s, n + 1, Len(s)) = s
  <2>1. 1 \in 1 .. Len(s) + 1 /\ n \in 1 - 1 .. Len(s) /\ Len(s) \in n .. Len(s)
    BY <1>2
  <2>2. SubSeq(s, 1, n) \o SubSeq(s, n + 1, Len(s)) = SubSeq(s, 1, Len(s))
    BY <1>2, <2>1, ConcatAdjacentSubSeq
  <2>3. QED
    BY <1>2, <2>2, SubSeqFull
<1>7. QED
  BY <1>1, <1>4, <1>5, <1>6 DEF Drop, Bytestring

\* A byte string is cut in one way into a part of a given length and the rest.
LEMMA CutAlike ==
  ASSUME NEW a \in Bytestring, NEW b \in Bytestring,
         NEW c \in Bytestring, NEW d \in Bytestring,
         a \o b = c \o d, Len(a) = Len(c)
  PROVE  a = c /\ b = d
<1>1. PICK S : S = Byte
  OBVIOUS
<1>2. a \in Seq(S) /\ b \in Seq(S) /\ c \in Seq(S) /\ d \in Seq(S)
  BY <1>1 DEF Bytestring
<1>3. /\ \A i \in 1 .. Len(a) + Len(b) :
           (a \o b)[i] = IF i <= Len(a) THEN a[i] ELSE b[i - Len(a)]
      /\ \A i \in 1 .. Len(c) + Len(d) :
           (c \o d)[i] = IF i <= Len(c) THEN c[i] ELSE d[i - Len(c)]
  BY <1>2, ConcatProperties
<1>4. Len(a) \in Nat /\ Len(b) \in Nat /\ Len(d) \in Nat
  BY <1>2
<1>5. \A i \in 1..Len(a) : a[i] = c[i]
  <2> SUFFICES ASSUME NEW i \in 1..Len(a) PROVE a[i] = c[i]
    OBVIOUS
  <2>1. i \in 1 .. Len(a) + Len(b) /\ i \in 1 .. Len(c) + Len(d) /\ i <= Len(a)
    BY <1>4
  <2>2. (a \o b)[i] = a[i] /\ (c \o d)[i] = c[i]
    BY <1>3, <2>1
  <2>3. QED
    BY <2>2
<1>6. a = c
  BY <1>2, <1>5, SeqEqual
<1>7. b = d
  <2>1. a \o b = a \o d
    BY <1>6
  <2>2. \A s, t, v \in Seq(S) : s \o t = s \o v => t = v
    BY ConcatSimplifications
  <2>3. QED
    BY <1>2, <2>1, <2>2
<1>8. QED
  BY <1>6, <1>7

\* What has arrived is not changed by what is sent later, ...
LEMMA ArrivedStays ==
  ASSUME NEW s \in Bytestring, NEW x \in Bytestring, NEW n \in Nat, n <= Len(s)
  PROVE  SubSeq(s \o x, 1, n) = SubSeq(s, 1, n)
<1>1. PICK a \in Bytestring : a = SubSeq(s, 1, n) /\ Len(a) = n
  BY Cutting
<1>2. PICK b \in Bytestring : b = Drop(s, n) /\ s = a \o b
  BY <1>1, Cutting
<1>3. PICK t \in Bytestring : t = s \o x /\ Len(t) = Len(s) + Len(x)
  BY Joining
<1>4. n <= Len(t)
  BY <1>3, Joining
<1>5. PICK c \in Bytestring : c = SubSeq(t, 1, n) /\ Len(c) = n
  BY <1>4, Cutting
<1>6. PICK d \in Bytestring : d = Drop(t, n) /\ t = c \o d
  BY <1>4, <1>5, Cutting
<1>7. PICK y \in Bytestring : y = b \o x /\ a \o y = t
  <2>1. b \o x \in Bytestring
    BY Joining
  <2>2. (a \o b) \o x = a \o (b \o x)
    <3>1. Grouped(a, b, x)
      BY Grouping
    <3>2. QED
      BY <3>1 DEF Grouped
  <2>3. QED
    BY <1>2, <1>3, <2>1, <2>2
<1>8. a = c
  BY <1>1, <1>5, <1>6, <1>7, CutAlike
<1>9. QED
  BY <1>1, <1>3, <1>5, <1>8

\* Of two byte strings that go on to be the same, the longer begins with the shorter.
LEMMA SameFront ==
  ASSUME NEW b \in Bytestring, NEW t \in Bytestring, NEW h \in Bytestring,
         NEW r \in Bytestring, b \o t = h \o r, Len(h) <= Len(b)
  PROVE  SubSeq(b, 1, Len(h)) = h
<1>1. PICK n \in Nat : n = Len(h) /\ n <= Len(b)
  BY Joining
<1>2. SubSeq(b \o t, 1, n) = SubSeq(b, 1, n)
  BY <1>1, ArrivedStays
<1>3. n <= n
  BY <1>1
<1>4. SubSeq(h \o r, 1, n) = SubSeq(h, 1, n)
  BY <1>1, <1>3, ArrivedStays
<1>5. SubSeq(h, 1, n) = h
  BY <1>1, SubSeqFull DEF Bytestring
<1>6. QED
  BY <1>1, <1>2, <1>4, <1>5
=============================================================================

-------------------------- MODULE SortedSequences ---------------------------
(***************************************************************************)
(* Finite sets sorted by a strict total order: there is exactly one sorted *)
(* sequence, and an element's place in it is one more than the number of   *)
(* elements before it.  The order is a set R of pairs, since the lemmas    *)
(* are used with an order that depends on the state.                       *)
(***************************************************************************)
EXTENDS FiniteSetTheorems, FunctionTheorems, Sequences, TLAPS

StrictOrder(R, S) ==
  /\ \A x \in S : <<x, x>> \notin R
  /\ \A x, y \in S : x # y => <<x, y>> \in R \/ <<y, x>> \in R
  /\ \A x, y, z \in S : <<x, y>> \in R /\ <<y, z>> \in R => <<x, z>> \in R

\* The elements of S before x.
Below(R, S, x) == {y \in S : <<y, x>> \in R}

IsSorted(s, R, S) ==
  /\ s \in [1..Cardinality(S) -> S]
  /\ \A i, j \in 1..Cardinality(S) : i < j => <<s[i], s[j]>> \in R

\* The first m elements of a sequence, and the elements of a set with fewer than
\* m before them.
Prefix(s, m) == [i \in 1..m |-> s[i]]
Lowest(R, S, m) == {x \in S : Cardinality(Below(R, S, x)) < m}

-----------------------------------------------------------------------------
\* Fewer elements are before an element than are in the set.
LEMMA BelowIsSmaller ==
  ASSUME NEW S, IsFiniteSet(S), NEW R, StrictOrder(R, S), NEW x \in S
  PROVE  /\ IsFiniteSet(Below(R, S, x))
         /\ Cardinality(S) \in Nat
         /\ Cardinality(Below(R, S, x)) \in Nat
         /\ Cardinality(Below(R, S, x)) < Cardinality(S)
<1>1. Below(R, S, x) \in SUBSET S
  BY DEF Below
<1>2. x \notin Below(R, S, x)
  BY DEF Below, StrictOrder
<1>3. IsFiniteSet(Below(R, S, x))
      /\ Cardinality(Below(R, S, x)) <= Cardinality(S)
      /\ (Cardinality(S) = Cardinality(Below(R, S, x)) => S = Below(R, S, x))
  BY <1>1, FS_Subset
<1>4. Cardinality(S) \in Nat /\ Cardinality(Below(R, S, x)) \in Nat
  BY <1>3, FS_CardinalityType
<1>5. QED
  BY <1>2, <1>3, <1>4

\* A later element has more elements before it.
LEMMA BelowGrows ==
  ASSUME NEW S, IsFiniteSet(S), NEW R, StrictOrder(R, S),
         NEW x \in S, NEW y \in S, <<x, y>> \in R
  PROVE  Cardinality(Below(R, S, x)) < Cardinality(Below(R, S, y))
<1>1. Below(R, S, x) \in SUBSET Below(R, S, y)
  BY DEF Below, StrictOrder
<1>2. x \in Below(R, S, y) /\ x \notin Below(R, S, x)
  BY DEF Below, StrictOrder
<1>3. IsFiniteSet(Below(R, S, y)) /\ Cardinality(Below(R, S, y)) \in Nat
      /\ Cardinality(Below(R, S, x)) \in Nat
  BY BelowIsSmaller
<1>4. Cardinality(Below(R, S, x)) <= Cardinality(Below(R, S, y))
      /\ (Cardinality(Below(R, S, y)) = Cardinality(Below(R, S, x))
            => Below(R, S, y) = Below(R, S, x))
  BY <1>1, <1>3, FS_Subset
<1>5. QED
  BY <1>2, <1>3, <1>4

\* Every place is taken by some element.
LEMMA EveryRankTaken ==
  ASSUME NEW S, IsFiniteSet(S), NEW R, StrictOrder(R, S),
         NEW i \in 1..Cardinality(S)
  PROVE  \E x \in S : Cardinality(Below(R, S, x)) + 1 = i
<1> DEFINE n == Cardinality(S)
           rank == [x \in S |-> Cardinality(Below(R, S, x)) + 1]
<1>1. n \in Nat
  BY FS_CardinalityType
<1>2. rank \in [S -> 1..n]
  <2>1. ASSUME NEW x \in S PROVE Cardinality(Below(R, S, x)) + 1 \in 1..n
    BY BelowIsSmaller
  <2>2. QED
    BY <2>1
<1>3. ASSUME NEW x \in S, NEW y \in S, rank[x] = rank[y]
      PROVE  x = y
  <2>1. Cardinality(Below(R, S, x)) \in Nat /\ Cardinality(Below(R, S, y)) \in Nat
    BY BelowIsSmaller
  <2>2. Cardinality(Below(R, S, x)) = Cardinality(Below(R, S, y))
    BY <1>3, <2>1
  <2>3. <<x, y>> \notin R /\ <<y, x>> \notin R
    BY <2>1, <2>2, BelowGrows
  <2>4. QED
    BY <2>3 DEF StrictOrder
<1>4. rank \in Injection(S, 1..n)
  BY <1>2, <1>3 DEF Injection, IsInjective
<1>5. IsFiniteSet(1..n) /\ Cardinality(1..n) = n
  BY <1>1, FS_Interval
<1>6. rank \in Surjection(S, 1..n)
  BY <1>4, <1>5, FS_Injection
<1>7. PICK x \in S : rank[x] = i
  BY <1>6 DEF Surjection
<1>8. QED
  BY <1>7

\* There is a sorted sequence.
LEMMA SortedExists ==
  ASSUME NEW S, IsFiniteSet(S), NEW R, StrictOrder(R, S)
  PROVE  \E s : IsSorted(s, R, S)
<1> DEFINE n == Cardinality(S)
           s == [i \in 1..n |-> CHOOSE x \in S : Cardinality(Below(R, S, x)) + 1 = i]
<1>1. n \in Nat
  BY FS_CardinalityType
<1>2. ASSUME NEW i \in 1..n
      PROVE  s[i] \in S /\ Cardinality(Below(R, S, s[i])) + 1 = i
  <2>1. \E x \in S : Cardinality(Below(R, S, x)) + 1 = i
    BY EveryRankTaken
  <2>2. QED
    BY <2>1
<1>3. s \in [1..n -> S]
  BY <1>2
<1>4. ASSUME NEW i \in 1..n, NEW j \in 1..n, i < j
      PROVE  <<s[i], s[j]>> \in R
  <2> DEFINE x == s[i]
             y == s[j]
  <2>1. x \in S /\ y \in S
    BY <1>2
  <2>2. Cardinality(Below(R, S, x)) + 1 = i /\ Cardinality(Below(R, S, y)) + 1 = j
    BY <1>2
  <2>3. Cardinality(Below(R, S, x)) \in Nat /\ Cardinality(Below(R, S, y)) \in Nat
    BY <2>1, BelowIsSmaller
  <2> HIDE DEF x, y
  <2>4. x # y
    BY <1>4, <2>2, <1>1
  <2>5. <<y, x>> \notin R
    <3> SUFFICES ASSUME <<y, x>> \in R PROVE FALSE
      OBVIOUS
    <3>1. Cardinality(Below(R, S, y)) < Cardinality(Below(R, S, x))
      BY <2>1, BelowGrows
    <3>2. QED
      BY <3>1, <2>2, <2>3, <1>4, <1>1
  <2>6. <<x, y>> \in R
    BY <2>1, <2>4, <2>5 DEF StrictOrder
  <2>7. QED
    BY <2>6 DEF x, y
<1> HIDE DEF s
<1>5. IsSorted(s, R, S)
  BY <1>3, <1>4 DEF IsSorted
<1>6. QED
  BY <1>5

\* In a sorted sequence the elements before the i-th are the first i - 1.
LEMMA SortedRank ==
  ASSUME NEW S, IsFiniteSet(S), NEW R, StrictOrder(R, S),
         NEW s, IsSorted(s, R, S), NEW i \in 1..Cardinality(S)
  PROVE  /\ Cardinality(Below(R, S, s[i])) = i - 1
         /\ \A x \in S : \E j \in 1..Cardinality(S) : s[j] = x
<1> DEFINE n == Cardinality(S)
<1>1. n \in Nat /\ s \in [1..n -> S]
  BY FS_CardinalityType DEF IsSorted
<1>2. ASSUME NEW j \in 1..n, NEW k \in 1..n, s[j] = s[k]
      PROVE  j = k
  <2>1. s[j] \in S /\ <<s[j], s[j]>> \notin R
    BY <1>1 DEF StrictOrder
  <2>2. ~(j < k) /\ ~(k < j)
    BY <1>2, <2>1 DEF IsSorted
  <2>3. QED
    BY <2>2, <1>1
<1>3. s \in Injection(1..n, S)
  BY <1>1, <1>2 DEF Injection, IsInjective
<1>4. Cardinality(1..n) = n
  BY <1>1, FS_Interval
<1>5. s \in Surjection(1..n, S)
  BY <1>3, <1>4, FS_Injection
<1>6. \A x \in S : \E j \in 1..n : s[j] = x
  BY <1>5 DEF Surjection
<1>7. i - 1 \in Nat /\ 1..(i - 1) \subseteq 1..n
  BY <1>1
<1>8. ASSUME NEW j \in 1..n
      PROVE  s[j] \in Below(R, S, s[i]) <=> j < i
  <2>1. s[i] \in S /\ s[j] \in S
    BY <1>1
  <2>2. CASE j < i
    BY <2>1, <2>2 DEF IsSorted, Below
  <2>3. CASE ~(j < i)
    <3>1. j = i \/ i < j
      BY <2>3, <1>1
    <3>2. j = i \/ <<s[i], s[j]>> \in R
      BY <3>1 DEF IsSorted
    <3>3. <<s[j], s[i]>> \notin R
      BY <3>2, <2>1 DEF StrictOrder
    <3>4. QED
      BY <3>3, <2>3 DEF Below
  <2>4. QED
    BY <2>2, <2>3
<1> DEFINE f == [j \in 1..(i - 1) |-> s[j]]
<1>9. f \in [1..(i - 1) -> Below(R, S, s[i])]
  BY <1>7, <1>8, <1>1
<1>10. \A j, k \in 1..(i - 1) : f[j] = f[k] => j = k
  BY <1>2, <1>7
<1>11. \A x \in Below(R, S, s[i]) : \E j \in 1..(i - 1) : f[j] = x
  <2> SUFFICES ASSUME NEW x \in Below(R, S, s[i])
               PROVE  \E j \in 1..(i - 1) : f[j] = x
    OBVIOUS
  <2>1. x \in S
    BY DEF Below
  <2>2. PICK j \in 1..n : s[j] = x
    BY <2>1, <1>6
  <2>3. j < i
    BY <2>2, <1>8
  <2>4. j \in 1..(i - 1)
    BY <2>3, <1>1
  <2>5. QED
    BY <2>4, <2>2
<1>12. f \in Bijection(1..(i - 1), Below(R, S, s[i]))
  BY <1>9, <1>10, <1>11 DEF Bijection, Injection, IsInjective,
       Surjection
<1>13. ExistsBijection(1..(i - 1), Below(R, S, s[i]))
  BY <1>12 DEF ExistsBijection
<1>14. Cardinality(Below(R, S, s[i])) = i - 1
  BY <1>7, <1>13, FS_CountingElements
<1>15. QED
  BY <1>6, <1>14

\* There is only one sorted sequence.
LEMMA SortedUnique ==
  ASSUME NEW S, IsFiniteSet(S), NEW R, StrictOrder(R, S),
         NEW s, IsSorted(s, R, S), NEW t, IsSorted(t, R, S)
  PROVE  s = t
<1> DEFINE n == Cardinality(S)
<1>1. n \in Nat /\ s \in [1..n -> S] /\ t \in [1..n -> S]
  BY FS_CardinalityType DEF IsSorted
<1>2. ASSUME NEW i \in 1..n PROVE s[i] = t[i]
  <2> DEFINE x == s[i]
             y == t[i]
  <2>1. x \in S /\ y \in S
    BY <1>1
  <2>2. Cardinality(Below(R, S, x)) = i - 1 /\ Cardinality(Below(R, S, y)) = i - 1
    BY SortedRank
  <2>3. i - 1 \in Nat
    BY <1>1
  <2> HIDE DEF x, y
  <2>4. <<x, y>> \notin R /\ <<y, x>> \notin R
    BY <2>1, <2>2, <2>3, BelowGrows
  <2>5. x = y
    BY <2>1, <2>4 DEF StrictOrder
  <2>6. QED
    BY <2>5 DEF x, y
<1>3. QED
  BY <1>1, <1>2

\* The first m elements of a sorted sequence are those with fewer than m before
\* them, and they are a sorted sequence of their own.
LEMMA SortedPrefix ==
  ASSUME NEW S, IsFiniteSet(S), NEW R, StrictOrder(R, S),
         NEW s, IsSorted(s, R, S), NEW m \in 0..Cardinality(S)
  PROVE  /\ Lowest(R, S, m) = {s[i] : i \in 1..m}
         /\ IsFiniteSet(Lowest(R, S, m)) /\ Cardinality(Lowest(R, S, m)) = m
         /\ StrictOrder(R, Lowest(R, S, m))
         /\ IsSorted(Prefix(s, m), R, Lowest(R, S, m))
<1> DEFINE n == Cardinality(S)
           T == {x \in S : Cardinality(Below(R, S, x)) < m}
           p == [i \in 1..m |-> s[i]]
<1>1. n \in Nat /\ s \in [1..n -> S] /\ m \in Nat /\ m <= n
  BY FS_CardinalityType DEF IsSorted
<1>2. 1..m \subseteq 1..n
  BY <1>1
<1>3. ASSUME NEW i \in 1..n PROVE Cardinality(Below(R, S, s[i])) = i - 1
  BY SortedRank
<1>4. ASSUME NEW i \in 1..m PROVE p[i] = s[i] /\ s[i] \in T
  <2>1. i - 1 < m /\ i \in 1..n /\ s[i] \in S
    BY <1>1, <1>2
  <2>2. QED
    BY <2>1, <1>3
<1>5. ASSUME NEW x \in T PROVE \E i \in 1..m : p[i] = x
  <2>1. x \in S /\ Cardinality(Below(R, S, x)) < m /\ n # 0
    BY <1>1, FS_EmptySet
  <2>2. 1 \in 1..n
    BY <2>1, <1>1
  <2>3. PICK i \in 1..n : s[i] = x
    BY <2>1, <2>2, SortedRank
  <2>4. i - 1 < m
    BY <2>1, <2>3, <1>3
  <2>5. i \in 1..m
    BY <2>4, <1>1
  <2>6. QED
    BY <2>5, <2>3
<1>6. T = {p[i] : i \in 1..m}
  BY <1>4, <1>5
<1>7. \A i, j \in 1..m : p[i] = p[j] => i = j
  <2> SUFFICES ASSUME NEW i \in 1..m, NEW j \in 1..m, p[i] = p[j]
               PROVE  i = j
    OBVIOUS
  <2>1. i \in 1..n /\ j \in 1..n /\ s[i] = s[j]
    BY <1>2
  <2>2. i - 1 = j - 1
    BY <2>1, <1>3
  <2>3. QED
    BY <2>2
<1>8. p \in Bijection(1..m, T)
  <2>1. p \in [1..m -> T]
    BY <1>4
  <2>2. QED
    BY <2>1, <1>5, <1>7 DEF Bijection, Injection, IsInjective,
       Surjection
<1>9. Cardinality(T) = m
  BY <1>1, <1>8, FS_CountingElements DEF ExistsBijection
<1>10. T \in SUBSET S
  OBVIOUS
<1>11. IsFiniteSet(T)
  BY <1>10, FS_Subset
<1>12. StrictOrder(R, T)
  BY <1>10 DEF StrictOrder
<1>13. IsSorted(p, R, T)
  <2>1. p \in [1..m -> T]
    BY <1>4
  <2>2. \A i, j \in 1..m : i < j => <<p[i], p[j]>> \in R
    BY <1>2 DEF IsSorted
  <2>3. QED
    BY <2>1, <2>2, <1>9 DEF IsSorted
<1>14. T = {s[i] : i \in 1..m}
  BY <1>4, <1>6
<1>15. QED
  BY <1>9, <1>11, <1>12, <1>13, <1>14 DEF Lowest, Prefix
=============================================================================

------------------------ MODULE DatabaseHandleProofs ------------------------
(***************************************************************************)
(* Class ChatDatabase implements DatabaseService, for every number of      *)
(* threads, accounts, rooms, texts and limits: mutex_ makes each method    *)
(* one step, and the nested query of get_recent_messages returns the       *)
(* newest rows, oldest first.                                              *)
(***************************************************************************)
EXTENDS DatabaseHandle, SortedSequences, SequenceTheorems

\* The order of history on the rows of S, and its reverse.
Ascending(S)  == {p \in S \X S : Before(p[1], p[2])}
Descending(S) == {p \in S \X S : After(p[1], p[2])}

\* The abstract specification counts as this one does.
LEMMA CountsAreCounts == \A S : Service!Cardinality(S) = Cardinality(S)
  BY DEF Service!Cardinality, Cardinality

\* The first part of a sequence of two parts.
LEMMA PartOfConcat ==
  ASSUME NEW S, NEW a \in Seq(S), NEW b \in Seq(S), NEW s, a \o b = s
  PROVE  s \in Seq(S) /\ Len(s) = Len(a) + Len(b)
         /\ \A i \in 1..Len(a) : a[i] = s[i]
<1>1. a \o b \in Seq(S) /\ Len(a \o b) = Len(a) + Len(b)
  BY ConcatProperties
<1>2. Len(a) \in Nat /\ Len(b) \in Nat
  OBVIOUS
<1>3. ASSUME NEW i \in 1..Len(a) PROVE a[i] = (a \o b)[i]
  BY <1>2
<1>4. QED
  BY <1>1, <1>3

-----------------------------------------------------------------------------
(***************************************************************************)
(* The queries.                                                            *)
(***************************************************************************)
\* The rows of a room are finitely many positions of the table.
LEMMA RowsAreFinite ==
  ASSUME DatabaseTypeOK, NEW room
  PROVE  IsFiniteSet(RowsIn(room)) /\ RowsIn(room) \subseteq DOMAIN messages
         /\ DOMAIN messages \subseteq Nat
<1>1. Len(messages) \in Nat /\ DOMAIN messages = 1..Len(messages)
  BY LenProperties DEF DatabaseTypeOK
<1>2. IsFiniteSet(1..Len(messages))
  BY <1>1, FS_Interval
<1>3. RowsIn(room) \in SUBSET (1..Len(messages))
  BY <1>1 DEF RowsIn
<1>4. QED
  BY <1>1, <1>2, <1>3, FS_Subset

\* History is a strict total order: no two rows have the same second and id.
LEMMA HistoryIsOrdered ==
  ASSUME DatabaseTypeOK, NEW S, S \subseteq DOMAIN messages
  PROVE  StrictOrder(Ascending(S), S) /\ StrictOrder(Descending(S), S)
<1>1. DOMAIN messages \subseteq Nat
  BY RowsAreFinite
<1>2. \A i \in S : i \in Nat /\ messages[i].sent_at \in Nat
  <2> SUFFICES ASSUME NEW i \in S
               PROVE  i \in Nat /\ messages[i].sent_at \in Nat
    OBVIOUS
  <2>1. messages[i] \in Message
    BY LenProperties DEF DatabaseTypeOK
  <2>2. QED
    BY <1>1, <2>1, DatabaseAssumption DEF Message
<1>3. \A i \in S : ~Before(i, i)
  BY <1>2 DEF Before
<1>4. \A i, j \in S : i # j => Before(i, j) \/ Before(j, i)
  BY <1>2 DEF Before
<1>5. \A i, j, k \in S : Before(i, j) /\ Before(j, k) => Before(i, k)
  BY <1>2 DEF Before
<1>6. QED
  BY <1>3, <1>4, <1>5 DEF StrictOrder, Ascending, Descending, After

\* Sorted upwards or downwards, a set of rows is its sorted sequence.
LEMMA SortedIsSorted ==
  ASSUME DatabaseTypeOK, NEW S, S \subseteq DOMAIN messages, IsFiniteSet(S)
  PROVE  /\ IsSorted(Sorted(S, Before), Ascending(S), S)
         /\ IsSorted(Sorted(S, After), Descending(S), S)
         /\ IsSorted(Service!InOrder(S), Ascending(S), S)
<1>1. \A s \in [1..Cardinality(S) -> S] :
        IsSorted(s, Ascending(S), S)
          <=> \A i, j \in DOMAIN s : i < j => Before(s[i], s[j])
  BY DEF IsSorted, Ascending
<1>2. \A s \in [1..Cardinality(S) -> S] :
        IsSorted(s, Descending(S), S)
          <=> \A i, j \in DOMAIN s : i < j => After(s[i], s[j])
  BY DEF IsSorted, Descending
<1>3. \E s \in [1..Cardinality(S) -> S] :
        \A i, j \in DOMAIN s : i < j => Before(s[i], s[j])
  BY <1>1, HistoryIsOrdered, SortedExists DEF IsSorted
<1>4. \E s \in [1..Cardinality(S) -> S] :
        \A i, j \in DOMAIN s : i < j => After(s[i], s[j])
  BY <1>2, HistoryIsOrdered, SortedExists DEF IsSorted
<1>5. IsSorted(Sorted(S, Before), Ascending(S), S)
  BY <1>1, <1>3 DEF Sorted
<1>6. IsSorted(Sorted(S, After), Descending(S), S)
  BY <1>2, <1>4 DEF Sorted
<1>7. IsSorted(Service!InOrder(S), Ascending(S), S)
  <2>1. \A i, j : Service!Before(i, j) <=> Before(i, j)
    BY DEF Service!Before, Before
  <2>2. \E s \in [1..Cardinality(S) -> S] :
          \A i, j \in DOMAIN s : i < j => Service!Before(s[i], s[j])
    BY <1>3, <2>1
  <2>3. Service!InOrder(S) \in [1..Cardinality(S) -> S]
        /\ \A i, j \in DOMAIN Service!InOrder(S) :
             i < j => Service!Before(Service!InOrder(S)[i], Service!InOrder(S)[j])
    BY <2>2, CountsAreCounts DEF Service!InOrder
  <2>4. QED
    BY <2>1, <2>3, <1>1
<1>8. QED
  BY <1>5, <1>6, <1>7

\* LIMIT keeps the first of the rows.
LEMMA FirstIsPrefix ==
  ASSUME NEW S, NEW s \in Seq(S), NEW limit \in Nat
  PROVE  /\ limit < Len(s) => /\ First(s, limit) = Prefix(s, limit)
                              /\ Len(First(s, limit)) = limit
         /\ ~(limit < Len(s)) => /\ First(s, limit) = Prefix(s, Len(s))
                                 /\ First(s, limit) = s
         /\ First(s, limit) \in Seq(S)
<1> DEFINE m == IF limit < Len(s) THEN limit ELSE Len(s)
<1>1. m \in Nat /\ m <= Len(s)
  OBVIOUS
<1>2. First(s, limit) = SubSeq(s, 1, m)
  BY DEF First
<1>3. SubSeq(s, 1, m) \in Seq(S) /\ Len(SubSeq(s, 1, m)) = m
      /\ \A i \in 1..m : SubSeq(s, 1, m)[i] = s[i]
  BY <1>1
<1>4. SubSeq(s, 1, m) = Prefix(s, m)
  BY <1>3 DEF Prefix
<1>5. m = Len(s) => Prefix(s, m) = s
  BY LenProperties DEF Prefix
<1>6. QED
  BY <1>2, <1>3, <1>4, <1>5

\* The nested query of get_recent_messages: the newest rows, sorted upwards.
LEMMA SelectRecentIsSorted ==
  ASSUME DatabaseTypeOK, NEW room, NEW limit \in Nat
  PROVE  LET T == RecentRows(room, limit)
         IN  /\ IsFiniteSet(T) /\ T \subseteq DOMAIN messages
             /\ SelectRecent(room, limit) = Sorted(T, Before)
<1> DEFINE S == RowsIn(room)
           T == RecentRows(room, limit)
           n == Cardinality(S)
           m == IF limit < n THEN limit ELSE n
           down == Sorted(S, After)
           newest == First(down, limit)
<1>1. IsFiniteSet(S) /\ S \subseteq DOMAIN messages
  BY RowsAreFinite
<1>2. n \in Nat /\ m \in Nat /\ m \in 0..n
  BY <1>1, FS_CardinalityType
<1>3. IsSorted(down, Descending(S), S) /\ StrictOrder(Descending(S), S)
  BY <1>1, SortedIsSorted, HistoryIsOrdered
<1>4. down \in [1..n -> S]
  BY <1>3 DEF IsSorted
<1>5. newest = Prefix(down, m)
  <2>1. down \in Seq(S) /\ Len(down) = n
    BY <1>2, <1>4
  <2> HIDE DEF down, S, n
  <2>2. CASE limit < n
    BY <2>1, <2>2, FirstIsPrefix
  <2>3. CASE ~(limit < n)
    BY <2>1, <2>3, FirstIsPrefix
  <2>4. QED
    BY <2>2, <2>3
<1>6. Lowest(Descending(S), S, m) = {down[i] : i \in 1..m}
  <2> HIDE DEF down, S, m
  <2>1. QED
    BY <1>1, <1>2, <1>3, SortedPrefix
<1>7. \A x \in S : Below(Descending(S), S, x) = {j \in S : Before(x, j)}
  BY DEF Below, Descending, After
<1>8. \A x \in S : Cardinality(Below(Descending(S), S, x)) \in Nat
                 /\ Cardinality(Below(Descending(S), S, x)) < n
  BY <1>1, <1>3, BelowIsSmaller
<1>9. T = Lowest(Descending(S), S, m)
  <2>1. \A x \in S : Cardinality(Below(Descending(S), S, x)) < limit
                    <=> Cardinality(Below(Descending(S), S, x)) < m
    BY <1>2, <1>8
  <2>2. T = {x \in S : Cardinality({j \in S : Before(x, j)}) < limit}
    BY DEF RecentRows
  <2>3. QED
    BY <2>1, <2>2, <1>7 DEF Lowest
<1>10. {newest[i] : i \in DOMAIN newest} = T
  <2> HIDE DEF newest, T, down, S, m
  <2>1. DOMAIN newest = 1..m /\ \A i \in 1..m : newest[i] = down[i]
    BY <1>5 DEF Prefix
  <2>2. QED
    BY <2>1, <1>6, <1>9
<1>11. SelectRecent(room, limit) = Sorted({newest[i] : i \in DOMAIN newest}, Before)
  BY DEF SelectRecent
<1>12. T \in SUBSET S
  BY DEF RecentRows
<1>13. IsFiniteSet(T)
  BY <1>1, <1>12, FS_Subset
<1>14. QED
  BY <1>1, <1>10, <1>11, <1>12, <1>13

\* Rows read before the loop ended are the oldest of the result.
LEMMA PartReadIsOldest ==
  ASSUME DatabaseTypeOK, NEW T, IsFiniteSet(T), T \subseteq DOMAIN messages,
         NEW N, NEW got \in Seq(N), NEW rows \in Seq(N),
         NEW s, IsSorted(s, Ascending(T), T), got \o rows = s
  PROVE  /\ Len(got) \in 0..Cardinality(T)
         /\ got = Service!InOrder(Oldest(T, Len(got)))
         /\ rows = <<>> => got = Service!InOrder(T)
<1> DEFINE k == Len(got)
           A == Ascending(T)
           L == Lowest(A, T, k)
<1>1. IsSorted(s, A, T) /\ StrictOrder(A, T)
  BY HistoryIsOrdered
<1>2. s \in Seq(N) /\ Len(s) = Len(got) + Len(rows)
      /\ \A i \in 1..Len(got) : got[i] = s[i]
  <2>1. got \o rows \in Seq(N) /\ Len(got \o rows) = Len(got) + Len(rows)
    BY ConcatProperties
  <2>2. \A i \in 1..Len(got) : got[i] = s[i]
    BY PartOfConcat
  <2>3. QED
    BY <2>1, <2>2
<1>3. Cardinality(T) \in Nat /\ Len(s) = Cardinality(T)
  <2>1. Cardinality(T) \in Nat /\ s \in [1..Cardinality(T) -> T]
    BY <1>1, FS_CardinalityType DEF IsSorted
  <2>2. QED
    BY <2>1, <1>2
<1>4. k \in 0..Cardinality(T)
  BY <1>2, <1>3
<1>5. got = Prefix(s, k)
  BY <1>2 DEF Prefix
<1>6. IsFiniteSet(L) /\ StrictOrder(A, L) /\ IsSorted(got, A, L)
  <2> HIDE DEF A, k
  <2>1. QED
    BY <1>1, <1>4, <1>5, SortedPrefix
<1>7. L = Oldest(T, k)
  BY DEF Lowest, Oldest, Below, Ascending
<1>8. L \subseteq T
  BY DEF Lowest
<1>9. IsSorted(got, Ascending(L), L) /\ StrictOrder(Ascending(L), L)
  <2>1. \A x, y \in L : <<x, y>> \in A <=> <<x, y>> \in Ascending(L)
    BY <1>8 DEF Ascending
  <2> HIDE DEF A, L
  <2>2. QED
    BY <1>6, <2>1 DEF IsSorted, StrictOrder
<1>10. IsSorted(Service!InOrder(L), Ascending(L), L)
  BY <1>6, <1>8, SortedIsSorted
<1>11. got = Service!InOrder(L)
  BY <1>6, <1>9, <1>10, SortedUnique
<1>12. ASSUME rows = <<>> PROVE got = Service!InOrder(T)
  <2>1. got = s
    BY <1>12, ConcatEmptySeq
  <2>2. IsSorted(got, A, T)
    BY <1>1, <2>1
  <2>3. IsSorted(Service!InOrder(T), A, T)
    BY SortedIsSorted
  <2>4. QED
    BY <1>1, <2>2, <2>3, SortedUnique
<1>13. QED
  BY <1>4, <1>7, <1>11, <1>12

\* The results the abstract specification allows are those of ChatDatabase.
LEMMA ResultsAreResults ==
  /\ \A room, limit : Service!get_recent_messages(room, limit)
                        = get_recent_messages(room, limit)
  /\ \A limit : Service!list_rooms(limit) = list_rooms(limit)
<1>1. \A i, j : Service!Before(i, j) <=> Before(i, j)
  BY DEF Service!Before, Before
<1>2. \A room : Service!RowsIn(room) = RowsIn(room)
  BY DEF Service!RowsIn, RowsIn
<1>3. ASSUME NEW room, NEW limit
      PROVE  Service!RecentRows(room, limit) = RecentRows(room, limit)
  <2>1. \A i : {j \in RowsIn(room) : Service!Before(i, j)}
                = {j \in RowsIn(room) : Before(i, j)}
    BY <1>1
  <2>2. QED
    BY <1>2, <2>1, CountsAreCounts DEF Service!RecentRows, RecentRows
<1>4. ASSUME NEW S, NEW n PROVE Service!Oldest(S, n) = Oldest(S, n)
  <2>1. \A i : {j \in S : Service!Before(j, i)} = {j \in S : Before(j, i)}
    BY <1>1
  <2>2. QED
    BY <2>1, CountsAreCounts DEF Service!Oldest, Oldest
<1>5. ASSUME NEW room, NEW limit
      PROVE  Service!get_recent_messages(room, limit)
               = get_recent_messages(room, limit)
  <2>1. \A S : {Service!Oldest(S, n) : n \in 0..Service!Cardinality(S)}
                = {Oldest(S, n) : n \in 0..Cardinality(S)}
    BY <1>4, CountsAreCounts
  <2> DEFINE T == RecentRows(room, limit)
             Parts == {Oldest(T, n) : n \in 0..Cardinality(T)}
  <2>2. /\ Service!RecentRows(room, limit) = T
        /\ {Service!Oldest(T, n) : n \in 0..Service!Cardinality(T)} = Parts
    BY <1>3, <2>1
  <2>3. /\ Service!get_recent_messages(room, limit)
             = {T} \cup IF StorageFails THEN Parts ELSE {}
        /\ get_recent_messages(room, limit)
             = {T} \cup IF StorageFails THEN Parts ELSE {}
    BY <2>2 DEF Service!get_recent_messages, get_recent_messages
  <2>4. QED
    BY <2>3
<1>6. ASSUME NEW limit PROVE Service!list_rooms(limit) = list_rooms(limit)
  BY CountsAreCounts DEF Service!list_rooms, list_rooms
<1>7. QED
  BY <1>5, <1>6

\* What get_recent_messages has read when its loop ends is a result it may return.
LEMMA ReadRecent ==
  ASSUME DatabaseTypeOK, NEW room, NEW limit \in Nat,
         NEW got \in Seq(Nat), NEW rows \in Seq(Nat),
         got \o rows = SelectRecent(room, limit), rows = <<>> \/ StorageFails
  PROVE  got \in {Service!InOrder(S) :
                   S \in Service!get_recent_messages(room, limit)}
<1> DEFINE T == RecentRows(room, limit)
<1>1. IsFiniteSet(T) /\ T \subseteq DOMAIN messages
      /\ SelectRecent(room, limit) = Sorted(T, Before)
  BY SelectRecentIsSorted
<1>2. IsSorted(SelectRecent(room, limit), Ascending(T), T)
  <2>1. IsSorted(Sorted(T, Before), Ascending(T), T)
    BY <1>1, SortedIsSorted
  <2>2. QED
    BY <1>1, <2>1
<1>3. /\ Len(got) \in 0..Cardinality(T)
      /\ got = Service!InOrder(Oldest(T, Len(got)))
      /\ rows = <<>> => got = Service!InOrder(T)
  <2> HIDE DEF T
  <2>1. QED
    BY <1>1, <1>2, PartReadIsOldest
<1>4. CASE rows = <<>>
  <2>1. T \in Service!get_recent_messages(room, limit)
    BY ResultsAreResults DEF get_recent_messages
  <2>2. QED
    BY <1>3, <1>4, <2>1
<1>5. CASE StorageFails
  <2>1. Oldest(T, Len(got)) \in Service!get_recent_messages(room, limit)
    BY <1>3, <1>5, ResultsAreResults DEF get_recent_messages
  <2>2. QED
    BY <1>3, <2>1
<1>6. QED
  BY <1>4, <1>5

\* What list_rooms has read when its loop ends is a result it may return: no
\* name is read twice.
LEMMA ReadRooms ==
  ASSUME DatabaseTypeOK, NEW limit \in Nat,
         NEW got \in Seq(Keys), NEW rows \in Seq(Keys),
         got \o rows \in SelectRooms(limit), rows = <<>> \/ StorageFails
  PROVE  {got[i] : i \in DOMAIN got} \in Service!list_rooms(limit)
<1> DEFINE known == {messages[i].room : i \in DOMAIN messages}
           n == Cardinality(known)
           k == Len(got)
           S == {got[i] : i \in 1..k}
<1>1. IsFiniteSet(known) /\ n \in Nat
  <2>1. IsFiniteSet(DOMAIN messages)
    BY LenProperties, FS_Interval DEF DatabaseTypeOK
  <2> DEFINE room == [i \in DOMAIN messages |-> messages[i].room]
  <2>2. room \in Surjection(DOMAIN messages, known)
    BY DEF Surjection
  <2>3. IsFiniteSet(known)
    BY <2>1, <2>2, FS_Surjection DEF ExistsSurjection
  <2>4. QED
    BY <2>3, FS_CardinalityType
<1>2. PICK p \in [1..n -> known] : /\ {p[i] : i \in DOMAIN p} = known
                                   /\ got \o rows = First(p, limit)
  BY DEF SelectRooms
<1> HIDE DEF known
<1>3. p \in Injection(1..n, known)
  <2>1. p \in Surjection(1..n, known)
    BY <1>2 DEF Surjection
  <2>2. IsFiniteSet(1..n) /\ Cardinality(1..n) = Cardinality(known)
    BY <1>1, FS_Interval
  <2>3. QED
    BY <2>1, <2>2, FS_SurjSameCardinalityImpliesInj
<1>4. p \in Seq(known) /\ Len(p) = n
  BY <1>1, <1>2
<1>5. k \in Nat /\ DOMAIN got = 1..k /\ got \in [1..k -> Keys]
  BY LenProperties
<1>6. Len(First(p, limit)) = k + Len(rows)
      /\ \A i \in 1..k : got[i] = First(p, limit)[i]
  BY <1>2, PartOfConcat
<1>7. /\ Len(First(p, limit)) <= limit /\ Len(First(p, limit)) <= n
      /\ Len(First(p, limit)) = limit \/ First(p, limit) = p
      /\ \A i \in 1..Len(First(p, limit)) : First(p, limit)[i] = p[i]
  <2>1. CASE limit < n
    <3>1. First(p, limit) = Prefix(p, limit) /\ Len(First(p, limit)) = limit
      BY <2>1, <1>4, FirstIsPrefix
    <3>2. QED
      BY <2>1, <3>1, <1>1 DEF Prefix
  <2>2. CASE ~(limit < n)
    <3>1. First(p, limit) = p
      BY <2>2, <1>4, FirstIsPrefix
    <3>2. QED
      BY <2>2, <3>1, <1>1, <1>4
  <2>3. QED
    BY <2>1, <2>2
<1>8. k <= limit /\ k <= n /\ \A i \in 1..k : got[i] = p[i] /\ i \in 1..n
  BY <1>1, <1>5, <1>6, <1>7, LenProperties
<1>9. S \subseteq known
  BY <1>2, <1>8
<1>10. Cardinality(S) = k
  <2>1. got \in [1..k -> S]
    BY <1>5
  <2>2. \A i, j \in 1..k : got[i] = got[j] => i = j
    BY <1>3, <1>8 DEF Injection, IsInjective
  <2>3. got \in Bijection(1..k, S)
    BY <2>1, <2>2 DEF Bijection, Injection, IsInjective, Surjection
  <2>4. QED
    BY <1>5, <2>3, FS_CountingElements DEF ExistsBijection
<1>11. S \in list_rooms(limit)
  <2>1. CASE rows = <<>>
    <3>1. k = Len(First(p, limit))
      BY <2>1, <1>5, <1>6
    <3>2. CASE First(p, limit) = p
      <4>1. k = n
        BY <3>1, <3>2, <1>4
      <4>2. S = known
        BY <4>1, <1>2, <1>8
      <4>3. QED
        BY <4>2, <1>8, <1>9, <1>10 DEF list_rooms, known
    <3>3. CASE k = limit
      BY <3>3, <1>9, <1>10, <1>8 DEF list_rooms, known
    <3>4. QED
      BY <3>1, <3>2, <3>3, <1>7
  <2>2. CASE StorageFails
    BY <2>2, <1>8, <1>9, <1>10 DEF list_rooms, known
  <2>3. QED
    BY <2>1, <2>2
<1>12. QED
  BY <1>5, <1>11, ResultsAreResults

-----------------------------------------------------------------------------
(***************************************************************************)
(* The inductive invariant: a thread past the lock_guard, and no other,    *)
(* holds mutex_; a statement is open from prepare to finalize; and what a  *)
(* query has read with what it has left to read is a result of the tables  *)
(* as they are now.                                                        *)
(***************************************************************************)
Places    == {"idle", "lock", "prepare", "step", "row", "finalize", "unlock"}
Holding   == {"prepare", "step", "row", "finalize", "unlock"}
Prepared  == {"step", "row", "finalize"}
Answered  == {"finalize", "unlock"}
Queries   == {"get_recent_messages", "list_rooms"}

CallRecord ==
  [request : Service!Requests \cup {NoCall}, at : Places,
   rows : Seq(Nat) \cup Seq(Keys), got : Seq(Nat) \cup Seq(Keys),
   reply : {NoReply} \cup BOOLEAN \cup Seq(Nat) \cup SUBSET Keys]

TypeOK ==
  /\ DatabaseTypeOK
  /\ main \in {"start", "schema", "ready", "serving", "ended"}
  /\ db_ \in BOOLEAN
  /\ schema \in 0..Len(Schema)
  /\ mutex_ \in Threads \cup {Main, Nobody}
  /\ call \in [Threads -> CallRecord]
  /\ stmts \subseteq Threads

\* main holds mutex_ while it creates the schema, and goes on with all of it.
MainOK ==
  /\ main = "schema" <=> mutex_ = Main
  /\ main \in {"schema", "ready", "serving"} => db_
  /\ main \in {"ready", "serving"} => schema = Len(Schema)

\* What the rows of a query hold, and the results it may have.
RowType(r) == IF r.method = "list_rooms" THEN Keys ELSE Nat
QueryResults(r) == IF r.method = "get_recent_messages"
                   THEN {SelectRecent(r.room, r.limit)} ELSE SelectRooms(r.limit)

Reading(c) ==
  /\ c.request.method \in Queries
  /\ c.rows \in Seq(RowType(c.request)) /\ c.got \in Seq(RowType(c.request))
  /\ c.got \o c.rows \in QueryResults(c.request)

CallOK(c) ==
  /\ c.at = "idle" => c = Idle
  /\ c.at # "idle" => c.request \in Service!Requests /\ main = "serving"
  /\ c.at \in {"lock", "prepare", "step"} => c.rows = <<>> /\ c.got = <<>>
  /\ c.at = "row" => Reading(c)
  /\ c.reply # NoReply <=> c.at \in Answered

CallsOK == \A t \in Threads : CallOK(call[t])

HoldersOK ==
  \A t \in Threads : /\ mutex_ = t <=> call[t].at \in Holding
                     /\ t \in stmts <=> call[t].at \in Prepared

IInv == TypeOK /\ MainOK /\ CallsOK /\ HoldersOK

\* A thread that is in no call.
LEMMA IdleIsIdle ==
  Idle \in CallRecord /\ Idle.at = "idle" /\ CallOK(Idle)
<1>1. <<>> \in Seq(Nat)
  OBVIOUS
<1>2. QED
  BY <1>1 DEF Idle, CallRecord, Places, CallOK, Answered

\* The invariant holds at the first start.
LEMMA InitIInv == Init => IInv
<1> SUFFICES ASSUME Init PROVE IInv
  OBVIOUS
<1>1. TypeOK
  <2>1. messages \in Seq(Message) /\ Len(Schema) = 3
    BY DEF Init, Schema
  <2>2. DatabaseTypeOK
    BY <2>1 DEF Init, DatabaseTypeOK
  <2>3. call \in [Threads -> CallRecord]
    BY IdleIsIdle DEF Init
  <2>4. db_ \in BOOLEAN
    BY Zenon DEF Init
  <2>5. QED
    BY <2>1, <2>2, <2>3, <2>4 DEF Init, TypeOK
<1>2. MainOK
  BY HandleAssumption DEF Init, MainOK
<1>3. CallsOK
  BY IdleIsIdle DEF Init, CallsOK
<1>4. HoldersOK
  BY IdleIsIdle, HandleAssumption DEF Init, HoldersOK, Holding, Prepared
<1>5. QED
  BY <1>1, <1>2, <1>3, <1>4 DEF IInv

\* The result of a query depends on the table only.
LEMMA SameTableSameResult ==
  ASSUME messages' = messages, NEW r
  PROVE  QueryResults(r)' = QueryResults(r)
<1>1. SelectRecent(r.room, r.limit)' = SelectRecent(r.room, r.limit)
  BY DEF SelectRecent, First, Sorted, RowsIn, Before, After
<1>2. SelectRooms(r.limit)' = SelectRooms(r.limit)
  BY DEF SelectRooms, First
<1>3. QED
  BY <1>1, <1>2 DEF QueryResults

\* A step that only moves one thread's call keeps the invariant, when the thread
\* takes and gives up mutex_ and its statement at the right places and nobody
\* writes without mutex_.
LEMMA CallStep ==
  ASSUME IInv, NEW t \in Threads, NEW c \in CallRecord,
         call' = [call EXCEPT ![t] = c],
         main = "serving", UNCHANGED <<main, db_, schema>>, DatabaseTypeOK',
         CallOK(c)',
         \/ mutex_' = mutex_ /\ (c.at \in Holding <=> call[t].at \in Holding)
         \/ mutex_ = Nobody /\ mutex_' = t /\ c.at \in Holding
         \/ mutex_ = t /\ mutex_' = Nobody /\ c.at \notin Holding,
         stmts' = IF c.at \in Prepared THEN stmts \cup {t} ELSE stmts \ {t},
         messages' = messages \/ mutex_ = t
  PROVE  IInv'
<1>1. \A u \in Threads : call'[u] = IF u = t THEN c ELSE call[u]
  BY DEF IInv, TypeOK
<1>2. TypeOK'
  <2>1. call' \in [Threads -> CallRecord]
    BY DEF IInv, TypeOK
  <2>2. mutex_' \in Threads \cup {Main, Nobody} /\ stmts' \subseteq Threads
    BY DEF IInv, TypeOK
  <2>3. main' \in {"start", "schema", "ready", "serving", "ended"}
        /\ schema' \in 0..Len(Schema)
    BY DEF IInv, TypeOK
  <2>4. db_' \in BOOLEAN
    BY Zenon DEF IInv, TypeOK
  <2>5. QED
    BY <2>1, <2>2, <2>3, <2>4 DEF TypeOK, Schema
<1>3. MainOK'
  <2>1. main' = main /\ schema' = schema /\ mutex_ # Main /\ mutex_' # Main
    BY HandleAssumption DEF IInv, MainOK
  <2>2. db_' = db_ /\ db_
    BY DEF IInv, MainOK
  <2>3. QED
    BY <2>1, <2>2 DEF IInv, MainOK, Schema
<1>4. HoldersOK'
  <2> SUFFICES ASSUME NEW u \in Threads
               PROVE  /\ mutex_' = u <=> call'[u].at \in Holding
                      /\ u \in stmts' <=> call'[u].at \in Prepared
    BY DEF HoldersOK, Holding, Prepared
  <2>1. /\ mutex_ = u <=> call[u].at \in Holding
        /\ u \in stmts <=> call[u].at \in Prepared
        /\ mutex_ = t <=> call[t].at \in Holding
    BY DEF IInv, HoldersOK
  <2>2. CASE u = t
    BY <1>1, <2>1, <2>2, HandleAssumption
  <2>3. CASE u # t
    BY <1>1, <2>1, <2>3, HandleAssumption
  <2>4. QED
    BY <2>2, <2>3
<1>5. CallsOK'
  <2> SUFFICES ASSUME NEW u \in Threads PROVE CallOK(call[u])'
    BY DEF CallsOK
  <2>1. CASE u = t
    BY <1>1, <2>1 DEF CallOK
  <2>2. CASE u # t
    <3>1. CallOK(call[u]) /\ call'[u] = call[u]
      BY <1>1, <2>2 DEF IInv, CallsOK
    <3>2. ASSUME call[u].at = "row" PROVE Reading(call[u])'
      <4>1. mutex_ = u
        BY <3>2 DEF IInv, HoldersOK, Holding
      <4>2. messages' = messages
        BY <4>1, <2>2
      <4>3. Reading(call[u])
        BY <3>1, <3>2 DEF CallOK
      <4>4. QED
        BY <3>1, <4>2, <4>3, SameTableSameResult DEF Reading, RowType
    <3>3. QED
      BY <3>1, <3>2 DEF CallOK
  <2>3. QED
    BY <2>1, <2>2
<1>6. QED
  BY <1>2, <1>3, <1>4, <1>5 DEF IInv

\* The steps of main keep the invariant.
LEMMA MainStep ==
  ASSUME IInv,
         Open \/ CreateNext \/ OpenReturns \/ SchemaFails \/ Listen \/ StartAgain
  PROVE  IInv'
<1>1. call' = call /\ stmts' = stmts /\ accounts' = accounts
      /\ messages' = messages
  BY DEF Open, CreateNext, OpenReturns, SchemaFails, Listen, StartAgain, file,
         private
<1>2. main # "serving"
  BY DEF Open, CreateNext, OpenReturns, SchemaFails, Listen, StartAgain
<1>3. \A t \in Threads : call[t].at = "idle" /\ call[t] = Idle
  BY <1>2 DEF IInv, CallsOK, CallOK
<1>4. CallsOK'
  BY <1>1, <1>3, IdleIsIdle DEF CallsOK, CallOK, Answered
<1>5. HoldersOK'
  <2>1. mutex_ \notin Threads
    BY <1>3 DEF IInv, HoldersOK, Holding
  <2>2. mutex_' \notin Threads
    BY <2>1, HandleAssumption
       DEF Open, CreateNext, OpenReturns, SchemaFails, Listen, StartAgain
  <2>3. \A t \in Threads : t \notin stmts
    BY <1>3 DEF IInv, HoldersOK, Prepared
  <2>4. QED
    BY <1>1, <1>3, <2>2, <2>3 DEF HoldersOK, Holding, Prepared
<1>6. Len(Schema) = 3
  BY DEF Schema
<1>7. DatabaseTypeOK'
  BY <1>1 DEF IInv, TypeOK, DatabaseTypeOK, Message, Keys, dm_room_key
<1>8. MainOK'
  BY <1>6, HandleAssumption
     DEF IInv, TypeOK, MainOK, Open, CreateNext, OpenReturns, SchemaFails,
         Listen, StartAgain, file, Schema
<1>9. TypeOK'
  <2>1. db_' \in BOOLEAN
    BY Zenon DEF IInv, TypeOK, Open, CreateNext, OpenReturns, SchemaFails,
       Listen, StartAgain
  <2>2. main' \in {"start", "schema", "ready", "serving", "ended"}
        /\ mutex_' \in Threads \cup {Main, Nobody}
    BY DEF IInv, TypeOK, Open, CreateNext, OpenReturns, SchemaFails,
           Listen, StartAgain
  <2>3. schema' \in 0..3
    BY <1>6 DEF IInv, TypeOK, Open, CreateNext, OpenReturns, SchemaFails,
                Listen, StartAgain, file
  <2>4. QED
    BY <1>1, <1>6, <1>7, <2>1, <2>2, <2>3 DEF IInv, TypeOK, Schema
<1>10. QED
  BY <1>4, <1>5, <1>8, <1>9 DEF IInv

\* So does the end of the process.
LEMMA EndStep ==
  ASSUME IInv, End
  PROVE  IInv'
<1>1. \A t \in Threads : call'[t] = Idle
  BY DEF End
<1>2. CallsOK'
  BY <1>1, IdleIsIdle DEF CallsOK, CallOK, Answered
<1>3. HoldersOK'
  BY <1>1, IdleIsIdle, HandleAssumption DEF End, HoldersOK, Holding, Prepared
<1>4. DatabaseTypeOK'
  BY DEF End, file, IInv, TypeOK, DatabaseTypeOK, Message, Keys, dm_room_key
<1>5. MainOK'
  BY HandleAssumption DEF End, MainOK
<1>6. TypeOK'
  <2>1. db_' \in BOOLEAN
    BY Zenon DEF End
  <2>2. call' \in [Threads -> CallRecord]
    BY IdleIsIdle DEF End
  <2>3. QED
    BY <1>4, <2>1, <2>2 DEF End, file, IInv, TypeOK, Schema
<1>7. QED
  BY <1>2, <1>3, <1>5, <1>6 DEF IInv

\* A thread in the class is a thread of a server that serves.
LEMMA BusyThread ==
  ASSUME IInv, NEW t \in Threads, call[t].at # "idle"
  PROVE  /\ main = "serving" /\ db_ /\ schema = Len(Schema)
         /\ call[t].request \in Service!Requests
         /\ call[t].request # NoCall
         /\ call[t] \in CallRecord /\ CallOK(call[t])
  BY MarkAssumption DEF IInv, TypeOK, CallsOK, CallOK, MainOK

\* Entering a method keeps the invariant.
LEMMA InvokeStep ==
  ASSUME IInv, NEW t \in Threads, Invoke(t)
  PROVE  IInv'
<1>1. PICK r \in Service!Requests :
        call' = [call EXCEPT ![t].request = r, ![t].at = "lock"]
  BY DEF Invoke
<1> DEFINE c == [Idle EXCEPT !.request = r, !.at = "lock"]
<1>2. call[t] = Idle /\ call \in [Threads -> CallRecord]
  BY DEF Invoke, IInv, TypeOK
<1>3. call' = [call EXCEPT ![t] = c]
  BY <1>1, <1>2
<1>4. /\ c \in CallRecord /\ c.at = "lock" /\ c.request = r
      /\ c.rows = <<>> /\ c.got = <<>> /\ c.reply = NoReply
  BY IdleIsIdle DEF CallRecord, Places, Idle
<1>5. /\ main = "serving" /\ UNCHANGED <<main, db_, schema, mutex_, stmts>>
      /\ UNCHANGED <<accounts, messages>>
  BY DEF Invoke, file
<1> HIDE DEF c
<1>6. CallOK(c)'
  BY <1>4, <1>5 DEF CallOK, Answered
<1>7. DatabaseTypeOK'
  BY <1>5 DEF IInv, TypeOK, DatabaseTypeOK
<1>8. call[t].at = "idle" /\ t \notin stmts
  BY <1>2, IdleIsIdle DEF IInv, HoldersOK, Prepared
<1>9. stmts' = IF c.at \in Prepared THEN stmts \cup {t} ELSE stmts \ {t}
  BY <1>4, <1>5, <1>8 DEF Prepared
<1>10. c.at \in Holding <=> call[t].at \in Holding
  BY <1>4, <1>8 DEF Holding
<1>11. QED
  BY <1>3, <1>4, <1>5, <1>6, <1>7, <1>9, <1>10, CallStep

\* So does taking the mutex.
LEMMA LockStep ==
  ASSUME IInv, NEW t \in Threads, Lock(t)
  PROVE  IInv'
<1>0. PICK c : c = [call[t] EXCEPT !.at = "prepare"]
  OBVIOUS
<1>1. call[t].at = "lock" /\ mutex_ = Nobody /\ mutex_' = t
      /\ call' = [call EXCEPT ![t] = c]
      /\ UNCHANGED <<main, db_, schema, stmts, accounts, messages>>
  BY <1>0 DEF Lock, Goes, file
<1>2. main = "serving" /\ call[t] \in CallRecord /\ CallOK(call[t])
  BY <1>1, BusyThread
<1>3. /\ c \in CallRecord /\ c.at = "prepare" /\ c.request = call[t].request
      /\ c.rows = call[t].rows /\ c.got = call[t].got /\ c.reply = call[t].reply
  BY <1>0, <1>2 DEF CallRecord, Places
<1>4. CallOK(c)'
  BY <1>1, <1>2, <1>3 DEF CallOK, Answered
<1>5. DatabaseTypeOK'
  BY <1>1 DEF IInv, TypeOK, DatabaseTypeOK
<1>6. stmts' = IF c.at \in Prepared THEN stmts \cup {t} ELSE stmts \ {t}
  BY <1>1, <1>3 DEF Prepared, IInv, HoldersOK
<1>7. c.at \in Holding
  BY <1>3 DEF Holding
<1>8. QED
  BY <1>1, <1>2, <1>3, <1>4, <1>5, <1>6, <1>7, CallStep

\* A step of a thread that holds the mutex and keeps it.
LEMMA InsideStep ==
  ASSUME IInv, NEW t \in Threads, NEW c \in CallRecord,
         call[t].at \in Holding, c.at \in Holding,
         call' = [call EXCEPT ![t] = c],
         UNCHANGED <<main, db_, schema, mutex_>>, DatabaseTypeOK', CallOK(c)',
         stmts' = IF c.at \in Prepared THEN stmts \cup {t} ELSE stmts \ {t}
  PROVE  IInv'
<1>1. main = "serving"
  BY BusyThread DEF Holding
<1>2. mutex_ = t
  BY DEF IInv, HoldersOK
<1>3. QED
  BY <1>1, <1>2, CallStep

\* What a method returns that could not prepare its statement is a reply.
LEMMA FailureIsReply ==
  ASSUME NEW r
  PROVE  FailureOf(r) \in BOOLEAN \cup Seq(Nat) \cup SUBSET Keys
         /\ FailureOf(r) # NoReply
<1>1. <<>> \in Seq(Nat) /\ {} \in SUBSET Keys
  OBVIOUS
<1>2. FailureOf(r) = <<>> \/ FailureOf(r) = {} \/ FailureOf(r) = FALSE
  BY DEF FailureOf
<1>3. CASE FailureOf(r) = <<>>
  BY <1>1, <1>3, MarkAssumption
<1>4. CASE FailureOf(r) = {}
  BY <1>1, <1>4, MarkAssumption
<1>5. CASE FailureOf(r) = FALSE
  BY <1>5, MarkAssumption
<1>6. QED
  BY <1>2, <1>3, <1>4, <1>5

\* Preparing a statement keeps the invariant.
LEMMA PrepareStep ==
  ASSUME IInv, NEW t \in Threads, Prepare(t)
  PROVE  IInv'
<1>1. call[t].at = "prepare"
      /\ UNCHANGED <<main, db_, schema, mutex_, accounts, messages>>
  BY DEF Prepare, file
<1>2. main = "serving" /\ call[t] \in CallRecord /\ CallOK(call[t])
  BY <1>1, BusyThread
<1>3. DatabaseTypeOK'
  BY <1>1 DEF IInv, TypeOK, DatabaseTypeOK
<1>4. call[t].at \in Holding /\ t \notin stmts
  BY <1>1 DEF Holding, Prepared, IInv, HoldersOK
<1>5. CASE stmts' = stmts \cup {t} /\ Goes(t, "step")
  <2>0. PICK c : c = [call[t] EXCEPT !.at = "step"]
    OBVIOUS
  <2>1. call' = [call EXCEPT ![t] = c]
    BY <1>5, <2>0 DEF Goes
  <2>2. /\ c \in CallRecord /\ c.at = "step" /\ c.request = call[t].request
        /\ c.rows = call[t].rows /\ c.got = call[t].got /\ c.reply = call[t].reply
    BY <1>2, <2>0 DEF CallRecord, Places
  <2>3. CallOK(c)'
    BY <1>1, <1>2, <2>2 DEF CallOK, Answered
  <2>4. c.at \in Holding /\ c.at \in Prepared
    BY <2>2 DEF Holding, Prepared
  <2>5. QED
    BY <1>1, <1>3, <1>4, <1>5, <2>1, <2>2, <2>3, <2>4, InsideStep
<1>6. CASE Answers(t, "unlock", FailureOf(call[t].request)) /\ stmts' = stmts
  <2>0. PICK v, c : v = FailureOf(call[t].request)
                    /\ c = [call[t] EXCEPT !.at = "unlock", !.reply = v]
    OBVIOUS
  <2>1. call' = [call EXCEPT ![t] = c]
    BY <1>2, <1>6, <2>0 DEF Answers, IInv, TypeOK
  <2>2. v \in BOOLEAN \cup Seq(Nat) \cup SUBSET Keys /\ v # NoReply
    BY <2>0, FailureIsReply
  <2>3. /\ c \in CallRecord /\ c.at = "unlock" /\ c.request = call[t].request
        /\ c.reply = v
    BY <1>2, <2>0, <2>2 DEF CallRecord, Places
  <2>4. CallOK(c)'
    BY <1>1, <1>2, <2>2, <2>3 DEF CallOK, Answered
  <2>5. c.at \in Holding /\ c.at \notin Prepared
    BY <2>3 DEF Holding, Prepared
  <2>6. QED
    BY <1>1, <1>3, <1>4, <1>6, <2>1, <2>3, <2>4, <2>5, InsideStep
<1>7. QED
  BY <1>5, <1>6 DEF Prepare

\* The arguments of a call.
LEMMA RequestFields ==
  ASSUME NEW r \in Service!Requests
  PROVE  /\ r.method \in {"register_user", "authenticate_user", "add_message"}
                           \cup Queries
         /\ r.method \in {"register_user", "authenticate_user"} =>
              r.username \in Users /\ r.password \in Passwords
         /\ r.method = "add_message" => r.message \in Message
         /\ r.method \in Queries => r.limit \in Nat
         /\ r.method = "get_recent_messages" => r.room \in Keys
<1>1. Service!Message = Message /\ Service!Keys = Keys
  BY DEF Service!Message, Service!Keys, Service!dm_room_key, Message, Keys,
         dm_room_key
<1>2. CASE r \in [method : {"register_user", "authenticate_user"},
                  username : Users, password : Passwords]
  BY <1>2 DEF Queries
<1>3. CASE r \in [method : {"add_message"}, message : Message]
  BY <1>3 DEF Queries
<1>4. CASE r \in [method : {"get_recent_messages"}, room : Keys, limit : Limits]
  BY <1>4, HandleAssumption DEF Queries
<1>5. CASE r \in [method : {"list_rooms"}, limit : Limits]
  BY <1>5, HandleAssumption DEF Queries
<1>6. QED
  BY <1>1, <1>2, <1>3, <1>4, <1>5 DEF Service!Requests

\* A statement keeps the tables well-typed.
LEMMA EffectTyped ==
  ASSUME DatabaseTypeOK, NEW r \in Service!Requests, NEW v,
         r.method \notin Queries, Service!Effect(r, v)
  PROVE  DatabaseTypeOK'
<1>1. CASE r.method = "register_user"
  <2>1. r.username \in Users /\ r.password \in Passwords
    BY <1>1, RequestFields
  <2>2. accounts' = [accounts EXCEPT ![r.username] = r.password]
        \/ accounts' = accounts
    BY <1>1 DEF Service!Effect, Service!register_user
  <2>3. messages' = messages
    BY <1>1 DEF Service!Effect
  <2>4. QED
    BY <2>1, <2>2, <2>3 DEF DatabaseTypeOK
<1>2. CASE r.method = "authenticate_user"
  <2>1. messages' = messages /\ accounts' = accounts
    BY <1>2 DEF Service!Effect
  <2>2. QED
    BY <2>1 DEF DatabaseTypeOK
<1>3. CASE r.method = "add_message"
  <2>1. r.message \in Message
    BY <1>3, RequestFields
  <2>2. messages' = Append(messages, r.message) \/ messages' = messages
    BY <1>3 DEF Service!Effect, Service!add_message
  <2>3. accounts' = accounts
    BY <1>3 DEF Service!Effect
  <2>4. QED
    BY <2>1, <2>2, <2>3 DEF DatabaseTypeOK
<1>4. QED
  BY <1>1, <1>2, <1>3, RequestFields

\* The one sqlite3_step of a writer or of authenticate_user keeps the invariant.
LEMMA StepStep ==
  ASSUME IInv, NEW t \in Threads, Step(t)
  PROVE  IInv'
<1>1. PICK ok \in BOOLEAN : /\ Service!Effect(call[t].request, ok)
                            /\ Answers(t, "finalize", ok)
  BY DEF Step
<1>2. call[t].at = "step" /\ UNCHANGED <<main, db_, schema, mutex_, stmts>>
      /\ call[t].request.method \notin Queries
  BY DEF Step, Queries
<1>3. /\ main = "serving" /\ call[t] \in CallRecord /\ CallOK(call[t])
      /\ call[t].request \in Service!Requests
  BY <1>2, BusyThread
<1>4. DatabaseTypeOK'
  <2>1. PICK r : r = call[t].request
    OBVIOUS
  <2>2. r \in Service!Requests /\ r.method \notin Queries
    BY <2>1, <1>2, <1>3
  <2>3. Service!Effect(r, ok)
    BY <2>1, <1>1
  <2>4. QED
    BY <2>2, <2>3, EffectTyped DEF IInv, TypeOK
<1>5. PICK c : c = [call[t] EXCEPT !.at = "finalize", !.reply = ok]
  OBVIOUS
<1>6. call' = [call EXCEPT ![t] = c]
  BY <1>1, <1>5 DEF Answers, IInv, TypeOK
<1>7. /\ c \in CallRecord /\ c.at = "finalize" /\ c.request = call[t].request
      /\ c.reply = ok
  BY <1>3, <1>5 DEF CallRecord, Places
<1>8. CallOK(c)'
  <2>1. ok # NoReply
    BY MarkAssumption
  <2>2. QED
    BY <2>1, <1>2, <1>3, <1>7 DEF CallOK, Answered
<1>9. call[t].at \in Holding /\ c.at \in Holding /\ c.at \in Prepared
      /\ stmts' = stmts \cup {t}
  BY <1>2, <1>7 DEF Holding, Prepared, IInv, HoldersOK
<1>10. QED
  BY <1>2, <1>4, <1>6, <1>7, <1>8, <1>9, InsideStep

\* The result of a query is a sequence of its rows.
LEMMA QueryResultsTyped ==
  ASSUME DatabaseTypeOK, NEW r \in Service!Requests, r.method \in Queries,
         NEW s \in QueryResults(r)
  PROVE  s \in Seq(RowType(r))
<1>1. r.limit \in Nat
  BY RequestFields
<1>2. CASE r.method = "get_recent_messages"
  <2> DEFINE T == RecentRows(r.room, r.limit)
  <2>1. /\ IsFiniteSet(T) /\ T \subseteq DOMAIN messages
        /\ s = Sorted(T, Before)
    BY <1>1, <1>2, SelectRecentIsSorted DEF QueryResults
  <2>2. IsSorted(Sorted(T, Before), Ascending(T), T)
    BY <2>1, SortedIsSorted
  <2>3. s \in [1..Cardinality(T) -> T]
    BY <2>1, <2>2 DEF IsSorted
  <2>4. Cardinality(T) \in Nat /\ T \subseteq Nat
    BY <2>1, FS_CardinalityType, RowsAreFinite
  <2> HIDE DEF T
  <2>5. s \in Seq(Nat)
    <3>1. s \in Seq(T)
      BY <2>3, <2>4
    <3>2. QED
      BY <3>1, <2>4, SeqMonotonic
  <2>6. QED
    BY <1>2, <2>5 DEF RowType
<1>3. CASE r.method = "list_rooms"
  <2> DEFINE known == {messages[i].room : i \in DOMAIN messages}
  <2>1. PICK p \in [1..Cardinality(known) -> known] : s = First(p, r.limit)
    BY <1>3 DEF QueryResults, SelectRooms
  <2>2. known \subseteq Keys
    <3>1. \A i \in DOMAIN messages : messages[i] \in Message
      BY LenProperties DEF DatabaseTypeOK
    <3>2. QED
      BY <3>1 DEF Message
  <2>3. Cardinality(known) \in Nat
    <3>1. IsFiniteSet(DOMAIN messages)
      BY LenProperties, FS_Interval DEF DatabaseTypeOK
    <3> DEFINE room == [i \in DOMAIN messages |-> messages[i].room]
    <3>2. room \in Surjection(DOMAIN messages, known)
      BY DEF Surjection
    <3>3. QED
      BY <3>1, <3>2, FS_Surjection, FS_CardinalityType
  <2> HIDE DEF known
  <2>4. p \in Seq(Keys)
    BY <2>2, <2>3
  <2>5. s \in Seq(Keys)
    BY <1>1, <2>1, <2>4, FirstIsPrefix
  <2>6. QED
    BY <1>3, <2>5 DEF RowType
<1>4. QED
  BY <1>2, <1>3 DEF Queries

\* The first sqlite3_step of a query keeps the invariant.
LEMMA SortStep ==
  ASSUME IInv, NEW t \in Threads, Sort(t)
  PROVE  IInv'
<1>1. /\ call[t].at = "step"
      /\ UNCHANGED <<main, db_, schema, mutex_, stmts, accounts, messages>>
  BY DEF Sort, file
<1>2. /\ main = "serving" /\ call[t] \in CallRecord /\ CallOK(call[t])
      /\ call[t].request \in Service!Requests
  BY <1>1, BusyThread
<1>3. DatabaseTypeOK /\ DatabaseTypeOK'
  BY <1>1 DEF IInv, TypeOK, DatabaseTypeOK
<1>4. PICK rows \in QueryResults(call[t].request) :
        /\ call' = [call EXCEPT ![t].at = "row", ![t].rows = rows]
        /\ call[t].request.method \in Queries
  <2>1. CASE call[t].request.method = "get_recent_messages"
    BY <2>1 DEF Sort, QueryResults, Queries
  <2>2. CASE call[t].request.method = "list_rooms"
    BY <2>2 DEF Sort, QueryResults, Queries
  <2>3. CASE call[t].request.method \notin Queries
    BY <2>3 DEF Sort, Queries
  <2>4. QED
    BY <2>1, <2>2, <2>3 DEF Queries
<1>5. rows \in Seq(RowType(call[t].request))
  BY <1>2, <1>3, <1>4, QueryResultsTyped
<1>6. PICK c : c = [call[t] EXCEPT !.at = "row", !.rows = rows]
  OBVIOUS
<1>7. call' = [call EXCEPT ![t] = c]
  BY <1>4, <1>6 DEF IInv, TypeOK
<1>8. /\ c \in CallRecord /\ c.at = "row" /\ c.request = call[t].request
      /\ c.rows = rows /\ c.got = <<>> /\ c.reply = NoReply
  BY <1>1, <1>2, <1>5, <1>6 DEF CallRecord, Places, CallOK, Answered, RowType
<1>9. Reading(c)
  <2>1. <<>> \o rows = rows
    BY <1>5, ConcatEmptySeq
  <2>2. <<>> \in Seq(RowType(c.request))
    OBVIOUS
  <2>3. QED
    BY <2>1, <2>2, <1>4, <1>5, <1>8 DEF Reading
<1>10. Reading(c)'
  BY <1>1, <1>9, SameTableSameResult DEF Reading, RowType
<1>11. CallOK(c)'
  BY <1>1, <1>2, <1>8, <1>10 DEF CallOK, Answered
<1>12. call[t].at \in Holding /\ c.at \in Holding /\ c.at \in Prepared
       /\ stmts' = stmts \cup {t}
  BY <1>1, <1>8 DEF Holding, Prepared, IInv, HoldersOK
<1>13. QED
  BY <1>1, <1>3, <1>7, <1>8, <1>11, <1>12, InsideStep

\* So does each further row: what is read and what is left stay the result.
LEMMA RowStep ==
  ASSUME IInv, NEW t \in Threads, Row(t)
  PROVE  IInv'
<1>1. /\ call[t].at = "row" /\ call[t].rows # <<>>
      /\ UNCHANGED <<main, db_, schema, mutex_, stmts, accounts, messages>>
  BY DEF Row, file
<1>2. /\ main = "serving" /\ call[t] \in CallRecord /\ CallOK(call[t])
      /\ call[t].request \in Service!Requests
  BY <1>1, BusyThread
<1>3. DatabaseTypeOK'
  BY <1>1 DEF IInv, TypeOK, DatabaseTypeOK
<1>4. Reading(call[t])
  BY <1>1, <1>2 DEF CallOK
<1>5. PICK N, got, rows : /\ N = RowType(call[t].request)
                          /\ got = call[t].got /\ rows = call[t].rows
  OBVIOUS
<1>6. got \in Seq(N) /\ rows \in Seq(N) /\ rows # <<>>
  BY <1>1, <1>4, <1>5 DEF Reading
<1>7. /\ Append(got, Head(rows)) \in Seq(N) /\ Tail(rows) \in Seq(N)
      /\ Append(got, Head(rows)) \o Tail(rows) = got \o rows
  <2>1. Head(rows) \in N /\ Tail(rows) \in Seq(N)
    BY <1>6, HeadTailProperties
  <2>2. Append(got, Head(rows)) \in Seq(N)
    BY <1>6, <2>1
  <2>3. Append(got, Head(rows)) \o Tail(rows) = got \o rows
    BY <1>6, <2>1, <2>2
  <2>4. QED
    BY <2>1, <2>2, <2>3
<1>8. PICK c : c = [call[t] EXCEPT !.rows = Tail(rows),
                                   !.got = Append(got, Head(rows))]
  OBVIOUS
<1>9. call' = [call EXCEPT ![t] = c]
  BY <1>5, <1>8 DEF Row, IInv, TypeOK
<1>10. /\ c \in CallRecord /\ c.at = "row" /\ c.request = call[t].request
       /\ c.rows = Tail(rows) /\ c.got = Append(got, Head(rows))
       /\ c.reply = call[t].reply
  BY <1>1, <1>2, <1>5, <1>7, <1>8 DEF CallRecord, Places, RowType
<1>11. Reading(c)
  BY <1>4, <1>5, <1>7, <1>10 DEF Reading
<1>12. Reading(c)'
  BY <1>1, <1>11, SameTableSameResult DEF Reading, RowType
<1>13. CallOK(c)'
  BY <1>1, <1>2, <1>10, <1>12 DEF CallOK, Answered
<1>14. call[t].at \in Holding /\ c.at \in Holding /\ c.at \in Prepared
       /\ stmts' = stmts \cup {t}
  BY <1>1, <1>10 DEF Holding, Prepared, IInv, HoldersOK
<1>15. QED
  BY <1>1, <1>3, <1>9, <1>10, <1>13, <1>14, InsideStep

\* The end of the loop keeps the invariant.
LEMMA RowsEndStep ==
  ASSUME IInv, NEW t \in Threads, RowsEnd(t)
  PROVE  IInv'
<1>1. /\ call[t].at = "row"
      /\ UNCHANGED <<main, db_, schema, mutex_, stmts, accounts, messages>>
  BY DEF RowsEnd, file
<1>2. /\ main = "serving" /\ call[t] \in CallRecord /\ CallOK(call[t])
      /\ call[t].request \in Service!Requests
  BY <1>1, BusyThread
<1>3. DatabaseTypeOK'
  BY <1>1 DEF IInv, TypeOK, DatabaseTypeOK
<1>4. Reading(call[t])
  BY <1>1, <1>2 DEF CallOK
<1>5. PICK v : v = IF call[t].request.method = "list_rooms"
                   THEN {call[t].got[i] : i \in DOMAIN call[t].got}
                   ELSE call[t].got
  OBVIOUS
<1>6. v \in BOOLEAN \cup Seq(Nat) \cup SUBSET Keys /\ v # NoReply
  <2>1. CASE call[t].request.method = "list_rooms"
    <3>1. call[t].got \in Seq(Keys)
      BY <2>1, <1>4 DEF Reading, RowType
    <3>2. v \in SUBSET Keys
      BY <2>1, <3>1, <1>5, LenProperties
    <3>3. QED
      BY <3>2, MarkAssumption
  <2>2. CASE call[t].request.method # "list_rooms"
    <3>1. v \in Seq(Nat)
      BY <2>2, <1>4, <1>5 DEF Reading, RowType
    <3>2. QED
      BY <3>1, MarkAssumption
  <2>3. QED
    BY <2>1, <2>2
<1>7. PICK c : c = [call[t] EXCEPT !.at = "finalize", !.reply = v]
  OBVIOUS
<1>8. call' = [call EXCEPT ![t] = c]
  BY <1>5, <1>7 DEF RowsEnd, Answers, IInv, TypeOK
<1>9. /\ c \in CallRecord /\ c.at = "finalize" /\ c.request = call[t].request
      /\ c.reply = v
  BY <1>2, <1>6, <1>7 DEF CallRecord, Places
<1>10. CallOK(c)'
  BY <1>1, <1>2, <1>6, <1>9 DEF CallOK, Answered
<1>11. call[t].at \in Holding /\ c.at \in Holding /\ c.at \in Prepared
       /\ stmts' = stmts \cup {t}
  BY <1>1, <1>9 DEF Holding, Prepared, IInv, HoldersOK
<1>12. QED
  BY <1>1, <1>3, <1>8, <1>9, <1>10, <1>11, InsideStep

\* So do sqlite3_finalize ...
LEMMA FinalizeStep ==
  ASSUME IInv, NEW t \in Threads, Finalize(t)
  PROVE  IInv'
<1>1. /\ call[t].at = "finalize" /\ stmts' = stmts \ {t}
      /\ UNCHANGED <<main, db_, schema, mutex_, accounts, messages>>
  BY DEF Finalize, file
<1>2. main = "serving" /\ call[t] \in CallRecord /\ CallOK(call[t])
  BY <1>1, BusyThread
<1>3. DatabaseTypeOK'
  BY <1>1 DEF IInv, TypeOK, DatabaseTypeOK
<1>4. PICK c : c = [call[t] EXCEPT !.at = "unlock"]
  OBVIOUS
<1>5. call' = [call EXCEPT ![t] = c]
  BY <1>4 DEF Finalize, Goes
<1>6. /\ c \in CallRecord /\ c.at = "unlock" /\ c.request = call[t].request
      /\ c.reply = call[t].reply
  BY <1>2, <1>4 DEF CallRecord, Places
<1>7. CallOK(c)'
  BY <1>1, <1>2, <1>6 DEF CallOK, Answered
<1>8. call[t].at \in Holding /\ c.at \in Holding /\ c.at \notin Prepared
  BY <1>1, <1>6 DEF Holding, Prepared
<1>9. QED
  BY <1>1, <1>3, <1>5, <1>6, <1>7, <1>8, InsideStep

\* ... and the return.
LEMMA ReturnStep ==
  ASSUME IInv, NEW t \in Threads, Return(t)
  PROVE  IInv'
<1>1. /\ call[t].at = "unlock" /\ call' = [call EXCEPT ![t] = Idle]
      /\ mutex_' = Nobody
      /\ UNCHANGED <<main, db_, schema, stmts, accounts, messages>>
  BY DEF Return, file
<1>2. main = "serving"
  BY <1>1, BusyThread
<1>3. DatabaseTypeOK'
  BY <1>1 DEF IInv, TypeOK, DatabaseTypeOK
<1>4. mutex_ = t /\ t \notin stmts
  BY <1>1 DEF IInv, HoldersOK, Holding, Prepared
<1>5. Idle \in CallRecord /\ Idle.at \notin Holding /\ Idle.at \notin Prepared
  BY IdleIsIdle DEF Holding, Prepared
<1>6. CallOK(Idle)'
  BY IdleIsIdle DEF CallOK, Answered
<1>7. stmts' = stmts \ {t}
  BY <1>1, <1>4
<1>8. QED
  BY <1>1, <1>2, <1>3, <1>4, <1>5, <1>6, <1>7, CallStep

\* Every step keeps the invariant.
LEMMA NextIInv ==
  ASSUME IInv, [Next]_vars
  PROVE  IInv'
<1>1. CASE UNCHANGED vars
  <2>1. UNCHANGED <<main, db_, schema, mutex_, call, stmts, accounts, messages>>
    BY <1>1 DEF vars
  <2>2. TypeOK'
    BY <2>1 DEF IInv, TypeOK, DatabaseTypeOK
  <2>3. MainOK' /\ HoldersOK'
    BY <2>1 DEF IInv, MainOK, HoldersOK
  <2>4. \A t \in Threads : Reading(call[t])' <=> Reading(call[t])
    BY <2>1, SameTableSameResult DEF Reading
  <2>5. CallsOK'
    BY <2>1, <2>4 DEF IInv, CallsOK, CallOK
  <2>6. QED
    BY <2>2, <2>3, <2>5 DEF IInv
<1>2. CASE Next
  BY <1>2, MainStep, EndStep, InvokeStep, LockStep, PrepareStep, StepStep,
     SortStep, RowStep, RowsEndStep, FinalizeStep, ReturnStep DEF Next, Work
<1>3. QED
  BY <1>1, <1>2

\* The invariant holds always.
THEOREM HandleInvariant == Spec => []IInv
  BY InitIInv, NextIInv, PTL DEF Spec

\* No handler meets a file without its tables, however often the process ended in
\* the middle of creating them (open).
THEOREM SchemaFirst == Spec => []SchemaBeforeCalls
<1>1. IInv => SchemaBeforeCalls
  BY DEF IInv, MainOK, SchemaBeforeCalls
<1>2. QED
  BY <1>1, HandleInvariant, PTL

\* A statement is open only while its thread holds mutex_, on every path through
\* every method.
THEOREM StatementsHeld == Spec => []StatementsAreHeld
<1>1. IInv => StatementsAreHeld
  <2> SUFFICES ASSUME IInv, NEW t \in stmts PROVE mutex_ = t /\ call[t] # Idle
    BY DEF StatementsAreHeld
  <2>1. t \in Threads /\ call[t].at \in Prepared
    BY DEF IInv, TypeOK, HoldersOK
  <2>2. mutex_ = t
    BY <2>1 DEF IInv, HoldersOK, Holding, Prepared
  <2>3. call[t] # Idle
    BY <2>1, IdleIsIdle DEF Prepared
  <2>4. QED
    BY <2>2, <2>3
<1>2. QED
  BY <1>1, HandleInvariant, PTL

-----------------------------------------------------------------------------
(***************************************************************************)
(* The class implements DatabaseService.                                   *)
(***************************************************************************)
\* A step that answers a call with a value its effect allows is TakeEffect.
LEMMA AnswerIsEffect ==
  ASSUME IInv, NEW t \in Threads, NEW at, NEW v, v # NoReply,
         call[t].at \in {"prepare", "step", "row"}, Answers(t, at, v),
         Service!Effect(call[t].request, v)
  PROVE  Service!TakeEffect(t)
<1> DEFINE request == [u \in Threads |-> call[u].request]
           reply == [u \in Threads |-> call[u].reply]
<1>1. /\ call[t].request # NoCall /\ call[t] \in CallRecord /\ CallOK(call[t])
  BY BusyThread
<1>2. call \in [Threads -> CallRecord]
  BY DEF IInv, TypeOK
<1>3. call[t].reply = NoReply
  BY <1>1 DEF CallOK, Answered
<1>4. \A u \in Threads :
        /\ call'[u].request = call[u].request
        /\ call'[u].reply = IF u = t THEN v ELSE call[u].reply
  BY <1>1, <1>2 DEF Answers, CallRecord
<1>5. request' = request /\ reply' = [reply EXCEPT ![t] = v] /\ reply'[t] = v
  BY <1>4
<1>6. QED
  BY <1>1, <1>3, <1>5 DEF Service!TakeEffect

\* A step that leaves every request, reply and table alone is a stutter.
LEMMA QuietIsStutter ==
  ASSUME IInv, UNCHANGED <<accounts, messages>>,
         \A u \in Threads : /\ call'[u].request = call[u].request
                            /\ call'[u].reply = call[u].reply
  PROVE  UNCHANGED Service!vars
  BY DEF Service!vars

\* The states at the first start are initial states of the service.
LEMMA InitImplements == Init => Service!Init
  BY DEF Init, Idle, Service!Init

\* A failure to prepare is an effect the service allows: with the connection open
\* and all tables there, only storage can fail.
LEMMA FailureIsEffect ==
  ASSUME DatabaseTypeOK, StorageFails, NEW r \in Service!Requests,
         UNCHANGED <<accounts, messages>>
  PROVE  Service!Effect(r, FailureOf(r))
<1>1. CASE r.method = "register_user"
  BY <1>1 DEF FailureOf, Service!Effect, Service!register_user
<1>2. CASE r.method = "authenticate_user"
  BY <1>2 DEF FailureOf, Service!Effect, Service!authenticate_user
<1>3. CASE r.method = "add_message"
  BY <1>3 DEF FailureOf, Service!Effect, Service!add_message
<1>4. CASE r.method = "get_recent_messages"
  <2>1. r.limit \in Nat
    BY <1>4, RequestFields DEF Queries
  <2>2. PICK s : s = SelectRecent(r.room, r.limit)
    OBVIOUS
  <2>3. s \in Seq(Nat)
    BY <1>4, <2>2, QueryResultsTyped DEF QueryResults, RowType, Queries
  <2>4. <<>> \in Seq(Nat) /\ <<>> \o s = s
    BY <2>3, ConcatEmptySeq
  <2>5. <<>> \in {Service!InOrder(S) :
                  S \in Service!get_recent_messages(r.room, r.limit)}
    BY <2>1, <2>2, <2>3, <2>4, ReadRecent
  <2>6. QED
    BY <1>4, <2>5 DEF FailureOf, Service!Effect
<1>5. CASE r.method = "list_rooms"
  <2>1. r.limit \in Nat
    BY <1>5, RequestFields DEF Queries
  <2>2. {} \in Service!list_rooms(r.limit)
    BY <2>1, FS_EmptySet, ResultsAreResults DEF list_rooms
  <2>3. QED
    BY <1>5, <2>2 DEF FailureOf, Service!Effect
<1>6. QED
  BY <1>1, <1>2, <1>3, <1>4, <1>5, RequestFields DEF Queries

\* sqlite3_prepare_v2 takes no effect, or fails as the service allows.
LEMMA PrepareImplements ==
  ASSUME IInv, NEW t \in Threads, Prepare(t)
  PROVE  Service!TakeEffect(t) \/ UNCHANGED Service!vars
<1>1. call[t].at = "prepare" /\ UNCHANGED <<accounts, messages>>
  BY DEF Prepare, file
<1>2. /\ call \in [Threads -> CallRecord] /\ DatabaseTypeOK
      /\ db_ /\ schema = Len(Schema) /\ call[t].request \in Service!Requests
  BY <1>1, BusyThread DEF IInv, TypeOK
<1>3. CASE Goes(t, "step")
  <2>1. \A u \in Threads : /\ call'[u].request = call[u].request
                           /\ call'[u].reply = call[u].reply
    BY <1>2, <1>3 DEF Goes, CallRecord
  <2>2. QED
    BY <1>1, <2>1, QuietIsStutter
<1>4. CASE /\ ~db_ \/ ~HasTable(call[t].request) \/ StorageFails
           /\ Answers(t, "unlock", FailureOf(call[t].request))
  <2>1. HasTable(call[t].request)
    BY <1>2 DEF HasTable, Schema
  <2>2. StorageFails
    BY <1>2, <1>4, <2>1
  <2>3. PICK r, v : r = call[t].request /\ v = FailureOf(r)
    OBVIOUS
  <2>4. Service!Effect(r, FailureOf(r))
    BY <1>1, <1>2, <2>2, <2>3, FailureIsEffect
  <2>5. v # NoReply /\ Service!Effect(call[t].request, v)
    BY <2>3, <2>4, FailureIsReply
  <2>6. QED
    BY <1>1, <1>4, <2>3, <2>5, AnswerIsEffect
<1>5. QED
  BY <1>3, <1>4 DEF Prepare

\* The end of a query's loop answers with a result the service allows.
LEMMA RowsEndImplements ==
  ASSUME IInv, NEW t \in Threads, RowsEnd(t)
  PROVE  Service!TakeEffect(t)
<1>1. call[t].at = "row" /\ UNCHANGED <<accounts, messages>>
      /\ (call[t].rows = <<>> \/ StorageFails)
  BY DEF RowsEnd, file
<1>2. PICK r, got, rows : /\ r = call[t].request
                          /\ got = call[t].got /\ rows = call[t].rows
  OBVIOUS
<1>3. DatabaseTypeOK /\ r \in Service!Requests /\ Reading(call[t])
  BY <1>1, <1>2, BusyThread DEF IInv, TypeOK, CallOK
<1>4. r.method \in Queries /\ r.limit \in Nat
  BY <1>2, <1>3, RequestFields DEF Reading
<1>5. PICK v : v = IF r.method = "list_rooms"
                   THEN {got[i] : i \in DOMAIN got} ELSE got
  OBVIOUS
<1>6. Answers(t, "finalize", v)
  BY <1>2, <1>5 DEF RowsEnd
<1>7. CASE r.method = "list_rooms"
  <2>1. /\ got \in Seq(Keys) /\ rows \in Seq(Keys)
        /\ got \o rows \in SelectRooms(r.limit)
    BY <1>2, <1>3, <1>7 DEF Reading, RowType, QueryResults
  <2>2. v \in Service!list_rooms(r.limit)
    BY <1>1, <1>2, <1>3, <1>4, <1>5, <1>7, <2>1, ReadRooms
  <2>3. v \in SUBSET Keys
    BY <1>5, <1>7, <2>1, LenProperties
  <2>4. v # NoReply
    BY <2>3, MarkAssumption
  <2>5. Service!Effect(call[t].request, v)
    BY <1>1, <1>2, <1>7, <2>2 DEF Service!Effect
  <2>6. QED
    BY <1>1, <1>6, <2>4, <2>5, AnswerIsEffect
<1>8. CASE r.method = "get_recent_messages"
  <2>1. /\ got \in Seq(Nat) /\ rows \in Seq(Nat)
        /\ got \o rows = SelectRecent(r.room, r.limit)
    BY <1>2, <1>3, <1>8 DEF Reading, RowType, QueryResults
  <2>2. v = got
    BY <1>5, <1>8
  <2>3. v \in {Service!InOrder(S) :
               S \in Service!get_recent_messages(r.room, r.limit)}
    BY <1>1, <1>2, <1>3, <1>4, <2>1, <2>2, ReadRecent
  <2>4. v # NoReply
    BY <2>1, <2>2, MarkAssumption
  <2>5. Service!Effect(call[t].request, v)
    BY <1>1, <1>2, <1>8, <2>3 DEF Service!Effect
  <2>6. QED
    BY <1>1, <1>6, <2>4, <2>5, AnswerIsEffect
<1>9. QED
  BY <1>4, <1>7, <1>8 DEF Queries

\* Every step of the class is a step of the service, or a stutter.
LEMMA NextImplements ==
  ASSUME IInv, [Next]_vars
  PROVE  [Service!Next]_(Service!vars)
<1>1. call \in [Threads -> CallRecord]
  BY DEF IInv, TypeOK
<1>2. CASE UNCHANGED vars
  BY <1>2, QuietIsStutter DEF vars
<1>3. CASE Open \/ CreateNext \/ OpenReturns \/ SchemaFails \/ Listen \/ StartAgain
  BY <1>3, QuietIsStutter DEF Open, CreateNext, OpenReturns, SchemaFails,
     Listen, StartAgain, file, private
<1>4. CASE End
  <2>1. Service!End
    BY <1>4 DEF End, file, Idle, Service!End
  <2>2. QED
    BY <2>1 DEF Service!Next
<1>5. ASSUME NEW t \in Threads, Invoke(t) PROVE Service!Invoke(t)
  <2>1. PICK r \in Service!Requests :
          call' = [call EXCEPT ![t].request = r, ![t].at = "lock"]
    BY <1>5 DEF Invoke
  <2>2. \A u \in Threads :
          /\ call'[u].request = IF u = t THEN r ELSE call[u].request
          /\ call'[u].reply = call[u].reply
    BY <1>1, <2>1 DEF CallRecord
  <2>3. call[t].request = NoCall /\ UNCHANGED <<accounts, messages>>
    BY <1>5 DEF Invoke, Idle, file
  <2>4. QED
    BY <2>2, <2>3 DEF Service!Invoke
<1>6. ASSUME NEW t \in Threads, Lock(t) \/ Sort(t) \/ Row(t) \/ Finalize(t)
      PROVE  UNCHANGED Service!vars
  <2>1. UNCHANGED <<accounts, messages>>
    BY <1>6 DEF Lock, Sort, Row, Finalize, file
  <2>2. CASE Lock(t) \/ Finalize(t)
    <3>1. PICK at : call' = [call EXCEPT ![t].at = at]
      BY <2>2 DEF Lock, Finalize, Goes
    <3>2. QED
      BY <1>1, <2>1, <3>1, QuietIsStutter DEF CallRecord
  <2>3. CASE Sort(t)
    <3>1. PICK rows : call' = [call EXCEPT ![t].at = "row", ![t].rows = rows]
      BY <2>3 DEF Sort
    <3>2. QED
      BY <1>1, <2>1, <3>1, QuietIsStutter DEF CallRecord
  <2>4. CASE Row(t)
    BY <1>1, <2>1, <2>4, QuietIsStutter DEF Row, CallRecord
  <2>5. QED
    BY <1>6, <2>2, <2>3, <2>4
<1>7. ASSUME NEW t \in Threads, Step(t) PROVE Service!TakeEffect(t)
  <2>1. PICK ok \in BOOLEAN : /\ Service!Effect(call[t].request, ok)
                              /\ Answers(t, "finalize", ok)
    BY <1>7 DEF Step
  <2>2. call[t].at = "step" /\ ok # NoReply
    BY <1>7, MarkAssumption DEF Step
  <2>3. QED
    BY <2>1, <2>2, AnswerIsEffect
<1>8. ASSUME NEW t \in Threads, Return(t) PROVE Service!Return(t)
  <2>1. call[t].at = "unlock" /\ UNCHANGED <<accounts, messages>>
        /\ call' = [call EXCEPT ![t] = Idle]
    BY <1>8 DEF Return, file
  <2>2. call[t].reply # NoReply
    BY <2>1, BusyThread DEF CallOK, Answered
  <2>3. \A u \in Threads :
          /\ call'[u].request = IF u = t THEN NoCall ELSE call[u].request
          /\ call'[u].reply = IF u = t THEN NoReply ELSE call[u].reply
    BY <1>1, <2>1 DEF Idle
  <2>4. QED
    BY <2>1, <2>2, <2>3 DEF Service!Return
<1>9. CASE \E t \in Threads : Invoke(t) \/ Lock(t) \/ Work(t)
  <2>1. PICK t \in Threads : Invoke(t) \/ Lock(t) \/ Work(t)
    BY <1>9
  <2>2. Service!Invoke(t) \/ Service!TakeEffect(t) \/ Service!Return(t)
        \/ UNCHANGED Service!vars
    BY <2>1, <1>5, <1>6, <1>7, <1>8, PrepareImplements, RowsEndImplements DEF Work
  <2>3. QED
    BY <2>2 DEF Service!Next
<1>10. QED
  BY <1>2, <1>3, <1>4, <1>9 DEF Next

\* chat_db.hpp: "All public methods are thread-safe (operations are serialized
\* internally)".  Whatever the threads interleave, wherever a statement fails and
\* the process ends, every call takes effect in one step or not at all, and the
\* nested query of get_recent_messages returns the newest rows, oldest first.
THEOREM Serialized == Spec => ImplementsService
<1>1. IInv /\ [Next]_vars => [Service!Next]_(Service!vars)
  BY NextImplements
<1>2. QED
  BY <1>1, InitImplements, HandleInvariant, PTL
     DEF Spec, ImplementsService, Service!Spec
=============================================================================

---------------------------- MODULE ChatDatabase ----------------------------
(***************************************************************************)
(* The two SQLite tables behind class ChatDatabase (chat_db.cpp) and the   *)
(* statements its public methods run on them.  Every method holds mutex_   *)
(* from its first to its last line, so each statement is one atomic step.  *)
(*                                                                         *)
(* A row of `messages` is addressed by its position, which is its          *)
(* AUTOINCREMENT id.  A password stands for its salted SHA-256 digest, and *)
(* the key "dm:a:b" that files a direct message stands as the set {a, b}.  *)
(* A statement may fail for reasons the program does not control (disk     *)
(* full, locked file): StorageFails says whether an instance lets it.      *)
(***************************************************************************)
EXTENDS Naturals, Sequences, FiniteSets

CONSTANTS
  Users,         \* account names
  Passwords,     \* passwords, each standing for its digest
  NoAccount,     \* marks a name that has no row in table users
  Rooms,         \* room names, as sanitize_room returns them
  Contents,      \* message texts
  Times,         \* values now_seconds() may return: the wall clock can step back
  StorageFails   \* may a statement fail?

ASSUME DatabaseAssumption ==
  /\ NoAccount \notin Passwords
  /\ Times \subseteq Nat
  /\ StorageFails \in BOOLEAN

VARIABLES
  accounts,      \* table users: name -> digest, or NoAccount
  messages       \* table messages: the sequence of its rows

-----------------------------------------------------------------------------
\* dm_room_key: one key for both orders of the two names.
dm_room_key(a, b) == {a, b}

Keys == Rooms \cup {dm_room_key(a, b) : a, b \in Users}

Message == [room : Keys, username : Users, content : Contents, sent_at : Times]

DatabaseTypeOK ==
  /\ accounts \in [Users -> Passwords \cup {NoAccount}]
  /\ messages \in Seq(Message)

-----------------------------------------------------------------------------
\* Fault: INSERT OR REPLACE, which the UNIQUE constraint does not stop.
register_user_replacing(u, p, ok) ==
  \/ ok /\ accounts' = [accounts EXCEPT ![u] = p]
  \/ ~ok /\ StorageFails /\ UNCHANGED accounts

\* INSERT INTO users under the UNIQUE constraint on username; ok is the value
\* the method returns.
register_user(u, p, ok) ==
  \/ /\ ok
     /\ accounts[u] = NoAccount
     /\ accounts' = [accounts EXCEPT ![u] = p]
  \/ /\ ~ok
     /\ accounts[u] # NoAccount \/ StorageFails
     /\ UNCHANGED accounts

\* SELECT password_hash FROM users: true only for the digest on record.
authenticate_user(u, p, ok) ==
  \/ ok /\ accounts[u] = p
  \/ ~ok /\ (accounts[u] # p \/ StorageFails)

\* INSERT INTO messages.
add_message(m, ok) ==
  \/ ok /\ messages' = Append(messages, m)
  \/ ~ok /\ StorageFails /\ UNCHANGED messages

-----------------------------------------------------------------------------
\* The order of history: by time, rows of the same second by id.
Before(i, j) ==
  \/ messages[i].sent_at < messages[j].sent_at
  \/ messages[i].sent_at = messages[j].sent_at /\ i < j

RowsIn(room) == {i \in DOMAIN messages : messages[i].room = room}

\* The `limit` newest rows of the room: those with fewer than `limit` rows
\* after them.
RecentRows(room, limit) ==
  {i \in RowsIn(room) : Cardinality({j \in RowsIn(room) : Before(i, j)}) < limit}

\* The first n rows of S in the order of history.
Oldest(S, n) == {i \in S : Cardinality({j \in S : Before(j, i)}) < n}

\* What get_recent_messages may return.  It loops while sqlite3_step yields a
\* row, so a statement that fails leaves a prefix of the result, or nothing.
get_recent_messages(room, limit) ==
  LET rows == RecentRows(room, limit)
  IN  {rows} \cup IF StorageFails
                  THEN {Oldest(rows, n) : n \in 0..Cardinality(rows)} ELSE {}

\* What list_rooms may return: SELECT DISTINCT room ... ORDER BY room LIMIT ?,
\* or the part of it read before a failure.  Keys carry no order here, so any
\* choice of the right size is possible.
list_rooms(limit) ==
  LET known == {messages[i].room : i \in DOMAIN messages}
  IN  {S \in SUBSET known :
         \/ S = known /\ Cardinality(S) <= limit
         \/ S # known /\ Cardinality(S) = limit
         \/ StorageFails /\ Cardinality(S) <= limit}
=============================================================================

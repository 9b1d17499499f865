--------------------------- MODULE DatabaseHandle ---------------------------
(***************************************************************************)
(* Class ChatDatabase statement by statement (chat_db.cpp): one SQLite     *)
(* connection db_ behind mutex_, opened by main before there are handlers, *)
(* then used by all of them.  Every call locks, prepares a statement,      *)
(* steps it once or row by row, finalizes it and returns.                  *)
(*                                                                         *)
(* The file outlives the process: its two tables hold what ChatDatabase    *)
(* says, once they exist.  The process may end at any point and be started *)
(* again on the same file.                                                 *)
(***************************************************************************)
EXTENDS ChatDatabase

CONSTANTS
  Threads, Limits, NoCall, NoReply,
  Main,      \* the thread that runs main
  Nobody,    \* the holder of a free mutex
  MaxRows    \* bound: no message is added to a table of this many

ASSUME HandleAssumption ==
  /\ Main \notin Threads /\ Nobody \notin Threads \cup {Main}
  /\ Limits \subseteq Nat /\ MaxRows \in Nat

VARIABLES
  main,      \* where main is
  db_,       \* is the connection open?
  schema,    \* how many objects of the schema the file has
  mutex_,    \* who holds the mutex
  call,      \* what each handler thread does in the class
  stmts      \* threads whose statement is not finalized

vars == <<main, db_, schema, mutex_, call, stmts, accounts, messages>>

\* The schema's statements, in the order sqlite3_exec runs them.
Schema == <<"users", "messages", "idx_messages_room_sent">>

Idle == [request |-> NoCall, at |-> "idle", rows |-> <<>>, got |-> <<>>,
         reply |-> NoReply]

\* The calls and their effects, as the class promises them.
Service == INSTANCE DatabaseService WITH
  request <- [t \in Threads |-> call[t].request],
  reply   <- [t \in Threads |-> call[t].reply]

\* The two marks are no requests and no replies.
ASSUME MarkAssumption ==
  /\ NoCall \notin Service!Requests
  /\ NoReply \notin BOOLEAN \cup Seq(Nat)
  /\ \A S \in SUBSET Keys : NoReply # S

Init ==
  /\ main = "start"
  /\ db_ = FALSE
  /\ schema = 0
  /\ mutex_ = Nobody
  /\ call = [t \in Threads |-> Idle]
  /\ stmts = {}
  /\ accounts = [u \in Users |-> NoAccount]
  /\ messages = <<>>

file    == <<schema, accounts, messages>>
private == <<call, stmts>>

-----------------------------------------------------------------------------
(***************************************************************************)
(* main and open().                                                        *)
(***************************************************************************)
\* sqlite3_open succeeds, or fails and main returns.
Open ==
  /\ main = "start"
  /\ mutex_ = Nobody
  /\ \/ main' = "schema" /\ db_' = TRUE /\ mutex_' = Main
     \/ main' = "ended" /\ UNCHANGED <<db_, mutex_>>
  /\ UNCHANGED <<file, private>>

\* sqlite3_exec runs the next statement; CREATE IF NOT EXISTS leaves alone what
\* is there.
CreateNext ==
  /\ main = "schema"
  /\ schema < Len(Schema)
  /\ schema' = schema + 1
  /\ UNCHANGED <<main, db_, mutex_, private, accounts, messages>>

\* All of the schema is there, and open() returns true.
OpenReturns ==
  /\ main = "schema"
  /\ schema = Len(Schema)
  /\ main' = "ready" /\ mutex_' = Nobody
  /\ UNCHANGED <<db_, file, private>>

\* Fault: open() does not look at the result of sqlite3_exec.
SchemaFailsUnseen ==
  /\ main = "schema"
  /\ main' = "ready" /\ mutex_' = Nobody
  /\ UNCHANGED <<db_, file, private>>

\* A statement fails: open() returns false with db_ set, main returns and the
\* destructor closes the connection.
SchemaFails ==
  /\ main = "schema"
  /\ main' = "ended" /\ db_' = FALSE /\ mutex_' = Nobody
  /\ UNCHANGED <<file, private>>

\* socket, bind and listen succeed, or one fails and main returns.
Listen ==
  /\ main = "ready"
  /\ \/ main' = "serving" /\ UNCHANGED db_
     \/ main' = "ended" /\ db_' = FALSE
  /\ UNCHANGED <<mutex_, file, private>>

\* The process is ended from outside, threads and all; the file stays.
End ==
  /\ main # "ended"
  /\ main' = "ended" /\ db_' = FALSE /\ mutex_' = Nobody
  /\ call' = [t \in Threads |-> Idle]
  /\ stmts' = {}
  /\ UNCHANGED file

\* Somebody starts the server again.
StartAgain ==
  /\ main = "ended"
  /\ main' = "start"
  /\ UNCHANGED <<db_, mutex_, file, private>>

-----------------------------------------------------------------------------
(***************************************************************************)
(* The methods.                                                            *)
(***************************************************************************)
\* What a thread has reached in its call, and with which reply.
Goes(t, at)       == call' = [call EXCEPT ![t].at = at]
Answers(t, at, v) == call' = [call EXCEPT ![t].at = at, ![t].reply = v]

\* What a method returns that fails before it has read anything.
FailureOf(r) == CASE r.method = "get_recent_messages" -> <<>>
                  [] r.method = "list_rooms" -> {}
                  [] OTHER -> FALSE

Invoke(t) ==
  /\ main = "serving"
  /\ call[t] = Idle
  /\ \E r \in Service!Requests :
       /\ r.method = "add_message" => Len(messages) < MaxRows
       /\ call' = [call EXCEPT ![t].request = r, ![t].at = "lock"]
  /\ UNCHANGED <<main, db_, mutex_, stmts, file>>

Lock(t) ==
  /\ call[t].at = "lock"
  /\ mutex_ = Nobody
  /\ mutex_' = t
  /\ Goes(t, "prepare")
  /\ UNCHANGED <<main, db_, stmts, file>>

\* The table of the method's statement is there.
HasTable(r) ==
  schema >= IF r.method \in {"register_user", "authenticate_user"} THEN 1 ELSE 2

\* sqlite3_prepare_v2, which needs the table; no connection, no table or another
\* failure end the call.
Prepare(t) ==
  /\ call[t].at = "prepare"
  /\ \/ /\ db_ /\ HasTable(call[t].request)
        /\ stmts' = stmts \cup {t}
        /\ Goes(t, "step")
     \/ /\ ~db_ \/ ~HasTable(call[t].request) \/ StorageFails
        /\ Answers(t, "unlock", FailureOf(call[t].request))
        /\ UNCHANGED stmts
  /\ UNCHANGED <<main, db_, mutex_, file>>

\* sqlite3_step of a statement that is stepped once.
Step(t) ==
  /\ call[t].at = "step"
  /\ call[t].request.method
       \in {"register_user", "authenticate_user", "add_message"}
  /\ \E ok \in BOOLEAN :
       /\ Service!Effect(call[t].request, ok)
       /\ Answers(t, "finalize", ok)
  /\ UNCHANGED <<main, db_, schema, mutex_, stmts>>

Sorted(S, Less(_, _)) ==
  CHOOSE s \in [1..Cardinality(S) -> S] :
    \A i, j \in DOMAIN s : i < j => Less(s[i], s[j])

After(i, j) == Before(j, i)

\* The first n elements: LIMIT.
First(s, n) == SubSeq(s, 1, IF n < Len(s) THEN n ELSE Len(s))

\* Fault: the limit is applied to the rows in ascending order.
SelectRecentOldest(room, limit) == First(Sorted(RowsIn(room), Before), limit)

\* The query of get_recent_messages: sorted downwards and cut, sorted upwards.
SelectRecent(room, limit) ==
  LET newest == First(Sorted(RowsIn(room), After), limit)
  IN  Sorted({newest[i] : i \in DOMAIN newest}, Before)

\* The query of list_rooms, in any order of the names.
SelectRooms(limit) ==
  LET known == {messages[i].room : i \in DOMAIN messages}
  IN  {First(s, limit) : s \in {p \in [1..Cardinality(known) -> known] :
                                  {p[i] : i \in DOMAIN p} = known}}

\* The first sqlite3_step of a query sorts its rows.
Sort(t) ==
  LET r == call[t].request
  IN  /\ call[t].at = "step"
      /\ \E rows \in (CASE r.method = "get_recent_messages" ->
                             {SelectRecent(r.room, r.limit)}
                        [] r.method = "list_rooms" -> SelectRooms(r.limit)
                        [] OTHER -> {}) :
           call' = [call EXCEPT ![t].at = "row", ![t].rows = rows]
      /\ UNCHANGED <<main, db_, mutex_, stmts, file>>

\* The loop gets a row and keeps it.
Row(t) ==
  /\ call[t].at = "row"
  /\ call[t].rows # <<>>
  /\ call' = [call EXCEPT ![t].rows = Tail(@),
                          ![t].got = Append(@, Head(call[t].rows))]
  /\ UNCHANGED <<main, db_, mutex_, stmts, file>>

\* The loop ends: sqlite3_step has no row, or failed.
RowsEnd(t) ==
  LET got == call[t].got
  IN  /\ call[t].at = "row"
      /\ call[t].rows = <<>> \/ StorageFails
      /\ Answers(t, "finalize",
                 IF call[t].request.method = "list_rooms"
                 THEN {got[i] : i \in DOMAIN got} ELSE got)
      /\ UNCHANGED <<main, db_, mutex_, stmts, file>>

\* Fault: authenticate_user returns a match without sqlite3_finalize.
FinalizeUnlessMatched(t) ==
  /\ call[t].at = "finalize"
  /\ stmts' = IF call[t].request.method = "authenticate_user" /\ call[t].reply
              THEN stmts ELSE stmts \ {t}
  /\ Goes(t, "unlock")
  /\ UNCHANGED <<main, db_, mutex_, file>>

\* sqlite3_finalize.
Finalize(t) ==
  /\ call[t].at = "finalize"
  /\ stmts' = stmts \ {t}
  /\ Goes(t, "unlock")
  /\ UNCHANGED <<main, db_, mutex_, file>>

\* Fault: a call that failed to prepare its statement returns with the lock.
ReturnLocked(t) ==
  /\ call[t].at = "unlock"
  /\ mutex_' = IF call[t].request.method = "add_message" /\ ~call[t].reply
               THEN mutex_ ELSE Nobody
  /\ call' = [call EXCEPT ![t] = Idle]
  /\ UNCHANGED <<main, db_, stmts, file>>

\* The lock_guard goes out of scope and the method returns.
Return(t) ==
  /\ call[t].at = "unlock"
  /\ mutex_' = Nobody
  /\ call' = [call EXCEPT ![t] = Idle]
  /\ UNCHANGED <<main, db_, stmts, file>>

-----------------------------------------------------------------------------
\* The steps of a thread that holds the mutex.
Work(t) == Prepare(t) \/ Step(t) \/ Sort(t) \/ Row(t) \/ RowsEnd(t)
             \/ Finalize(t) \/ Return(t)

Next ==
  \/ Open \/ CreateNext \/ OpenReturns \/ SchemaFails \/ Listen
  \/ End \/ StartAgain
  \/ \E t \in Threads : Invoke(t) \/ Lock(t) \/ Work(t)

Spec == Init /\ [][Next]_vars

\* A thread that holds the mutex goes on, and so does one that can have it; no
\* fairness is assumed of main or of callers, nor between waiting threads.
FairSpec ==
  /\ Spec
  /\ \A t \in Threads : WF_vars(Work(t)) /\ WF_vars(Lock(t))

-----------------------------------------------------------------------------
(***************************************************************************)
(* Properties.                                                             *)
(***************************************************************************)
\* chat_db.hpp: "All public methods are thread-safe (operations are serialized
\* internally)": whatever the threads interleave, wherever a statement fails and
\* the process ends, every call takes effect at once or not at all, and a history
\* is the newest rows, oldest first, or a first part of them.
ImplementsService == Service!Spec

\* No handler meets a file without its tables, even if an earlier start failed or
\* ended half-way through the schema (open).
SchemaBeforeCalls == main = "serving" => db_ /\ schema = Len(Schema)

\* A statement lives only while its thread holds the mutex: none is left behind
\* on any path out of a method, so the connection is never used by two threads
\* and can be closed (sqlite3_finalize in every method).
StatementsAreHeld == \A t \in stmts : mutex_ = t /\ call[t] # Idle

\* Whatever fails inside a call, the mutex becomes free again.
LockIsReleased == mutex_ \in Threads ~> mutex_ = Nobody
=============================================================================

--------------------------- MODULE DatabaseService --------------------------
(***************************************************************************)
(* What class ChatDatabase promises the threads that share it (chat_db.hpp *)
(* line 10): a call takes effect in one step between its start and its     *)
(* return, and its result is that of the tables at that step.  A process   *)
(* that ends in the middle of calls leaves each of them done or not done.  *)
(***************************************************************************)
EXTENDS ChatDatabase

CONSTANTS
  Threads,   \* handler threads
  Limits,    \* row limits they pass
  NoCall,    \* marks a thread that is in no call
  NoReply    \* marks a call that has not taken effect

VARIABLES
  request,   \* the call a thread is in
  reply      \* what the call will return

vars == <<accounts, messages, request, reply>>

Requests ==
  [method : {"register_user", "authenticate_user"},
   username : Users, password : Passwords]
  \cup [method : {"add_message"}, message : Message]
  \cup [method : {"get_recent_messages"}, room : Keys, limit : Limits]
  \cup [method : {"list_rooms"}, limit : Limits]

Init ==
  /\ accounts = [u \in Users |-> NoAccount]
  /\ messages = <<>>
  /\ request = [t \in Threads |-> NoCall]
  /\ reply = [t \in Threads |-> NoReply]

Invoke(t) ==
  /\ request[t] = NoCall
  /\ \E r \in Requests : request' = [request EXCEPT ![t] = r]
  /\ UNCHANGED <<accounts, messages, reply>>

\* The rows of S, oldest first.
InOrder(S) ==
  CHOOSE s \in [1..Cardinality(S) -> S] :
    \A i, j \in DOMAIN s : i < j => Before(s[i], s[j])

\* The statements of ChatDatabase, each as one step.
Effect(r, v) ==
  \/ /\ r.method = "register_user"
     /\ register_user(r.username, r.password, v) /\ UNCHANGED messages
  \/ /\ r.method = "authenticate_user"
     /\ authenticate_user(r.username, r.password, v)
     /\ UNCHANGED <<accounts, messages>>
  \/ /\ r.method = "add_message"
     /\ add_message(r.message, v) /\ UNCHANGED accounts
  \/ /\ r.method = "get_recent_messages"
     /\ v \in {InOrder(S) : S \in get_recent_messages(r.room, r.limit)}
     /\ UNCHANGED <<accounts, messages>>
  \/ /\ r.method = "list_rooms"
     /\ v \in list_rooms(r.limit)
     /\ UNCHANGED <<accounts, messages>>

TakeEffect(t) ==
  /\ request[t] # NoCall /\ reply[t] = NoReply
  /\ reply'[t] # NoReply
  /\ Effect(request[t], reply'[t])
  /\ reply' = [reply EXCEPT ![t] = reply'[t]]
  /\ UNCHANGED request

Return(t) ==
  /\ reply[t] # NoReply
  /\ request' = [request EXCEPT ![t] = NoCall]
  /\ reply' = [reply EXCEPT ![t] = NoReply]
  /\ UNCHANGED <<accounts, messages>>

End ==
  /\ request' = [t \in Threads |-> NoCall]
  /\ reply' = [t \in Threads |-> NoReply]
  /\ UNCHANGED <<accounts, messages>>

Next == \/ \E t \in Threads : Invoke(t) \/ TakeEffect(t) \/ Return(t)
        \/ End

Spec == Init /\ [][Next]_vars
=============================================================================

----------------------------- MODULE ChatServer -----------------------------
(***************************************************************************)
(* The chat server (chat_server.cpp): main's accept loop and one detached  *)
(* handle_client thread per connection, sharing the vector `clients` under *)
(* clients_mutex, the database under its own mutex, and the process's file *)
(* descriptors under no lock at all.                                       *)
(*                                                                         *)
(* A handler reads one frame, then makes a fixed list of calls.  The calls *)
(* still to be made are todo[c]; the steps below make them one at a time,  *)
(* so that other threads run between any two accesses to shared state: a   *)
(* critical section on clients_mutex, a database call, one send_frame.     *)
(* What happens under clients_mutex only reads and writes memory, so each  *)
(* critical section is one step and the mutex itself is no variable.       *)
(*                                                                         *)
(* `out` records the frames written to each connection whose peer is still *)
(* there, in order: those of the kinds an instance's properties look at.   *)
(* send_frame is one step here; its two send_all calls are not.            *)
(***************************************************************************)
EXTENDS ChatDatabase, Integers

CONSTANTS
  Conns,          \* connections accept() returns, one handler thread each
  NoConn,         \* marks a free descriptor
  NoUser,         \* the empty username of a handler that has not authenticated
  Fds,            \* descriptor values: close() makes one available again
  INVALID_SOCKET, \* -1, equal to no descriptor
  kDefaultRoom,   \* "general"
  kHistoryLimit,  \* rows replayed on joining a room (50)
  MaxHistory,     \* the most rows a HistoryReq gets (200)
  FrameRows,      \* rows of a History frame of kMaxFramePayloadSize bytes
  LongTexts,      \* texts that fill a frame up, and with a header exceed it
  RoomListLimit,  \* rooms build_room_list asks the database for (200)
  Limits,         \* numbers clients put in a HistoryReq
  NoNumber,       \* a HistoryReq whose limit is absent or no number
  Kinds,          \* message types the clients of this instance send
  SlowPeers,      \* connections whose peer may stop reading
  LossyPeers,     \* connections whose peer may go without a word
  Restarts,       \* may the server process end and be started again?
  InitialAccounts,\* accounts already in the database file
  Watched,        \* kinds of frames `out` records, the others are only written
  MaxReads        \* bound: frames each client sends

ASSUME ServerAssumption ==
  /\ NoConn \notin Conns
  /\ NoUser \notin Users
  /\ INVALID_SOCKET \notin Fds
  /\ kDefaultRoom \in Rooms
  /\ kHistoryLimit \in Nat \ {0}
  /\ MaxHistory \in Nat \ {0}
  /\ FrameRows \in Nat
  /\ RoomListLimit \in Nat
  /\ Limits \subseteq Int
  /\ MaxReads \in Nat
  /\ SlowPeers \subseteq Conns /\ LossyPeers \subseteq Conns
  /\ Restarts \in BOOLEAN
  /\ InitialAccounts \in [Users -> Passwords \cup {NoAccount}]
  /\ Conns \X (1..MaxReads) \subseteq Contents
  /\ LongTexts \subseteq Contents

VARIABLES
  pc,        \* where the handler of a connection is
  fd,        \* its client_socket
  owner,     \* descriptor -> the connection it is open for
  user,      \* handle_client's username
  room,      \* handle_client's room (handle_join's current_room)
  clients,   \* the shared vector, as the set of its elements with their order
  nextPos,   \* order of the next element push_back appends
  todo,      \* calls the current handler has still to make
  reads,     \* frames read so far
  out,       \* frames written to the connection
  stalled,   \* peers that have stopped reading with a full socket buffer
  lost,      \* peers that are gone: closed, reset or unreachable
  waiting    \* the connection whose buffer a handler waits for in send()

dbVars  == <<accounts, messages>>
netVars == <<stalled, lost, waiting>>
vars    == <<pc, fd, owner, user, room, clients, nextPos, todo, reads, out,
             stalled, lost, waiting, accounts, messages>>

-----------------------------------------------------------------------------
(***************************************************************************)
(* Frames the server sends.  Texts are named by what they tell the client. *)
(* `by`, `session` and `upto` are auxiliary: the connection a notice is     *)
(* about, the session that was found for a direct message, and the number  *)
(* of rows the table held when a history was read.                         *)
(***************************************************************************)
System(text)    == [type |-> "System", text |-> text]
Notice(text, c, r) == [type |-> "System", text |-> text, by |-> c, room |-> r]
NotStored(x)    == [type |-> "System", text |-> "not stored", content |-> x]
RoomList(count) == [type |-> "System", text |-> "rooms", online |-> count]
AuthFail        == [type |-> "AuthFail"]
AuthOk(u, r)    == [type |-> "AuthOk", username |-> u, room |-> r]
Joined(r)       == [type |-> "Joined", room |-> r]
ChatMsg(m)      == [type |-> "ChatMsg", message |-> m]
DirectMsg(m, u, d) == [type |-> "DirectMsg", message |-> m, to |-> u, session |-> d]
History(S, n)   == [type |-> "History", rows |-> S, upto |-> n]
UsersList(S)    == [type |-> "UsersList", names |-> S]

\* An element of `clients`.  The vector only grows by push_back and shrinks by
\* a stable remove_if, so its order is the order of registration, kept in pos.
ClientInfo == [socket : Fds, username : Users, room : Rooms, pos : Nat]

\* Calls a handler makes that touch state shared with other threads.
Send(f, frame)         == [op |-> "send", to |-> f, frame |-> frame]
SendEach(S, frame)     == [op |-> "send each", to |-> S, frame |-> frame]
Broadcast(r, frame, f) == [op |-> "broadcast", room |-> r, frame |-> frame,
                           exclude |-> f]
SetRoom(r)             == [op |-> "set_room", room |-> r]
Replay(k, n)           == [op |-> "replay", room |-> k, limit |-> n]
Store(m)               == [op |-> "store", message |-> m]
ListRooms(count)       == [op |-> "list_rooms", online |-> count]

\* What a frame is recorded as: its type, or for a System frame its text.
Kind(frame) == IF frame.type = "System" THEN frame.text ELSE frame.type

Text == {"created", "welcome", "no history", "already here",
         "offline", "refused", "goodbye"}

Frame ==
  [type : {"System"}, text : Text]
  \cup [type : {"System"}, text : {"joined", "left"}, by : Conns, room : Rooms]
  \cup [type : {"System"}, text : {"not stored"}, content : Contents]
  \cup [type : {"System"}, text : {"rooms"}, online : SUBSET (Keys \X Nat)]
  \cup [type : {"AuthFail"}]
  \cup [type : {"AuthOk"}, username : Users, room : Rooms]
  \cup [type : {"Joined"}, room : Rooms]
  \cup [type : {"ChatMsg"}, message : Message]
  \cup [type : {"DirectMsg"}, message : Message, to : Users, session : Conns]
  \cup [type : {"History"}, rows : SUBSET Nat, upto : Nat]
  \cup [type : {"UsersList"}, names : SUBSET (Nat \X Users)]

Call ==
  [op : {"send"}, to : Fds, frame : Frame]
  \cup [op : {"send each"}, to : SUBSET ClientInfo, frame : Frame]
  \cup [op : {"broadcast"}, room : Rooms, frame : Frame,
        exclude : Fds \cup {INVALID_SOCKET}]
  \cup [op : {"set_room"}, room : Rooms]
  \cup [op : {"replay"}, room : Keys, limit : Nat]
  \cup [op : {"store"}, message : Message]
  \cup [op : {"list_rooms"}, online : SUBSET (Rooms \X Nat)]

\* The types of the variables: what handle_client keeps on its stack, the
\* shared vector, the descriptor table and the two tables of the database.
TypeOK ==
  /\ DatabaseTypeOK
  /\ pc \in [Conns -> {"none", "auth", "enter", "loop", "leave", "close", "done"}]
  /\ fd \in [Conns -> Fds \cup {INVALID_SOCKET}]
  /\ owner \in [Fds -> Conns \cup {NoConn}]
  /\ user \in [Conns -> Users \cup {NoUser}]
  /\ room \in [Conns -> Rooms]
  /\ clients \in SUBSET ClientInfo
  /\ nextPos \in Nat
  /\ todo \in [Conns -> Seq(Call)]
  /\ reads \in [Conns -> 0..MaxReads]
  /\ out \in [Conns -> Seq(Frame)]
  /\ stalled \in SUBSET Conns /\ lost \in SUBSET Conns
  /\ waiting \in [Conns -> Conns \cup {NoConn}]

Init ==
  /\ pc = [c \in Conns |-> "none"]
  /\ fd = [c \in Conns |-> INVALID_SOCKET]
  /\ owner = [f \in Fds |-> NoConn]
  /\ user = [c \in Conns |-> NoUser]
  /\ room = [c \in Conns |-> kDefaultRoom]
  /\ clients = {}
  /\ nextPos = 1
  /\ todo = [c \in Conns |-> <<>>]
  /\ reads = [c \in Conns |-> 0]
  /\ out = [c \in Conns |-> <<>>]
  /\ stalled = {} /\ lost = {}
  /\ waiting = [c \in Conns |-> NoConn]
  /\ accounts = InitialAccounts
  /\ messages = <<>>

-----------------------------------------------------------------------------
(***************************************************************************)
(* main: accept() returns a connection on any free descriptor, and a new   *)
(* detached thread handles it.                                             *)
(***************************************************************************)
Accept(c, f) ==
  /\ pc[c] = "none"
  /\ owner[f] = NoConn
  /\ pc' = [pc EXCEPT ![c] = "auth"]
  /\ fd' = [fd EXCEPT ![c] = f]
  /\ owner' = [owner EXCEPT ![f] = c]
  /\ UNCHANGED <<user, room, clients, nextPos, todo, reads, out, netVars, dbVars>>

\* Fault: the thread ends and its descriptor stays open.
CloseSocketLeaks(c) ==
  /\ pc' = [pc EXCEPT ![c] = "done"]
  /\ UNCHANGED owner

\* closesocket and the return of handle_client.
CloseSocket(c) ==
  /\ pc' = [pc EXCEPT ![c] = "done"]
  /\ owner' = [owner EXCEPT ![fd[c]] = NoConn]

\* Sets the calls the handler of c is about to make.
Do(c, calls) == todo' = [todo EXCEPT ![c] = calls]

\* read_next_frame returns a frame of type `kind` to the handler, which has no
\* call pending.
Reading(c, where, kind) ==
  /\ kind \in Kinds
  /\ pc[c] = where
  /\ todo[c] = <<>>
  /\ reads[c] < MaxReads
  /\ reads' = [reads EXCEPT ![c] = @ + 1]

-----------------------------------------------------------------------------
(***************************************************************************)
(* handle_auth, in a loop until it succeeds or the client is gone.         *)
(***************************************************************************)
AuthDisconnected(c) ==
  /\ pc[c] = "auth"
  /\ todo[c] = <<>>
  /\ CloseSocket(c)
  /\ UNCHANGED <<fd, user, room, clients, nextPos, todo, reads, out, netVars, dbVars>>

\* Malformed, not a credential frame, no separator, or a name or password the
\* rules for new accounts refuse.
AuthRefused(c) ==
  /\ Reading(c, "auth", "Other")
  /\ Do(c, <<Send(fd[c], AuthFail)>>)
  /\ UNCHANGED <<pc, fd, owner, user, room, clients, nextPos, out, netVars, dbVars>>

AuthAs(c, u, calls) ==
  /\ pc' = [pc EXCEPT ![c] = "enter"]
  /\ user' = [user EXCEPT ![c] = u]
  /\ Do(c, calls)

Register(c, u, p) ==
  /\ Reading(c, "auth", "Register")
  /\ \/ /\ register_user(u, p, TRUE)
        /\ AuthAs(c, u, <<Send(fd[c], System("created"))>>)
     \/ /\ register_user(u, p, FALSE)
        /\ Do(c, <<Send(fd[c], AuthFail)>>)
        /\ UNCHANGED <<pc, user>>
  /\ UNCHANGED <<fd, owner, room, clients, nextPos, out, netVars, messages>>

Login(c, u, p) ==
  /\ Reading(c, "auth", "Login")
  /\ \/ /\ authenticate_user(u, p, TRUE)
        /\ AuthAs(c, u, <<>>)
     \/ /\ authenticate_user(u, p, FALSE)
        /\ Do(c, <<Send(fd[c], AuthFail)>>)
        /\ UNCHANGED <<pc, user>>
  /\ UNCHANGED <<fd, owner, room, clients, nextPos, out, netVars, dbVars>>

\* clients.push_back under clients_mutex.
PushBack(c) ==
  /\ clients' = clients \cup {[socket |-> fd[c], username |-> user[c],
                               room |-> kDefaultRoom, pos |-> nextPos]}
  /\ nextPos' = nextPos + 1

\* The calls that greet a client; the two lines of welcome and of commands are
\* one text here.
Greeting(c) ==
  <<Send(fd[c], AuthOk(user[c], kDefaultRoom)),
    Send(fd[c], System("welcome")),
    Replay(kDefaultRoom, kHistoryLimit),
    Broadcast(kDefaultRoom, Notice("joined", c, kDefaultRoom), fd[c])>>

Enter(c) ==
  /\ pc[c] = "enter" /\ todo[c] = <<>>
  /\ pc' = [pc EXCEPT ![c] = "loop"]
  /\ room' = [room EXCEPT ![c] = kDefaultRoom]
  /\ PushBack(c) /\ Do(c, Greeting(c))
  /\ UNCHANGED <<fd, owner, user, reads, out, netVars, dbVars>>

-----------------------------------------------------------------------------
(***************************************************************************)
(* The message loop of handle_client: what each message type makes the     *)
(* handler do.                                                             *)
(***************************************************************************)
Handle(c, kind, calls) ==
  /\ Reading(c, "loop", kind)
  /\ Do(c, calls)
  /\ UNCHANGED <<pc, fd, owner, user, room, clients, nextPos, out, netVars, dbVars>>

\* The message for room key k in the frame being read: each client numbers what
\* it types, and now_seconds() is t.
Typed(c, k, t) == [room |-> k, username |-> user[c],
                   content |-> <<c, reads[c] + 1>>, sent_at |-> t]

\* Fault: the message is broadcast before it is stored.
ChatBroadcastFirst(c, t) ==
  LET m == Typed(c, room[c], t)
  IN  Handle(c, "Chat", <<Broadcast(room[c], ChatMsg(m), fd[c]), Store(m)>>)

Chat(c, t) ==
  LET m == Typed(c, room[c], t)
  IN  Handle(c, "Chat", <<Store(m), Broadcast(room[c], ChatMsg(m), fd[c])>>)

\* Fault: current_room is assigned before the departure is announced.
JoinLeavesNewRoom(c, r) ==
  /\ r # room[c]
  /\ Handle(c, "Join", <<Broadcast(r, Notice("left", c, r), fd[c]),
                         SetRoom(r),
                         Send(fd[c], Joined(r)),
                         Broadcast(r, Notice("joined", c, r), fd[c])>>)

\* Fault: the arrival is announced before set_room.
JoinAnnouncesFirst(c, r) ==
  /\ r # room[c]
  /\ Handle(c, "Join",
            <<Broadcast(room[c], Notice("left", c, room[c]), fd[c]),
              Broadcast(r, Notice("joined", c, r), fd[c]),
              SetRoom(r),
              Send(fd[c], Joined(r))>>)

\* handle_join; r is what sanitize_room makes of the request.
Join(c, r) ==
  \/ /\ r = room[c]
     /\ Handle(c, "Join", <<Send(fd[c], System("already here"))>>)
  \/ /\ r # room[c]
     /\ Handle(c, "Join",
               <<Broadcast(room[c], Notice("left", c, room[c]), fd[c]),
                 SetRoom(r),
                 Send(fd[c], Joined(r)),
                 Broadcast(r, Notice("joined", c, r), fd[c]),
                 Replay(r, kHistoryLimit)>>)

\* Fault: a limit below one is not raised.
history_limit_unclamped(n) ==
  IF n = NoNumber THEN kHistoryLimit
  ELSE IF n > MaxHistory THEN MaxHistory ELSE n

\* The number of rows handle_history_request asks for.
history_limit(n) ==
  IF n = NoNumber THEN kHistoryLimit
  ELSE IF n <= 0 THEN 1
  ELSE IF n > MaxHistory THEN MaxHistory
  ELSE n

\* handle_history_request: the current room, or the thread with user u.
HistoryReq(c, k, n) ==
  /\ k \in {room[c]} \cup {dm_room_key(user[c], u) : u \in Users}
  /\ Handle(c, "HistoryReq", <<Replay(k, history_limit(n))>>)

\* build_room_list: the members are counted under the lock, the database is
\* asked afterwards.
RoomsReq(c) ==
  LET online == {<<r, Cardinality({e \in clients : e.room = r})>> :
                   r \in {e.room : e \in clients}}
  IN  Handle(c, "RoomsReq", <<ListRooms(online)>>)

\* The elements of S that come first in the vector.
First(S) == {e \in S : \A o \in S : e.pos <= o.pos}

find_client_by_username(u) == First({e \in clients : e.username = u})

\* Fault: the author's copy is sent before the target's.
DirectEchoFirst(c, u, t) ==
  LET m == Typed(c, dm_room_key(user[c], u), t)
  IN  \E e \in find_client_by_username(u) :
        LET copy == DirectMsg(m, u, owner[e.socket])
        IN  Handle(c, "Direct", <<Store(m), Send(fd[c], copy), Send(e.socket, copy)>>)

Direct(c, u, t) ==
  LET m == Typed(c, dm_room_key(user[c], u), t)
  IN  \/ /\ find_client_by_username(u) = {}
         /\ Handle(c, "Direct", <<Send(fd[c], System("offline"))>>)
      \/ \E e \in find_client_by_username(u) :
           LET copy == DirectMsg(m, u, owner[e.socket])
           IN  Handle(c, "Direct", <<Store(m), Send(e.socket, copy), Send(fd[c], copy)>>)

users_in_room(r) == {<<e.pos, e.username>> : e \in {x \in clients : x.room = r}}

UsersReq(c, r) ==
  Handle(c, "UsersReq", <<Send(fd[c], UsersList(users_in_room(r)))>>)

\* Frames that only get an answer (malformed, unsupported, a usage error, an
\* empty room name), and the blank chat line, which gets none.
Other(c) ==
  \/ Handle(c, "Other", <<Send(fd[c], System("refused"))>>)
  \/ Handle(c, "Other", <<>>)

Quit(c) ==
  /\ Reading(c, "loop", "Quit")
  /\ pc' = [pc EXCEPT ![c] = "leave"]
  /\ Do(c, <<Send(fd[c], System("goodbye"))>>)
  /\ UNCHANGED <<fd, owner, user, room, clients, nextPos, out, netVars, dbVars>>

\* Fault: the socket is closed as soon as recv fails, before the erase.
DisconnectedCloses(c) ==
  /\ pc[c] = "loop"
  /\ todo[c] = <<>>
  /\ pc' = [pc EXCEPT ![c] = "leave"]
  /\ owner' = [owner EXCEPT ![fd[c]] = NoConn]
  /\ UNCHANGED <<fd, user, room, clients, nextPos, todo, reads, out, netVars, dbVars>>

\* recv returns 0 or an error, or extract_frames refuses the stream.
Disconnected(c) ==
  /\ pc[c] = "loop"
  /\ todo[c] = <<>>
  /\ pc' = [pc EXCEPT ![c] = "leave"]
  /\ UNCHANGED <<fd, owner, user, room, clients, nextPos, todo, reads, out,
                 netVars, dbVars>>

\* clients.erase under the lock, then the farewell broadcast.
Leave(c) ==
  /\ pc[c] = "leave"
  /\ todo[c] = <<>>
  /\ pc' = [pc EXCEPT ![c] = "close"]
  /\ clients' = {e \in clients : e.socket # fd[c]}
  /\ Do(c, <<Broadcast(room[c], Notice("left", c, room[c]), INVALID_SOCKET)>>)
  /\ UNCHANGED <<fd, owner, user, room, nextPos, reads, out, netVars, dbVars>>

Close(c) ==
  /\ pc[c] = "close"
  /\ todo[c] = <<>>
  /\ CloseSocket(c)
  /\ UNCHANGED <<fd, user, room, clients, nextPos, todo, reads, out, netVars, dbVars>>

-----------------------------------------------------------------------------
(***************************************************************************)
(* The calls, one step per access to shared state.                         *)
(***************************************************************************)
Calling(c, op) == todo[c] # <<>> /\ Head(todo[c]).op = op

\* The call at the head returns; `calls` are what remains of it.
Returns(c, calls) == todo' = [todo EXCEPT ![c] = calls \o Tail(@)]

\* send_frame refuses a payload above kMaxFramePayloadSize: a history of too many
\* rows, and a message whose text came in a frame of that size, alone or in a
\* history.  Lists of rooms and users would need thousands of clients.
Fits(frame) ==
  /\ frame.type \in {"ChatMsg", "DirectMsg"} => frame.message.content \notin LongTexts
  /\ frame.type = "History" =>
       /\ Cardinality(frame.rows) <= FrameRows
       /\ \A i \in frame.rows : messages[i].content \notin LongTexts

\* The connection that a send() of c on descriptor f writes to: the one f is open
\* for when the call begins.  A call that waits keeps its connection, whoever
\* closes the descriptor meanwhile.
Target(c, f) == IF waiting[c] = NoConn THEN owner[f] ELSE waiting[c]

\* send() on the connection d: an error if its peer is gone.
Deliver(d, frame) ==
  out' = [out EXCEPT ![d] = IF d \notin lost /\ Kind(frame) \in Watched
                            THEN Append(@, frame) ELSE @]

\* send_frame on descriptor f, in a call that did not have to wait or need not
\* wait any more.  On a closed descriptor send() fails.  No caller looks at the
\* result.
Write(c, f, frame) ==
  /\ waiting[c] # NoConn => f = fd[waiting[c]]
  /\ \/ /\ Fits(frame) /\ Target(c, f) \in Conns \ stalled
        /\ Deliver(Target(c, f), frame)
     \/ /\ ~Fits(frame) \/ Target(c, f) = NoConn
        /\ UNCHANGED out
  /\ waiting' = [waiting EXCEPT ![c] = NoConn]

CallSend(c) ==
  /\ Calling(c, "send")
  /\ LET call == Head(todo[c]) IN Write(c, call.to, call.frame)
  /\ Returns(c, <<>>)
  /\ UNCHANGED <<pc, fd, owner, user, room, clients, nextPos, reads, stalled, lost,
                 dbVars>>

\* broadcast_to_room, under the lock: the recipients are copied.
CallBroadcast(c) ==
  /\ Calling(c, "broadcast")
  /\ LET call == Head(todo[c])
         recipients == {e \in clients : e.room = call.room /\ e.socket # call.exclude}
     IN  Returns(c, IF recipients = {} THEN <<>>
                    ELSE <<SendEach(recipients, call.frame)>>)
  /\ UNCHANGED <<pc, fd, owner, user, room, clients, nextPos, reads, out, netVars, dbVars>>

\* broadcast_to_room, after the lock: one send_frame per copied descriptor.
CallSendEach(c) ==
  /\ Calling(c, "send each")
  /\ LET call == Head(todo[c])
     IN  \E e \in First(call.to) :
           /\ Write(c, e.socket, call.frame)
           /\ Returns(c, IF call.to = {e} THEN <<>>
                         ELSE <<SendEach(call.to \ {e}, call.frame)>>)
  /\ UNCHANGED <<pc, fd, owner, user, room, clients, nextPos, reads, stalled, lost,
                 dbVars>>

\* send() waits while the buffers of the connection's peer are full.
WaitFor(c, f, frame) ==
  /\ waiting[c] = NoConn
  /\ Fits(frame) /\ owner[f] \in stalled
  /\ waiting' = [waiting EXCEPT ![c] = owner[f]]

SendWaits(c) ==
  /\ \/ /\ Calling(c, "send")
        /\ WaitFor(c, Head(todo[c]).to, Head(todo[c]).frame)
     \/ /\ Calling(c, "send each")
        /\ \E e \in First(Head(todo[c]).to) : WaitFor(c, e.socket, Head(todo[c]).frame)
  /\ UNCHANGED <<pc, fd, owner, user, room, clients, nextPos, todo, reads, out,
                 stalled, lost, dbVars>>

\* Fault: only the handler's own variable changes.
CallSetRoomLocal(c) ==
  /\ Calling(c, "set_room")
  /\ room' = [room EXCEPT ![c] = Head(todo[c]).room]
  /\ Returns(c, <<>>)
  /\ UNCHANGED <<pc, fd, owner, user, clients, nextPos, reads, out, netVars, dbVars>>

\* current_room = new_room and set_room: the first element with this socket.
CallSetRoom(c) ==
  /\ Calling(c, "set_room")
  /\ LET r    == Head(todo[c]).room
         mine == First({e \in clients : e.socket = fd[c]})
     IN  /\ room' = [room EXCEPT ![c] = r]
         /\ clients' = (clients \ mine) \cup {[e EXCEPT !.room = r] : e \in mine}
  /\ Returns(c, <<>>)
  /\ UNCHANGED <<pc, fd, owner, user, nextPos, reads, out, netVars, dbVars>>

\* replay_history: one query, then one frame.
CallReplay(c) ==
  /\ Calling(c, "replay")
  /\ LET call == Head(todo[c])
     IN  \E rows \in get_recent_messages(call.room, call.limit) :
           Returns(c, IF rows = {} THEN <<Send(fd[c], System("no history"))>>
                      ELSE <<Send(fd[c], History(rows, Len(messages)))>>)
  /\ UNCHANGED <<pc, fd, owner, user, room, clients, nextPos, reads, out, netVars, dbVars>>

\* Fault: the result of add_message is ignored.
CallStoreUnreported(c) ==
  /\ Calling(c, "store")
  /\ \E ok \in BOOLEAN : add_message(Head(todo[c]).message, ok)
  /\ Returns(c, <<>>)
  /\ UNCHANGED <<pc, fd, owner, user, room, clients, nextPos, reads, out, netVars,
                 accounts>>

\* Fault: the handler is done once the message is stored.
CallStoreBreaks(c) ==
  /\ Calling(c, "store")
  /\ add_message(Head(todo[c]).message, TRUE)
  /\ Do(c, <<>>)
  /\ UNCHANGED <<pc, fd, owner, user, room, clients, nextPos, reads, out, netVars,
                 accounts>>

\* db.add_message; a failure is reported to the author and the handler goes on.
CallStore(c) ==
  /\ Calling(c, "store")
  /\ LET m == Head(todo[c]).message
     IN  \/ /\ add_message(m, TRUE)
            /\ Returns(c, <<>>)
         \/ /\ add_message(m, FALSE)
            /\ Returns(c, <<Send(fd[c], NotStored(m.content))>>)
  /\ UNCHANGED <<pc, fd, owner, user, room, clients, nextPos, reads, out, netVars,
                 accounts>>

\* db.list_rooms and the rest of build_room_list: every known room, and every
\* room somebody is in, with its count.
CallListRooms(c) ==
  /\ Calling(c, "list_rooms")
  /\ LET online == Head(todo[c]).online
     IN  \E known \in list_rooms(RoomListLimit) :
           Returns(c, <<Send(fd[c], RoomList(
             online \cup {<<k, 0>> : k \in known \ {p[1] : p \in online}}))>>)
  /\ UNCHANGED <<pc, fd, owner, user, room, clients, nextPos, reads, out, netVars, dbVars>>

-----------------------------------------------------------------------------
(***************************************************************************)
(* The peers' side of the sockets (external): a slow peer stops reading    *)
(* until its buffers are full, and may read again; a peer may close or     *)
(* reset its end or vanish, and whoever waits for it gets an error.  What  *)
(* it sent before is still read.                                           *)
(***************************************************************************)
Stall(c) ==
  /\ c \in SlowPeers \ (stalled \cup lost)
  /\ pc[c] \notin {"none", "done"}
  /\ stalled' = stalled \cup {c}
  /\ UNCHANGED <<pc, fd, owner, user, room, clients, nextPos, todo, reads, out, lost,
                 waiting, dbVars>>

Resume(c) ==
  /\ c \in stalled
  /\ stalled' = stalled \ {c}
  /\ UNCHANGED <<pc, fd, owner, user, room, clients, nextPos, todo, reads, out, lost,
                 waiting, dbVars>>

Lose(c) ==
  /\ c \in LossyPeers \ lost
  /\ pc[c] \notin {"none", "done"} \/ c \in stalled
  /\ lost' = lost \cup {c}
  /\ stalled' = stalled \ {c}
  /\ UNCHANGED <<pc, fd, owner, user, room, clients, nextPos, todo, reads, out,
                 waiting, dbVars>>

\* accept() waits for ever once no further connection arrives.
AcceptWaits ==
  /\ \A c \in Conns : pc[c] = "done"
  /\ UNCHANGED vars

(***************************************************************************)
(* The process ends, wherever its threads are, and is started again on the *)
(* same database file: open() finds the tables, main listens, and clients  *)
(* connect anew.  Memory and descriptors are those of a new process; what  *)
(* register_user and add_message have stored is all that is left.          *)
(***************************************************************************)
Restart ==
  /\ Restarts
  /\ pc' = [c \in Conns |-> "none"]
  /\ fd' = [c \in Conns |-> INVALID_SOCKET]
  /\ owner' = [f \in Fds |-> NoConn]
  /\ user' = [c \in Conns |-> NoUser]
  /\ room' = [c \in Conns |-> kDefaultRoom]
  /\ clients' = {}
  /\ nextPos' = 1
  /\ todo' = [c \in Conns |-> <<>>]
  /\ out' = [c \in Conns |-> <<>>]
  /\ stalled' = {} /\ lost' = {}
  /\ waiting' = [c \in Conns |-> NoConn]
  /\ UNCHANGED <<reads, dbVars>>

-----------------------------------------------------------------------------
Auth(c) ==
  \/ AuthDisconnected(c)
  \/ AuthRefused(c)
  \/ \E u \in Users, p \in Passwords : Register(c, u, p) \/ Login(c, u, p)

Request(c) ==
  \/ \E t \in Times : Chat(c, t)
  \/ \E r \in Rooms : Join(c, r) \/ UsersReq(c, r)
  \/ \E k \in Keys, n \in Limits \cup {NoNumber} : HistoryReq(c, k, n)
  \/ RoomsReq(c)
  \/ \E u \in Users, t \in Times : Direct(c, u, t)
  \/ Other(c)
  \/ Quit(c)
  \/ Disconnected(c)

\* What the handler thread does without waiting for its client.
Thread(c) ==
  \/ Enter(c) \/ Leave(c) \/ Close(c)
  \/ CallSend(c) \/ CallBroadcast(c) \/ CallSendEach(c) \/ SendWaits(c)
  \/ CallSetRoom(c) \/ CallReplay(c) \/ CallStore(c) \/ CallListRooms(c)

Next ==
  \/ \E c \in Conns : \/ \E f \in Fds : Accept(c, f)
                      \/ Auth(c) \/ Request(c) \/ Thread(c)
                      \/ Stall(c) \/ Resume(c) \/ Lose(c)
  \/ Restart
  \/ AcceptWaits

\* The operating system schedules every handler thread; clients owe nothing.
Fairness == \A c \in Conns : WF_vars(Thread(c))

Spec     == Init /\ [][Next]_vars
FairSpec == Spec /\ Fairness
=============================================================================

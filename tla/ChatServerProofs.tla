-------------------------- MODULE ChatServerProofs --------------------------
(***************************************************************************)
(* Proofs that the variables of ChatServer keep their types, that a        *)
(* handler owns its descriptor until it closes it, and that `clients`      *)
(* matches the handlers, for any number of connections, descriptors,       *)
(* users, rooms and frames, and across restarts.                           *)
(*                                                                         *)
(* The second half is what the other safety proofs of ChatServer share:    *)
(* the steps of the server sorted by what they do to the calls a handler   *)
(* has still to make, and an invariant about those calls.                  *)
(***************************************************************************)
EXTENDS ChatServerProperties, FiniteSetTheorems, TLAPS

\* Calls other than set_room.  Only the message loop makes that one.
PlainCall == {call \in Call : call.op # "set_room"}

\* What the three invariants need besides each other.
HandlerFacts ==
  /\ \A c \in Conns : todo[c] # <<>> => pc[c] \notin {"none", "done"}
  /\ \A c \in Conns : pc[c] # "loop" => todo[c] \in Seq(PlainCall)
  /\ \A c \in Conns : pc[c] \in {"enter", "loop", "leave", "close"} => user[c] \in Users
  /\ \A e \in clients : e.pos < nextPos
  /\ IsFiniteSet(clients)

\* Calls that send.
Sends == {"send", "send each"}

\* A handler that waits is at a call that sends, and waits for a connection that
\* was accepted: for its own, if that has its own descriptor.
Waits ==
  \A c \in Conns : waiting[c] # NoConn =>
    /\ todo[c] # <<>> /\ Head(todo[c]).op \in Sends
    /\ pc[waiting[c]] # "none"
    /\ fd[waiting[c]] = fd[c] => waiting[c] = c

IInv == TypeOK /\ DescriptorsOwned /\ RegistryMatchesHandlers /\ HandlerFacts /\ Waits

-----------------------------------------------------------------------------
\* Every frame constructor yields a frame.
LEMMA FrameTypes ==
  /\ \A t \in Text : System(t) \in Frame
  /\ \A t \in {"joined", "left"}, c \in Conns, r \in Rooms : Notice(t, c, r) \in Frame
  /\ \A x \in Contents : NotStored(x) \in Frame
  /\ \A S \in SUBSET (Keys \X Nat) : RoomList(S) \in Frame
  /\ AuthFail \in Frame
  /\ \A u \in Users, r \in Rooms : AuthOk(u, r) \in Frame
  /\ \A r \in Rooms : Joined(r) \in Frame
  /\ \A m \in Message : ChatMsg(m) \in Frame
  /\ \A m \in Message, u \in Users, d \in Conns : DirectMsg(m, u, d) \in Frame
  /\ \A S \in SUBSET Nat, n \in Nat : History(S, n) \in Frame
  /\ \A S \in SUBSET (Nat \X Users) : UsersList(S) \in Frame
  BY DEF Frame, System, Notice, NotStored, RoomList, AuthFail, AuthOk, Joined,
         ChatMsg, DirectMsg, History, UsersList

\* Every call constructor yields a call, and only SetRoom one that is not plain.
LEMMA CallTypes ==
  /\ \A f \in Fds, frame \in Frame : Send(f, frame) \in PlainCall
  /\ \A S \in SUBSET ClientInfo, frame \in Frame : SendEach(S, frame) \in PlainCall
  /\ \A r \in Rooms, frame \in Frame, f \in Fds \cup {INVALID_SOCKET} :
       Broadcast(r, frame, f) \in PlainCall
  /\ \A r \in Rooms : SetRoom(r) \in Call
  /\ \A k \in Keys, n \in Nat : Replay(k, n) \in PlainCall
  /\ \A m \in Message : Store(m) \in PlainCall
  /\ \A S \in SUBSET (Rooms \X Nat) : ListRooms(S) \in PlainCall
  BY DEF PlainCall, Call, Send, SendEach, Broadcast, SetRoom, Replay, Store, ListRooms

\* What the operation of a call says about its fields.
LEMMA CallFields ==
  ASSUME NEW call \in Call
  PROVE  /\ call.op = "send" => call.to \in Fds /\ call.frame \in Frame
         /\ call.op = "send each" => call.to \in SUBSET ClientInfo /\ call.frame \in Frame
         /\ call.op = "broadcast" => call.frame \in Frame
         /\ call.op = "set_room" => call.room \in Rooms
         /\ call.op = "replay" => call.room \in Keys /\ call.limit \in Nat
         /\ call.op = "store" => call.message \in Message
         /\ call.op = "list_rooms" => call.online \in SUBSET (Rooms \X Nat)
  BY DEF Call

\* The calls left after the one at the head returned.
LEMMA ReturnsTypes ==
  ASSUME NEW S, NEW s \in Seq(S), s # <<>>, NEW t \in Seq(S)
  PROVE  /\ Head(s) \in S
         /\ t \o Tail(s) \in Seq(S)
  OBVIOUS

\* Appending an element of S keeps a sequence over S.
LEMMA AppendTypes ==
  ASSUME NEW S, NEW s \in Seq(S), NEW x \in S
  PROVE  Append(s, x) \in Seq(S)
  OBVIOUS

\* A list of one call.
LEMMA OneCall ==
  ASSUME NEW S, NEW x \in S
  PROVE  <<x>> \in Seq(S)
  OBVIOUS

-----------------------------------------------------------------------------
(***************************************************************************)
(* Steps that only change what a handler has still to do and what it has   *)
(* read and written: handlers, descriptors and `clients` stay as they are. *)
(***************************************************************************)
\* Nobody begins to wait, and c does not wait any more.
Unwaits(c) ==
  /\ waiting' \in [Conns -> Conns \cup {NoConn}]
  /\ \A d \in Conns : waiting'[d] \in {waiting[d], NoConn}
  /\ waiting'[c] = NoConn

\* The facts about waiting handlers stand if nobody begins to wait and only c,
\* which does not wait, gets other calls to make.
LEMMA WaitsKept ==
  ASSUME IInv, NEW c \in Conns, Unwaits(c), UNCHANGED fd,
         NEW calls, todo' = [todo EXCEPT ![c] = calls],
         \A d \in Conns : pc[d] # "none" => pc'[d] # "none"
  PROVE  Waits'
<1>1. /\ waiting \in [Conns -> Conns \cup {NoConn}] /\ Waits
      /\ \A d \in Conns : d # c => todo'[d] = todo[d]
  BY DEF IInv, TypeOK
<1>2. QED
  BY <1>1 DEF Unwaits, Waits

\* The peers and the waiting handlers are left alone.
LEMMA NetKept ==
  ASSUME IInv, NEW c \in Conns, todo[c] = <<>> \/ Head(todo[c]).op \notin Sends,
         UNCHANGED netVars
  PROVE  Unwaits(c) /\ UNCHANGED <<stalled, lost>>
  BY DEF IInv, TypeOK, netVars, Waits, Unwaits

LEMMA QuietStep ==
  ASSUME IInv, NEW c \in Conns, pc[c] \notin {"none", "done"},
         NEW calls \in Seq(Call), pc[c] # "loop" => calls \in Seq(PlainCall),
         todo' = [todo EXCEPT ![c] = calls],
         UNCHANGED <<pc, fd, owner, user, room, clients, nextPos, stalled, lost>>,
         Unwaits(c),
         reads' \in [Conns -> 0..MaxReads],
         out' \in [Conns -> Seq(Frame)],
         DatabaseTypeOK'
  PROVE  IInv'
<1>1. TypeOK'
  BY DEF IInv, TypeOK, Unwaits
<1>2. DescriptorsOwned'
  BY DEF IInv, DescriptorsOwned
<1>3. RegistryMatchesHandlers'
  BY DEF IInv, RegistryMatchesHandlers, Registered
<1>4. HandlerFacts'
  BY DEF IInv, TypeOK, HandlerFacts
<1>5. Waits'
  BY WaitsKept
<1>6. QED
  BY <1>1, <1>2, <1>3, <1>4, <1>5 DEF IInv

\* A live handler's descriptor, and the state of one that reads a frame.
LEMMA OwnSocket ==
  ASSUME IInv, NEW c \in Conns, pc[c] \notin {"none", "done"}
  PROVE  fd[c] \in Fds
  BY DEF IInv, DescriptorsOwned

\* A handler that reads a frame stays within the bound on frames.
LEMMA ReadingTypes ==
  ASSUME IInv, NEW c \in Conns, NEW where, NEW kind, Reading(c, where, kind)
  PROVE  reads' \in [Conns -> 0..MaxReads]
  BY ServerAssumption DEF IInv, TypeOK, Reading

\* A frame of the message loop that is answered by the calls of `Handle`.
LEMMA HandleStep ==
  ASSUME IInv, NEW c \in Conns, NEW kind, NEW calls \in Seq(Call), Handle(c, kind, calls)
  PROVE  IInv'
<1>1. pc[c] = "loop"
  BY DEF Handle, Reading
<1>2. reads' \in [Conns -> 0..MaxReads]
  BY ReadingTypes DEF Handle
<1>3. out' \in [Conns -> Seq(Frame)] /\ DatabaseTypeOK'
  BY DEF IInv, TypeOK, Handle, DatabaseTypeOK, dbVars
<1>4. Unwaits(c) /\ UNCHANGED <<stalled, lost>>
  BY NetKept DEF Handle, Reading
<1>5. QED
  BY <1>1, <1>2, <1>3, <1>4, QuietStep DEF Handle, Do

\* The messages a client of the loop types.
LEMMA TypedTypes ==
  ASSUME IInv, NEW c \in Conns, pc[c] = "loop", reads[c] < MaxReads,
         NEW k \in Keys, NEW t \in Times
  PROVE  Typed(c, k, t) \in Message
<1>1. user[c] \in Users
  BY DEF IInv, HandlerFacts
<1>2. reads[c] + 1 \in 1..MaxReads
  BY ServerAssumption DEF IInv, TypeOK
<1>3. <<c, reads[c] + 1>> \in Contents
  BY <1>2, ServerAssumption
<1>4. QED
  BY <1>1, <1>3 DEF Typed, Message

-----------------------------------------------------------------------------
\* A chat line: store, then broadcast to the author's room.
LEMMA ChatStep ==
  ASSUME IInv, NEW c \in Conns, NEW t \in Times, Chat(c, t)
  PROVE  IInv'
<1> DEFINE m == Typed(c, room[c], t)
<1>1. pc[c] = "loop" /\ reads[c] < MaxReads
  BY DEF Chat, Handle, Reading
<1>2. room[c] \in Rooms /\ room[c] \in Keys
  BY DEF IInv, TypeOK, Keys
<1>3. m \in Message
  BY <1>1, <1>2, TypedTypes
<1>4. Store(m) \in Call /\ Broadcast(room[c], ChatMsg(m), fd[c]) \in Call
  BY <1>1, <1>2, <1>3, OwnSocket, FrameTypes, CallTypes DEF PlainCall
<1>5. <<Store(m), Broadcast(room[c], ChatMsg(m), fd[c])>> \in Seq(Call)
  BY <1>4
<1>6. QED
  BY <1>5, HandleStep DEF Chat

\* handle_join, in the same room or to another one.
LEMMA JoinStep ==
  ASSUME IInv, NEW c \in Conns, NEW r \in Rooms, Join(c, r)
  PROVE  IInv'
<1>1. pc[c] = "loop" /\ fd[c] \in Fds
  BY OwnSocket DEF Join, Handle, Reading
<1>2. room[c] \in Rooms /\ r \in Keys
  BY DEF IInv, TypeOK, Keys
<1>3. kHistoryLimit \in Nat
  BY ServerAssumption
<1>4. CASE r = room[c]
  <2>1. Send(fd[c], System("already here")) \in Call
    BY <1>1, FrameTypes, CallTypes DEF PlainCall, Text
  <2>2. <<Send(fd[c], System("already here"))>> \in Seq(Call)
    BY <2>1, OneCall
  <2>3. QED
    BY <1>4, <2>2, HandleStep DEF Join
<1>5. CASE r # room[c]
  <2>1. /\ Broadcast(room[c], Notice("left", c, room[c]), fd[c]) \in Call
        /\ SetRoom(r) \in Call
        /\ Send(fd[c], Joined(r)) \in Call
        /\ Broadcast(r, Notice("joined", c, r), fd[c]) \in Call
        /\ Replay(r, kHistoryLimit) \in Call
    BY <1>1, <1>2, <1>3, FrameTypes, CallTypes DEF PlainCall
  <2>2. <<Broadcast(room[c], Notice("left", c, room[c]), fd[c]),
          SetRoom(r), Send(fd[c], Joined(r)),
          Broadcast(r, Notice("joined", c, r), fd[c]),
          Replay(r, kHistoryLimit)>> \in Seq(Call)
    BY <2>1
  <2>3. QED
    BY <1>5, <2>2, HandleStep DEF Join
<1>6. QED
  BY <1>4, <1>5

\* handle_history_request, with the limit clamped.
LEMMA HistoryReqStep ==
  ASSUME IInv, NEW c \in Conns, NEW k \in Keys, NEW n \in Limits \cup {NoNumber},
         HistoryReq(c, k, n)
  PROVE  IInv'
<1>1. history_limit(n) \in Nat
  BY ServerAssumption DEF history_limit
<1>2. <<Replay(k, history_limit(n))>> \in Seq(Call)
  BY <1>1, CallTypes DEF PlainCall
<1>3. QED
  BY <1>2, HandleStep DEF HistoryReq

\* build_room_list, up to the end of its critical section.
LEMMA RoomsReqStep ==
  ASSUME IInv, NEW c \in Conns, RoomsReq(c)
  PROVE  IInv'
<1> DEFINE count(r) == Cardinality({e \in clients : e.room = r})
           online == {<<r, count(r)>> : r \in {e.room : e \in clients}}
<1>1. \A r : count(r) \in Nat
  BY FS_Subset, FS_CardinalityType DEF IInv, HandlerFacts
<1>2. \A e \in clients : e.room \in Rooms
  BY DEF IInv, TypeOK, ClientInfo
<1>3. Handle(c, "RoomsReq", <<ListRooms(online)>>)
  BY DEF RoomsReq
<1>4. online \in SUBSET (Rooms \X Nat)
  <2> HIDE DEF count
  <2>1. QED
    BY <1>1, <1>2
<1>5. ListRooms(online) \in Call
  BY <1>4, CallTypes DEF PlainCall
<1>6. QED
  BY <1>3, <1>5, OneCall, HandleStep

\* A direct message to somebody who is online or is not.
LEMMA DirectStep ==
  ASSUME IInv, NEW c \in Conns, NEW u \in Users, NEW t \in Times, Direct(c, u, t)
  PROVE  IInv'
<1> DEFINE m == Typed(c, dm_room_key(user[c], u), t)
<1>1. pc[c] = "loop" /\ reads[c] < MaxReads /\ fd[c] \in Fds
  BY OwnSocket DEF Direct, Handle, Reading
<1>2. user[c] \in Users
  BY <1>1 DEF IInv, HandlerFacts
<1>3. m \in Message
  BY <1>1, <1>2, TypedTypes DEF Keys
<1>4. CASE Handle(c, "Direct", <<Send(fd[c], System("offline"))>>)
  <2>1. Send(fd[c], System("offline")) \in Call
    BY <1>1, FrameTypes, CallTypes DEF PlainCall, Text
  <2>2. QED
    BY <1>4, <2>1, OneCall, HandleStep
<1> DEFINE copy(e) == DirectMsg(m, u, owner[e.socket])
<1>5. ASSUME NEW e \in find_client_by_username(u),
             Handle(c, "Direct", <<Store(m), Send(e.socket, copy(e)), Send(fd[c], copy(e))>>)
      PROVE  IInv'
  <2>1. e.socket \in Fds /\ owner[e.socket] \in Conns
    BY DEF find_client_by_username, First, IInv, TypeOK, ClientInfo,
           RegistryMatchesHandlers, Registered
  <2>2. /\ Store(m) \in Call
        /\ Send(e.socket, copy(e)) \in Call
        /\ Send(fd[c], copy(e)) \in Call
    BY <1>1, <1>3, <2>1, FrameTypes, CallTypes DEF PlainCall
  <2>3. <<Store(m), Send(e.socket, copy(e)), Send(fd[c], copy(e))>> \in Seq(Call)
    BY <2>2
  <2>4. QED
    BY <1>5, <2>3, HandleStep
<1>6. QED
  BY <1>4, <1>5 DEF Direct

\* users_in_room and its answer.
LEMMA UsersReqStep ==
  ASSUME IInv, NEW c \in Conns, NEW r \in Rooms, UsersReq(c, r)
  PROVE  IInv'
<1>1. fd[c] \in Fds
  BY OwnSocket DEF UsersReq, Handle, Reading
<1>2. users_in_room(r) \in SUBSET (Nat \X Users)
  BY DEF users_in_room, IInv, TypeOK, ClientInfo
<1>3. <<Send(fd[c], UsersList(users_in_room(r)))>> \in Seq(Call)
  BY <1>1, <1>2, FrameTypes, CallTypes DEF PlainCall
<1>4. QED
  BY <1>3, HandleStep DEF UsersReq

\* Frames that get a refusal or nothing.
LEMMA OtherStep ==
  ASSUME IInv, NEW c \in Conns, Other(c)
  PROVE  IInv'
<1>1. fd[c] \in Fds
  BY OwnSocket DEF Other, Handle, Reading
<1>2. Send(fd[c], System("refused")) \in Call
  BY <1>1, FrameTypes, CallTypes DEF PlainCall, Text
<1>3. <<>> \in Seq(Call)
  OBVIOUS
<1>4. QED
  BY <1>2, <1>3, OneCall, HandleStep DEF Other

-----------------------------------------------------------------------------
(***************************************************************************)
(* The calls.                                                              *)
(***************************************************************************)
LEMMA WriteTypes ==
  ASSUME IInv, NEW c \in Conns, NEW f \in Fds, NEW frame \in Frame, Write(c, f, frame)
  PROVE  out' \in [Conns -> Seq(Frame)] /\ Unwaits(c)
<1>1. /\ out \in [Conns -> Seq(Frame)]
      /\ waiting \in [Conns -> Conns \cup {NoConn}]
  BY DEF IInv, TypeOK
<1>2. Unwaits(c)
  BY <1>1 DEF Write, Unwaits
<1>3. CASE UNCHANGED out
  BY <1>1, <1>2, <1>3
<1>4. CASE Target(c, f) \in Conns /\ Deliver(Target(c, f), frame)
  <2>1. PICK d \in Conns : Deliver(d, frame)
    BY <1>4
  <2>2. Append(out[d], frame) \in Seq(Frame) /\ out[d] \in Seq(Frame)
    BY <1>1, AppendTypes
  <2>3. QED
    BY <1>1, <1>2, <2>1, <2>2 DEF Deliver
<1>5. QED
  BY <1>3, <1>4 DEF Write

\* A call returns and leaves plain calls in its place.
LEMMA CallStep ==
  ASSUME IInv, NEW c \in Conns, todo[c] # <<>>,
         NEW calls \in Seq(PlainCall), Returns(c, calls),
         UNCHANGED <<pc, fd, owner, user, room, clients, nextPos, stalled, lost, reads>>,
         Unwaits(c),
         out' \in [Conns -> Seq(Frame)],
         DatabaseTypeOK'
  PROVE  IInv'
<1> DEFINE rest == calls \o Tail(todo[c])
<1>1. pc[c] \notin {"none", "done"}
  BY DEF IInv, HandlerFacts
<1>2. calls \in Seq(Call)
  BY DEF PlainCall
<1>3. rest \in Seq(Call)
  BY <1>2, ReturnsTypes DEF IInv, TypeOK
<1>4. pc[c] # "loop" => rest \in Seq(PlainCall)
  BY ReturnsTypes DEF IInv, HandlerFacts
<1>5. todo' = [todo EXCEPT ![c] = rest]
  BY DEF Returns
<1>6. reads' \in [Conns -> 0..MaxReads]
  BY DEF IInv, TypeOK
<1> HIDE DEF rest
<1>7. QED
  BY <1>1, <1>3, <1>4, <1>5, <1>6, QuietStep

\* What is known when a call is at the head of the list.
LEMMA CallingTypes ==
  ASSUME IInv, NEW c \in Conns, NEW op, Calling(c, op)
  PROVE  /\ todo[c] # <<>>
         /\ Head(todo[c]) \in Call
         /\ Head(todo[c]).op = op
         /\ fd[c] \in Fds
         /\ <<>> \in Seq(PlainCall)
         /\ out \in [Conns -> Seq(Frame)]
         /\ DatabaseTypeOK
<1>1. todo[c] # <<>> /\ Head(todo[c]).op = op
  BY DEF Calling
<1>2. Head(todo[c]) \in Call
  BY <1>1, ReturnsTypes DEF IInv, TypeOK
<1>3. fd[c] \in Fds
  BY <1>1, OwnSocket DEF IInv, HandlerFacts
<1>4. QED
  BY <1>1, <1>2, <1>3 DEF IInv, TypeOK

\* One send_frame.
LEMMA CallSendStep ==
  ASSUME IInv, NEW c \in Conns, CallSend(c)
  PROVE  IInv'
<1>1. Calling(c, "send") /\ Returns(c, <<>>) /\ UNCHANGED dbVars
  BY DEF CallSend
<1>2. Head(todo[c]).to \in Fds /\ Head(todo[c]).frame \in Frame
  BY <1>1, CallingTypes, CallFields
<1>3. out' \in [Conns -> Seq(Frame)] /\ Unwaits(c)
  BY <1>2, WriteTypes DEF CallSend
<1>4. DatabaseTypeOK'
  BY <1>1, CallingTypes DEF DatabaseTypeOK, dbVars
<1>5. QED
  BY <1>1, <1>3, <1>4, CallingTypes, CallStep DEF CallSend

\* broadcast_to_room copies its recipients.
LEMMA CallBroadcastStep ==
  ASSUME IInv, NEW c \in Conns, CallBroadcast(c)
  PROVE  IInv'
<1> DEFINE call == Head(todo[c])
           recipients == {e \in clients : e.room = call.room /\ e.socket # call.exclude}
           calls == IF recipients = {} THEN <<>> ELSE <<SendEach(recipients, call.frame)>>
<1>1. Calling(c, "broadcast") /\ Returns(c, calls) /\ UNCHANGED <<out, dbVars>>
  BY DEF CallBroadcast
<1>2. call.frame \in Frame
  BY <1>1, CallingTypes, CallFields
<1>3. recipients \in SUBSET ClientInfo
  BY DEF IInv, TypeOK
<1>4. SendEach(recipients, call.frame) \in PlainCall
  BY <1>2, <1>3, CallTypes
<1>5. calls \in Seq(PlainCall)
  BY <1>4, OneCall
<1>6. out' \in [Conns -> Seq(Frame)] /\ DatabaseTypeOK'
  BY <1>1, CallingTypes DEF DatabaseTypeOK, dbVars
<1> HIDE DEF calls
<1>7. QED
  BY <1>1, <1>5, <1>6, CallingTypes, NetKept, CallStep DEF Calling, Sends, CallBroadcast

\* broadcast_to_room sends to one of the recipients it copied.
LEMMA CallSendEachStep ==
  ASSUME IInv, NEW c \in Conns, CallSendEach(c)
  PROVE  IInv'
<1> DEFINE call == Head(todo[c])
           calls(e) == IF call.to = {e} THEN <<>>
                       ELSE <<SendEach(call.to \ {e}, call.frame)>>
<1>1. Calling(c, "send each") /\ UNCHANGED dbVars
  BY DEF CallSendEach
<1>2. call.to \in SUBSET ClientInfo /\ call.frame \in Frame
  BY <1>1, CallingTypes, CallFields
<1>3. PICK e \in First(call.to) : Write(c, e.socket, call.frame) /\ Returns(c, calls(e))
  BY DEF CallSendEach
<1>4. e.socket \in Fds
  BY <1>2, <1>3 DEF First, ClientInfo
<1>5. out' \in [Conns -> Seq(Frame)] /\ Unwaits(c)
  BY <1>2, <1>3, <1>4, WriteTypes
<1>6. SendEach(call.to \ {e}, call.frame) \in PlainCall
  <2>1. call.to \ {e} \in SUBSET ClientInfo
    BY <1>2
  <2>2. QED
    BY <1>2, <2>1, CallTypes
<1>7. calls(e) \in Seq(PlainCall)
  BY <1>6, OneCall
<1>8. DatabaseTypeOK'
  BY <1>1, CallingTypes DEF DatabaseTypeOK, dbVars
<1> HIDE DEF calls
<1>9. QED
  BY <1>1, <1>3, <1>5, <1>7, <1>8, CallingTypes, CallStep DEF CallSendEach

\* replay_history reads rows that exist.
LEMMA CallReplayStep ==
  ASSUME IInv, NEW c \in Conns, CallReplay(c)
  PROVE  IInv'
<1> DEFINE call == Head(todo[c])
           calls(rows) == IF rows = {} THEN <<Send(fd[c], System("no history"))>>
                          ELSE <<Send(fd[c], History(rows, Len(messages)))>>
<1>1. Calling(c, "replay") /\ UNCHANGED <<out, dbVars>>
  BY DEF CallReplay
<1>2. PICK rows \in get_recent_messages(call.room, call.limit) : Returns(c, calls(rows))
  BY DEF CallReplay
<1>3. rows \in SUBSET Nat /\ Len(messages) \in Nat
  <2>1. messages \in Seq(Message)
    BY <1>1, CallingTypes DEF DatabaseTypeOK
  <2>2. DOMAIN messages \subseteq Nat /\ Len(messages) \in Nat
    BY <2>1
  <2>3. rows \subseteq DOMAIN messages
    BY <1>2 DEF get_recent_messages, Oldest, RecentRows, RowsIn
  <2>4. QED
    BY <2>2, <2>3
<1>4. /\ Send(fd[c], System("no history")) \in PlainCall
      /\ Send(fd[c], History(rows, Len(messages))) \in PlainCall
  BY <1>1, <1>3, CallingTypes, FrameTypes, CallTypes DEF Text
<1>5. calls(rows) \in Seq(PlainCall)
  BY <1>4, OneCall
<1>6. out' \in [Conns -> Seq(Frame)] /\ DatabaseTypeOK'
  BY <1>1, CallingTypes DEF DatabaseTypeOK, dbVars
<1> HIDE DEF calls
<1>7. QED
  BY <1>1, <1>2, <1>5, <1>6, CallingTypes, NetKept, CallStep DEF Calling, Sends, CallReplay

\* add_message succeeds, or fails and is reported.
LEMMA CallStoreStep ==
  ASSUME IInv, NEW c \in Conns, CallStore(c)
  PROVE  IInv'
<1> DEFINE m == Head(todo[c]).message
<1>1. Calling(c, "store") /\ UNCHANGED <<out, accounts>>
  BY DEF CallStore
<1>2. m \in Message /\ m.content \in Contents
  BY <1>1, CallingTypes, CallFields DEF Message
<1>3. out' \in [Conns -> Seq(Frame)]
  BY <1>1, CallingTypes
<1>4. CASE add_message(m, TRUE) /\ Returns(c, <<>>)
  <2>1. messages \in Seq(Message) /\ messages' = Append(messages, m)
    BY <1>1, <1>4, CallingTypes DEF DatabaseTypeOK, add_message
  <2>2. messages' \in Seq(Message)
    BY <1>2, <2>1, AppendTypes
  <2>3. DatabaseTypeOK'
    BY <1>1, <2>2, CallingTypes DEF DatabaseTypeOK
  <2>4. QED
    BY <1>1, <1>3, <1>4, <2>3, CallingTypes, NetKept, CallStep DEF Calling, Sends, CallStore
<1>5. CASE add_message(m, FALSE) /\ Returns(c, <<Send(fd[c], NotStored(m.content))>>)
  <2>1. Send(fd[c], NotStored(m.content)) \in PlainCall
    BY <1>1, <1>2, CallingTypes, FrameTypes, CallTypes
  <2>2. DatabaseTypeOK'
    BY <1>1, <1>5, CallingTypes DEF DatabaseTypeOK, add_message
  <2>3. QED
    BY <1>1, <1>3, <1>5, <2>1, <2>2, OneCall, CallingTypes, NetKept, CallStep DEF Calling, Sends, CallStore
<1>6. QED
  BY <1>4, <1>5 DEF CallStore

\* list_rooms and the rest of build_room_list.
LEMMA CallListRoomsStep ==
  ASSUME IInv, NEW c \in Conns, CallListRooms(c)
  PROVE  IInv'
<1> DEFINE online == Head(todo[c]).online
           shown(known) == online \cup {<<k, 0>> : k \in known \ {p[1] : p \in online}}
<1>1. Calling(c, "list_rooms") /\ UNCHANGED <<out, dbVars>>
  BY DEF CallListRooms
<1>2. PICK known \in list_rooms(RoomListLimit) :
        Returns(c, <<Send(fd[c], RoomList(shown(known)))>>)
  BY DEF CallListRooms
<1>3. known \subseteq Keys
  <2>1. messages \in Seq(Message)
    BY <1>1, CallingTypes DEF DatabaseTypeOK
  <2>2. \A i \in DOMAIN messages : messages[i] \in Message
    BY <2>1
  <2>3. \A i \in DOMAIN messages : messages[i].room \in Keys
    BY <2>2 DEF Message
  <2>4. QED
    BY <1>2, <2>3 DEF list_rooms
<1>4. online \in SUBSET (Rooms \X Nat)
  BY <1>1, CallingTypes, CallFields
<1>5. shown(known) \in SUBSET (Keys \X Nat)
  BY <1>3, <1>4 DEF Keys
<1>6. Send(fd[c], RoomList(shown(known))) \in PlainCall
  BY <1>1, <1>5, CallingTypes, FrameTypes, CallTypes
<1>7. out' \in [Conns -> Seq(Frame)] /\ DatabaseTypeOK'
  BY <1>1, CallingTypes DEF DatabaseTypeOK, dbVars
<1> HIDE DEF shown
<1>8. QED
  BY <1>1, <1>2, <1>6, <1>7, OneCall, CallingTypes, NetKept, CallStep DEF Calling, Sends, CallListRooms

-----------------------------------------------------------------------------
(***************************************************************************)
(* Steps that move a handler, open or close a descriptor, or change        *)
(* `clients`.                                                              *)
(***************************************************************************)
LEMMA AcceptStep ==
  ASSUME IInv, NEW c \in Conns, NEW f \in Fds, Accept(c, f)
  PROVE  IInv'
<1> USE DEF IInv, Accept, dbVars, netVars
<1>1. TypeOK'
  BY DEF TypeOK, DatabaseTypeOK
<1>2. DescriptorsOwned'
  BY ServerAssumption DEF TypeOK, DescriptorsOwned
<1>3. RegistryMatchesHandlers'
  <2>1. \A d \in Conns : d \in Registered' <=> d \in Registered
    BY DEF TypeOK, Registered
  <2>2. \A e \in clients : e.socket \in Fds /\ owner'[e.socket] = owner[e.socket]
    BY ServerAssumption DEF TypeOK, ClientInfo, RegistryMatchesHandlers, Registered
  <2>3. \A d \in Registered : fd'[d] = fd[d]
    BY DEF TypeOK, Registered
  <2>4. Registered' = Registered
    BY <2>1 DEF Registered
  <2>5. QED
    BY <2>2, <2>3, <2>4 DEF RegistryMatchesHandlers
<1>4. HandlerFacts'
  BY DEF TypeOK, HandlerFacts
<1>5. Waits'
  BY ServerAssumption DEF TypeOK, HandlerFacts, Waits
<1>6. QED
  BY <1>1, <1>2, <1>3, <1>4, <1>5

\* No element of `clients` names the socket of a handler that is not registered.
LEMMA UnregisteredSocket ==
  ASSUME IInv, NEW c \in Conns, c \notin Registered, owner[fd[c]] = c
  PROVE  \A e \in clients : e.socket \in Fds /\ e.socket # fd[c]
  BY DEF IInv, TypeOK, ClientInfo, RegistryMatchesHandlers

\* A handler moves on, with plain calls to make, and remains as registered as
\* it was; it may learn its user.
LEMMA MoveStep ==
  ASSUME IInv, NEW c \in Conns, NEW to \in {"enter", "leave"}, NEW u \in Users,
         \/ pc[c] = "auth" /\ to = "enter" /\ user' = [user EXCEPT ![c] = u]
         \/ pc[c] = "loop" /\ to = "leave" /\ UNCHANGED user,
         pc' = [pc EXCEPT ![c] = to],
         NEW calls \in Seq(PlainCall), todo' = [todo EXCEPT ![c] = calls],
         todo[c] = <<>>,
         UNCHANGED <<fd, owner, room, clients, nextPos, out, netVars>>,
         reads' \in [Conns -> 0..MaxReads],
         DatabaseTypeOK'
  PROVE  IInv'
<1> USE DEF IInv
<1>1. calls \in Seq(Call)
  BY DEF PlainCall
<1>2. TypeOK'
  BY <1>1 DEF TypeOK, netVars
<1>3. DescriptorsOwned'
  BY DEF TypeOK, DescriptorsOwned
<1>4. RegistryMatchesHandlers'
  <2>1. Registered' = Registered
    BY DEF TypeOK, Registered
  <2>2. \A d \in Registered : user'[d] = user[d]
    BY DEF TypeOK, Registered
  <2>3. QED
    BY <2>1, <2>2 DEF RegistryMatchesHandlers
<1>5. HandlerFacts'
  BY DEF TypeOK, HandlerFacts
<1>6. Waits'
  <2>1. \A d \in Conns : pc[d] # "none" => pc'[d] # "none"
    BY DEF TypeOK
  <2>2. QED
    BY <2>1, NetKept, WaitsKept
<1>7. QED
  BY <1>2, <1>3, <1>4, <1>5, <1>6

\* Credentials that are refused leave the handler waiting for others.
LEMMA RefusalStep ==
  ASSUME IInv, NEW c \in Conns, NEW kind, Reading(c, "auth", kind),
         Do(c, <<Send(fd[c], AuthFail)>>),
         UNCHANGED <<pc, fd, owner, user, room, clients, nextPos, out, netVars>>,
         DatabaseTypeOK'
  PROVE  IInv'
<1>1. pc[c] = "auth"
  BY DEF Reading
<1>2. Send(fd[c], AuthFail) \in PlainCall
  BY <1>1, OwnSocket, FrameTypes, CallTypes
<1>3. /\ <<Send(fd[c], AuthFail)>> \in Seq(PlainCall)
      /\ <<Send(fd[c], AuthFail)>> \in Seq(Call)
  BY <1>2, OneCall DEF PlainCall
<1>4. out' \in [Conns -> Seq(Frame)]
  BY DEF IInv, TypeOK
<1>5. QED
  BY <1>1, <1>3, <1>4, ReadingTypes, NetKept, QuietStep DEF Do, Reading

\* handle_auth in all its outcomes.
LEMMA AuthStep ==
  ASSUME IInv, NEW c \in Conns, Auth(c)
  PROVE  IInv'
<1>1. DatabaseTypeOK
  BY DEF IInv, TypeOK
<1>2. CASE AuthDisconnected(c)
  <2> USE DEF IInv, AuthDisconnected, CloseSocket, dbVars, netVars
  <2>1. fd[c] \in Fds /\ owner[fd[c]] = c /\ pc[c] = "auth"
    BY <1>2 DEF DescriptorsOwned
  <2>2. TypeOK'
    BY <1>2, <2>1 DEF TypeOK, DatabaseTypeOK
  <2>3. DescriptorsOwned'
    BY <1>2, <2>1, ServerAssumption DEF TypeOK, DescriptorsOwned
  <2>4. RegistryMatchesHandlers'
    <3>1. Registered' = Registered
      <4>1. \A d \in Conns : pc'[d] \in {"loop", "leave"} <=> pc[d] \in {"loop", "leave"}
        BY <1>2, <2>1 DEF TypeOK
      <4>2. QED
        BY <4>1 DEF Registered
    <3>2. \A e \in clients : owner'[e.socket] = owner[e.socket]
      BY <1>2, <2>1, UnregisteredSocket DEF TypeOK, Registered
    <3>3. QED
      BY <1>2, <3>1, <3>2 DEF RegistryMatchesHandlers
  <2>5. HandlerFacts'
    BY <1>2 DEF TypeOK, HandlerFacts
  <2>6. Waits'
    <3>1. \A d \in Conns : pc[d] # "none" => pc'[d] # "none"
      BY <1>2, <2>1 DEF TypeOK
    <3>2. todo[c] = <<>> /\ todo' = [todo EXCEPT ![c] = <<>>]
      BY <1>2 DEF TypeOK
    <3>3. QED
      BY <1>2, <3>1, <3>2, NetKept, WaitsKept
  <2>7. QED
    BY <2>2, <2>3, <2>4, <2>5, <2>6
<1>3. CASE AuthRefused(c)
  BY <1>1, <1>3, RefusalStep DEF AuthRefused, DatabaseTypeOK, dbVars
<1>4. ASSUME NEW u \in Users, NEW p \in Passwords, Register(c, u, p)
      PROVE  IInv'
  <2>1. pc[c] = "auth" /\ reads' \in [Conns -> 0..MaxReads]
    BY <1>4, ReadingTypes DEF Register, Reading
  <2>2. DatabaseTypeOK'
    BY <1>1, <1>4 DEF Register, register_user, DatabaseTypeOK
  <2>3. Send(fd[c], System("created")) \in PlainCall
    BY <2>1, OwnSocket, FrameTypes, CallTypes DEF Text
  <2>4. <<Send(fd[c], System("created"))>> \in Seq(PlainCall)
    BY <2>3, OneCall
  <2>5. CASE AuthAs(c, u, <<Send(fd[c], System("created"))>>)
    BY <1>4, <2>1, <2>2, <2>4, <2>5, MoveStep DEF Register, AuthAs, Do, Reading
  <2>6. CASE Do(c, <<Send(fd[c], AuthFail)>>) /\ UNCHANGED <<pc, user>>
    BY <1>4, <2>2, <2>6, RefusalStep DEF Register
  <2>7. QED
    BY <1>4, <2>5, <2>6 DEF Register
<1>5. ASSUME NEW u \in Users, NEW p \in Passwords, Login(c, u, p)
      PROVE  IInv'
  <2>1. pc[c] = "auth" /\ reads' \in [Conns -> 0..MaxReads]
    BY <1>5, ReadingTypes DEF Login, Reading
  <2>2. DatabaseTypeOK'
    BY <1>1, <1>5 DEF Login, DatabaseTypeOK, dbVars
  <2>3. CASE AuthAs(c, u, <<>>)
    <3>1. <<>> \in Seq(PlainCall)
      OBVIOUS
    <3>2. QED
      BY <1>5, <2>1, <2>2, <2>3, <3>1, MoveStep DEF Login, AuthAs, Do, Reading
  <2>4. CASE Do(c, <<Send(fd[c], AuthFail)>>) /\ UNCHANGED <<pc, user>>
    BY <1>5, <2>2, <2>4, RefusalStep DEF Login
  <2>5. QED
    BY <1>5, <2>3, <2>4 DEF Login
<1>6. QED
  BY <1>2, <1>3, <1>4, <1>5 DEF Auth

\* The two ways out of the message loop.
LEMMA QuitStep ==
  ASSUME IInv, NEW c \in Conns, Quit(c) \/ Disconnected(c)
  PROVE  IInv'
<1>1. pc[c] = "loop" /\ user[c] \in Users
  BY DEF Quit, Disconnected, Reading, IInv, HandlerFacts
<1>2. DatabaseTypeOK'
  BY DEF IInv, TypeOK, DatabaseTypeOK, Quit, Disconnected, dbVars
<1>3. CASE Quit(c)
  <2>1. Send(fd[c], System("goodbye")) \in PlainCall
    BY <1>1, OwnSocket, FrameTypes, CallTypes DEF Text
  <2>2. <<Send(fd[c], System("goodbye"))>> \in Seq(PlainCall)
    BY <2>1, OneCall
  <2>3. reads' \in [Conns -> 0..MaxReads]
    BY <1>3, ReadingTypes DEF Quit
  <2>4. QED
    BY <1>1, <1>2, <1>3, <2>2, <2>3, MoveStep DEF Quit, Do, Reading
<1>4. CASE Disconnected(c)
  <2>1. todo' = [todo EXCEPT ![c] = <<>>] /\ <<>> \in Seq(PlainCall)
    BY <1>4 DEF Disconnected, IInv, TypeOK
  <2>2. reads' \in [Conns -> 0..MaxReads]
    BY <1>4 DEF Disconnected, IInv, TypeOK
  <2>3. QED
    BY <1>1, <1>2, <1>4, <2>1, <2>2, MoveStep DEF Disconnected
<1>5. QED
  BY <1>3, <1>4

\* push_back adds an entry that no other entry can be confused with.
LEMMA EnterStep ==
  ASSUME IInv, NEW c \in Conns, Enter(c)
  PROVE  IInv'
<1> USE DEF IInv
<1> DEFINE new == [socket |-> fd[c], username |-> user[c], room |-> kDefaultRoom,
                   pos |-> nextPos]
<1>1. /\ pc[c] = "enter"
      /\ pc' = [pc EXCEPT ![c] = "loop"]
      /\ room' = [room EXCEPT ![c] = kDefaultRoom]
      /\ clients' = clients \cup {new}
      /\ nextPos' = nextPos + 1
      /\ todo' = [todo EXCEPT ![c] = Greeting(c)]
      /\ UNCHANGED <<fd, owner, user, reads, out, netVars, accounts, messages>>
  BY DEF Enter, PushBack, Do, dbVars
<1>2. fd[c] \in Fds /\ owner[fd[c]] = c /\ user[c] \in Users
  BY <1>1 DEF DescriptorsOwned, HandlerFacts
<1>3. kDefaultRoom \in Rooms /\ kDefaultRoom \in Keys /\ kHistoryLimit \in Nat
  BY ServerAssumption DEF Keys
<1>4. new \in ClientInfo
  BY <1>2, <1>3 DEF TypeOK, ClientInfo
<1>5. Greeting(c) \in Seq(Call)
  <2>1. /\ Send(fd[c], AuthOk(user[c], kDefaultRoom)) \in Call
        /\ Send(fd[c], System("welcome")) \in Call
        /\ Replay(kDefaultRoom, kHistoryLimit) \in Call
        /\ Broadcast(kDefaultRoom, Notice("joined", c, kDefaultRoom), fd[c]) \in Call
    BY <1>2, <1>3, FrameTypes, CallTypes DEF PlainCall, Text
  <2>2. QED
    BY <2>1 DEF Greeting
<1>6. TypeOK'
  BY <1>1, <1>3, <1>4, <1>5 DEF TypeOK, DatabaseTypeOK, netVars
<1>7. DescriptorsOwned'
  BY <1>1 DEF TypeOK, DescriptorsOwned
<1>8. \A e \in clients : owner[e.socket] # c /\ e.socket # fd[c]
  BY <1>1, <1>2 DEF RegistryMatchesHandlers, Registered
<1>9. RegistryMatchesHandlers'
  <2>1. \A d \in Conns : d \in Registered' <=> d = c \/ d \in Registered
    BY <1>1 DEF TypeOK, Registered
  <2>2. ASSUME NEW e \in clients'
        PROVE  /\ owner'[e.socket] \in Registered'
               /\ e.username = user'[owner'[e.socket]]
               /\ e.room = room'[owner'[e.socket]]
    <3>1. CASE e = new
      BY <1>1, <1>2, <2>1, <3>1 DEF TypeOK
    <3>2. CASE e \in clients
      <4>1. owner[e.socket] \in Registered /\ owner[e.socket] \in Conns
        BY <3>2 DEF RegistryMatchesHandlers, Registered
      <4>2. room'[owner[e.socket]] = room[owner[e.socket]]
        BY <1>1, <1>8, <3>2, <4>1 DEF TypeOK
      <4>3. QED
        BY <1>1, <2>1, <3>2, <4>1, <4>2 DEF RegistryMatchesHandlers
    <3>3. QED
      BY <1>1, <3>1, <3>2
  <2>3. ASSUME NEW d \in Registered' PROVE \E e \in clients' : e.socket = fd'[d]
    <3>1. CASE d = c
      <4>1. new \in clients' /\ new.socket = fd'[d]
        BY <1>1, <3>1
      <4>2. QED
        BY <4>1
    <3>2. CASE d # c
      BY <1>1, <2>1, <3>2 DEF RegistryMatchesHandlers, Registered
    <3>3. QED
      BY <3>1, <3>2
  <2>4. ASSUME NEW e1 \in clients', NEW e2 \in clients',
               e1.socket = e2.socket \/ e1.pos = e2.pos
        PROVE  e1 = e2
    <3>1. \A e \in clients : e.pos # nextPos
      BY DEF TypeOK, ClientInfo, HandlerFacts
    <3>2. QED
      BY <1>1, <1>8, <2>4, <3>1 DEF RegistryMatchesHandlers
  <2>5. QED
    BY <2>2, <2>3, <2>4 DEF RegistryMatchesHandlers
<1>10. HandlerFacts'
  <2>1. IsFiniteSet(clients')
    BY <1>1, FS_AddElement DEF HandlerFacts
  <2>2. \A e \in clients' : e.pos < nextPos'
    BY <1>1 DEF TypeOK, ClientInfo, HandlerFacts
  <2>3. QED
    BY <1>1, <2>1, <2>2 DEF TypeOK, HandlerFacts
<1>11. Waits'
  <2>1. \A d \in Conns : pc[d] # "none" => pc'[d] # "none"
    BY <1>1 DEF TypeOK
  <2>2. QED
    BY <1>1, <2>1, NetKept, WaitsKept DEF Enter
<1>12. QED
  BY <1>6, <1>7, <1>9, <1>10, <1>11

\* erase removes the handler's entry and no other.
LEMMA LeaveStep ==
  ASSUME IInv, NEW c \in Conns, Leave(c)
  PROVE  IInv'
<1> USE DEF IInv
<1> DEFINE bye == Broadcast(room[c], Notice("left", c, room[c]), INVALID_SOCKET)
<1>1. /\ pc[c] = "leave"
      /\ pc' = [pc EXCEPT ![c] = "close"]
      /\ clients' = {e \in clients : e.socket # fd[c]}
      /\ todo' = [todo EXCEPT ![c] = <<bye>>]
      /\ UNCHANGED <<fd, owner, user, room, nextPos, reads, out, netVars, accounts,
                     messages>>
  BY DEF Leave, Do, dbVars
<1>2. fd[c] \in Fds /\ owner[fd[c]] = c
  BY <1>1 DEF DescriptorsOwned
<1>3. bye \in PlainCall
  <2>1. room[c] \in Rooms
    BY DEF TypeOK
  <2>2. QED
    BY <2>1, FrameTypes, CallTypes
<1>4. <<bye>> \in Seq(PlainCall) /\ <<bye>> \in Seq(Call)
  BY <1>3, OneCall DEF PlainCall
<1>5. TypeOK'
  BY <1>1, <1>4 DEF TypeOK, DatabaseTypeOK, netVars
<1>6. DescriptorsOwned'
  BY <1>1 DEF TypeOK, DescriptorsOwned
<1>7. RegistryMatchesHandlers'
  <2>1. \A d \in Conns : d \in Registered' <=> d # c /\ d \in Registered
    BY <1>1 DEF TypeOK, Registered
  <2>2. \A e \in clients : owner[e.socket] = c => e.socket = fd[c]
    BY ServerAssumption DEF TypeOK, ClientInfo, DescriptorsOwned
  <2>3. \A e \in clients' : owner[e.socket] \in Registered' /\ e \in clients
    BY <1>1, <2>1, <2>2 DEF RegistryMatchesHandlers, Registered
  <2>4. ASSUME NEW d \in Registered' PROVE \E e \in clients' : e.socket = fd'[d]
    <3>1. d \in Conns /\ d # c /\ d \in Registered
      BY <2>1 DEF Registered
    <3>2. PICK e \in clients : e.socket = fd[d]
      BY <3>1 DEF RegistryMatchesHandlers
    <3>3. owner[fd[d]] = d
      BY <3>1 DEF DescriptorsOwned, Registered
    <3>4. QED
      BY <1>1, <1>2, <3>1, <3>2, <3>3
  <2>5. QED
    BY <1>1, <2>3, <2>4 DEF RegistryMatchesHandlers
<1>8. HandlerFacts'
  <2>1. IsFiniteSet(clients')
    BY <1>1, FS_Subset DEF HandlerFacts
  <2>2. QED
    BY <1>1, <1>4, <2>1 DEF TypeOK, HandlerFacts
<1>9. Waits'
  <2>1. \A d \in Conns : pc[d] # "none" => pc'[d] # "none"
    BY <1>1 DEF TypeOK
  <2>2. QED
    BY <1>1, <2>1, NetKept, WaitsKept DEF Leave
<1>10. QED
  BY <1>5, <1>6, <1>7, <1>8, <1>9

\* The descriptor is closed when no entry names it any more.
LEMMA CloseStep ==
  ASSUME IInv, NEW c \in Conns, Close(c)
  PROVE  IInv'
<1> USE DEF IInv, Close, CloseSocket, dbVars, netVars
<1>1. fd[c] \in Fds /\ owner[fd[c]] = c /\ pc[c] = "close"
  BY DEF DescriptorsOwned
<1>2. TypeOK'
  BY <1>1 DEF TypeOK, DatabaseTypeOK
<1>3. DescriptorsOwned'
  BY <1>1, ServerAssumption DEF TypeOK, DescriptorsOwned
<1>4. RegistryMatchesHandlers'
  <2>1. \A d \in Conns : pc'[d] \in {"loop", "leave"} <=> pc[d] \in {"loop", "leave"}
    BY <1>1 DEF TypeOK
  <2>2. Registered' = Registered
    BY <2>1 DEF Registered
  <2>3. \A e \in clients : owner'[e.socket] = owner[e.socket]
    BY <1>1, UnregisteredSocket DEF TypeOK, Registered
  <2>4. QED
    BY <2>2, <2>3 DEF RegistryMatchesHandlers
<1>5. HandlerFacts'
  BY DEF TypeOK, HandlerFacts
<1>6. Waits'
  <2>1. \A d \in Conns : pc[d] # "none" => pc'[d] # "none"
    BY <1>1 DEF TypeOK
  <2>2. QED
    <3>1. todo' = [todo EXCEPT ![c] = <<>>]
      BY DEF TypeOK
    <3>2. QED
      BY <2>1, <3>1, NetKept, WaitsKept
<1>7. QED
  BY <1>2, <1>3, <1>4, <1>5, <1>6

\* set_room changes the one entry of this handler.
LEMMA CallSetRoomStep ==
  ASSUME IInv, NEW c \in Conns, CallSetRoom(c)
  PROVE  IInv'
<1> USE DEF IInv
<1> DEFINE r    == Head(todo[c]).room
           mine == First({e \in clients : e.socket = fd[c]})
           rest == <<>> \o Tail(todo[c])
<1>1. /\ Calling(c, "set_room")
      /\ room' = [room EXCEPT ![c] = r]
      /\ clients' = (clients \ mine) \cup {[e EXCEPT !.room = r] : e \in mine}
      /\ todo' = [todo EXCEPT ![c] = rest]
      /\ UNCHANGED <<pc, fd, owner, user, nextPos, reads, out, netVars, accounts,
                     messages>>
  BY DEF CallSetRoom, Returns, dbVars
<1>2. r \in Rooms
  BY <1>1, CallingTypes, CallFields
<1>3. pc[c] = "loop"
  <2>1. SUFFICES ASSUME pc[c] # "loop" PROVE FALSE
    OBVIOUS
  <2>2. todo[c] \in Seq(PlainCall) /\ todo[c] # <<>>
    BY <1>1, <2>1, CallingTypes DEF HandlerFacts
  <2>3. Head(todo[c]) \in PlainCall
    BY <2>2, ReturnsTypes
  <2>4. QED
    BY <1>1, <2>3, CallingTypes DEF PlainCall
<1>4. rest \in Seq(Call)
  <2>1. <<>> \in Seq(Call)
    OBVIOUS
  <2>2. QED
    BY <1>1, <2>1, CallingTypes, ReturnsTypes DEF TypeOK
<1>5. PICK own \in clients : own.socket = fd[c]
  BY <1>3 DEF RegistryMatchesHandlers, Registered
<1>6. mine = {own}
  <2>1. {e \in clients : e.socket = fd[c]} = {own}
    BY <1>5 DEF RegistryMatchesHandlers
  <2>2. own.pos <= own.pos
    BY <1>5 DEF TypeOK, ClientInfo
  <2>3. QED
    BY <2>1, <2>2 DEF First
<1> DEFINE moved == [own EXCEPT !.room = r]
<1>7. clients' = (clients \ {own}) \cup {moved}
  BY <1>1, <1>6
<1>8. /\ moved \in ClientInfo
      /\ moved.socket = own.socket /\ moved.username = own.username
      /\ moved.pos = own.pos /\ moved.room = r
  BY <1>2, <1>5 DEF TypeOK, ClientInfo
<1> HIDE DEF mine, rest, r, moved
<1>9. TypeOK'
  BY <1>1, <1>2, <1>4, <1>7, <1>8 DEF TypeOK, DatabaseTypeOK, netVars
<1>10. DescriptorsOwned'
  BY <1>1 DEF DescriptorsOwned
<1>11. RegistryMatchesHandlers'
  <2>1. Registered' = Registered /\ c \in Registered /\ owner[fd[c]] = c
    BY <1>1, <1>3 DEF Registered, DescriptorsOwned
  <2>2. \A e \in clients \ {own} : owner[e.socket] # c
    <3>1. \A e \in clients : owner[e.socket] = c => e.socket = fd[c]
      BY ServerAssumption DEF TypeOK, ClientInfo, DescriptorsOwned
    <3>2. QED
      BY <1>5, <3>1 DEF RegistryMatchesHandlers
  <2>3. \A e \in clients' : /\ owner[e.socket] \in Registered
                            /\ e.username = user[owner[e.socket]]
    BY <1>5, <1>7, <1>8 DEF RegistryMatchesHandlers
  <2>4. \A e \in clients' : e.room = room'[owner[e.socket]]
    <3>1. room'[owner[moved.socket]] = r
      BY <1>1, <1>5, <1>8, <2>1 DEF TypeOK
    <3>2. \A e \in clients \ {own} : room'[owner[e.socket]] = room[owner[e.socket]]
      BY <1>1, <2>2 DEF TypeOK, RegistryMatchesHandlers, Registered
    <3>3. QED
      BY <1>7, <1>8, <3>1, <3>2 DEF RegistryMatchesHandlers
  <2>5. \A d \in Registered : \E e \in clients' : e.socket = fd[d]
    BY <1>7, <1>8 DEF RegistryMatchesHandlers
  <2>6. \A e1, e2 \in clients' : e1.socket = e2.socket \/ e1.pos = e2.pos => e1 = e2
    BY <1>5, <1>7, <1>8 DEF RegistryMatchesHandlers
  <2>7. owner' = owner /\ user' = user /\ fd' = fd
    BY <1>1
  <2>8. QED
    BY <2>1, <2>3, <2>4, <2>5, <2>6, <2>7 DEF RegistryMatchesHandlers
<1>12. HandlerFacts'
  <2>1. IsFiniteSet(clients')
    <3>1. IsFiniteSet(clients \ {own})
      BY FS_Subset DEF HandlerFacts
    <3>2. QED
      BY <1>7, <3>1, FS_AddElement
  <2>2. \A e \in clients' : e.pos < nextPos'
    BY <1>1, <1>5, <1>7, <1>8 DEF HandlerFacts
  <2>3. QED
    BY <1>1, <1>3, <1>4, <2>1, <2>2 DEF TypeOK, HandlerFacts
<1>13. Waits'
  BY <1>1, NetKept, WaitsKept DEF Calling, Sends
<1>14. QED
  BY <1>9, <1>10, <1>11, <1>12, <1>13

-----------------------------------------------------------------------------
\* The invariant holds when the server starts.
LEMMA InitIInv == Init => IInv
<1>1. SUFFICES ASSUME Init PROVE IInv
  OBVIOUS
<1>2. TypeOK
  BY <1>1, ServerAssumption, DatabaseAssumption DEF Init, TypeOK, DatabaseTypeOK
<1>3. DescriptorsOwned /\ RegistryMatchesHandlers
  BY <1>1 DEF Init, DescriptorsOwned, RegistryMatchesHandlers, Registered
<1>4. HandlerFacts /\ Waits
  BY <1>1, FS_EmptySet DEF Init, HandlerFacts, Waits
<1>5. QED
  BY <1>2, <1>3, <1>4 DEF IInv

\* Peers that stop reading, read again or go change nothing else.
LEMMA PeerStep ==
  ASSUME IInv, NEW c \in Conns, Stall(c) \/ Resume(c) \/ Lose(c)
  PROVE  IInv'
<1>1. UNCHANGED <<pc, fd, owner, user, room, clients, nextPos, todo, reads, out,
                  waiting, accounts, messages>>
  BY DEF Stall, Resume, Lose, dbVars
<1>2. stalled' \in SUBSET Conns /\ lost' \in SUBSET Conns
  BY DEF IInv, TypeOK, Stall, Resume, Lose
<1>3. TypeOK'
  BY <1>1, <1>2 DEF IInv, TypeOK, DatabaseTypeOK
<1>4. DescriptorsOwned' /\ RegistryMatchesHandlers' /\ HandlerFacts' /\ Waits'
  BY <1>1 DEF IInv, DescriptorsOwned, RegistryMatchesHandlers, Registered, HandlerFacts,
              Waits
<1>5. QED
  BY <1>3, <1>4 DEF IInv

\* Whom a handler begins to wait for.
LEMMA WaitBegins ==
  ASSUME IInv, NEW c \in Conns, SendWaits(c)
  PROVE  \E f \in Fds, d \in Conns : d = owner[f] /\ waiting' = [waiting EXCEPT ![c] = d]
<1>1. stalled \subseteq Conns
  BY DEF IInv, TypeOK
<1>2. CASE Calling(c, "send") /\ WaitFor(c, Head(todo[c]).to, Head(todo[c]).frame)
  BY <1>1, <1>2, CallingTypes, CallFields DEF WaitFor
<1>3. CASE /\ Calling(c, "send each")
           /\ \E e \in First(Head(todo[c]).to) :
                WaitFor(c, e.socket, Head(todo[c]).frame)
  <2>1. Head(todo[c]).to \subseteq ClientInfo
    BY <1>3, CallingTypes, CallFields
  <2>2. PICK e \in ClientInfo : WaitFor(c, e.socket, Head(todo[c]).frame)
    BY <1>3, <2>1 DEF First
  <2>3. e.socket \in Fds
    BY DEF ClientInfo
  <2>4. QED
    BY <1>1, <2>2, <2>3 DEF WaitFor
<1>4. QED
  BY <1>2, <1>3 DEF SendWaits

\* A handler begins to wait, for a connection that is open.
LEMMA SendWaitsStep ==
  ASSUME IInv, NEW c \in Conns, SendWaits(c)
  PROVE  IInv'
<1>1. UNCHANGED <<pc, fd, owner, user, room, clients, nextPos, todo, reads, out,
                  stalled, lost, accounts, messages>>
  BY DEF SendWaits, dbVars
<1>2. PICK f \in Fds, d \in Conns : d = owner[f] /\ waiting' = [waiting EXCEPT ![c] = d]
  BY WaitBegins
<1>3. pc[c] # "none" /\ pc[d] # "none" /\ fd[d] = f
  <2>1. pc[c] # "none"
    BY DEF SendWaits, Calling, IInv, HandlerFacts
  <2>2. QED
    BY <1>2, <2>1, ServerAssumption DEF IInv, DescriptorsOwned
<1>4. fd[c] = f => d = c
  <2>1. pc[c] \notin {"none", "done"}
    BY DEF SendWaits, Calling, IInv, HandlerFacts
  <2>2. QED
    BY <1>2, <2>1 DEF IInv, DescriptorsOwned
<1>5. TypeOK'
  BY <1>1, <1>2 DEF IInv, TypeOK, DatabaseTypeOK
<1>6. Waits'
  <2>1. todo[c] # <<>> /\ Head(todo[c]).op \in Sends
    BY DEF SendWaits, Calling, Sends
  <2>2. QED
    BY <1>1, <1>2, <1>3, <1>4, <2>1 DEF IInv, TypeOK, Waits
<1>7. DescriptorsOwned' /\ RegistryMatchesHandlers' /\ HandlerFacts'
  BY <1>1 DEF IInv, DescriptorsOwned, RegistryMatchesHandlers, Registered, HandlerFacts
<1>8. QED
  BY <1>5, <1>6, <1>7 DEF IInv

\* A new process starts with nothing in memory.
LEMMA RestartStep ==
  ASSUME IInv, Restart
  PROVE  IInv'
<1>1. TypeOK'
  BY ServerAssumption DEF IInv, Restart, dbVars, TypeOK, DatabaseTypeOK
<1>2. DescriptorsOwned' /\ RegistryMatchesHandlers'
  BY DEF Restart, DescriptorsOwned, RegistryMatchesHandlers, Registered
<1>3. HandlerFacts' /\ Waits'
  BY FS_EmptySet DEF Restart, HandlerFacts, Waits
<1>4. QED
  BY <1>1, <1>2, <1>3 DEF IInv

\* A step that changes nothing.
LEMMA StutterStep ==
  ASSUME IInv, UNCHANGED vars
  PROVE  IInv'
  BY DEF IInv, vars, TypeOK, DatabaseTypeOK, DescriptorsOwned,
         RegistryMatchesHandlers, Registered, HandlerFacts, Waits

\* Every step of the server keeps the invariant.
LEMMA NextIInv == IInv /\ [Next]_vars => IInv'
<1>1. SUFFICES ASSUME IInv, [Next]_vars PROVE IInv'
  OBVIOUS
<1>2. ASSUME NEW c \in Conns, Request(c) PROVE IInv'
  BY <1>1, <1>2, ChatStep, JoinStep, UsersReqStep, HistoryReqStep, RoomsReqStep,
     DirectStep, OtherStep, QuitStep DEF Request
<1>3. ASSUME NEW c \in Conns, Thread(c) PROVE IInv'
  BY <1>1, <1>3, EnterStep, LeaveStep, CloseStep, CallSendStep, CallBroadcastStep,
     CallSendEachStep, CallSetRoomStep, CallReplayStep, CallStoreStep,
     CallListRoomsStep, SendWaitsStep DEF Thread
<1>4. ASSUME NEW c \in Conns, \/ \E f \in Fds : Accept(c, f)
                              \/ Auth(c) \/ Stall(c) \/ Resume(c) \/ Lose(c)
      PROVE  IInv'
  BY <1>1, <1>4, AcceptStep, AuthStep, PeerStep
<1>5. CASE AcceptWaits \/ UNCHANGED vars
  BY <1>1, <1>5, StutterStep DEF AcceptWaits
<1>6. CASE Restart
  BY <1>1, <1>6, RestartStep
<1>7. QED
  BY <1>1, <1>2, <1>3, <1>4, <1>5, <1>6 DEF Next

\* The inductive invariant holds in every state of every behaviour.
LEMMA Inductive == Spec => []IInv
  BY InitIInv, NextIInv, PTL DEF Spec

-----------------------------------------------------------------------------
\* Every variable of the server keeps its type: in particular every call a
\* handler makes has the arguments its operation needs.
THEOREM Typing == Spec => []TypeOK
<1>1. IInv => TypeOK
  BY DEF IInv
<1>2. QED
  BY Inductive, <1>1, PTL

\* A handler's descriptor stays its own until it closes it, with any number of
\* connections competing for any number of descriptor values.
THEOREM DescriptorOwnership == Spec => []DescriptorsOwned
<1>1. IInv => DescriptorsOwned
  BY DEF IInv
<1>2. QED
  BY Inductive, <1>1, PTL

\* The shared vector always matches the handlers: erase before close, push_back
\* after authentication and set_room on one's own entry are enough, whatever
\* broadcasts are in progress and however descriptors are reused.
THEOREM RegistryCorrect == Spec => []RegistryMatchesHandlers
<1>1. IInv => RegistryMatchesHandlers
  BY DEF IInv
<1>2. QED
  BY Inductive, <1>1, PTL

-----------------------------------------------------------------------------
(***************************************************************************)
(* The calls of a handler.  A handler sends to its own descriptor, except  *)
(* for a direct message; it broadcasts its own notices and its own chat    *)
(* lines, each to the room it names; and a change of room is followed by   *)
(* the announcement of the arrival and the replay of the new room.         *)
(***************************************************************************)
\* "x has joined" and "x has left".
IsNotice(frame) == frame.type = "System" /\ frame.text \in {"joined", "left"}

\* What a pending call of the handler of c is like.
CallFits(c, call) ==
  /\ call.op = "send" =>
       /\ call.to = fd[c] \/ call.frame.type = "DirectMsg"
       /\ ~IsNotice(call.frame) /\ call.frame.type # "ChatMsg"
       /\ call.frame.type = "DirectMsg" => Author(call.frame.message) = c
  /\ call.op \in {"broadcast", "send each"} =>
       \/ IsNotice(call.frame) /\ call.frame.by = c
       \/ call.frame.type = "ChatMsg" /\ Author(call.frame.message) = c
  /\ call.op = "broadcast" =>
       /\ call.exclude \in {fd[c], INVALID_SOCKET}
       /\ call.room = IF IsNotice(call.frame) THEN call.frame.room
                      ELSE call.frame.message.room
  /\ call.op = "store" => Author(call.message) = c

\* The k-th of the calls s sets the room: the rest of handle_join follows.
RoomChange(c, s, k) ==
  /\ Len(s) = k + 3
  /\ s[k + 1] = Send(fd[c], Joined(s[k].room))
  /\ s[k + 2] = Broadcast(s[k].room, Notice("joined", c, s[k].room), fd[c])
  /\ s[k + 3] = Replay(s[k].room, kHistoryLimit)

CallsFit(c, s) ==
  \A k \in 1..Len(s) : /\ CallFits(c, s[k])
                       /\ s[k].op = "set_room" => RoomChange(c, s, k)

Script == \A c \in Conns : CallsFit(c, todo[c])

-----------------------------------------------------------------------------
(***************************************************************************)
(* The steps, sorted.                                                      *)
(***************************************************************************)
\* Frames that answer a request and matter to nobody else.
Plain(frame) ==
  \/ frame.type \in {"AuthFail", "UsersList", "History"}
  \/ frame.type = "System" /\ frame.text \in {"already here", "offline", "refused",
                                              "goodbye", "no history", "rooms"}

PlainSend(c, call) == call.op = "send" /\ call.to = fd[c] /\ Plain(call.frame)

\* Nobody alive is newly bypassed by a handler that waits.
NoneMisled ==
  \A a, d \in Conns : pc[d] \notin {"none", "done"} /\ Misled(a, d)' => Misled(a, d)

\* Nothing the proofs look at changes, except that a peer may be gone.
Idle ==
  /\ UNCHANGED <<pc, fd, owner, user, room, clients, todo, out, accounts, messages>>
  /\ lost \subseteq lost' /\ NoneMisled

\* The handler of c, with no call pending, sets out to make these.
Sets(c, calls) == todo[c] = <<>> /\ todo' = [todo EXCEPT ![c] = calls]

\* The thread of c ends.
Finish(c) ==
  /\ pc[c] \in {"auth", "close"} /\ todo[c] = <<>> /\ CloseSocket(c)
  /\ UNCHANGED <<fd, user, room, clients, todo, out, accounts, messages, netVars>>

\* A request that gets an answer, a history or a list of rooms, or nothing.
Answer(c) ==
  /\ \/ Sets(c, <<>>)
     \/ \E call \in Call : /\ Sets(c, <<call>>)
                           /\ PlainSend(c, call) \/ call.op \in {"replay", "list_rooms"}
  /\ pc[c] \in {"auth", "loop"}
  /\ pc' = pc \/ (pc[c] = "loop" /\ pc' = [pc EXCEPT ![c] = "leave"])
  /\ UNCHANGED <<fd, owner, user, room, clients, out, accounts, messages, netVars>>

\* A registration or a login succeeds.
Admit(c, u) ==
  /\ pc[c] = "auth" /\ pc' = [pc EXCEPT ![c] = "enter"]
  /\ user' = [user EXCEPT ![c] = u]
  /\ \/ Sets(c, <<>>) /\ accounts' = accounts
     \/ /\ Sets(c, <<Send(fd[c], System("created"))>>)
        /\ accounts[u] = NoAccount
        /\ \E p \in Passwords : accounts' = [accounts EXCEPT ![u] = p]
  /\ UNCHANGED <<fd, owner, room, clients, out, messages, netVars>>

\* A request of the message loop with calls that others see.
Says(c, calls) ==
  /\ pc[c] = "loop" /\ Sets(c, calls)
  /\ UNCHANGED <<pc, fd, owner, user, room, clients, out, accounts, messages, netVars>>

Move(c, r) ==
  /\ r # room[c]
  /\ Says(c, <<Broadcast(room[c], Notice("left", c, room[c]), fd[c]),
               SetRoom(r),
               Send(fd[c], Joined(r)),
               Broadcast(r, Notice("joined", c, r), fd[c]),
               Replay(r, kHistoryLimit)>>)

Speak(c, m) ==
  /\ m \in Message /\ Author(m) = c /\ m.room \in Rooms /\ m.room = room[c]
  /\ Says(c, <<Store(m), Broadcast(m.room, ChatMsg(m), fd[c])>>)

Whisper(c, m, u, e) ==
  /\ m \in Message /\ Author(m) = c /\ u \in Users
  /\ m.room \in {dm_room_key(a, b) : a, b \in Users}
  /\ e \in clients /\ e.username = u
  /\ Says(c, <<Store(m), Send(e.socket, DirectMsg(m, u, owner[e.socket])),
               Send(fd[c], DirectMsg(m, u, owner[e.socket]))>>)

\* A call that only looks something up is replaced by the answer.
LookUp(c) ==
  /\ todo[c] # <<>> /\ Head(todo[c]).op \in {"replay", "list_rooms"}
  /\ \E call \in Call : PlainSend(c, call) /\ Returns(c, <<call>>)
  /\ UNCHANGED <<pc, fd, owner, user, room, clients, out, accounts, messages, netVars>>

\* What anybody's step is.
StepOf(c) ==
  \/ \E f \in Fds : Accept(c, f)
  \/ Finish(c) \/ Answer(c) \/ Enter(c) \/ Leave(c)
  \/ \E u \in Users : Admit(c, u)
  \/ \E r \in Rooms : Move(c, r)
  \/ \E m \in Message : Speak(c, m)
  \/ \E m \in Message, u \in Users, e \in clients : Whisper(c, m, u, e)
  \/ CallSend(c) \/ CallBroadcast(c) \/ CallSendEach(c) \/ CallSetRoom(c)
  \/ CallReplay(c) \/ CallStore(c) \/ CallListRooms(c)

\* A request that is answered by one call.
LEMMA AnswerByOne ==
  ASSUME NEW c \in Conns, NEW kind, NEW call \in Call, Handle(c, kind, <<call>>),
         PlainSend(c, call) \/ call.op \in {"replay", "list_rooms"}
  PROVE  Answer(c)
  BY DEF Handle, Reading, Do, Answer, Sets, dbVars

\* The answers of the message loop.
LEMMA AnsweredRequests ==
  ASSUME IInv, NEW c \in Conns,
         \/ \E r \in Rooms : UsersReq(c, r) \/ (r = room[c] /\ Join(c, r))
         \/ \E k \in Keys, n \in Limits \cup {NoNumber} : HistoryReq(c, k, n)
         \/ RoomsReq(c) \/ Other(c) \/ Quit(c) \/ Disconnected(c)
  PROVE  Answer(c)
<1>1. ASSUME NEW r \in Rooms, UsersReq(c, r)
      PROVE  Answer(c)
  <2>1. pc[c] = "loop"
    BY <1>1 DEF UsersReq, Handle, Reading
  <2>2. users_in_room(r) \in SUBSET (Nat \X Users)
    BY DEF users_in_room, IInv, TypeOK, ClientInfo
  <2>3. Send(fd[c], UsersList(users_in_room(r))) \in Call
    BY <2>1, <2>2, OwnSocket, FrameTypes, CallTypes DEF PlainCall
  <2>4. PlainSend(c, Send(fd[c], UsersList(users_in_room(r))))
    BY DEF PlainSend, Plain, Send, UsersList
  <2>5. QED
    BY <1>1, <2>3, <2>4, AnswerByOne DEF UsersReq
<1>2. ASSUME NEW r \in Rooms, r = room[c], Join(c, r)
      PROVE  Answer(c)
  <2>1. pc[c] = "loop" /\ Handle(c, "Join", <<Send(fd[c], System("already here"))>>)
    BY <1>2 DEF Join, Handle, Reading
  <2>2. Send(fd[c], System("already here")) \in Call
    BY <2>1, OwnSocket, FrameTypes, CallTypes DEF PlainCall, Text
  <2>3. PlainSend(c, Send(fd[c], System("already here")))
    BY DEF PlainSend, Plain, Send, System
  <2>4. QED
    BY <2>1, <2>2, <2>3, AnswerByOne
<1>3. ASSUME NEW k \in Keys, NEW n \in Limits \cup {NoNumber}, HistoryReq(c, k, n)
      PROVE  Answer(c)
  <2>1. history_limit(n) \in Nat
    BY ServerAssumption DEF history_limit
  <2>2. Replay(k, history_limit(n)) \in Call
    BY <2>1, CallTypes DEF PlainCall
  <2>3. Replay(k, history_limit(n)).op = "replay"
    BY DEF Replay
  <2>4. QED
    BY <1>3, <2>2, <2>3, AnswerByOne DEF HistoryReq
<1>4. CASE RoomsReq(c)
  <2> DEFINE count(r) == Cardinality({e \in clients : e.room = r})
             online == {<<r, count(r)>> : r \in {e.room : e \in clients}}
  <2>1. \A r : count(r) \in Nat
    BY FS_Subset, FS_CardinalityType DEF IInv, HandlerFacts
  <2>2. \A e \in clients : e.room \in Rooms
    BY DEF IInv, TypeOK, ClientInfo
  <2>3. Handle(c, "RoomsReq", <<ListRooms(online)>>)
    BY <1>4 DEF RoomsReq
  <2>4. online \in SUBSET (Rooms \X Nat)
    <3> HIDE DEF count
    <3>1. QED
      BY <2>1, <2>2
  <2>5. ListRooms(online) \in Call /\ ListRooms(online).op = "list_rooms"
    BY <2>4, CallTypes DEF PlainCall, ListRooms
  <2>6. QED
    BY <2>3, <2>5, AnswerByOne
<1>5. CASE Other(c)
  <2>1. CASE Handle(c, "Other", <<Send(fd[c], System("refused"))>>)
    <3>1. pc[c] = "loop"
      BY <2>1 DEF Handle, Reading
    <3>2. Send(fd[c], System("refused")) \in Call
      BY <3>1, OwnSocket, FrameTypes, CallTypes DEF PlainCall, Text
    <3>3. PlainSend(c, Send(fd[c], System("refused")))
      BY DEF PlainSend, Plain, Send, System
    <3>4. QED
      BY <2>1, <3>2, <3>3, AnswerByOne
  <2>2. CASE Handle(c, "Other", <<>>)
    BY <2>2 DEF Handle, Reading, Do, Answer, Sets, dbVars
  <2>3. QED
    BY <1>5, <2>1, <2>2 DEF Other
<1>6. CASE Quit(c)
  <2>1. pc[c] = "loop"
    BY <1>6 DEF Quit, Reading
  <2>2. Send(fd[c], System("goodbye")) \in Call
    BY <2>1, OwnSocket, FrameTypes, CallTypes DEF PlainCall, Text
  <2>3. PlainSend(c, Send(fd[c], System("goodbye")))
    BY DEF PlainSend, Plain, Send, System
  <2>4. QED
    BY <1>6, <2>2, <2>3 DEF Quit, Reading, Do, Answer, Sets, dbVars
<1>7. CASE Disconnected(c)
  <2>1. todo' = [todo EXCEPT ![c] = <<>>]
    BY <1>7 DEF Disconnected, IInv, TypeOK
  <2>2. QED
    BY <1>7, <2>1 DEF Disconnected, Answer, Sets, dbVars
<1>8. QED
  BY <1>1, <1>2, <1>3, <1>4, <1>5, <1>6, <1>7

\* The steps before the message loop.
LEMMA AuthSteps ==
  ASSUME IInv, NEW c \in Conns, Auth(c)
  PROVE  Finish(c) \/ Answer(c) \/ \E u \in Users : Admit(c, u)
<1>1. CASE AuthDisconnected(c)
  BY <1>1 DEF AuthDisconnected, Finish, dbVars
<1>2. ASSUME Reading(c, "auth", "Other") \/ Reading(c, "auth", "Register")
               \/ Reading(c, "auth", "Login"),
             Do(c, <<Send(fd[c], AuthFail)>>),
             UNCHANGED <<pc, fd, owner, user, room, clients, out, accounts, messages,
                         netVars>>
      PROVE  Answer(c)
  <2>1. pc[c] = "auth"
    BY <1>2 DEF Reading
  <2>2. Send(fd[c], AuthFail) \in Call
    BY <2>1, OwnSocket, FrameTypes, CallTypes DEF PlainCall
  <2>3. PlainSend(c, Send(fd[c], AuthFail))
    BY DEF PlainSend, Plain, Send, AuthFail
  <2>4. QED
    BY <1>2, <2>2, <2>3 DEF Reading, Do, Answer, Sets
<1>3. CASE AuthRefused(c)
  BY <1>2, <1>3 DEF AuthRefused, dbVars
<1>4. ASSUME NEW u \in Users, NEW p \in Passwords, Register(c, u, p)
      PROVE  Answer(c) \/ Admit(c, u)
  <2>1. CASE register_user(u, p, TRUE) /\ AuthAs(c, u, <<Send(fd[c], System("created"))>>)
    BY <1>4, <2>1 DEF Register, Reading, register_user, AuthAs, Do, Admit, Sets
  <2>2. CASE register_user(u, p, FALSE) /\ Do(c, <<Send(fd[c], AuthFail)>>)
             /\ UNCHANGED <<pc, user>>
    <3>1. UNCHANGED accounts
      BY <2>2 DEF register_user
    <3>2. QED
      BY <1>2, <1>4, <2>2, <3>1 DEF Register
  <2>3. QED
    BY <1>4, <2>1, <2>2 DEF Register
<1>5. ASSUME NEW u \in Users, NEW p \in Passwords, Login(c, u, p)
      PROVE  Answer(c) \/ Admit(c, u)
  <2>1. CASE AuthAs(c, u, <<>>)
    BY <1>5, <2>1 DEF Login, Reading, AuthAs, Do, Admit, Sets, dbVars
  <2>2. CASE Do(c, <<Send(fd[c], AuthFail)>>) /\ UNCHANGED <<pc, user>>
    BY <1>2, <1>5, <2>2 DEF Login, dbVars
  <2>3. QED
    BY <1>5, <2>1, <2>2 DEF Login
<1>6. QED
  BY <1>1, <1>3, <1>4, <1>5 DEF Auth

\* Who wrote a text typed on connection c, and what it is.
LEMMA TypedBy ==
  ASSUME IInv, NEW c \in Conns, Reading(c, "loop", "Chat") \/ Reading(c, "loop", "Direct"),
         NEW k \in Keys, NEW t \in Times
  PROVE  Typed(c, k, t) \in Message /\ Author(Typed(c, k, t)) = c
         /\ Typed(c, k, t).room = k
<1>1. pc[c] = "loop" /\ reads[c] < MaxReads
  BY DEF Reading
<1>2. Typed(c, k, t) \in Message
  BY <1>1, TypedTypes
<1>3. QED
  BY <1>2 DEF Typed, Author

\* A handler begins to wait for the connection its descriptor is open for.
LEMMA WaitsForLive ==
  ASSUME IInv, NEW c \in Conns, SendWaits(c)
  PROVE  Idle
<1>1. /\ UNCHANGED <<pc, fd, owner, user, room, clients, todo, out, accounts, messages>>
      /\ lost' = lost
  BY DEF SendWaits, dbVars
<1>2. PICK f \in Fds, w \in Conns : w = owner[f] /\ waiting' = [waiting EXCEPT ![c] = w]
  BY WaitBegins
<1>3. fd[w] = f
  BY <1>2, ServerAssumption DEF IInv, DescriptorsOwned
<1>4. ASSUME NEW a \in Conns, NEW d \in Conns, pc[d] \notin {"none", "done"},
             Misled(a, d)'
      PROVE  Misled(a, d)
  <2>1. owner[fd[d]] = d
    BY <1>4 DEF IInv, DescriptorsOwned
  <2>2. CASE a = c
    <3>1. waiting'[a] = w
      BY <1>2, <2>2 DEF IInv, TypeOK
    <3>2. w # d /\ fd[w] = fd[d]
      BY <1>1, <1>4, <3>1 DEF Misled
    <3>3. QED
      BY <1>2, <1>3, <2>1, <3>2
  <2>3. CASE a # c
    <3>1. waiting'[a] = waiting[a]
      BY <1>2, <2>3 DEF IInv, TypeOK
    <3>2. QED
      BY <1>1, <1>4, <3>1 DEF Misled
  <2>4. QED
    BY <2>2, <2>3
<1>5. NoneMisled
  BY <1>4 DEF NoneMisled
<1>6. QED
  BY <1>1, <1>5 DEF Idle

\* Every step of the server is one of these.
LEMMA Steps ==
  ASSUME IInv, [Next]_vars
  PROVE  Restart \/ Idle \/ \E c \in Conns : StepOf(c)
<1>1. ASSUME NEW c \in Conns, Request(c)
      PROVE  StepOf(c)
  <2>1. ASSUME NEW t \in Times, Chat(c, t)
        PROVE  \E m \in Message : Speak(c, m)
    <3>1. PICK m : m = Typed(c, room[c], t)
      OBVIOUS
    <3>2. Reading(c, "loop", "Chat") /\ room[c] \in Rooms /\ room[c] \in Keys
      BY <2>1 DEF Chat, Handle, IInv, TypeOK, Keys
    <3>3. m \in Message /\ Author(m) = c /\ m.room = room[c]
      BY <3>1, <3>2, TypedBy
    <3>4. Handle(c, "Chat", <<Store(m), Broadcast(room[c], ChatMsg(m), fd[c])>>)
      BY <2>1, <3>1 DEF Chat
    <3>5. Says(c, <<Store(m), Broadcast(m.room, ChatMsg(m), fd[c])>>)
      BY <3>3, <3>4 DEF Handle, Reading, Do, Says, Sets, dbVars
    <3>6. QED
      BY <3>2, <3>3, <3>5 DEF Speak
  <2>2. ASSUME NEW u \in Users, NEW t \in Times, Direct(c, u, t)
        PROVE  Answer(c) \/ \E m \in Message, e \in clients : Whisper(c, m, u, e)
    <3>1. PICK m : m = Typed(c, dm_room_key(user[c], u), t)
      OBVIOUS
    <3>2. Reading(c, "loop", "Direct") /\ pc[c] = "loop"
      BY <2>2 DEF Direct, Handle, Reading
    <3>3. user[c] \in Users
      BY <3>2 DEF IInv, HandlerFacts
    <3>4. m \in Message /\ Author(m) = c
          /\ m.room \in {dm_room_key(a, b) : a, b \in Users}
      <4>1. dm_room_key(user[c], u) \in {dm_room_key(a, b) : a, b \in Users}
        BY <3>3
      <4>2. PICK k : k = dm_room_key(user[c], u)
        OBVIOUS
      <4>3. k \in Keys
        BY <4>1, <4>2 DEF Keys
      <4>4. m \in Message /\ Author(m) = c /\ m.room = k
        BY <3>1, <3>2, <4>2, <4>3, TypedBy
      <4>5. QED
        BY <4>1, <4>2, <4>4
    <3>5. CASE Handle(c, "Direct", <<Send(fd[c], System("offline"))>>)
      <4>1. Send(fd[c], System("offline")) \in Call
        BY <3>2, OwnSocket, FrameTypes, CallTypes DEF PlainCall, Text
      <4>2. PlainSend(c, Send(fd[c], System("offline")))
        BY DEF PlainSend, Plain, Send, System
      <4>3. QED
        BY <3>5, <4>1, <4>2, AnswerByOne
    <3> DEFINE copy(e) == DirectMsg(m, u, owner[e.socket])
    <3>6. ASSUME NEW e \in find_client_by_username(u),
                 Handle(c, "Direct", <<Store(m), Send(e.socket, copy(e)),
                                       Send(fd[c], copy(e))>>)
          PROVE  e \in clients /\ Whisper(c, m, u, e)
      <4>1. e \in clients /\ e.username = u
        BY DEF find_client_by_username, First
      <4>2. Says(c, <<Store(m), Send(e.socket, copy(e)),
                      Send(fd[c], copy(e))>>)
        BY <3>6 DEF Handle, Reading, Do, Says, Sets, dbVars
      <4>3. QED
        BY <3>4, <4>1, <4>2 DEF Whisper
    <3>7. \/ Handle(c, "Direct", <<Send(fd[c], System("offline"))>>)
          \/ \E e \in find_client_by_username(u) :
               Handle(c, "Direct", <<Store(m), Send(e.socket, copy(e)),
                                     Send(fd[c], copy(e))>>)
      BY <2>2, <3>1 DEF Direct
    <3>8. CASE \E e \in find_client_by_username(u) :
                 Handle(c, "Direct", <<Store(m), Send(e.socket, copy(e)),
                                       Send(fd[c], copy(e))>>)
      <4>1. PICK e \in find_client_by_username(u) :
                 Handle(c, "Direct", <<Store(m), Send(e.socket, copy(e)),
                                       Send(fd[c], copy(e))>>)
        BY <3>8
      <4>2. e \in clients /\ Whisper(c, m, u, e)
        BY <3>6, <4>1
      <4>3. QED
        BY <3>4, <4>2
    <3>9. QED
      BY <3>5, <3>7, <3>8
  <2>3. ASSUME NEW r \in Rooms, r # room[c], Join(c, r)
        PROVE  Move(c, r)
    BY <2>3 DEF Join, Handle, Reading, Do, Move, Says, Sets, dbVars
  <2>4. QED
    BY <1>1, <2>1, <2>2, <2>3, AnsweredRequests DEF Request, StepOf
<1>2. ASSUME NEW c \in Conns, Thread(c)
      PROVE  StepOf(c) \/ Idle
  <2>1. CASE Close(c)
    BY <2>1 DEF Close, Finish, StepOf, dbVars
  <2>2. CASE SendWaits(c)
    BY <2>2, WaitsForLive
  <2>3. QED
    BY <1>2, <2>1, <2>2 DEF Thread, StepOf
<1>3. ASSUME NEW c \in Conns, Stall(c) \/ Resume(c) \/ Lose(c)
      PROVE  Idle
  BY <1>3 DEF Stall, Resume, Lose, Idle, NoneMisled, Misled, dbVars
<1>4. CASE AcceptWaits \/ UNCHANGED vars
  BY <1>4 DEF AcceptWaits, vars, Idle, NoneMisled, Misled
<1>5. QED
  BY <1>1, <1>2, <1>3, <1>4, AuthSteps DEF Next, StepOf

\* The two look-ups.
LEMMA LookUps ==
  ASSUME IInv, NEW c \in Conns, CallReplay(c) \/ CallListRooms(c)
  PROVE  LookUp(c)
<1>1. fd[c] \in Fds /\ Head(todo[c]) \in Call /\ DatabaseTypeOK /\ todo[c] # <<>>
  BY CallingTypes DEF CallReplay, CallListRooms
<1>2. CASE CallReplay(c)
  <2>1. PICK rows \in get_recent_messages(Head(todo[c]).room, Head(todo[c]).limit) :
          Returns(c, IF rows = {} THEN <<Send(fd[c], System("no history"))>>
                     ELSE <<Send(fd[c], History(rows, Len(messages)))>>)
    BY <1>2 DEF CallReplay
  <2>2. rows \in SUBSET Nat /\ Len(messages) \in Nat
    <3>1. messages \in Seq(Message)
      BY <1>1 DEF DatabaseTypeOK
    <3>2. DOMAIN messages \subseteq Nat /\ Len(messages) \in Nat
      BY <3>1
    <3>3. rows \subseteq DOMAIN messages
      BY <2>1 DEF get_recent_messages, Oldest, RecentRows, RowsIn
    <3>4. QED
      BY <3>2, <3>3
  <2>3. /\ Send(fd[c], System("no history")) \in Call
        /\ Send(fd[c], History(rows, Len(messages))) \in Call
    BY <1>1, <2>2, FrameTypes, CallTypes DEF PlainCall, Text
  <2>4. /\ PlainSend(c, Send(fd[c], System("no history")))
        /\ PlainSend(c, Send(fd[c], History(rows, Len(messages))))
    BY DEF PlainSend, Plain, Send, System, History
  <2>5. \E call \in Call : PlainSend(c, call) /\ Returns(c, <<call>>)
    BY <2>1, <2>3, <2>4
  <2>6. QED
    BY <1>1, <1>2, <2>5 DEF CallReplay, Calling, LookUp, dbVars
<1>3. CASE CallListRooms(c)
  <2>1. PICK known \in list_rooms(RoomListLimit) :
          Returns(c, <<Send(fd[c], RoomList(Head(todo[c]).online \cup
             {<<k, 0>> : k \in known \ {p[1] : p \in Head(todo[c]).online}}))>>)
    BY <1>3 DEF CallListRooms
  <2>2. PICK S : S = Head(todo[c]).online \cup
             {<<k, 0>> : k \in known \ {p[1] : p \in Head(todo[c]).online}}
    OBVIOUS
  <2>3. S \in SUBSET (Keys \X Nat)
    <3>1. Head(todo[c]).online \in SUBSET (Rooms \X Nat)
      BY <1>1, <1>3, CallFields DEF CallListRooms, Calling
    <3>2. known \in SUBSET Keys
      <4>1. messages \in Seq(Message)
        BY <1>1 DEF DatabaseTypeOK
      <4>2. \A i \in DOMAIN messages : messages[i] \in Message
        BY <4>1
      <4>3. \A i \in DOMAIN messages : messages[i].room \in Keys
        BY <4>2 DEF Message
      <4>4. QED
        BY <2>1, <4>3 DEF list_rooms
    <3>3. QED
      BY <2>2, <3>1, <3>2 DEF Keys
  <2>4. Send(fd[c], RoomList(S)) \in Call
    BY <1>1, <2>3, FrameTypes, CallTypes DEF PlainCall
  <2>5. PlainSend(c, Send(fd[c], RoomList(S)))
    BY DEF PlainSend, Plain, Send, RoomList
  <2>6. QED
    BY <1>1, <1>3, <2>1, <2>2, <2>4, <2>5 DEF CallListRooms, Calling, LookUp, dbVars
<1>4. QED
  BY <1>2, <1>3

-----------------------------------------------------------------------------
(***************************************************************************)
(* What a returning call leaves, and what a write adds.                    *)
(***************************************************************************)
\* The first element is dropped, ...
LEMMA Dropped ==
  ASSUME NEW S, NEW a \in Seq(S), a # <<>>, NEW b, b = <<>> \o Tail(a)
  PROVE  /\ b \in Seq(S) /\ b = Tail(a) /\ Len(a) \in Nat /\ Len(b) = Len(a) - 1
         /\ Len(b) \in Nat /\ 1 \in 1..Len(a) /\ a[1] = Head(a) /\ a[1] \in S
         /\ \A k \in 1..Len(b) : k + 1 \in 1..Len(a) /\ b[k] = a[k + 1]
<1>1. Tail(a) \in Seq(S) /\ Len(a) \in Nat /\ Len(Tail(a)) = Len(a) - 1 /\ Len(a) > 0
  OBVIOUS
<1>2. b = Tail(a)
  BY <1>1
<1>3. QED
  BY <1>1, <1>2

\* ... or replaced.
LEMMA Replaced ==
  ASSUME NEW S, NEW a \in Seq(S), a # <<>>, NEW x \in S, NEW b, b = <<x>> \o Tail(a)
  PROVE  /\ b \in Seq(S) /\ Len(a) \in Nat /\ Len(b) = Len(a)
         /\ 1 \in 1..Len(a) /\ a[1] = Head(a) /\ b[1] = x
         /\ \A k \in 1..Len(a) : k # 1 => b[k] = a[k]
<1>1. Tail(a) \in Seq(S) /\ Len(a) \in Nat /\ Len(Tail(a)) = Len(a) - 1 /\ Len(a) > 0
  OBVIOUS
<1>2. <<x>> \in Seq(S) /\ Len(<<x>>) = 1 /\ <<x>>[1] = x
  OBVIOUS
<1>3. b \in Seq(S) /\ Len(b) = Len(a)
  BY <1>1, <1>2
<1>4. b[1] = x
  BY <1>1, <1>2, <1>3
<1>5. ASSUME NEW k \in 1..Len(a), k # 1
      PROVE  b[k] = a[k]
  <2>1. b[k] = Tail(a)[k - 1]
    BY <1>1, <1>2, <1>5
  <2>2. Tail(a)[k - 1] = a[(k - 1) + 1]
    BY <1>1, <1>5
  <2>3. (k - 1) + 1 = k
    BY <1>1
  <2>4. QED
    BY <2>1, <2>2, <2>3
<1>6. QED
  BY <1>1, <1>3, <1>4, <1>5

\* The head is the first of a sequence.
LEMMA HeadFirst ==
  ASSUME NEW S, NEW a \in Seq(S), a # <<>>
  PROVE  1 \in 1..Len(a) /\ a[1] = Head(a) /\ Head(a) \in S /\ Len(a) \in Nat
  BY Dropped

\* What is left when the call at the head has returned.
LEMMA Popped ==
  ASSUME IInv, NEW c \in Conns, todo[c] # <<>>, Returns(c, <<>>)
  PROVE  /\ todo' = [todo EXCEPT ![c] = Tail(todo[c])]
         /\ todo'[c] = Tail(todo[c]) /\ todo'[c] \in Seq(Call)
         /\ \A d \in Conns : d # c => todo'[d] = todo[d]
         /\ Len(todo[c]) \in Nat /\ Len(todo'[c]) = Len(todo[c]) - 1
         /\ Len(todo'[c]) \in Nat
         /\ 1 \in 1..Len(todo[c]) /\ todo[c][1] = Head(todo[c])
         /\ \A k \in 1..Len(todo'[c]) : /\ k + 1 \in 1..Len(todo[c])
                                        /\ todo'[c][k] = todo[c][k + 1]
<1>1. todo \in [Conns -> Seq(Call)] /\ todo[c] \in Seq(Call)
  BY DEF IInv, TypeOK
<1>2. PICK a : a = todo[c]
  OBVIOUS
<1>3. PICK b : b = <<>> \o Tail(a)
  OBVIOUS
<1>4. /\ b \in Seq(Call) /\ b = Tail(a) /\ Len(a) \in Nat /\ Len(b) = Len(a) - 1
      /\ Len(b) \in Nat /\ 1 \in 1..Len(a) /\ a[1] = Head(a)
      /\ \A k \in 1..Len(b) : k + 1 \in 1..Len(a) /\ b[k] = a[k + 1]
  BY <1>1, <1>2, <1>3, Dropped
<1>5. todo' = [todo EXCEPT ![c] = b]
  BY <1>2, <1>3 DEF Returns
<1>6. todo'[c] = b /\ \A d \in Conns : d # c => todo'[d] = todo[d]
  BY <1>1, <1>5
<1>7. QED
  BY <1>2, <1>4, <1>5, <1>6

\* What is left when it has been replaced.
LEMMA Swapped ==
  ASSUME IInv, NEW c \in Conns, todo[c] # <<>>, NEW call \in Call, Returns(c, <<call>>)
  PROVE  /\ todo'[c] \in Seq(Call)
         /\ todo' = [todo EXCEPT ![c] = todo'[c]]
         /\ \A d \in Conns : d # c => todo'[d] = todo[d]
         /\ Len(todo[c]) \in Nat /\ Len(todo'[c]) = Len(todo[c])
         /\ 1 \in 1..Len(todo[c]) /\ todo[c][1] = Head(todo[c])
         /\ todo'[c][1] = call
         /\ \A k \in 1..Len(todo[c]) : k # 1 => todo'[c][k] = todo[c][k]
<1>1. todo \in [Conns -> Seq(Call)] /\ todo[c] \in Seq(Call)
  BY DEF IInv, TypeOK
<1>2. PICK a : a = todo[c]
  OBVIOUS
<1>3. PICK b : b = <<call>> \o Tail(a)
  OBVIOUS
<1>4. /\ b \in Seq(Call) /\ Len(a) \in Nat /\ Len(b) = Len(a)
      /\ 1 \in 1..Len(a) /\ a[1] = Head(a) /\ b[1] = call
      /\ \A k \in 1..Len(a) : k # 1 => b[k] = a[k]
  BY <1>1, <1>2, <1>3, Replaced
<1>5. todo' = [todo EXCEPT ![c] = b]
  BY <1>2, <1>3 DEF Returns
<1>6. todo'[c] = b /\ \A d \in Conns : d # c => todo'[d] = todo[d]
  BY <1>1, <1>5
<1>7. QED
  BY <1>2, <1>4, <1>5, <1>6

\* The connections that a send of c on descriptor f may write to: the one f is
\* open for, or one that had it and is gone; its own, if f is its own.
MayReach(c, f, d) ==
  /\ fd[d] = f /\ pc[d] # "none"
  /\ pc[d] # "done" => owner[f] = d
  /\ f = fd[c] => d = c

\* Whom a send writes to.
LEMMA TargetIs ==
  ASSUME IInv, NEW c \in Conns, pc[c] \notin {"none", "done"}, NEW f \in Fds,
         waiting[c] # NoConn => f = fd[waiting[c]], NEW d \in Conns
  PROVE  /\ Target(c, f) = d => MayReach(c, f, d)
         /\ owner[f] = d /\ ~Misled(c, d) => Target(c, f) = d
<1>1. NoConn \notin Conns
  BY ServerAssumption
<1>2. fd[c] \in Fds /\ owner[fd[c]] = c
  BY DEF IInv, DescriptorsOwned
<1>3. owner[f] = d => fd[d] = f /\ pc[d] \notin {"none", "done"}
  BY <1>1 DEF IInv, DescriptorsOwned
<1>4. pc[d] \notin {"none", "done"} => owner[fd[d]] = d
  BY DEF IInv, DescriptorsOwned
<1>5. CASE waiting[c] = NoConn
  <2>1. Target(c, f) = owner[f]
    BY <1>5 DEF Target
  <2>2. QED
    BY <1>2, <1>3, <2>1 DEF MayReach
<1>6. CASE waiting[c] # NoConn
  <2>1. Target(c, f) = waiting[c] /\ f = fd[waiting[c]]
    BY <1>6 DEF Target
  <2>2. /\ pc[waiting[c]] # "none"
        /\ fd[waiting[c]] = fd[c] => waiting[c] = c
    BY <1>6 DEF IInv, Waits
  <2>3. Target(c, f) = d => MayReach(c, f, d)
    BY <1>4, <2>1, <2>2 DEF MayReach
  <2>4. owner[f] = d /\ ~Misled(c, d) => waiting[c] = d
    BY <1>3, <1>6, <2>1 DEF Misled
  <2>5. QED
    BY <2>1, <2>3, <2>4
<1>7. QED
  BY <1>5, <1>6

\* No live handler's own sends go astray.
LEMMA OwnNotMisled ==
  ASSUME IInv, NEW c \in Conns
  PROVE  ~Misled(c, c)
  BY DEF IInv, Waits, Misled

\* send_frame writes to the connection the descriptor was open for, if at all.
LEMMA Written ==
  ASSUME IInv, NEW c \in Conns, pc[c] \notin {"none", "done"}, NEW f \in Fds,
         NEW frame \in Frame, Write(c, f, frame)
  PROVE  /\ \A d \in Conns : \/ out'[d] = out[d]
                             \/ /\ MayReach(c, f, d) /\ Fits(frame)
                                /\ out'[d] = Append(out[d], frame)
         /\ \A d \in Conns :
              (owner[f] = d /\ ~Misled(c, d) /\ d \notin lost
                /\ Fits(frame) /\ Kind(frame) \in Watched)
              => out'[d] = Append(out[d], frame)
<1>1. out \in [Conns -> Seq(Frame)] /\ NoConn \notin Conns
  BY ServerAssumption DEF IInv, TypeOK
<1>2. \A d \in Conns : /\ Target(c, f) = d => MayReach(c, f, d)
                       /\ owner[f] = d /\ ~Misled(c, d) => Target(c, f) = d
  BY TargetIs DEF Write
<1>3. CASE (~Fits(frame) \/ Target(c, f) = NoConn) /\ UNCHANGED out
  BY <1>1, <1>2, <1>3
<1>4. CASE Fits(frame) /\ Target(c, f) \in Conns /\ Deliver(Target(c, f), frame)
  <2>1. PICK t \in Conns : t = Target(c, f) /\ Deliver(t, frame)
    BY <1>4
  <2>2. \A d \in Conns :
          out'[d] = IF d = t /\ t \notin lost /\ Kind(frame) \in Watched
                    THEN Append(out[d], frame) ELSE out[d]
    BY <1>1, <2>1 DEF Deliver
  <2>3. QED
    BY <1>2, <1>4, <2>1, <2>2
<1>5. QED
  BY <1>3, <1>4 DEF Write

\* What a client has got, when a frame has been written or not.
LEMMA GotMore ==
  ASSUME IInv, NEW d \in Conns, NEW frame \in Frame,
         out'[d] = out[d] \/ out'[d] = Append(out[d], frame)
  PROVE  /\ \A x : x \in Got(d) => x \in Got(d)'
         /\ \A x : x \in Got(d)' => x \in Got(d) \/ x = frame
         /\ out'[d] = Append(out[d], frame) => frame \in Got(d)'
<1>1. out[d] \in Seq(Frame)
  BY DEF IInv, TypeOK
<1>2. CASE out'[d] = out[d] /\ out'[d] # Append(out[d], frame)
  BY <1>2 DEF Got
<1>3. CASE out'[d] = Append(out[d], frame)
  <2>1. /\ DOMAIN out[d] = 1..Len(out[d]) /\ Len(out[d]) \in Nat
        /\ DOMAIN out'[d] = 1..(Len(out[d]) + 1)
        /\ out'[d][Len(out[d]) + 1] = frame
        /\ \A k \in 1..Len(out[d]) : out'[d][k] = out[d][k]
    BY <1>1, <1>3
  <2>2. QED
    BY <2>1 DEF Got
<1>4. QED
  BY <1>2, <1>3

-----------------------------------------------------------------------------
(***************************************************************************)
(* The script of a handler.                                                *)
(***************************************************************************)
\* Calls that fit whatever the state.
LEMMA CallsThatFit ==
  ASSUME NEW c \in Conns
  PROVE  /\ \A call : PlainSend(c, call) => CallFits(c, call)
         /\ \A t \in Text : CallFits(c, Send(fd[c], System(t)))
         /\ \A x : CallFits(c, Send(fd[c], NotStored(x)))
         /\ \A u, r : CallFits(c, Send(fd[c], AuthOk(u, r)))
         /\ \A r : CallFits(c, Send(fd[c], Joined(r)))
         /\ \A r : \A t \in {"joined", "left"}, f \in {fd[c], INVALID_SOCKET} :
              CallFits(c, Broadcast(r, Notice(t, c, r), f))
         /\ \A m : Author(m) = c =>
              /\ CallFits(c, Store(m))
              /\ CallFits(c, Broadcast(m.room, ChatMsg(m), fd[c]))
              /\ \A f, u, v : CallFits(c, Send(f, DirectMsg(m, u, v)))
         /\ \A r, n : CallFits(c, Replay(r, n))
         /\ \A r : CallFits(c, SetRoom(r))
<1> USE DEF CallFits, IsNotice
<1>1. \A call : PlainSend(c, call) => CallFits(c, call)
  BY DEF PlainSend, Plain
<1>2. \A t \in Text : CallFits(c, Send(fd[c], System(t)))
  BY DEF Send, System, Text
<1>3. /\ \A x : CallFits(c, Send(fd[c], NotStored(x)))
      /\ \A u, r : CallFits(c, Send(fd[c], AuthOk(u, r)))
      /\ \A r : CallFits(c, Send(fd[c], Joined(r)))
  BY DEF Send, NotStored, AuthOk, Joined
<1>4. \A r : \A t \in {"joined", "left"}, f \in {fd[c], INVALID_SOCKET} :
        CallFits(c, Broadcast(r, Notice(t, c, r), f))
  BY DEF Broadcast, Notice
<1>5. ASSUME NEW m, Author(m) = c
      PROVE  /\ CallFits(c, Store(m))
             /\ CallFits(c, Broadcast(m.room, ChatMsg(m), fd[c]))
             /\ \A f, u, v : CallFits(c, Send(f, DirectMsg(m, u, v)))
  BY <1>5 DEF Store, Broadcast, ChatMsg, Send, DirectMsg
<1>6. /\ \A r, n : CallFits(c, Replay(r, n))
      /\ \A r : CallFits(c, SetRoom(r))
  BY DEF Replay, SetRoom
<1> HIDE DEF CallFits, IsNotice
<1>7. QED
  BY <1>1, <1>2, <1>3, <1>4, <1>5, <1>6

\* No call at all, one call, and the five of handle_join.
LEMMA ListsThatFit ==
  ASSUME NEW c \in Conns
  PROVE  /\ CallsFit(c, <<>>)
         /\ \A x : CallFits(c, x) /\ x.op # "set_room" => CallsFit(c, <<x>>)
         /\ \A x, y : /\ CallFits(c, x) /\ x.op # "set_room"
                       /\ CallFits(c, y) /\ y.op # "set_room" => CallsFit(c, <<x, y>>)
         /\ \A x, y, z : /\ CallFits(c, x) /\ x.op # "set_room"
                          /\ CallFits(c, y) /\ y.op # "set_room"
                          /\ CallFits(c, z) /\ z.op # "set_room" => CallsFit(c, <<x, y, z>>)
         /\ \A w, x, y, z : /\ CallFits(c, w) /\ w.op # "set_room"
                             /\ CallFits(c, x) /\ x.op # "set_room"
                             /\ CallFits(c, y) /\ y.op # "set_room"
                             /\ CallFits(c, z) /\ z.op # "set_room"
                                => CallsFit(c, <<w, x, y, z>>)
  BY DEF CallsFit

\* The five calls of handle_join.
LEMMA MoveFits ==
  ASSUME NEW c \in Conns, NEW q, NEW r
  PROVE  CallsFit(c, <<Broadcast(q, Notice("left", c, q), fd[c]),
                       SetRoom(r),
                       Send(fd[c], Joined(r)),
                       Broadcast(r, Notice("joined", c, r), fd[c]),
                       Replay(r, kHistoryLimit)>>)
<1>1. PICK x1 : x1 = Broadcast(q, Notice("left", c, q), fd[c])
  OBVIOUS
<1>2. PICK x2 : x2 = SetRoom(r)
  OBVIOUS
<1>3. PICK x3 : x3 = Send(fd[c], Joined(r))
  OBVIOUS
<1>4. PICK x4 : x4 = Broadcast(r, Notice("joined", c, r), fd[c])
  OBVIOUS
<1>5. PICK x5 : x5 = Replay(r, kHistoryLimit)
  OBVIOUS
<1>6. PICK s : s = <<x1, x2, x3, x4, x5>>
  OBVIOUS
<1>7. /\ x1.op = "broadcast" /\ x2.op = "set_room" /\ x2.room = r /\ x3.op = "send"
      /\ x4.op = "broadcast" /\ x5.op = "replay"
  BY <1>1, <1>2, <1>3, <1>4, <1>5 DEF Broadcast, SetRoom, Send, Replay
<1>8. /\ CallFits(c, x1) /\ CallFits(c, x2) /\ CallFits(c, x3) /\ CallFits(c, x4)
      /\ CallFits(c, x5)
  BY <1>1, <1>2, <1>3, <1>4, <1>5, CallsThatFit
<1>9. Len(s) = 5 /\ s[1] = x1 /\ s[2] = x2 /\ s[3] = x3 /\ s[4] = x4 /\ s[5] = x5
  BY <1>6
<1>10. RoomChange(c, s, 2)
  BY <1>3, <1>4, <1>5, <1>7, <1>9 DEF RoomChange
<1>11. ASSUME NEW k \in 1..Len(s)
       PROVE  /\ CallFits(c, s[k])
              /\ s[k].op = "set_room" => RoomChange(c, s, k)
  <2>1. k = 1 \/ k = 2 \/ k = 3 \/ k = 4 \/ k = 5
    BY <1>9
  <2>2. QED
    BY <2>1, <1>7, <1>8, <1>9, <1>10
<1>12. CallsFit(c, s)
  BY <1>11 DEF CallsFit
<1>13. QED
  BY <1>1, <1>2, <1>3, <1>4, <1>5, <1>6, <1>12

\* What fits depends on the handler's own descriptor only.
LEMMA FitKept ==
  ASSUME NEW d \in Conns, NEW s, s = todo[d], todo'[d] = s, CallsFit(d, s),
         fd'[d] = fd[d]
  PROVE  CallsFit(d, todo[d])'
<1>1. \A x : CallFits(d, x) => CallFits(d, x)'
  BY DEF CallFits
<1>2. \A k : RoomChange(d, s, k) => RoomChange(d, s, k)'
  BY DEF RoomChange
<1>3. CallsFit(d, s)'
  BY <1>1, <1>2 DEF CallsFit
<1>4. QED
  BY <1>3 DEF CallsFit, RoomChange

\* Setting a list of calls that fits.
LEMMA ScriptSet ==
  ASSUME IInv, Script, NEW c \in Conns, NEW calls, todo' = [todo EXCEPT ![c] = calls],
         UNCHANGED fd, CallsFit(c, calls)
  PROVE  Script'
<1>1. todo \in [Conns -> Seq(Call)]
  BY DEF IInv, TypeOK
<1>2. CallsFit(c, calls)'
  BY DEF CallsFit, CallFits, RoomChange
<1>3. ASSUME NEW d \in Conns, d # c
      PROVE  CallsFit(d, todo[d])'
  <2>1. PICK s : s = todo[d]
    OBVIOUS
  <2>2. CallsFit(d, s) /\ todo'[d] = s
    BY <1>1, <1>3, <2>1 DEF Script
  <2>3. QED
    BY <2>1, <2>2, FitKept
<1>4. todo'[c] = calls
  BY <1>1
<1>5. CallsFit(c, todo[c])'
  BY <1>2, <1>4 DEF CallsFit, RoomChange
<1>6. QED
  BY <1>3, <1>5 DEF Script

\* A call returns.
LEMMA ScriptPopped ==
  ASSUME IInv, Script, NEW c \in Conns, todo[c] # <<>>, Returns(c, <<>>), UNCHANGED fd
  PROVE  Script'
<1>1. PICK a : a = todo[c]
  OBVIOUS
<1>2. PICK b : b = Tail(a)
  OBVIOUS
<1>3. /\ todo' = [todo EXCEPT ![c] = b]
      /\ Len(a) \in Nat /\ Len(b) = Len(a) - 1
      /\ \A k \in 1..Len(b) : k + 1 \in 1..Len(a) /\ b[k] = a[k + 1]
  <2>1. todo \in [Conns -> Seq(Call)]
    BY DEF IInv, TypeOK
  <2>2. QED
    BY <1>1, <1>2, <2>1, Popped
<1>4. CallsFit(c, a)
  BY <1>1 DEF Script
<1>5. CallsFit(c, b)
  <2>1. ASSUME NEW k \in 1..Len(b)
        PROVE  CallFits(c, b[k])
    BY <1>3, <1>4 DEF CallsFit
  <2>2. ASSUME NEW k \in 1..Len(b), b[k].op = "set_room"
        PROVE  RoomChange(c, b, k)
    <3>1. k + 1 \in 1..Len(a) /\ b[k] = a[k + 1] /\ RoomChange(c, a, k + 1)
      BY <1>3, <1>4, <2>2 DEF CallsFit
    <3>2. Len(b) = k + 3
      BY <1>3, <3>1 DEF RoomChange
    <3>3. /\ b[k + 1] = a[(k + 1) + 1] /\ b[k + 2] = a[(k + 1) + 2]
          /\ b[k + 3] = a[(k + 1) + 3]
      BY <1>3, <3>2
    <3>4. QED
      BY <3>1, <3>2, <3>3 DEF RoomChange
  <2>3. QED
    BY <2>1, <2>2 DEF CallsFit
<1>6. QED
  BY <1>3, <1>5, ScriptSet

\* A call is replaced by one that fits.
LEMMA ScriptSwapped ==
  ASSUME IInv, Script, NEW c \in Conns, todo[c] # <<>>, Head(todo[c]).op # "set_room",
         NEW call \in Call, Returns(c, <<call>>), UNCHANGED fd,
         CallFits(c, call), call.op # "set_room"
  PROVE  Script'
<1>1. PICK a : a = todo[c]
  OBVIOUS
<1>2. PICK b : b = todo'[c]
  OBVIOUS
<1>3. /\ todo' = [todo EXCEPT ![c] = b]
      /\ Len(a) \in Nat /\ Len(b) = Len(a) /\ a[1].op # "set_room" /\ b[1] = call
      /\ \A k \in 1..Len(a) : k # 1 => b[k] = a[k]
  BY <1>1, <1>2, Swapped
<1>4. CallsFit(c, a)
  BY <1>1 DEF Script
<1>5. CallsFit(c, b)
  <2>1. ASSUME NEW k \in 1..Len(b)
        PROVE  CallFits(c, b[k])
    BY <1>3, <1>4 DEF CallsFit
  <2>2. ASSUME NEW k \in 1..Len(b), b[k].op = "set_room"
        PROVE  RoomChange(c, b, k)
    <3>1. k # 1 /\ b[k] = a[k] /\ RoomChange(c, a, k)
      BY <1>3, <1>4, <2>2 DEF CallsFit
    <3>2. Len(b) = k + 3
      BY <1>3, <3>1 DEF RoomChange
    <3>3. b[k + 1] = a[k + 1] /\ b[k + 2] = a[k + 2] /\ b[k + 3] = a[k + 3]
      BY <1>3, <3>2
    <3>4. QED
      BY <3>1, <3>2, <3>3 DEF RoomChange
  <2>3. QED
    BY <2>1, <2>2 DEF CallsFit
<1>6. QED
  BY <1>3, <1>5, ScriptSet

\* The script holds at the start, when nobody has a call to make.
LEMMA ScriptInit ==
  ASSUME Init
  PROVE  Script
  BY ListsThatFit DEF Init, Script

\* It is kept by every step: whatever a handler sets out to do fits, and a call
\* that returns leaves the rest as it was.
LEMMA ScriptStep ==
  ASSUME IInv, Script, [Next]_vars
  PROVE  Script'
<1>1. CASE Restart
  <2>1. \A c \in Conns : todo'[c] = <<>>
    BY <1>1 DEF Restart
  <2>2. QED
    BY <2>1 DEF Script, CallsFit
<1>2. CASE Idle
  BY <1>2, FitKept DEF Idle, Script
<1>3. ASSUME NEW c \in Conns, NEW f \in Fds, Accept(c, f)
      PROVE  Script'
  <2>1. todo[c] = <<>> /\ todo' = todo /\ \A d \in Conns : d # c => fd'[d] = fd[d]
    BY <1>3 DEF Accept, IInv, HandlerFacts, TypeOK
  <2>2. ASSUME NEW d \in Conns PROVE CallsFit(d, todo[d])'
    <3>1. CASE d = c
      BY <2>1, <3>1 DEF CallsFit
    <3>2. CASE d # c
      BY <2>1, <3>2, FitKept DEF Script
    <3>3. QED
      BY <3>1, <3>2
  <2>3. QED
    BY <2>2 DEF Script
<1>4. ASSUME NEW c \in Conns, StepOf(c), ~\E f \in Fds : Accept(c, f)
      PROVE  Script'
  <2>1. CASE Finish(c)
    BY <2>1, FitKept DEF Finish, Script
  <2>2. CASE Answer(c)
    <3>1. CASE Sets(c, <<>>)
      BY <2>2, <3>1, ListsThatFit, ScriptSet DEF Answer, Sets
    <3>2. ASSUME NEW call \in Call, Sets(c, <<call>>),
                 PlainSend(c, call) \/ call.op \in {"replay", "list_rooms"}
          PROVE  Script'
      <4>1. CallFits(c, call) /\ call.op # "set_room"
        <5>1. CASE PlainSend(c, call)
          BY <5>1, CallsThatFit DEF PlainSend
        <5>2. CASE call.op \in {"replay", "list_rooms"}
          BY <5>2 DEF CallFits
        <5>3. QED
          BY <3>2, <5>1, <5>2
      <4>2. CallsFit(c, <<call>>)
        BY <4>1, ListsThatFit
      <4>3. QED
        BY <2>2, <3>2, <4>2, ScriptSet DEF Answer, Sets
    <3>3. QED
      BY <2>2, <3>1, <3>2 DEF Answer
  <2>3. ASSUME NEW u \in Users, Admit(c, u) PROVE Script'
    <3>1. CallsFit(c, <<Send(fd[c], System("created"))>>)
      BY CallsThatFit, ListsThatFit DEF Text, Send
    <3>2. QED
      BY <2>3, <3>1, ListsThatFit, ScriptSet DEF Admit, Sets
  <2>4. CASE Enter(c)
    <3>1. CallsFit(c, Greeting(c))
      <4>1. PICK w : w = Send(fd[c], AuthOk(user[c], kDefaultRoom))
        OBVIOUS
      <4>2. PICK x : x = Send(fd[c], System("welcome"))
        OBVIOUS
      <4>3. PICK y : y = Replay(kDefaultRoom, kHistoryLimit)
        OBVIOUS
      <4>4. PICK z : z = Broadcast(kDefaultRoom, Notice("joined", c, kDefaultRoom), fd[c])
        OBVIOUS
      <4>5. CallFits(c, w) /\ CallFits(c, x) /\ CallFits(c, y) /\ CallFits(c, z)
        BY <4>1, <4>2, <4>3, <4>4, CallsThatFit DEF Text
      <4>6. /\ w.op # "set_room" /\ x.op # "set_room" /\ y.op # "set_room"
            /\ z.op # "set_room"
        BY <4>1, <4>2, <4>3, <4>4 DEF Send, Replay, Broadcast
      <4>7. CallsFit(c, <<w, x, y, z>>)
        BY <4>5, <4>6, ListsThatFit
      <4>8. QED
        BY <4>1, <4>2, <4>3, <4>4, <4>7 DEF Greeting
    <3>2. QED
      BY <2>4, <3>1, ScriptSet DEF Enter, Do
  <2>5. CASE Leave(c)
    <3>1. CallsFit(c, <<Broadcast(room[c], Notice("left", c, room[c]), INVALID_SOCKET)>>)
      BY CallsThatFit, ListsThatFit DEF Broadcast
    <3>2. QED
      BY <2>5, <3>1, ScriptSet DEF Leave, Do
  <2>6. ASSUME NEW r \in Rooms, Move(c, r) PROVE Script'
    BY <2>6, MoveFits, ScriptSet DEF Move, Says, Sets
  <2>7. ASSUME NEW m \in Message, Speak(c, m) PROVE Script'
    <3>1. CallsFit(c, <<Store(m), Broadcast(m.room, ChatMsg(m), fd[c])>>)
      <4>1. CallFits(c, Store(m)) /\ CallFits(c, Broadcast(m.room, ChatMsg(m), fd[c]))
        BY <2>7, CallsThatFit DEF Speak
      <4>2. Store(m).op # "set_room"
            /\ Broadcast(m.room, ChatMsg(m), fd[c]).op # "set_room"
        BY DEF Store, Broadcast
      <4>3. QED
        BY <4>1, <4>2, ListsThatFit
    <3>2. QED
      BY <2>7, <3>1, ScriptSet DEF Speak, Says, Sets
  <2>8. ASSUME NEW m \in Message, NEW u \in Users, NEW e \in clients, Whisper(c, m, u, e)
        PROVE  Script'
    <3> DEFINE copy == DirectMsg(m, u, owner[e.socket])
    <3>1. CallsFit(c, <<Store(m), Send(e.socket, copy),
                        Send(fd[c], copy)>>)
      <4>1. /\ CallFits(c, Store(m)) /\ CallFits(c, Send(e.socket, copy))
            /\ CallFits(c, Send(fd[c], copy))
        BY <2>8, CallsThatFit DEF Whisper
      <4>2. /\ Store(m).op # "set_room"
            /\ Send(e.socket, copy).op # "set_room"
            /\ Send(fd[c], copy).op # "set_room"
        BY DEF Store, Send
      <4>3. QED
        BY <4>1, <4>2, ListsThatFit
    <3>2. QED
      BY <2>8, <3>1, ScriptSet DEF Whisper, Says, Sets
  <2>9. CASE CallSend(c) \/ CallSetRoom(c)
    BY <2>9, ScriptPopped DEF CallSend, CallSetRoom, Calling
  <2>10. CASE CallBroadcast(c)
    <3>1. PICK S : S = {e \in clients : e.room = Head(todo[c]).room
                                      /\ e.socket # Head(todo[c]).exclude}
      OBVIOUS
    <3>2. PICK x : x = SendEach(S, Head(todo[c]).frame)
      OBVIOUS
    <3>3. Returns(c, <<>>) \/ Returns(c, <<x>>)
      BY <2>10, <3>1, <3>2 DEF CallBroadcast
    <3>4. /\ todo[c] # <<>> /\ Head(todo[c]) \in Call /\ Head(todo[c]).op = "broadcast"
          /\ UNCHANGED fd
      BY <2>10, CallingTypes DEF CallBroadcast
    <3>5. S \in SUBSET ClientInfo /\ Head(todo[c]).frame \in Frame
      BY <3>1, <3>4, CallFields DEF IInv, TypeOK
    <3>6. x \in Call /\ x.op = "send each" /\ x.frame = Head(todo[c]).frame
      BY <3>2, <3>5, CallTypes DEF PlainCall, SendEach
    <3>7. CallFits(c, Head(todo[c]))
      <4>1. todo[c] \in Seq(Call)
        BY DEF IInv, TypeOK
      <4>2. 1 \in 1..Len(todo[c]) /\ todo[c][1] = Head(todo[c])
        BY <3>4, <4>1, HeadFirst
      <4>3. QED
        BY <4>2 DEF Script, CallsFit
    <3>8. CallFits(c, x)
      BY <3>4, <3>6, <3>7 DEF CallFits
    <3>9. QED
      BY <3>3, <3>4, <3>6, <3>8, ScriptPopped, ScriptSwapped
  <2>11. CASE CallSendEach(c)
    <3>1. PICK e \in First(Head(todo[c]).to) :
            /\ Returns(c, IF Head(todo[c]).to = {e} THEN <<>>
                          ELSE <<SendEach(Head(todo[c]).to \ {e}, Head(todo[c]).frame)>>)
      BY <2>11 DEF CallSendEach
    <3>2. PICK x : x = SendEach(Head(todo[c]).to \ {e}, Head(todo[c]).frame)
      OBVIOUS
    <3>3. Returns(c, <<>>) \/ Returns(c, <<x>>)
      BY <3>1, <3>2
    <3>4. /\ todo[c] # <<>> /\ Head(todo[c]) \in Call /\ Head(todo[c]).op = "send each"
          /\ UNCHANGED fd
      BY <2>11, CallingTypes DEF CallSendEach
    <3>5. Head(todo[c]).to \ {e} \in SUBSET ClientInfo /\ Head(todo[c]).frame \in Frame
      BY <3>4, CallFields
    <3>6. x \in Call /\ x.op = "send each" /\ x.frame = Head(todo[c]).frame
      BY <3>2, <3>5, CallTypes DEF PlainCall, SendEach
    <3>7. CallFits(c, Head(todo[c]))
      <4>1. todo[c] \in Seq(Call)
        BY DEF IInv, TypeOK
      <4>2. 1 \in 1..Len(todo[c]) /\ todo[c][1] = Head(todo[c])
        BY <3>4, <4>1, HeadFirst
      <4>3. QED
        BY <4>2 DEF Script, CallsFit
    <3>8. CallFits(c, x)
      BY <3>4, <3>6, <3>7 DEF CallFits
    <3>9. QED
      BY <3>3, <3>4, <3>6, <3>8, ScriptPopped, ScriptSwapped
  <2>12. CASE CallReplay(c) \/ CallListRooms(c)
    <3>1. LookUp(c)
      BY <2>12, LookUps
    <3>2. PICK call \in Call : PlainSend(c, call) /\ Returns(c, <<call>>)
      BY <3>1 DEF LookUp
    <3>3. CallFits(c, call) /\ call.op # "set_room"
      BY <3>2, CallsThatFit DEF PlainSend
    <3>4. QED
      BY <3>1, <3>2, <3>3, ScriptSwapped DEF LookUp
  <2>13. CASE CallStore(c)
    <3>1. /\ todo[c] # <<>> /\ Head(todo[c]) \in Call /\ Head(todo[c]).op = "store"
          /\ fd[c] \in Fds /\ UNCHANGED fd
      BY <2>13, CallingTypes DEF CallStore
    <3>2. PICK x : x = Send(fd[c], NotStored(Head(todo[c]).message.content))
      OBVIOUS
    <3>3. Returns(c, <<>>) \/ Returns(c, <<x>>)
      BY <2>13, <3>2 DEF CallStore
    <3>4. Head(todo[c]).message.content \in Contents
      BY <3>1, CallFields DEF Message
    <3>5. x \in Call /\ x.op = "send"
      BY <3>1, <3>2, <3>4, FrameTypes, CallTypes DEF PlainCall, Send
    <3>6. CallFits(c, x)
      BY <3>2, CallsThatFit
    <3>7. QED
      BY <3>1, <3>3, <3>5, <3>6, ScriptPopped, ScriptSwapped
  <2>14. QED
    BY <1>4, <2>1, <2>2, <2>3, <2>4, <2>5, <2>6, <2>7, <2>8, <2>9, <2>10, <2>11,
       <2>12, <2>13 DEF StepOf
<1>5. QED
  BY <1>1, <1>2, <1>3, <1>4, Steps

\* The script of every handler holds in every state of every behaviour.
LEMMA ScriptInvariant == Spec => [](IInv /\ Script)
<1>1. Init => Script
  BY ScriptInit
<1>2. IInv /\ Script /\ [Next]_vars => Script'
  BY ScriptStep
<1>3. QED
  BY <1>1, <1>2, Inductive, PTL DEF Spec

-----------------------------------------------------------------------------
(***************************************************************************)
(* The pending calls as a set.                                             *)
(***************************************************************************)
\* A list of calls and the set of its elements.
LEMMA PendingIs ==
  ASSUME IInv, NEW c \in Conns
  PROVE  /\ Pending(c) \subseteq Call
         /\ \A x : x \in Pending(c) <=> \E k \in 1..Len(todo[c]) : x = todo[c][k]
<1>1. todo[c] \in Seq(Call)
  BY DEF IInv, TypeOK
<1>2. DOMAIN todo[c] = 1..Len(todo[c]) /\ \A k \in 1..Len(todo[c]) : todo[c][k] \in Call
  BY <1>1
<1>3. QED
  BY <1>2 DEF Pending

\* Whatever is pending fits.
LEMMA PendingFits ==
  ASSUME IInv, Script, NEW c \in Conns, NEW x \in Pending(c)
  PROVE  CallFits(c, x) /\ x \in Call
  BY PendingIs DEF Script, CallsFit

\* The call at the head is pending, and its handler is alive.
LEMMA HeadPending ==
  ASSUME IInv, NEW c \in Conns, todo[c] # <<>>
  PROVE  /\ Head(todo[c]) \in Pending(c) /\ Head(todo[c]) \in Call
         /\ pc[c] \notin {"none", "done"} /\ fd[c] \in Fds /\ owner[fd[c]] = c
<1>1. todo[c] \in Seq(Call)
  BY DEF IInv, TypeOK
<1>2. 1 \in 1..Len(todo[c]) /\ todo[c][1] = Head(todo[c]) /\ Head(todo[c]) \in Call
  BY <1>1, HeadFirst
<1>3. Head(todo[c]) \in Pending(c)
  BY <1>2, PendingIs
<1>4. QED
  BY <1>2, <1>3 DEF IInv, HandlerFacts, DescriptorsOwned

\* Nothing is pending.
LEMMA NonePending ==
  ASSUME IInv, NEW c \in Conns, todo[c] = <<>>
  PROVE  Pending(c) = {}
<1>1. 1..Len(todo[c]) = {}
  OBVIOUS
<1>2. QED
  BY <1>1, PendingIs

\* The pending calls after one has returned, ...
LEMMA PendingPopped ==
  ASSUME IInv, IInv', NEW c \in Conns, todo[c] # <<>>, Returns(c, <<>>)
  PROVE  /\ \A x \in Pending(c)' : x \in Pending(c)
         /\ \A x \in Pending(c) : x # Head(todo[c]) => x \in Pending(c)'
         /\ \A d \in Conns : d # c => Pending(d)' = Pending(d)
<1>1. /\ \A x : x \in Pending(c) <=> \E k \in 1..Len(todo[c]) : x = todo[c][k]
      /\ \A x : x \in Pending(c)' <=> \E k \in 1..Len(todo'[c]) : x = todo'[c][k]
  <2>1. \A x : x \in Pending(c) <=> \E k \in 1..Len(todo[c]) : x = todo[c][k]
    BY PendingIs
  <2>2. todo'[c] \in Seq(Call)
    BY DEF IInv, TypeOK
  <2>3. DOMAIN todo'[c] = 1..Len(todo'[c])
    BY <2>2
  <2>4. QED
    BY <2>1, <2>3 DEF Pending
<1>2. PICK a : a = todo[c]
  OBVIOUS
<1>3. PICK b : b = todo'[c]
  OBVIOUS
<1>4. /\ Len(a) \in Nat /\ Len(b) = Len(a) - 1 /\ Len(b) \in Nat
      /\ a[1] = Head(todo[c])
      /\ \A k \in 1..Len(b) : k + 1 \in 1..Len(a) /\ b[k] = a[k + 1]
      /\ \A d \in Conns : d # c => todo'[d] = todo[d]
  BY <1>2, <1>3, Popped
<1>5. ASSUME NEW x \in Pending(c)'
      PROVE  x \in Pending(c)
  <2>1. PICK k \in 1..Len(b) : x = b[k]
    BY <1>1, <1>3
  <2>2. k + 1 \in 1..Len(a) /\ x = a[k + 1]
    BY <1>4, <2>1
  <2>3. QED
    BY <1>1, <1>2, <2>2
<1>6. ASSUME NEW x \in Pending(c), x # Head(todo[c])
      PROVE  x \in Pending(c)'
  <2>1. PICK k \in 1..Len(a) : x = a[k]
    BY <1>1, <1>2
  <2>2. k # 1
    BY <1>4, <1>6, <2>1
  <2>3. k - 1 \in 1..Len(b) /\ (k - 1) + 1 = k
    BY <1>4, <2>1, <2>2
  <2>4. x = b[k - 1]
    BY <1>4, <2>1, <2>3
  <2>5. QED
    BY <1>1, <1>3, <2>3, <2>4
<1>7. QED
  BY <1>4, <1>5, <1>6 DEF Pending

\* ... and after one has been replaced.
LEMMA PendingSwapped ==
  ASSUME IInv, IInv', NEW c \in Conns, todo[c] # <<>>, NEW call \in Call,
         Returns(c, <<call>>)
  PROVE  /\ \A x \in Pending(c)' : x \in Pending(c) \/ x = call
         /\ \A x \in Pending(c) : x # Head(todo[c]) => x \in Pending(c)'
         /\ call \in Pending(c)'
         /\ \A d \in Conns : d # c => Pending(d)' = Pending(d)
<1>1. /\ \A x : x \in Pending(c) <=> \E k \in 1..Len(todo[c]) : x = todo[c][k]
      /\ \A x : x \in Pending(c)' <=> \E k \in 1..Len(todo'[c]) : x = todo'[c][k]
  <2>1. \A x : x \in Pending(c) <=> \E k \in 1..Len(todo[c]) : x = todo[c][k]
    BY PendingIs
  <2>2. todo'[c] \in Seq(Call)
    BY DEF IInv, TypeOK
  <2>3. DOMAIN todo'[c] = 1..Len(todo'[c])
    BY <2>2
  <2>4. QED
    BY <2>1, <2>3 DEF Pending
<1>2. PICK a : a = todo[c]
  OBVIOUS
<1>3. PICK b : b = todo'[c]
  OBVIOUS
<1>4. /\ Len(a) \in Nat /\ Len(b) = Len(a) /\ 1 \in 1..Len(a)
      /\ a[1] = Head(todo[c]) /\ b[1] = call
      /\ \A k \in 1..Len(a) : k # 1 => b[k] = a[k]
      /\ \A d \in Conns : d # c => todo'[d] = todo[d]
  BY <1>2, <1>3, Swapped
<1>5. ASSUME NEW x \in Pending(c)'
      PROVE  x \in Pending(c) \/ x = call
  BY <1>1, <1>2, <1>3, <1>4
<1>6. ASSUME NEW x \in Pending(c), x # Head(todo[c])
      PROVE  x \in Pending(c)'
  BY <1>1, <1>2, <1>3, <1>4, <1>6
<1>7. call \in Pending(c)'
  BY <1>1, <1>3, <1>4
<1>8. QED
  BY <1>4, <1>5, <1>6, <1>7 DEF Pending

\* The pending calls when a handler sets out to make some.
LEMMA PendingSet ==
  ASSUME IInv, NEW c \in Conns, NEW calls, todo' = [todo EXCEPT ![c] = calls]
  PROVE  /\ todo'[c] = calls
         /\ Pending(c)' = {calls[k] : k \in DOMAIN calls}
         /\ \A d \in Conns : d # c => Pending(d)' = Pending(d) /\ todo'[d] = todo[d]
<1>1. todo \in [Conns -> Seq(Call)]
  BY DEF IInv, TypeOK
<1>2. todo'[c] = calls /\ \A d \in Conns : d # c => todo'[d] = todo[d]
  BY <1>1
<1>3. QED
  BY <1>2 DEF Pending

\* The elements of the lists a handler sets out with.
LEMMA ListElements ==
  /\ {<<>>[k] : k \in DOMAIN <<>>} = {}
  /\ \A v : {<<v>>[k] : k \in DOMAIN <<v>>} = {v}
  /\ \A v, w : {<<v, w>>[k] : k \in DOMAIN <<v, w>>} = {v, w}
  /\ \A v, w, x : {<<v, w, x>>[k] : k \in DOMAIN <<v, w, x>>} = {v, w, x}
  /\ \A v, w, x, y :
       {<<v, w, x, y>>[k] : k \in DOMAIN <<v, w, x, y>>} = {v, w, x, y}
  /\ \A v, w, x, y, z :
       {<<v, w, x, y, z>>[k] : k \in DOMAIN <<v, w, x, y, z>>} = {v, w, x, y, z}
  OBVIOUS

-----------------------------------------------------------------------------
(***************************************************************************)
(* What each call does to the frames clients have got and to the calls     *)
(* that remain.                                                            *)
(***************************************************************************)
\* The frame goes to a connection it may reach, or to nobody.
Delivers(c, f, frame) ==
  /\ \A d \in Conns : \A x : x \in Got(d) => x \in Got(d)'
  /\ \A d \in Conns : \A x :
       x \in Got(d)' => x \in Got(d) \/ (x = frame /\ MayReach(c, f, d) /\ Fits(frame))
  /\ \A d \in Conns :
       (owner[f] = d /\ ~Misled(c, d) /\ d \notin lost
         /\ Fits(frame) /\ Kind(frame) \in Watched)
       => frame \in Got(d)'

\* The call h of c has returned, ...
Drops(c, h) ==
  /\ \A x \in Pending(c)' : x \in Pending(c)
  /\ \A x \in Pending(c) : x # h => x \in Pending(c)'
  /\ \A d \in Conns : d # c => Pending(d)' = Pending(d)

\* ... or `call` is what is left of it.
Leaves(c, h, call) ==
  /\ \A x \in Pending(c)' : x \in Pending(c) \/ x = call
  /\ \A x \in Pending(c) : x # h => x \in Pending(c)'
  /\ call \in Pending(c)'
  /\ \A d \in Conns : d # c => Pending(d)' = Pending(d)

\* The call h is what the handler of c is at.
Makes(c, h) ==
  /\ todo[c] # <<>> /\ h = Head(todo[c]) /\ h \in Pending(c) /\ h \in Call
  /\ CallFits(c, h)
  /\ pc[c] \notin {"none", "done"} /\ fd[c] \in Fds /\ owner[fd[c]] = c

\* A frame is written.
LEMMA WriteDelivers ==
  ASSUME IInv, NEW c \in Conns, pc[c] \notin {"none", "done"}, NEW f \in Fds,
         NEW frame \in Frame, Write(c, f, frame)
  PROVE  Delivers(c, f, frame)
<1> DEFINE Sure(d) == /\ owner[f] = d /\ ~Misled(c, d) /\ d \notin lost
                      /\ Fits(frame) /\ Kind(frame) \in Watched
           Lands(d) == MayReach(c, f, d) /\ Fits(frame)
<1>1. /\ \A d \in Conns : \/ out'[d] = out[d]
                          \/ Lands(d) /\ out'[d] = Append(out[d], frame)
      /\ \A d \in Conns : Sure(d) => out'[d] = Append(out[d], frame)
  BY Written
<1> HIDE DEF Sure, Lands
<1>2. ASSUME NEW d \in Conns
      PROVE  /\ \A x : x \in Got(d) => x \in Got(d)'
             /\ \A x : x \in Got(d)' => x \in Got(d) \/ (x = frame /\ Lands(d))
             /\ Sure(d) => frame \in Got(d)'
  <2>1. CASE out'[d] = out[d] /\ out'[d] # Append(out[d], frame)
    BY <1>1, <2>1 DEF Got
  <2>2. CASE Lands(d) /\ out'[d] = Append(out[d], frame)
    BY <2>2, GotMore
  <2>3. CASE out'[d] = out[d] /\ out'[d] = Append(out[d], frame)
    <3>1. out[d] \in Seq(Frame)
      BY DEF IInv, TypeOK
    <3>2. Len(out[d]) \in Nat /\ Len(Append(out[d], frame)) = Len(out[d]) + 1
      BY <3>1
    <3>3. QED
      BY <2>3, <3>2
  <2>4. QED
    BY <1>1, <2>1, <2>2, <2>3
<1>3. QED
  BY <1>2 DEF Delivers, Sure, Lands

\* The call a handler is at.
LEMMA AtCall ==
  ASSUME IInv, Script, NEW c \in Conns, todo[c] # <<>>, NEW h, h = Head(todo[c])
  PROVE  Makes(c, h)
  BY HeadPending, PendingFits DEF Makes

\* Clients have got what they had.
LEMMA GotSame ==
  ASSUME UNCHANGED out
  PROVE  \A d : Got(d)' = Got(d)
  BY DEF Got

\* One send_frame.
LEMMA SendEffect ==
  ASSUME IInv, IInv', Script, NEW c \in Conns, CallSend(c), NEW h, h = Head(todo[c])
  PROVE  /\ Makes(c, h) /\ h.op = "send" /\ h.to \in Fds /\ h.frame \in Frame
         /\ Write(c, h.to, h.frame) /\ Delivers(c, h.to, h.frame) /\ Drops(c, h)
<1>1. todo[c] # <<>> /\ h.op = "send" /\ Write(c, h.to, h.frame) /\ Returns(c, <<>>)
  BY DEF CallSend, Calling
<1>2. Makes(c, h)
  BY <1>1, AtCall
<1>3. h.to \in Fds /\ h.frame \in Frame
  BY <1>1, <1>2, CallFields DEF Makes
<1>4. Delivers(c, h.to, h.frame)
  BY <1>1, <1>2, <1>3, WriteDelivers DEF Makes
<1>5. Drops(c, h)
  BY <1>1, PendingPopped DEF Drops
<1>6. QED
  BY <1>1, <1>2, <1>3, <1>4, <1>5

\* One send_frame of a broadcast.
LEMMA SendEachEffect ==
  ASSUME IInv, IInv', Script, NEW c \in Conns, CallSendEach(c), NEW h, h = Head(todo[c])
  PROVE  /\ Makes(c, h) /\ h.op = "send each" /\ h.to \subseteq ClientInfo
         /\ h.frame \in Frame
         /\ \E e \in h.to :
              /\ e.socket \in Fds /\ Write(c, e.socket, h.frame)
              /\ Delivers(c, e.socket, h.frame)
              /\ \/ h.to = {e} /\ Drops(c, h)
                 \/ Leaves(c, h, SendEach(h.to \ {e}, h.frame))
<1>1. todo[c] # <<>> /\ h.op = "send each"
  BY DEF CallSendEach, Calling
<1>2. PICK e \in First(h.to) :
        /\ Write(c, e.socket, h.frame)
        /\ Returns(c, IF h.to = {e} THEN <<>> ELSE <<SendEach(h.to \ {e}, h.frame)>>)
  BY DEF CallSendEach
<1>3. Makes(c, h)
  BY <1>1, AtCall
<1>4. h.to \subseteq ClientInfo /\ h.frame \in Frame
  BY <1>1, <1>3, CallFields DEF Makes
<1>5. e \in h.to /\ e.socket \in Fds
  BY <1>2, <1>4 DEF First, ClientInfo
<1>6. Delivers(c, e.socket, h.frame)
  BY <1>2, <1>3, <1>4, <1>5, WriteDelivers DEF Makes
<1>7. CASE h.to = {e}
  <2>1. Drops(c, h)
    BY <1>1, <1>2, <1>7, PendingPopped DEF Drops
  <2>2. QED
    BY <1>1, <1>2, <1>3, <1>4, <1>5, <1>6, <1>7, <2>1
<1>8. CASE h.to # {e}
  <2>1. PICK call : call = SendEach(h.to \ {e}, h.frame)
    OBVIOUS
  <2>2. call \in Call /\ Returns(c, <<call>>)
    BY <1>2, <1>4, <1>8, <2>1, CallTypes DEF PlainCall
  <2>3. Leaves(c, h, call)
    BY <1>1, <2>2, PendingSwapped DEF Leaves
  <2>4. QED
    BY <1>1, <1>2, <1>3, <1>4, <1>5, <1>6, <2>1, <2>3
<1>9. QED
  BY <1>7, <1>8

\* The recipients of a broadcast are copied.
LEMMA BroadcastEffect ==
  ASSUME IInv, IInv', Script, NEW c \in Conns, CallBroadcast(c), NEW h,
         h = Head(todo[c]), NEW S,
         S = {e \in clients : e.room = h.room /\ e.socket # h.exclude}
  PROVE  /\ Makes(c, h) /\ h.op = "broadcast" /\ h.room \in Rooms /\ h.frame \in Frame
         /\ \A d : Got(d)' = Got(d)
         /\ \/ S = {} /\ Drops(c, h)
            \/ Leaves(c, h, SendEach(S, h.frame))
<1>1. /\ todo[c] # <<>> /\ h.op = "broadcast" /\ UNCHANGED out
      /\ Returns(c, IF S = {} THEN <<>> ELSE <<SendEach(S, h.frame)>>)
  BY DEF CallBroadcast, Calling
<1>2. Makes(c, h)
  BY <1>1, AtCall
<1>3. h.room \in Rooms /\ h.frame \in Frame
  <2>1. h \in Call
    BY <1>2 DEF Makes
  <2>2. QED
    BY <1>1, <2>1 DEF Call
<1>4. \A d : Got(d)' = Got(d)
  BY <1>1, GotSame
<1>5. CASE S = {}
  <2>1. Drops(c, h)
    BY <1>1, <1>5, PendingPopped DEF Drops
  <2>2. QED
    BY <1>1, <1>2, <1>3, <1>4, <1>5, <2>1
<1>6. CASE S # {}
  <2>1. PICK call : call = SendEach(S, h.frame)
    OBVIOUS
  <2>2. S \subseteq ClientInfo
    BY DEF IInv, TypeOK
  <2>3. call \in Call /\ Returns(c, <<call>>)
    BY <1>1, <1>3, <1>6, <2>1, <2>2, CallTypes DEF PlainCall
  <2>4. Leaves(c, h, call)
    BY <1>1, <2>3, PendingSwapped DEF Leaves
  <2>5. QED
    BY <1>1, <1>2, <1>3, <1>4, <2>1, <2>4
<1>7. QED
  BY <1>5, <1>6

\* Something is looked up.
LEMMA LookUpEffect ==
  ASSUME IInv, IInv', Script, NEW c \in Conns, CallReplay(c) \/ CallListRooms(c), NEW h,
         h = Head(todo[c])
  PROVE  /\ Makes(c, h) /\ h.op \in {"replay", "list_rooms"}
         /\ UNCHANGED <<pc, fd, owner, user, room, clients, out, accounts, messages>>
         /\ \A d : Got(d)' = Got(d)
         /\ \E call \in Call : PlainSend(c, call) /\ Leaves(c, h, call)
<1>1. LookUp(c)
  BY LookUps
<1>2. /\ todo[c] # <<>> /\ h.op \in {"replay", "list_rooms"}
      /\ UNCHANGED <<pc, fd, owner, user, room, clients, out, accounts, messages>>
  BY <1>1 DEF LookUp
<1>3. PICK call \in Call : PlainSend(c, call) /\ Returns(c, <<call>>)
  BY <1>1 DEF LookUp
<1>4. Leaves(c, h, call)
  BY <1>2, <1>3, PendingSwapped DEF Leaves
<1>5. \A d : Got(d)' = Got(d)
  BY <1>2, GotSame
<1>6. QED
  BY <1>2, <1>3, <1>4, <1>5, AtCall

\* A message is stored, or its author will be told.
LEMMA StoreEffect ==
  ASSUME IInv, IInv', Script, NEW c \in Conns, CallStore(c), NEW h, h = Head(todo[c])
  PROVE  /\ Makes(c, h) /\ h.op = "store" /\ h.message \in Message
         /\ \A d : Got(d)' = Got(d)
         /\ \/ messages' = Append(messages, h.message) /\ Drops(c, h)
            \/ /\ messages' = messages /\ StorageFails
               /\ Leaves(c, h, Send(fd[c], NotStored(h.message.content)))
<1>1. /\ todo[c] # <<>> /\ h.op = "store" /\ UNCHANGED out
      /\ \/ add_message(h.message, TRUE) /\ Returns(c, <<>>)
         \/ /\ add_message(h.message, FALSE)
            /\ Returns(c, <<Send(fd[c], NotStored(h.message.content))>>)
  BY DEF CallStore, Calling
<1>2. Makes(c, h)
  BY <1>1, AtCall
<1>3. h.message \in Message
  BY <1>1, <1>2, CallFields DEF Makes
<1>4. \A d : Got(d)' = Got(d)
  BY <1>1, GotSame
<1>5. CASE add_message(h.message, TRUE) /\ Returns(c, <<>>)
  <2>1. Drops(c, h)
    BY <1>1, <1>5, PendingPopped DEF Drops
  <2>2. messages' = Append(messages, h.message)
    BY <1>5 DEF add_message
  <2>3. QED
    BY <1>1, <1>2, <1>3, <1>4, <2>1, <2>2
<1>6. CASE /\ add_message(h.message, FALSE)
           /\ Returns(c, <<Send(fd[c], NotStored(h.message.content))>>)
  <2>1. PICK call : call = Send(fd[c], NotStored(h.message.content))
    OBVIOUS
  <2>2. h.message.content \in Contents
    BY <1>3 DEF Message
  <2>3. call \in Call /\ Returns(c, <<call>>)
    BY <1>2, <1>6, <2>1, <2>2, FrameTypes, CallTypes DEF Makes, PlainCall
  <2>4. Leaves(c, h, call)
    BY <1>1, <2>3, PendingSwapped DEF Leaves
  <2>5. messages' = messages /\ StorageFails
    BY <1>6 DEF add_message
  <2>6. QED
    BY <1>1, <1>2, <1>3, <1>4, <2>1, <2>4, <2>5
<1>7. QED
  BY <1>1, <1>5, <1>6

\* The room changes; what is left is the rest of handle_join.
LEMMA SetRoomEffect ==
  ASSUME IInv, IInv', Script, NEW c \in Conns, CallSetRoom(c), NEW h, h = Head(todo[c])
  PROVE  /\ Makes(c, h) /\ h.op = "set_room" /\ h.room \in Rooms /\ pc[c] = "loop"
         /\ UNCHANGED <<pc, fd, owner, user, out, accounts, messages>>
         /\ \A d : Got(d)' = Got(d)
         /\ room'[c] = h.room /\ \A d \in Conns : d # c => room'[d] = room[d]
         /\ Drops(c, h)
         /\ Pending(c)' = {Send(fd[c], Joined(h.room)),
                           Broadcast(h.room, Notice("joined", c, h.room), fd[c]),
                           Replay(h.room, kHistoryLimit)}
<1>1. /\ todo[c] # <<>> /\ h.op = "set_room" /\ Returns(c, <<>>)
      /\ room' = [room EXCEPT ![c] = h.room]
      /\ UNCHANGED <<pc, fd, owner, user, out, accounts, messages>>
  BY DEF CallSetRoom, Calling, dbVars
<1>2. Makes(c, h)
  BY <1>1, AtCall
<1>3. h.room \in Rooms
  BY <1>1, <1>2, CallFields DEF Makes
<1>4. pc[c] = "loop"
  <2>1. SUFFICES ASSUME pc[c] # "loop"
                 PROVE  FALSE
    OBVIOUS
  <2>2. todo[c] \in Seq(PlainCall)
    BY <2>1 DEF IInv, HandlerFacts
  <2>3. h \in PlainCall
    BY <1>1, <2>2, HeadFirst
  <2>4. QED
    BY <1>1, <2>3 DEF PlainCall
<1>5. room'[c] = h.room /\ \A d \in Conns : d # c => room'[d] = room[d]
  BY <1>1 DEF IInv, TypeOK
<1>6. Drops(c, h)
  BY <1>1, PendingPopped DEF Drops
<1>7. PICK a : a = todo[c]
  OBVIOUS
<1>8. PICK b : b = todo'[c]
  OBVIOUS
<1>9. /\ Len(a) \in Nat /\ Len(b) = Len(a) - 1 /\ a[1] = h /\ 1 \in 1..Len(a)
      /\ \A k \in 1..Len(b) : b[k] = a[k + 1]
      /\ b \in Seq(Call)
  BY <1>1, <1>7, <1>8, Popped
<1>10. RoomChange(c, a, 1)
  BY <1>1, <1>7, <1>9 DEF Script, CallsFit
<1>11. Len(b) = 3 /\ b[1] = a[2] /\ b[2] = a[3] /\ b[3] = a[4]
  BY <1>9, <1>10 DEF RoomChange
<1>12. /\ b[1] = Send(fd[c], Joined(h.room))
       /\ b[2] = Broadcast(h.room, Notice("joined", c, h.room), fd[c])
       /\ b[3] = Replay(h.room, kHistoryLimit)
  BY <1>9, <1>10, <1>11 DEF RoomChange
<1>13. DOMAIN b = {1, 2, 3}
  BY <1>9, <1>11
<1>14. Pending(c)' = {b[1], b[2], b[3]}
  BY <1>8, <1>13 DEF Pending
<1>15. QED
  BY <1>1, <1>2, <1>3, <1>4, <1>5, <1>6, <1>12, <1>14, GotSame

\* A handler without calls sets out to make some.
LEMMA SetsEffect ==
  ASSUME IInv, NEW c \in Conns, NEW calls, Sets(c, calls)
  PROVE  /\ Pending(c) = {} /\ todo'[c] = calls
         /\ Pending(c)' = {calls[k] : k \in DOMAIN calls}
         /\ \A d \in Conns : d # c => Pending(d)' = Pending(d) /\ todo'[d] = todo[d]
  BY NonePending, PendingSet DEF Sets

\* The steps that make a pending call.
Calls(c) ==
  \/ CallSend(c) \/ CallBroadcast(c) \/ CallSendEach(c) \/ CallSetRoom(c)
  \/ CallReplay(c) \/ CallStore(c) \/ CallListRooms(c)

\* The steps that begin or end the work of a handler.
Begins(c) ==
  \/ Answer(c) \/ Enter(c) \/ Leave(c)
  \/ \E u \in Users : Admit(c, u)
  \/ \E r \in Rooms : Move(c, r)
  \/ \E m \in Message : Speak(c, m)
  \/ \E m \in Message, u \in Users, e \in clients : Whisper(c, m, u, e)

\* Such a step finds no call pending and writes nothing.
LEMMA BeginsEffect ==
  ASSUME IInv, NEW c \in Conns, Begins(c)
  PROVE  /\ UNCHANGED <<fd, owner, out, messages, netVars>> /\ todo[c] = <<>> /\ Pending(c) = {}
         /\ \A d \in Conns : d # c => Pending(d)' = Pending(d) /\ todo'[d] = todo[d]
         /\ \A d \in Conns : d # c => pc'[d] = pc[d] /\ user'[d] = user[d]
                                      /\ room'[d] = room[d]
<1>1. /\ pc \in [Conns -> {"none", "auth", "enter", "loop", "leave", "close", "done"}]
      /\ user \in [Conns -> Users \cup {NoUser}]
      /\ room \in [Conns -> Rooms]
  BY DEF IInv, TypeOK
<1> DEFINE Rest == /\ UNCHANGED <<fd, owner, out, messages, netVars>>
                   /\ \A d \in Conns : d # c => pc'[d] = pc[d] /\ user'[d] = user[d]
                                                /\ room'[d] = room[d]
                   /\ \E calls : Sets(c, calls)
<1>2. ASSUME Answer(c)
      PROVE  Rest
  BY <1>1, <1>2 DEF Answer
<1>3. ASSUME Enter(c)
      PROVE  Rest
  <2>1. Sets(c, Greeting(c))
    BY <1>3 DEF Enter, Do, Sets
  <2>2. QED
    BY <1>1, <1>3, <2>1 DEF Enter, dbVars
<1>4. ASSUME Leave(c)
      PROVE  Rest
  <2>1. \E calls : Sets(c, calls)
    BY <1>4 DEF Leave, Do, Sets
  <2>2. QED
    BY <1>1, <1>4, <2>1 DEF Leave, dbVars
<1>5. ASSUME NEW u \in Users, Admit(c, u)
      PROVE  Rest
  BY <1>1, <1>5 DEF Admit
<1>6. ASSUME NEW calls, Says(c, calls)
      PROVE  Rest
  BY <1>6 DEF Says
<1>7. (\E calls : Says(c, calls)) => Rest
  BY <1>6
<1>8. (\E r \in Rooms : Move(c, r)) \/ (\E m \in Message : Speak(c, m))
        \/ (\E m \in Message, u \in Users, e \in clients : Whisper(c, m, u, e))
      => \E calls : Says(c, calls)
  <2>1. (\E r \in Rooms : Move(c, r)) => \E calls : Says(c, calls)
    BY DEF Move
  <2>2. (\E m \in Message : Speak(c, m)) => \E calls : Says(c, calls)
    BY DEF Speak
  <2>3. ASSUME NEW m, NEW u, NEW e, Whisper(c, m, u, e)
        PROVE  \E calls : Says(c, calls)
    BY <2>3 DEF Whisper
  <2>4. QED
    BY <2>1, <2>2, <2>3
<1>9. Rest
  <2> HIDE DEF Rest
  <2>1. QED
    BY <1>2, <1>3, <1>4, <1>5, <1>7, <1>8 DEF Begins
<1>10. QED
  BY <1>9, SetsEffect DEF Sets

\* What no step of another handler, and hardly a step of one's own, can take
\* away: the frames somebody has got, its descriptor, and its pending calls.
LEMMA StepKeeps ==
  ASSUME IInv, IInv', Script, NEW c \in Conns, StepOf(c)
  PROVE  /\ \A d \in Conns : \A x : x \in Got(d) => x \in Got(d)'
         /\ \A d \in Conns : d # c => Pending(d)' = Pending(d)
         /\ \A d \in Conns : d # c => pc'[d] = pc[d] /\ user'[d] = user[d]
                                      /\ room'[d] = room[d]
         /\ \A d \in Conns : pc[d] # "none" => fd'[d] = fd[d]
         /\ \A x \in Pending(c) :
              x \in Pending(c)' \/ (x = Head(todo[c]) /\ Makes(c, x) /\ Calls(c))
<1>1. /\ pc \in [Conns -> {"none", "auth", "enter", "loop", "leave", "close", "done"}]
      /\ user \in [Conns -> Users \cup {NoUser}]
      /\ room \in [Conns -> Rooms]
      /\ fd \in [Conns -> Fds \cup {INVALID_SOCKET}]
  BY DEF IInv, TypeOK
<1> DEFINE Rest == /\ \A d \in Conns : d # c => pc'[d] = pc[d] /\ user'[d] = user[d]
                                                /\ room'[d] = room[d]
                   /\ \A d \in Conns : pc[d] # "none" => fd'[d] = fd[d]
           Others == /\ \A d \in Conns : \A x : x \in Got(d) => x \in Got(d)'
                     /\ \A d \in Conns : d # c => Pending(d)' = Pending(d)
                     /\ \A x \in Pending(c) :
                         x \in Pending(c)' \/ (x = Head(todo[c]) /\ Makes(c, x) /\ Calls(c))
<1>2. ASSUME NEW f \in Fds, Accept(c, f)
      PROVE  Rest /\ Others
  <2>1. UNCHANGED <<todo, out>> /\ Rest
    BY <1>1, <1>2 DEF Accept
  <2>2. QED
    BY <2>1 DEF Got, Pending
<1>3. CASE Finish(c)
  <2>1. UNCHANGED <<todo, out>> /\ Rest
    BY <1>1, <1>3 DEF Finish, CloseSocket
  <2>2. QED
    BY <2>1 DEF Got, Pending
<1>4. CASE Begins(c)
  BY <1>4, BeginsEffect, GotSame
<1>5. PICK h : h = Head(todo[c])
  OBVIOUS
<1>6. ASSUME Calls(c), Makes(c, h), Drops(c, h) \/ \E call : Leaves(c, h, call)
      PROVE  /\ \A d \in Conns : d # c => Pending(d)' = Pending(d)
             /\ \A x \in Pending(c) :
                  x \in Pending(c)' \/ (x = Head(todo[c]) /\ Makes(c, x) /\ Calls(c))
  BY <1>5, <1>6 DEF Drops, Leaves
<1>7. CASE CallSend(c)
  <2>1. Makes(c, h) /\ Delivers(c, h.to, h.frame) /\ Drops(c, h)
    BY <1>5, <1>7, SendEffect
  <2>2. Rest
    BY <1>7 DEF CallSend
  <2>3. Calls(c)
    BY <1>7 DEF Calls
  <2>4. QED
    BY <1>6, <2>1, <2>2, <2>3 DEF Delivers
<1>8. CASE CallSendEach(c)
  <2>1. Makes(c, h)
    BY <1>5, <1>8, SendEachEffect
  <2>2. PICK e \in h.to : /\ Delivers(c, e.socket, h.frame)
                          /\ Drops(c, h) \/ Leaves(c, h, SendEach(h.to \ {e}, h.frame))
    BY <1>5, <1>8, SendEachEffect
  <2>3. Rest
    BY <1>8 DEF CallSendEach
  <2>4. Calls(c)
    BY <1>8 DEF Calls
  <2>5. Drops(c, h) \/ \E call : Leaves(c, h, call)
    BY <2>2
  <2>6. QED
    BY <1>6, <2>1, <2>2, <2>3, <2>4, <2>5 DEF Delivers
<1>9. CASE CallBroadcast(c)
  <2>1. PICK S : S = {e \in clients : e.room = h.room /\ e.socket # h.exclude}
    OBVIOUS
  <2>2. /\ Makes(c, h) /\ \A d : Got(d)' = Got(d)
        /\ Drops(c, h) \/ \E call : Leaves(c, h, call)
    BY <1>5, <1>9, <2>1, BroadcastEffect
  <2>3. Rest
    BY <1>9 DEF CallBroadcast
  <2>4. Calls(c)
    BY <1>9 DEF Calls
  <2>5. QED
    BY <1>6, <2>2, <2>3, <2>4
<1>10. CASE CallSetRoom(c)
  <2>1. /\ Makes(c, h) /\ Drops(c, h) /\ \A d : Got(d)' = Got(d)
        /\ Rest
    BY <1>5, <1>10, SetRoomEffect
  <2>2. Calls(c)
    BY <1>10 DEF Calls
  <2>3. QED
    BY <1>6, <2>1, <2>2
<1>11. CASE CallReplay(c) \/ CallListRooms(c)
  <2>1. /\ Makes(c, h) /\ \E call : Leaves(c, h, call)
        /\ \A d : Got(d)' = Got(d)
    BY <1>5, <1>11, LookUpEffect
  <2>2. Rest
    BY <1>11 DEF CallReplay, CallListRooms
  <2>3. Calls(c)
    BY <1>11 DEF Calls
  <2>4. QED
    BY <1>6, <2>1, <2>2, <2>3
<1>12. CASE CallStore(c)
  <2>1. /\ Makes(c, h) /\ \A d : Got(d)' = Got(d)
        /\ Drops(c, h) \/ \E call : Leaves(c, h, call)
    BY <1>5, <1>12, StoreEffect
  <2>2. Rest
    BY <1>12 DEF CallStore
  <2>3. Calls(c)
    BY <1>12 DEF Calls
  <2>4. QED
    BY <1>6, <2>1, <2>2, <2>3
<1>13. QED
  BY <1>2, <1>3, <1>4, <1>7, <1>8, <1>9, <1>10, <1>11, <1>12 DEF StepOf, Begins

\* A call that is made returns, or one call is left of it.
LEMMA CallsReturn ==
  ASSUME IInv, IInv', Script, NEW c \in Conns, Calls(c)
  PROVE  /\ todo[c] # <<>> /\ UNCHANGED <<pc, fd, owner, user>>
         /\ \/ Returns(c, <<>>)
            \/ \E call \in Call :
                 /\ Returns(c, <<call>>)
                 /\ call.op # "set_room"
                 /\ call.op = "send" =>
                      call.frame.type \notin {"DirectMsg", "AuthOk", "Joined"}
                 /\ IF Head(todo[c]).op \in {"broadcast", "send each"}
                    THEN call.op = "send each" /\ call.frame = Head(todo[c]).frame
                    ELSE call.op = "send"
<1>1. PICK h : h = Head(todo[c])
  OBVIOUS
<1>2. CASE CallSend(c)
  BY <1>2 DEF CallSend, Calling
<1>3. CASE CallSetRoom(c)
  BY <1>3 DEF CallSetRoom, Calling
<1>4. CASE CallReplay(c) \/ CallListRooms(c)
  <2>1. LookUp(c)
    BY <1>4, LookUps
  <2>2. PICK call \in Call : PlainSend(c, call) /\ Returns(c, <<call>>)
    BY <2>1 DEF LookUp
  <2>3. call.frame.type \notin {"DirectMsg", "AuthOk", "Joined"} /\ call.op = "send"
    BY <2>2 DEF PlainSend, Plain
  <2>4. QED
    BY <2>1, <2>2, <2>3 DEF LookUp
<1>5. CASE CallStore(c)
  <2>1. todo[c] # <<>> /\ UNCHANGED <<pc, fd, owner, user>> /\ h.op = "store"
    BY <1>1, <1>5 DEF CallStore, Calling
  <2>2. Makes(c, h) /\ h.message \in Message
    BY <1>1, <1>5, StoreEffect
  <2>3. Send(fd[c], NotStored(h.message.content)) \in Call
    BY <2>2, FrameTypes, CallTypes DEF Makes, PlainCall, Message
  <2>4. Returns(c, <<>>) \/ Returns(c, <<Send(fd[c], NotStored(h.message.content))>>)
    BY <1>1, <1>5 DEF CallStore
  <2>5. /\ Send(fd[c], NotStored(h.message.content)).frame.type
             \notin {"DirectMsg", "AuthOk", "Joined"}
        /\ Send(fd[c], NotStored(h.message.content)).op = "send"
    BY DEF Send, NotStored
  <2>6. QED
    BY <1>1, <2>1, <2>3, <2>4, <2>5
<1>6. CASE CallBroadcast(c)
  <2>1. PICK S : S = {e \in clients : e.room = h.room /\ e.socket # h.exclude}
    OBVIOUS
  <2>2. /\ todo[c] # <<>> /\ UNCHANGED <<pc, fd, owner, user>> /\ h.op = "broadcast"
        /\ Returns(c, IF S = {} THEN <<>> ELSE <<SendEach(S, h.frame)>>)
    BY <1>1, <1>6, <2>1 DEF CallBroadcast, Calling
  <2>3. h.frame \in Frame /\ S \subseteq ClientInfo
    BY <1>1, <1>6, <2>1, BroadcastEffect DEF IInv, TypeOK
  <2>4. /\ SendEach(S, h.frame) \in Call /\ SendEach(S, h.frame).op = "send each"
        /\ SendEach(S, h.frame).frame = h.frame
    <3>1. SendEach(S, h.frame) \in Call
      BY <2>3, CallTypes DEF PlainCall
    <3>2. QED
      BY <3>1 DEF SendEach
  <2>5. QED
    BY <1>1, <2>2, <2>4
<1>7. CASE CallSendEach(c)
  <2>1. PICK e : Returns(c, IF h.to = {e} THEN <<>> ELSE <<SendEach(h.to \ {e}, h.frame)>>)
    BY <1>1, <1>7 DEF CallSendEach
  <2>2. todo[c] # <<>> /\ UNCHANGED <<pc, fd, owner, user>> /\ h.op = "send each"
    BY <1>1, <1>7 DEF CallSendEach, Calling
  <2>3. h.frame \in Frame /\ h.to \subseteq ClientInfo
    BY <1>1, <1>7, SendEachEffect
  <2>4. /\ SendEach(h.to \ {e}, h.frame) \in Call /\ SendEach(h.to \ {e}, h.frame).op = "send each"
        /\ SendEach(h.to \ {e}, h.frame).frame = h.frame
    <3>1. SendEach(h.to \ {e}, h.frame) \in Call
      BY <2>3, CallTypes DEF PlainCall
    <3>2. QED
      BY <3>1 DEF SendEach
  <2>5. QED
    BY <1>1, <2>1, <2>2, <2>4
<1>8. QED
  BY <1>2, <1>3, <1>4, <1>5, <1>6, <1>7 DEF Calls

\* The steps of a handler once more, in four groups.
LEMMA StepKinds ==
  ASSUME NEW c \in Conns, StepOf(c)
  PROVE  (\E f \in Fds : Accept(c, f)) \/ Finish(c) \/ Begins(c) \/ Calls(c)
  BY DEF StepOf, Begins, Calls

\* No handler loses a peer, and none begins to wait when it does anything else.
LEMMA NetSteps ==
  ASSUME IInv, NEW c \in Conns, StepOf(c)
  PROVE  lost' = lost /\ NoneMisled
<1>1. /\ waiting \in [Conns -> Conns \cup {NoConn}]
      /\ fd \in [Conns -> Fds \cup {INVALID_SOCKET}]
  BY DEF IInv, TypeOK
<1>2. ASSUME UNCHANGED <<fd, lost>>, waiting' = waiting \/ waiting' = [waiting EXCEPT ![c] = NoConn]
      PROVE  lost' = lost /\ NoneMisled
  BY <1>1, <1>2 DEF NoneMisled, Misled
<1>3. ASSUME NEW f \in Fds, Accept(c, f)
      PROVE  lost' = lost /\ NoneMisled
  <2>1. UNCHANGED <<lost, waiting>> /\ pc[c] = "none" /\ fd' = [fd EXCEPT ![c] = f]
    BY <1>3 DEF Accept, netVars
  <2>2. ASSUME NEW a \in Conns, NEW d \in Conns, pc[d] # "none", Misled(a, d)'
        PROVE  Misled(a, d)
    <3>1. waiting[a] # NoConn => pc[waiting[a]] # "none"
      BY DEF IInv, Waits
    <3>2. QED
      BY <1>1, <2>1, <2>2, <3>1 DEF Misled
  <2>3. QED
    BY <2>1, <2>2 DEF NoneMisled
<1>4. Finish(c) => UNCHANGED <<fd, lost, waiting>>
  BY DEF Finish, netVars
<1>5. Begins(c) => UNCHANGED <<fd, lost, waiting>>
  BY BeginsEffect DEF netVars
<1>6. CASE CallSend(c) \/ CallSendEach(c)
  BY <1>2, <1>6 DEF CallSend, CallSendEach, Write
<1>7. CASE CallBroadcast(c) \/ CallSetRoom(c) \/ CallReplay(c) \/ CallStore(c)
           \/ CallListRooms(c)
  BY <1>2, <1>7 DEF CallBroadcast, CallSetRoom, CallReplay, CallStore, CallListRooms,
                    netVars
<1>8. QED
  BY <1>2, <1>3, <1>4, <1>5, <1>6, <1>7, StepKinds DEF Calls

\* Which step makes the call at the head.
LEMMA MadeBy ==
  ASSUME NEW c \in Conns, Calls(c), NEW h, h = Head(todo[c])
  PROVE  /\ h.op = "send" => CallSend(c)
         /\ h.op = "send each" => CallSendEach(c)
         /\ h.op = "broadcast" => CallBroadcast(c)
         /\ h.op = "store" => CallStore(c)
         /\ h.op = "replay" => CallReplay(c)
         /\ h.op = "set_room" => CallSetRoom(c)
  BY DEF Calls, CallSend, CallBroadcast, CallSendEach, CallSetRoom, CallReplay,
         CallStore, CallListRooms, Calling

\* The table of messages only grows.
LEMMA RowsKept ==
  ASSUME IInv, NEW c \in Conns, StepOf(c)
  PROVE  /\ messages' = messages \/ (CallStore(c) /\ messages' = Append(messages, Head(todo[c]).message))
         /\ Len(messages) \in Nat /\ DOMAIN messages = 1..Len(messages)
<1>1. messages \in Seq(Message)
  BY DEF IInv, TypeOK, DatabaseTypeOK
<1>2. CASE CallStore(c)
  BY <1>1, <1>2 DEF CallStore, add_message
<1>3. (\E f \in Fds : Accept(c, f)) \/ Finish(c) => UNCHANGED messages
  BY DEF Accept, Finish, dbVars
<1>4. Begins(c) => UNCHANGED messages
  BY BeginsEffect
<1>5. Calls(c) => CallStore(c) \/ UNCHANGED messages
  BY DEF Calls, CallSend, CallBroadcast, CallSendEach, CallSetRoom, CallReplay,
         CallStore, CallListRooms, dbVars
<1>6. QED
  BY <1>1, <1>2, <1>3, <1>4, <1>5, StepKinds

\* Whoever has a call pending is alive.
LEMMA PendingAlive ==
  ASSUME IInv, NEW c \in Conns, NEW x \in Pending(c)
  PROVE  /\ todo[c] # <<>> /\ pc[c] \notin {"none", "done"}
         /\ fd[c] \in Fds /\ owner[fd[c]] = c
<1>1. todo[c] # <<>>
  BY NonePending
<1>2. QED
  BY <1>1, HeadPending

\* A new process has written nothing and has nothing to do.
LEMMA RestartEmpties ==
  ASSUME Restart
  PROVE  \A c \in Conns : Got(c)' = {} /\ Pending(c)' = {}
  BY DEF Restart, Got, Pending

\* What some calls and frames are.
LEMMA ReportFields ==
  /\ \A m : Store(m).op = "store" /\ Store(m).message = m
  /\ \A f, frame : /\ Send(f, frame).op = "send" /\ Send(f, frame).to = f
                   /\ Send(f, frame).frame = frame
  /\ \A z : NotStored(z).type = "System" /\ Kind(NotStored(z)) = "not stored"
  BY DEF Store, Send, NotStored, Kind

\* A step changes the list of its own handler only.
LEMMA TodoKept ==
  ASSUME IInv, IInv', Script, NEW c \in Conns, StepOf(c), NEW d \in Conns, d # c
  PROVE  todo'[d] = todo[d]
<1>1. CASE (\E f \in Fds : Accept(c, f)) \/ Finish(c)
  BY <1>1 DEF Accept, Finish
<1>2. CASE Begins(c)
  BY <1>2, BeginsEffect
<1>3. CASE Calls(c)
  <2>1. todo[c] # <<>> /\ (Returns(c, <<>>) \/ \E call \in Call : Returns(c, <<call>>))
    BY <1>3, CallsReturn
  <2>2. CASE Returns(c, <<>>)
    BY <2>1, <2>2, Popped
  <2>3. CASE \E call \in Call : Returns(c, <<call>>)
    BY <2>1, <2>3, Swapped
  <2>4. QED
    BY <2>1, <2>2, <2>3
<1>4. QED
  BY <1>1, <1>2, <1>3, StepKinds

\* Whoever has a name keeps it, and a thread that has ended does not come back.
LEMMA UserKept ==
  ASSUME IInv, IInv', Script, NEW c \in Conns, StepOf(c), NEW d \in Conns
  PROVE  /\ pc[d] \notin {"none", "auth"} => user'[d] = user[d]
         /\ pc[d] = "done" => pc'[d] = "done"
         /\ pc[d] # "none" => pc'[d] # "none"
         /\ user'[d] # user[d] => pc[d] = "auth" /\ pc'[d] = "enter"
         /\ pc'[d] \in {"none", "auth"} => pc[d] \in {"none", "auth"}
<1>1. /\ pc \in [Conns -> {"none", "auth", "enter", "loop", "leave", "close", "done"}]
      /\ user \in [Conns -> Users \cup {NoUser}]
  BY DEF IInv, TypeOK
<1>2. CASE d # c
  BY <1>2, StepKeeps
<1>3. ASSUME NEW f \in Fds, Accept(d, f)
      PROVE  user'[d] = user[d] /\ pc[d] = "none" /\ pc'[d] = "auth"
  BY <1>1, <1>3 DEF Accept
<1>4. CASE c = d /\ Finish(d)
  BY <1>1, <1>4 DEF Finish, CloseSocket
<1>5. CASE c = d /\ Answer(d)
  BY <1>1, <1>5 DEF Answer
<1>6. CASE c = d /\ Enter(d)
  BY <1>1, <1>6 DEF Enter
<1>7. CASE c = d /\ Leave(d)
  BY <1>1, <1>7 DEF Leave
<1>8. ASSUME NEW u \in Users, Admit(d, u)
      PROVE  pc[d] = "auth" /\ pc'[d] = "enter"
  BY <1>1, <1>8 DEF Admit
<1>9. ASSUME NEW calls, Says(d, calls)
      PROVE  user'[d] = user[d] /\ pc'[d] = pc[d]
  BY <1>9 DEF Says
<1>10. ASSUME (\E r \in Rooms : Move(d, r)) \/ (\E m \in Message : Speak(d, m))
             \/ (\E m \in Message, u \in Users, e \in clients : Whisper(d, m, u, e))
       PROVE  user'[d] = user[d] /\ pc'[d] = pc[d]
  <2>1. ASSUME NEW r, Move(d, r)
        PROVE  user'[d] = user[d] /\ pc'[d] = pc[d]
    BY <1>9, <2>1 DEF Move
  <2>2. ASSUME NEW m, Speak(d, m)
        PROVE  user'[d] = user[d] /\ pc'[d] = pc[d]
    BY <1>9, <2>2 DEF Speak
  <2>3. ASSUME NEW m, NEW u, NEW e, Whisper(d, m, u, e)
        PROVE  user'[d] = user[d] /\ pc'[d] = pc[d]
    BY <1>9, <2>3 DEF Whisper
  <2>4. QED
    BY <1>10, <2>1, <2>2, <2>3
<1>11. CASE c = d /\ Calls(d)
  BY <1>11, CallsReturn
<1>12. QED
  BY <1>2, <1>3, <1>4, <1>5, <1>6, <1>7, <1>8, <1>10, <1>11, StepKinds DEF Begins

\* Only the two calls that send write anything.
LEMMA WritesOnly ==
  ASSUME IInv, NEW c \in Conns, StepOf(c), ~CallSend(c), ~CallSendEach(c)
  PROVE  UNCHANGED out
<1>1. (\E f \in Fds : Accept(c, f)) \/ Finish(c) => UNCHANGED out
  BY DEF Accept, Finish
<1>2. Begins(c) => UNCHANGED out
  BY BeginsEffect
<1>3. Calls(c) => UNCHANGED out
  BY DEF Calls, CallBroadcast, CallSetRoom, CallReplay, CallStore, CallListRooms
<1>4. QED
  BY <1>1, <1>2, <1>3, StepKinds

\* Only Enter and CallSetRoom bring a handler into a room.
LEMMA StaysPut ==
  ASSUME IInv, NEW c \in Conns, StepOf(c), ~Enter(c), ~CallSetRoom(c), pc'[c] = "loop"
  PROVE  pc[c] = "loop" /\ room'[c] = room[c]
<1>0. /\ pc \in [Conns -> {"none", "auth", "enter", "loop", "leave", "close", "done"}]
      /\ room \in [Conns -> Rooms]
  BY DEF IInv, TypeOK
<1> DEFINE Same == pc[c] = "loop" /\ room'[c] = room[c]
<1>1. ASSUME NEW f \in Fds, Accept(c, f)
      PROVE  Same
  BY <1>0, <1>1 DEF Accept
<1>2. CASE Finish(c)
  BY <1>0, <1>2 DEF Finish, CloseSocket
<1>3. CASE Answer(c)
  BY <1>0, <1>3 DEF Answer
<1>4. CASE Leave(c)
  BY <1>0, <1>4 DEF Leave
<1>5. ASSUME NEW u \in Users, Admit(c, u)
      PROVE  Same
  BY <1>0, <1>5 DEF Admit
<1>6. ASSUME NEW calls, Says(c, calls)
      PROVE  Same
  BY <1>6 DEF Says
<1>7. CASE CallSend(c) \/ CallBroadcast(c) \/ CallSendEach(c) \/ CallReplay(c)
           \/ CallStore(c) \/ CallListRooms(c)
  BY <1>7 DEF CallSend, CallBroadcast, CallSendEach, CallReplay, CallStore,
              CallListRooms
<1>8. ASSUME NEW r, Move(c, r)
      PROVE  Same
  BY <1>6, <1>8 DEF Move
<1>9. ASSUME NEW m, Speak(c, m)
      PROVE  Same
  BY <1>6, <1>9 DEF Speak
<1>10. ASSUME NEW m, NEW u, NEW e, Whisper(c, m, u, e)
       PROVE  Same
  BY <1>6, <1>10 DEF Whisper
<1>11. QED
  BY <1>1, <1>2, <1>3, <1>4, <1>5, <1>7, <1>8, <1>9, <1>10 DEF StepOf

-----------------------------------------------------------------------------
(***************************************************************************)
(* Broadcasts under way.                                                   *)
(***************************************************************************)
\* The handler of a has still to send the frame to d: it has not copied the
\* recipients yet, or d's descriptor is among the copied ones and does not stand
\* for an earlier connection.
Reaching(a, d, frame) ==
  \E x \in Pending(a) :
    /\ \/ x.op = "broadcast"
       \/ x.op = "send each" /\ ~Misled(a, d) /\ \E e \in x.to : e.socket = fd[d]
    /\ x.frame = frame

\* The room a broadcast frame is for.
RoomOf(frame) == IF IsNotice(frame) THEN frame.room ELSE frame.message.room

\* Somebody in a room is among the recipients of what another one sends there.
LEMMA Recipient ==
  ASSUME IInv, NEW c \in Conns, NEW d \in Conns, c # d,
         pc[c] \notin {"none", "done"}, pc[d] \in {"loop", "leave"},
         NEW x \in {fd[c], INVALID_SOCKET}
  PROVE  \E e \in clients : e.room = room[d] /\ e.socket # x /\ e.socket = fd[d]
<1>1. PICK e \in clients : e.socket = fd[d]
  BY DEF IInv, RegistryMatchesHandlers, Registered
<1>2. fd[d] \in Fds /\ owner[fd[d]] = d /\ fd[c] \in Fds /\ owner[fd[c]] = c
  BY DEF IInv, DescriptorsOwned
<1>3. e.room = room[d]
  BY <1>1, <1>2 DEF IInv, RegistryMatchesHandlers
<1>4. fd[d] # x
  BY <1>2, ServerAssumption
<1>5. QED
  BY <1>1, <1>3, <1>4

\* A broadcast goes on until every member of its room has the frame: copying the
\* recipients finds each of them, and sending strikes off whoever gets it.
LEMMA ReachingKept ==
  ASSUME IInv, IInv', Script, NEW s \in Conns, StepOf(s),
         NEW a \in Conns, NEW d \in Conns, a # d, pc[d] \in {"loop", "leave"},
         NEW frame, RoomOf(frame) = room[d], Kind(frame) \in Watched, Fits(frame),
         d \notin lost, Reaching(a, d, frame)
  PROVE  \/ Reaching(a, d, frame)'
         \/ s = a /\ CallSendEach(a) /\ frame \in Frame /\ out'[d] = Append(out[d], frame)
<1>1. PICK x \in Pending(a) :
        /\ \/ x.op = "broadcast"
           \/ x.op = "send each" /\ ~Misled(a, d) /\ \E e \in x.to : e.socket = fd[d]
        /\ x.frame = frame
  BY DEF Reaching
<1>2. /\ s # a => Pending(a)' = Pending(a)
      /\ fd'[d] = fd[d]
      /\ \A y \in Pending(s) :
           y \in Pending(s)' \/ (y = Head(todo[s]) /\ Makes(s, y) /\ Calls(s))
      /\ ~Misled(a, d) => ~Misled(a, d)'
  BY StepKeeps, NetSteps DEF NoneMisled
<1>3. CASE x \in Pending(a)'
  BY <1>1, <1>2, <1>3 DEF Reaching
<1>4. ASSUME s = a, x = Head(todo[a]), Calls(a), x.op = "broadcast"
      PROVE  Reaching(a, d, frame)'
  <2>1. CallBroadcast(a)
    BY <1>4, MadeBy
  <2>2. PICK S : S = {e \in clients : e.room = x.room /\ e.socket # x.exclude}
    OBVIOUS
  <2>3. Makes(a, x) /\ ((S = {} /\ Drops(a, x)) \/ Leaves(a, x, SendEach(S, frame)))
    BY <1>1, <1>4, <2>1, <2>2, BroadcastEffect
  <2>4. x.room = room[d] /\ x.exclude \in {fd[a], INVALID_SOCKET}
        /\ pc[a] \notin {"none", "done"}
    BY <1>1, <1>4, <2>3 DEF Makes, CallFits, RoomOf
  <2>5. PICK e \in S : e.socket = fd[d]
    BY <2>2, <2>4, Recipient
  <2>6. SendEach(S, frame) \in Pending(a)'
    BY <2>3, <2>5 DEF Leaves
  <2>7. /\ SendEach(S, frame).op = "send each" /\ SendEach(S, frame).to = S
        /\ SendEach(S, frame).frame = frame
    BY DEF SendEach
  <2>8. ~Misled(a, d)
    BY <1>4 DEF IInv, Waits, Sends, Misled
  <2>9. QED
    BY <1>2, <2>5, <2>6, <2>7, <2>8 DEF Reaching
<1>5. ASSUME s = a, x = Head(todo[a]), Calls(a), x.op = "send each",
             ~Misled(a, d), NEW o \in x.to, o.socket = fd[d]
      PROVE  \/ Reaching(a, d, frame)'
             \/ CallSendEach(a) /\ frame \in Frame /\ out'[d] = Append(out[d], frame)
  <2>1. CallSendEach(a)
    BY <1>5, MadeBy
  <2>2. Makes(a, x) /\ frame \in Frame
    BY <1>1, <1>5, <2>1, SendEachEffect
  <2>3. PICK e \in x.to :
          /\ e.socket \in Fds /\ Write(a, e.socket, frame)
          /\ (x.to = {e} /\ Drops(a, x)) \/ Leaves(a, x, SendEach(x.to \ {e}, frame))
    BY <1>1, <1>5, <2>1, SendEachEffect
  <2>4. fd[d] \in Fds /\ owner[fd[d]] = d
    BY DEF IInv, DescriptorsOwned
  <2>5. pc[a] \notin {"none", "done"}
    BY <2>2 DEF Makes
  <2>6. CASE e = o
    <3>1. out'[d] = Append(out[d], frame)
      BY <1>5, <2>2, <2>3, <2>4, <2>5, <2>6, Written
    <3>2. QED
      BY <2>1, <2>2, <3>1
  <2>7. CASE e # o
    <3>1. SendEach(x.to \ {e}, frame) \in Pending(a)'
      BY <1>5, <2>3, <2>7 DEF Leaves
    <3>2. /\ SendEach(x.to \ {e}, frame).op = "send each"
          /\ SendEach(x.to \ {e}, frame).to = x.to \ {e}
          /\ SendEach(x.to \ {e}, frame).frame = frame
      BY DEF SendEach
    <3>3. o \in x.to \ {e} /\ o.socket = fd'[d]
      BY <1>2, <1>5, <2>7
    <3>4. QED
      BY <1>2, <1>5, <3>1, <3>2, <3>3 DEF Reaching
  <2>8. QED
    BY <2>6, <2>7
<1>6. QED
  BY <1>1, <1>2, <1>3, <1>4, <1>5
=============================================================================

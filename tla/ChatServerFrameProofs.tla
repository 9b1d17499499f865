----------------------- MODULE ChatServerFrameProofs ------------------------
(***************************************************************************)
(* What the frames that a client gets say is true: proofs about accounts   *)
(* and presence (OneCreator, NoSilentNeighbours, PresenceAccurate), and    *)
(* then about messages (ShownIsStoredOrReported, EchoMeansDelivered,       *)
(* NoMissedMessage), for any number of connections, users, rooms,          *)
(* descriptors and messages.                                               *)
(*                                                                         *)
(* Each invariant adds to a property what is still in the handlers' lists  *)
(* of calls.  Watched only says which frames `out` records, so a theorem   *)
(* about frames of some kind supposes that they are recorded.              *)
(***************************************************************************)
EXTENDS ChatServerProofs, SortedSequences

-----------------------------------------------------------------------------
(***************************************************************************)
(* One creator.                                                            *)
(***************************************************************************)
\* c was told, or is about to be told, that it created its account.
Creator(c) ==
  \/ System("created") \in Got(c)
  \/ \E x \in Pending(c) : x.op = "send" /\ x.frame = System("created")

\* A creator's account exists, and no two creators have the same one.
Creators ==
  /\ \A c \in Conns : Creator(c) => pc[c] \notin {"none", "auth"}
                                    /\ user[c] \in Users /\ accounts[user[c]] # NoAccount
  /\ \A c, d \in Conns : c # d /\ Creator(c) /\ Creator(d) => user[c] # user[d]

\* The text is about an account only.
LEMMA CreatedIsNot ==
  ASSUME NEW frame, frame = System("created")
  PROVE  /\ ~Plain(frame) /\ ~IsNotice(frame)
         /\ frame.type \notin {"ChatMsg", "DirectMsg", "AuthOk", "Joined"}
         /\ \A t : frame = System(t) => t = "created"
         /\ \A x : frame # NotStored(x)
  BY DEF System, Plain, IsNotice, NotStored

\* A step without a new creator that keeps accounts and the users of creators.
LEMMA CreatorsKept ==
  ASSUME IInv, Creators, \A d \in Conns : Creator(d)' => Creator(d),
         \A d \in Conns : pc[d] \notin {"none", "auth"} =>
                            user'[d] = user[d] /\ pc'[d] \notin {"none", "auth"},
         UNCHANGED accounts
  PROVE  Creators'
  BY DEF Creators

\* Steps of a handler that gets on to its next calls: nothing about creation.
LEMMA CreatorsOther ==
  ASSUME IInv, UNCHANGED out, NEW c \in Conns,
         \A d \in Conns : d # c => Pending(d)' = Pending(d),
         \A x \in Pending(c)' : x \in Pending(c) \/ x.op # "send"
                                \/ x.frame # System("created")
  PROVE  \A d \in Conns : Creator(d)' => Creator(d)
  BY GotSame DEF Creator

\* Every step but a registration leaves no new creator.
LEMMA NoNewCreator ==
  ASSUME IInv, IInv', Script, NEW c \in Conns, StepOf(c), \A u \in Users : ~Admit(c, u)
  PROVE  /\ \A d \in Conns : Creator(d)' => Creator(d)
         /\ \A d \in Conns : pc[d] \notin {"none", "auth"} =>
                               user'[d] = user[d] /\ pc'[d] \notin {"none", "auth"}
         /\ UNCHANGED accounts
<1>1. pc \in [Conns -> {"none", "auth", "enter", "loop", "leave", "close", "done"}]
  BY DEF IInv, TypeOK
<1> DEFINE Kept == /\ \A d \in Conns : pc[d] \notin {"none", "auth"} =>
                        user'[d] = user[d] /\ pc'[d] \notin {"none", "auth"}
                   /\ UNCHANGED accounts
<1>2. ASSUME NEW calls, Sets(c, calls), UNCHANGED out,
             \A k \in DOMAIN calls : calls[k].op # "send" \/ calls[k].frame # System("created")
      PROVE  \A d \in Conns : Creator(d)' => Creator(d)
  <2>1. \A x \in Pending(c)' : x \in Pending(c) \/ x.op # "send"
                                \/ x.frame # System("created")
    BY <1>2, SetsEffect
  <2>2. \A d \in Conns : d # c => Pending(d)' = Pending(d)
    BY <1>2, SetsEffect
  <2>3. QED
    BY <1>2, <2>1, <2>2, CreatorsOther
<1>3. ASSUME NEW f \in Fds, Accept(c, f)
      PROVE  Kept /\ \A d \in Conns : Creator(d)' => Creator(d)
  <2>1. UNCHANGED <<todo, out>> /\ Kept
    BY <1>1, <1>3 DEF Accept, dbVars
  <2>2. QED
    BY <2>1 DEF Creator, Pending, Got
<1>4. CASE Finish(c)
  <2>1. UNCHANGED <<todo, out>> /\ Kept
    BY <1>1, <1>4 DEF Finish, CloseSocket
  <2>2. QED
    BY <2>1 DEF Creator, Pending, Got
<1>5. CASE Answer(c)
  <2>1. UNCHANGED out /\ Kept
    BY <1>1, <1>5 DEF Answer
  <2>2. CASE Sets(c, <<>>)
    BY <1>2, <2>1, <2>2
  <2>3. ASSUME NEW call, Sets(c, <<call>>),
               PlainSend(c, call) \/ call.op \in {"replay", "list_rooms"}
        PROVE  \A d \in Conns : Creator(d)' => Creator(d)
    <3>1. call.op # "send" \/ call.frame # System("created")
      BY <2>3, CreatedIsNot DEF PlainSend
    <3>2. QED
      BY <1>2, <2>1, <2>3, <3>1
  <2>4. QED
    BY <1>5, <2>1, <2>2, <2>3 DEF Answer
<1>6. CASE Enter(c)
  <2>1. UNCHANGED out /\ Kept /\ Sets(c, Greeting(c))
    BY <1>1, <1>6 DEF Enter, Do, Sets, dbVars
  <2>2. \A k \in DOMAIN Greeting(c) :
          Greeting(c)[k].op # "send" \/ Greeting(c)[k].frame # System("created")
    BY DEF Greeting, Send, AuthOk, System, Replay, Broadcast
  <2>3. QED
    BY <1>2, <2>1, <2>2
<1>7. CASE Leave(c)
  <2>1. UNCHANGED out /\ Kept
        /\ Sets(c, <<Broadcast(room[c], Notice("left", c, room[c]), INVALID_SOCKET)>>)
    BY <1>1, <1>7 DEF Leave, Do, Sets, dbVars
  <2>2. Broadcast(room[c], Notice("left", c, room[c]), INVALID_SOCKET).op # "send"
    BY DEF Broadcast
  <2>3. QED
    BY <1>2, <2>1, <2>2
<1>8. ASSUME NEW r \in Rooms, Move(c, r)
      PROVE  Kept /\ \A d \in Conns : Creator(d)' => Creator(d)
  <2>1. PICK calls : calls = <<Broadcast(room[c], Notice("left", c, room[c]), fd[c]),
                               SetRoom(r),
                               Send(fd[c], Joined(r)),
                               Broadcast(r, Notice("joined", c, r), fd[c]),
                               Replay(r, kHistoryLimit)>>
    OBVIOUS
  <2>2. UNCHANGED out /\ Kept /\ Sets(c, calls)
    BY <1>8, <2>1 DEF Move, Says
  <2>3. \A k \in DOMAIN calls : calls[k].op # "send" \/ calls[k].frame # System("created")
    BY <2>1 DEF Broadcast, SetRoom, Send, Joined, System, Replay
  <2>4. QED
    BY <1>2, <2>2, <2>3
<1>9. ASSUME NEW m \in Message, Speak(c, m)
      PROVE  Kept /\ \A d \in Conns : Creator(d)' => Creator(d)
  <2>1. PICK calls : calls = <<Store(m), Broadcast(m.room, ChatMsg(m), fd[c])>>
    OBVIOUS
  <2>2. UNCHANGED out /\ Kept /\ Sets(c, calls)
    BY <1>9, <2>1 DEF Speak, Says
  <2>3. \A k \in DOMAIN calls : calls[k].op # "send" \/ calls[k].frame # System("created")
    BY <2>1 DEF Broadcast, Store
  <2>4. QED
    BY <1>2, <2>2, <2>3
<1>10. ASSUME NEW m \in Message, NEW u \in Users, NEW e \in clients, Whisper(c, m, u, e)
       PROVE  Kept /\ \A d \in Conns : Creator(d)' => Creator(d)
  <2>1. PICK calls : calls = <<Store(m), Send(e.socket, DirectMsg(m, u, owner[e.socket])),
                               Send(fd[c], DirectMsg(m, u, owner[e.socket]))>>
    OBVIOUS
  <2>2. UNCHANGED out /\ Kept /\ Sets(c, calls)
    BY <1>10, <2>1 DEF Whisper, Says
  <2>3. \A k \in DOMAIN calls : calls[k].op # "send" \/ calls[k].frame # System("created")
    BY <2>1 DEF Send, DirectMsg, System, Store
  <2>4. QED
    BY <1>2, <2>2, <2>3
<1>11. PICK h : h = Head(todo[c])
  OBVIOUS
<1>12. CASE CallSend(c)
  <2>1. Kept
    BY <1>12 DEF CallSend, dbVars
  <2>2. Makes(c, h) /\ h.op = "send" /\ Delivers(c, h.to, h.frame) /\ Drops(c, h)
    BY <1>11, <1>12, SendEffect
  <2>3. ASSUME NEW d \in Conns, System("created") \in Got(d)', System("created") \notin Got(d)
        PROVE  Creator(d)
    <3>1. h.frame = System("created") /\ MayReach(c, h.to, d)
      BY <2>2, <2>3 DEF Delivers
    <3>2. h.to = fd[c]
      BY <2>2, <3>1, CreatedIsNot DEF Makes, CallFits
    <3>3. d = c
      BY <3>1, <3>2 DEF MayReach
    <3>4. QED
      BY <2>2, <3>1, <3>3 DEF Makes, Creator
  <2>4. QED
    BY <2>1, <2>2, <2>3 DEF Creator, Drops
<1>13. CASE CallSendEach(c)
  <2>1. Kept
    BY <1>13 DEF CallSendEach, dbVars
  <2>2. Makes(c, h) /\ h.op = "send each"
    BY <1>11, <1>13, SendEachEffect
  <2>3. PICK e \in h.to : /\ Delivers(c, e.socket, h.frame)
                          /\ \/ Drops(c, h)
                             \/ Leaves(c, h, SendEach(h.to \ {e}, h.frame))
    BY <1>11, <1>13, SendEachEffect
  <2>4. h.frame # System("created")
    BY <2>2, CreatedIsNot DEF Makes, CallFits
  <2>5. \A d \in Conns : System("created") \in Got(d)' => System("created") \in Got(d)
    BY <2>3, <2>4 DEF Delivers
  <2>6. \A d \in Conns : \A x \in Pending(d)' : x \in Pending(d) \/ x.op # "send"
    <3>1. SendEach(h.to \ {e}, h.frame).op # "send"
      BY DEF SendEach
    <3>2. QED
      BY <2>3, <3>1 DEF Drops, Leaves
  <2>7. QED
    BY <2>1, <2>5, <2>6 DEF Creator
<1>14. CASE CallBroadcast(c)
  <2>1. Kept
    BY <1>14 DEF CallBroadcast, dbVars
  <2>2. PICK S : S = {e \in clients : e.room = h.room /\ e.socket # h.exclude}
    OBVIOUS
  <2>3. /\ \A d : Got(d)' = Got(d)
        /\ Drops(c, h) \/ Leaves(c, h, SendEach(S, h.frame))
    BY <1>11, <1>14, <2>2, BroadcastEffect
  <2>4. \A d \in Conns : \A x \in Pending(d)' : x \in Pending(d) \/ x.op # "send"
    <3>1. SendEach(S, h.frame).op # "send"
      BY DEF SendEach
    <3>2. QED
      BY <2>3, <3>1 DEF Drops, Leaves
  <2>5. QED
    BY <2>1, <2>3, <2>4 DEF Creator
<1>15. CASE CallSetRoom(c)
  <2>1. /\ UNCHANGED <<pc, user, accounts>> /\ Drops(c, h)
        /\ \A d : Got(d)' = Got(d)
    BY <1>11, <1>15, SetRoomEffect
  <2>2. QED
    BY <2>1 DEF Creator, Drops
<1>16. CASE CallReplay(c) \/ CallListRooms(c)
  <2>1. /\ UNCHANGED <<pc, user, accounts>> /\ \A d : Got(d)' = Got(d)
    BY <1>11, <1>16, LookUpEffect
  <2>2. PICK call \in Call : PlainSend(c, call) /\ Leaves(c, h, call)
    BY <1>11, <1>16, LookUpEffect
  <2>3. call.frame # System("created")
    BY <2>2, CreatedIsNot DEF PlainSend
  <2>4. QED
    BY <2>1, <2>2, <2>3 DEF Creator, Leaves
<1>17. CASE CallStore(c)
  <2>1. Kept
    BY <1>17 DEF CallStore
  <2>2. /\ \A d : Got(d)' = Got(d)
        /\ Drops(c, h) \/ Leaves(c, h, Send(fd[c], NotStored(h.message.content)))
    BY <1>11, <1>17, StoreEffect
  <2>3. Send(fd[c], NotStored(h.message.content)).frame # System("created")
    BY DEF Send, NotStored, System
  <2>4. QED
    BY <2>1, <2>2, <2>3 DEF Creator, Drops, Leaves
<1>18. QED
  BY <1>3, <1>4, <1>5, <1>6, <1>7, <1>8, <1>9, <1>10, <1>12, <1>13, <1>14, <1>15,
     <1>16, <1>17 DEF StepOf

\* A registration that succeeds finds no account of that name, so nobody created
\* it before; a login makes nobody a creator.
LEMMA CreatorsAdmit ==
  ASSUME IInv, Creators, NEW c \in Conns, NEW u \in Users, Admit(c, u)
  PROVE  Creators'
<1>1. /\ pc \in [Conns -> {"none", "auth", "enter", "loop", "leave", "close", "done"}]
      /\ user \in [Conns -> Users \cup {NoUser}]
      /\ accounts \in [Users -> Passwords \cup {NoAccount}]
  BY DEF IInv, TypeOK, DatabaseTypeOK
<1>2. /\ pc[c] = "auth" /\ pc'[c] = "enter" /\ user'[c] = u
      /\ \A d \in Conns : d # c => pc'[d] = pc[d] /\ user'[d] = user[d]
      /\ UNCHANGED out
  BY <1>1 DEF Admit
<1>3. ~Creator(c)
  BY <1>2 DEF Creators
<1>4. \A d \in Conns : d # c => (Creator(d)' <=> Creator(d))
  <2>1. \A d \in Conns : d # c => Pending(d)' = Pending(d)
    BY SetsEffect DEF Admit
  <2>2. QED
    BY <1>2, <2>1, GotSame DEF Creator
<1>5. CASE Sets(c, <<>>) /\ accounts' = accounts
  <2>1. Pending(c)' = {}
    BY <1>5, SetsEffect, ListElements
  <2>2. ~Creator(c)'
    BY <1>2, <1>3, <2>1, GotSame DEF Creator
  <2>3. QED
    BY <1>2, <1>4, <1>5, <2>2 DEF Creators
<1>6. ASSUME accounts[u] = NoAccount,
             NEW p \in Passwords, accounts' = [accounts EXCEPT ![u] = p]
      PROVE  Creators'
  <2>1. accounts'[u] # NoAccount
        /\ \A v \in Users : accounts[v] # NoAccount => accounts'[v] # NoAccount /\ v # u
    BY <1>1, <1>6, DatabaseAssumption
  <2>2. ASSUME NEW d \in Conns, d # c, Creator(d)'
        PROVE  /\ pc'[d] \notin {"none", "auth"} /\ user'[d] \in Users
               /\ accounts'[user'[d]] # NoAccount /\ user'[d] # u
    BY <1>2, <1>4, <2>1, <2>2 DEF Creators
  <2>3. \A d, e \in Conns :
          d # e /\ d # c /\ e # c /\ Creator(d)' /\ Creator(e)' => user'[d] # user'[e]
    BY <1>2, <1>4 DEF Creators
  <2>4. QED
    BY <1>2, <2>1, <2>2, <2>3 DEF Creators
<1>7. QED
  BY <1>5, <1>6 DEF Admit

\* Creators is inductive.
LEMMA CreatorsStep ==
  ASSUME IInv, IInv', Script, Creators, [Next]_vars
  PROVE  Creators'
<1>1. CASE Restart
  <2>1. \A d \in Conns : Got(d)' = {} /\ Pending(d)' = {}
    BY <1>1 DEF Restart, Got, Pending
  <2>2. QED
    BY <2>1 DEF Creators, Creator
<1>2. CASE Idle
  BY <1>2 DEF Idle, Creators, Creator, Got, Pending
<1>3. ASSUME NEW c \in Conns, StepOf(c)
      PROVE  Creators'
  <2>1. ASSUME NEW u \in Users, Admit(c, u)
        PROVE  Creators'
    BY <2>1, CreatorsAdmit
  <2>2. CASE \A u \in Users : ~Admit(c, u)
    BY <1>3, <2>2, NoNewCreator, CreatorsKept
  <2>3. QED
    BY <2>1, <2>2
<1>4. QED
  BY <1>1, <1>2, <1>3, Steps

\* Initially nobody has been told anything.
LEMMA CreatorsInit ==
  ASSUME Init
  PROVE  Creators
<1>1. \A d \in Conns : Got(d) = {} /\ Pending(d) = {}
  BY DEF Init, Got, Pending
<1>2. QED
  BY <1>1 DEF Creators, Creator

\* However many clients register one name at the same time, at most one of them
\* is told that it created the account: what register_user promises through the
\* UNIQUE constraint, across handler threads, failures and restarts.
THEOREM SingleCreator == Spec => []OneCreator
<1>1. Init => Creators
  BY CreatorsInit
<1>2. IInv /\ Script /\ IInv' /\ Creators /\ [Next]_vars => Creators'
  BY CreatorsStep
<1>3. Creators => OneCreator
  BY DEF Creators, OneCreator, Creator
<1>4. QED
  BY <1>1, <1>2, <1>3, ScriptInvariant, PTL DEF Spec

-----------------------------------------------------------------------------
(***************************************************************************)
(* Neighbours.                                                             *)
(***************************************************************************)
\* Connection d has been told that c joined room r, or will be.
Telling(c, d, r) ==
  \/ Notice("joined", c, r) \in Got(d)
  \/ Reaching(c, d, Notice("joined", c, r))

\* Of two handlers in the same room, with peers that are there, one is telling the
\* other.
Neighbours ==
  \A c, d \in Conns :
    (c # d /\ pc[c] = "loop" /\ pc[d] = "loop" /\ room[c] = room[d]
       /\ c \notin lost /\ d \notin lost)
      => Telling(c, d, room[c]) \/ Telling(d, c, room[c])

\* What c is telling d it goes on telling it, until d has it.
LEMMA TellingKept ==
  ASSUME IInv, IInv', Script, "joined" \in Watched, NEW s \in Conns, StepOf(s),
         NEW c \in Conns, NEW d \in Conns, c # d, pc[d] = "loop",
         d \notin lost, NEW r, r = room[d], Telling(c, d, r)
  PROVE  Telling(c, d, r)'
<1>1. PICK note : note = Notice("joined", c, r)
  OBVIOUS
<1>2. CASE note \in Got(d)
  BY <1>1, <1>2, StepKeeps DEF Telling
<1>3. CASE Reaching(c, d, note)
  <2>1. RoomOf(note) = r /\ Kind(note) = "joined" /\ Fits(note)
    BY <1>1 DEF RoomOf, IsNotice, Notice, Kind, Fits
  <2>2. \/ Reaching(c, d, note)'
        \/ note \in Frame /\ out'[d] = Append(out[d], note)
    BY <1>3, <2>1, ReachingKept
  <2>3. note \in Frame /\ out'[d] = Append(out[d], note) => note \in Got(d)'
    BY GotMore
  <2>4. QED
    BY <1>1, <2>2, <2>3 DEF Telling
<1>4. QED
  BY <1>1, <1>2, <1>3 DEF Telling

\* A handler comes into a room by Enter and by CallSetRoom only, and then it has
\* the announcement pending.
LEMMA Arrivals ==
  ASSUME IInv, IInv', Script, NEW s \in Conns, StepOf(s), NEW c \in Conns, pc'[c] = "loop"
  PROVE  \/ pc[c] = "loop" /\ room'[c] = room[c]
         \/ c = s /\ \A d \in Conns : Telling(c, d, room[c])'
<1>1. /\ pc \in [Conns -> {"none", "auth", "enter", "loop", "leave", "close", "done"}]
      /\ room \in [Conns -> Rooms]
  BY DEF IInv, TypeOK
<1>2. CASE c # s
  BY <1>2, StepKeeps
<1>3. ASSUME c = s, NEW r, room'[c] = r,
             Broadcast(r, Notice("joined", c, r), fd[c]) \in Pending(c)'
      PROVE  \A d \in Conns : Telling(c, d, room[c])'
  BY <1>3 DEF Telling, Reaching, Broadcast
<1>4. CASE c = s /\ Enter(c)
  <2>1. room'[c] = kDefaultRoom /\ Sets(c, Greeting(c))
    BY <1>1, <1>4 DEF Enter, Do, Sets
  <2>2. Pending(c)' = {Greeting(c)[k] : k \in DOMAIN Greeting(c)}
    BY <2>1, SetsEffect
  <2>3. Broadcast(kDefaultRoom, Notice("joined", c, kDefaultRoom), fd[c]) \in Pending(c)'
    BY <2>2, ListElements DEF Greeting
  <2>4. QED
    BY <1>3, <1>4, <2>1, <2>3
<1>5. CASE c = s /\ CallSetRoom(c)
  <2>1. PICK r : r = Head(todo[c]).room
    OBVIOUS
  <2>2. room'[c] = r /\ Broadcast(r, Notice("joined", c, r), fd[c]) \in Pending(c)'
    BY <1>5, <2>1, SetRoomEffect
  <2>3. QED
    BY <1>3, <1>5, <2>2
<1>6. CASE c = s /\ ~Enter(c) /\ ~CallSetRoom(c)
  BY <1>6, StaysPut
<1>7. QED
  BY <1>2, <1>4, <1>5, <1>6

\* Neighbours is inductive.
LEMMA NeighboursStep ==
  ASSUME IInv, IInv', Script, Neighbours, "joined" \in Watched, [Next]_vars
  PROVE  Neighbours'
<1>1. CASE Restart
  BY <1>1 DEF Restart, Neighbours
<1>2. CASE Idle
  <2>1. \A c : Got(c)' = Got(c) /\ Pending(c)' = Pending(c)
    BY <1>2 DEF Idle, Got, Pending
  <2>2. \A c, d \in Conns : \A r :
          pc[d] = "loop" /\ Telling(c, d, r) => Telling(c, d, r)'
    BY <1>2, <2>1 DEF Idle, NoneMisled, Telling, Reaching
  <2>3. ASSUME NEW c \in Conns, NEW d \in Conns, c # d,
               pc'[c] = "loop", pc'[d] = "loop", room'[c] = room'[d],
               c \notin lost', d \notin lost'
        PROVE  Telling(c, d, room[c])' \/ Telling(d, c, room[c])'
    <3>1. PICK r : r = room[c] /\ r = room'[c]
      BY <1>2 DEF Idle
    <3>2. Telling(c, d, r) \/ Telling(d, c, r)
      BY <1>2, <2>3, <3>1 DEF Idle, Neighbours
    <3>3. Telling(c, d, r)' \/ Telling(d, c, r)'
      BY <1>2, <2>2, <2>3, <3>2 DEF Idle
    <3>4. QED
      BY <3>1, <3>3 DEF Telling
  <2>4. QED
    BY <2>3 DEF Neighbours
<1>3. ASSUME NEW s \in Conns, StepOf(s), NEW c \in Conns, NEW d \in Conns, c # d,
             pc'[c] = "loop", pc'[d] = "loop", room'[c] = room'[d],
             c \notin lost', d \notin lost'
      PROVE  Telling(c, d, room[c])' \/ Telling(d, c, room[c])'
  <2>0. c \notin lost /\ d \notin lost
    BY <1>3, NetSteps
  <2>1. /\ \/ pc[c] = "loop" /\ room'[c] = room[c]
           \/ \A x \in Conns : Telling(c, x, room[c])'
        /\ \/ pc[d] = "loop" /\ room'[d] = room[d]
           \/ \A x \in Conns : Telling(d, x, room[d])'
    BY <1>3, Arrivals
  <2>2. CASE \A x \in Conns : Telling(c, x, room[c])'
    BY <2>2
  <2>3. CASE \A x \in Conns : Telling(d, x, room[d])'
    <3>1. Telling(d, c, room[d])'
      BY <2>3
    <3>2. QED
      BY <1>3, <3>1 DEF Telling
  <2>4. CASE /\ pc[c] = "loop" /\ room'[c] = room[c]
             /\ pc[d] = "loop" /\ room'[d] = room[d]
    <3>1. PICK r : r = room[c] /\ r = room[d] /\ r = room'[c]
      BY <1>3, <2>4
    <3>2. Telling(c, d, r) \/ Telling(d, c, r)
      BY <1>3, <2>0, <2>4, <3>1 DEF Neighbours
    <3>3. Telling(c, d, r)' \/ Telling(d, c, r)'
      BY <1>3, <2>0, <2>4, <3>1, <3>2, TellingKept
    <3>4. QED
      BY <3>1, <3>3 DEF Telling
  <2>5. QED
    BY <2>1, <2>2, <2>3, <2>4
<1>4. QED
  BY <1>1, <1>2, <1>3, Steps DEF Neighbours

\* What was being told has been told once no call is pending.
LEMMA NeighboursSettled ==
  ASSUME IInv, Neighbours
  PROVE  NoSilentNeighbours
<1>1. SUFFICES ASSUME NEW c \in Settled, NEW d \in Settled, c # d, room[c] = room[d]
               PROVE  \/ Notice("joined", d, room[d]) \in Got(c)
                      \/ Notice("joined", c, room[c]) \in Got(d)
  BY DEF NoSilentNeighbours
<1>2. /\ c \in Conns /\ pc[c] = "loop" /\ todo[c] = <<>> /\ c \notin lost
      /\ d \in Conns /\ pc[d] = "loop" /\ todo[d] = <<>> /\ d \notin lost
  BY DEF Settled
<1>3. Pending(c) = {} /\ Pending(d) = {}
  BY <1>2, NonePending
<1>4. Telling(c, d, room[c]) \/ Telling(d, c, room[c])
  BY <1>1, <1>2 DEF Neighbours
<1>5. QED
  BY <1>1, <1>3, <1>4 DEF Telling, Reaching

\* Of two clients waiting in the same room one was told that the other joined, in
\* every interleaving of logins, /join and departures: handle_client registers
\* and handle_join calls set_room before they announce the arrival, and
\* broadcast_to_room takes its recipients under the lock.
THEOREM NeighboursMeet == "joined" \in Watched => (Spec => []NoSilentNeighbours)
<1>1. SUFFICES ASSUME "joined" \in Watched
               PROVE  Spec => []NoSilentNeighbours
  OBVIOUS
<1>2. Init => Neighbours
  BY DEF Init, Neighbours
<1>3. IInv /\ Script /\ IInv' /\ Neighbours /\ [Next]_vars => Neighbours'
  BY <1>1, NeighboursStep
<1>4. IInv /\ Neighbours => NoSilentNeighbours
  BY NeighboursSettled
<1>5. QED
  BY <1>2, <1>3, <1>4, ScriptInvariant, PTL DEF Spec

-----------------------------------------------------------------------------
(***************************************************************************)
(* Presence.                                                               *)
(***************************************************************************)
IsEntry(frame) == frame.type \in {"AuthOk", "Joined"}

\* A call that tells others of an arrival or a departure.
Tells(call) == call.op \in {"broadcast", "send each"} /\ IsNotice(call.frame)

\* The handler of d is about to change its room.
Moving(d) == \E x \in Pending(d) : x.op = "set_room"

\* d is in room r and is not about to leave it for another one.
In(d, r) == pc[d] \in {"loop", "leave"} /\ room[d] = r /\ ~Moving(d)

\* c has still to be sent a notice of d about c's room.
Due(d, c) ==
  \E frame : IsNotice(frame) /\ frame.room = room[c] /\ Reaching(d, c, frame)

\* c, whose peer is there, has been told which room it is in.
Arrived(c) ==
  pc[c] = "loop" /\ c \notin lost /\ \A x \in Pending(c) : ~(x.op = "send" /\ IsEntry(x.frame))

\* A change of room is the next call, or only its farewell comes before it.
MovesNext(s) ==
  \A k \in 1..Len(s) :
    s[k].op = "set_room" => \/ k = 1
                            \/ k = 2 /\ Tells(s[1]) /\ s[1].frame.text = "left"

\* What is about to be announced is so, or will be before it is announced.
Announced(d) ==
  \A x \in Pending(d) :
    Tells(x) =>
      \/ /\ x.frame.text = "joined" /\ pc[d] = "loop"
         /\ In(d, x.frame.room) \/ SetRoom(x.frame.room) \in Pending(d)
      \/ /\ x.frame.text = "left" /\ room[d] = x.frame.room
         /\ pc[d] = "close" \/ Moving(d)

Announcing == \A d \in Conns : MovesNext(todo[d]) /\ Announced(d)

\* The last notice that somebody in a room has about d agrees with where d is,
\* unless another notice is under way.
LastIs(c, d) ==
  (Arrived(c) /\ NoticesAbout(c, d) # {} /\ ~Due(d, c)) =>
    \E k \in NoticesAbout(c, d) :
      /\ \A j \in NoticesAbout(c, d) : j <= k
      /\ out[c][k].text = "joined" <=> In(d, room[c])

Present == \A c \in Conns : \A d \in Conns \ {c} : LastIs(c, d)

\* Which calls are no announcements and no change of room.
LEMMA QuietCalls ==
  ASSUME NEW c \in Conns
  PROVE  /\ \A r, m, f : ~Tells(Broadcast(r, ChatMsg(m), f))
         /\ \A r, frame, f : Broadcast(r, frame, f).op = "broadcast"
         /\ \A r, n : ~Tells(Replay(r, n)) /\ Replay(r, n).op = "replay"
         /\ \A r : ~Tells(SetRoom(r)) /\ SetRoom(r).op = "set_room"
         /\ \A f, frame : ~Tells(Send(f, frame)) /\ Send(f, frame).op = "send"
         /\ \A m : ~Tells(Store(m)) /\ Store(m).op = "store"
         /\ \A y : PlainSend(c, y) \/ y.op \in {"replay", "list_rooms"}
                     => ~Tells(y) /\ y.op # "set_room"
  BY DEF Tells, IsNotice, Broadcast, ChatMsg, Replay, SetRoom, Send, Store, PlainSend

\* What the notices say.
LEMMA NoticeCalls ==
  ASSUME NEW t \in {"joined", "left"}, NEW c, NEW r, NEW f, NEW x,
         x = Broadcast(r, Notice(t, c, r), f)
  PROVE  /\ Tells(x) /\ x.op = "broadcast" /\ x.frame = Notice(t, c, r)
         /\ x.frame.text = t /\ x.frame.room = r /\ x.frame.by = c
         /\ IsNotice(Notice(t, c, r)) /\ Notice(t, c, r).room = r
  BY DEF Tells, IsNotice, Broadcast, Notice

\* A handler that sets out with neither announces nothing.
LEMMA QuietList ==
  ASSUME IInv, NEW c \in Conns, NEW calls, Sets(c, calls),
         \A k \in DOMAIN calls : ~Tells(calls[k]) /\ calls[k].op # "set_room",
         DOMAIN calls = 1..Len(calls)
  PROVE  MovesNext(todo'[c]) /\ Announced(c)' /\ ~Moving(c)' /\ ~Moving(c)
<1>1. todo'[c] = calls /\ Pending(c)' = {calls[k] : k \in DOMAIN calls} /\ Pending(c) = {}
  BY SetsEffect
<1>2. \A x \in Pending(c)' : ~Tells(x) /\ x.op # "set_room"
  BY <1>1
<1>3. QED
  BY <1>1, <1>2 DEF MovesNext, Announced, Moving

\* What a handler sets out to do is announced rightly, and changes where it is
\* only if the notice of that is under way.
LEMMA BeginsAnnounced ==
  ASSUME IInv, IInv', NEW d \in Conns, Begins(d)
  PROVE  /\ MovesNext(todo'[d]) /\ Announced(d)'
         /\ \A r : \/ In(d, r)' <=> In(d, r)
                   \/ \E x \in Pending(d)' : /\ x.op = "broadcast" /\ IsNotice(x.frame)
                                             /\ x.frame.room = r
<1>1. /\ pc \in [Conns -> {"none", "auth", "enter", "loop", "leave", "close", "done"}]
      /\ room \in [Conns -> Rooms]
  BY DEF IInv, TypeOK
<1> DEFINE Goal == /\ MovesNext(todo'[d]) /\ Announced(d)'
                   /\ \A r : \/ In(d, r)' <=> In(d, r)
                             \/ \E x \in Pending(d)' :
                                  /\ x.op = "broadcast" /\ IsNotice(x.frame)
                                  /\ x.frame.room = r
<1>2. ASSUME NEW calls, Sets(d, calls), DOMAIN calls = 1..Len(calls),
             \A k \in DOMAIN calls : ~Tells(calls[k]) /\ calls[k].op # "set_room",
             room'[d] = room[d], pc[d] \in {"loop", "leave"} <=> pc'[d] \in {"loop", "leave"}
      PROVE  Goal
  <2>1. MovesNext(todo'[d]) /\ Announced(d)' /\ ~Moving(d)' /\ ~Moving(d)
    BY <1>2, QuietList
  <2>2. QED
    BY <1>2, <2>1 DEF In
<1>3. ASSUME Answer(d)
      PROVE  Goal
  <2>1. room'[d] = room[d] /\ (pc[d] \in {"loop", "leave"} <=> pc'[d] \in {"loop", "leave"})
    BY <1>1, <1>3 DEF Answer
  <2>2. CASE Sets(d, <<>>)
    BY <1>2, <2>1, <2>2
  <2>3. ASSUME NEW call, Sets(d, <<call>>),
               PlainSend(d, call) \/ call.op \in {"replay", "list_rooms"}
        PROVE  Goal
    <3>1. ~Tells(call) /\ call.op # "set_room"
      BY <2>3, QuietCalls
    <3>2. DOMAIN <<call>> = 1..Len(<<call>>)
          /\ \A k \in DOMAIN <<call>> : ~Tells(<<call>>[k]) /\ <<call>>[k].op # "set_room"
      BY <3>1
    <3>3. QED
      BY <1>2, <2>1, <2>3, <3>2
  <2>4. QED
    BY <1>3, <2>2, <2>3 DEF Answer
<1>4. ASSUME Enter(d)
      PROVE  Goal
  <2>1. PICK x : x = Broadcast(kDefaultRoom, Notice("joined", d, kDefaultRoom), fd[d])
    OBVIOUS
  <2>2. PICK calls : calls = Greeting(d)
    OBVIOUS
  <2>3. /\ Sets(d, calls) /\ pc[d] = "enter" /\ pc'[d] = "loop" /\ room'[d] = kDefaultRoom
    BY <1>1, <1>4, <2>2 DEF Enter, Do, Sets
  <2>4. Tells(x) /\ x.op = "broadcast" /\ x.frame.text = "joined"
        /\ x.frame.room = kDefaultRoom
    BY <2>1, NoticeCalls
  <2>5. /\ Pending(d)' = {Send(fd[d], AuthOk(user[d], kDefaultRoom)),
                          Send(fd[d], System("welcome")),
                          Replay(kDefaultRoom, kHistoryLimit), x}
        /\ todo'[d] = calls
    BY <2>1, <2>2, <2>3, SetsEffect, ListElements DEF Greeting
  <2>6. ~Moving(d)'
    BY <2>4, <2>5, QuietCalls DEF Moving
  <2>7. In(d, kDefaultRoom)'
    BY <2>3, <2>6 DEF In
  <2>8. Announced(d)'
    BY <2>3, <2>4, <2>5, <2>7, QuietCalls DEF Announced
  <2>9. MovesNext(todo'[d])
    <3>1. /\ \A k \in 1..Len(calls) : calls[k] \in Pending(d)'
      BY <2>2, <2>5 DEF Greeting, Pending
    <3>2. QED
      BY <2>5, <2>6, <3>1 DEF MovesNext, Moving
  <2>10. ASSUME NEW r, r # kDefaultRoom
         PROVE  ~In(d, r)' /\ ~In(d, r)
    BY <2>3, <2>10 DEF In
  <2>11. x \in Pending(d)' /\ IsNotice(x.frame)
    BY <2>4, <2>5 DEF Tells
  <2>12. QED
    BY <2>4, <2>8, <2>9, <2>10, <2>11
<1>5. ASSUME Leave(d)
      PROVE  Goal
  <2>1. PICK x : x = Broadcast(room[d], Notice("left", d, room[d]), INVALID_SOCKET)
    OBVIOUS
  <2>2. Sets(d, <<x>>) /\ pc'[d] = "close" /\ room'[d] = room[d]
    BY <1>1, <1>5, <2>1 DEF Leave, Do, Sets
  <2>3. Tells(x) /\ x.op = "broadcast" /\ x.frame.text = "left" /\ x.frame.room = room[d]
    BY <2>1, NoticeCalls
  <2>4. Pending(d)' = {x} /\ todo'[d] = <<x>>
    BY <2>2, SetsEffect, ListElements
  <2>5. Announced(d)'
    BY <2>2, <2>3, <2>4 DEF Announced
  <2>6. MovesNext(todo'[d])
    BY <2>3, <2>4 DEF MovesNext
  <2>7. ASSUME NEW r, r # room[d]
        PROVE  ~In(d, r)' /\ ~In(d, r)
    BY <2>2, <2>7 DEF In
  <2>8. x \in Pending(d)' /\ IsNotice(x.frame)
    BY <2>3, <2>4 DEF Tells
  <2>9. QED
    BY <2>3, <2>5, <2>6, <2>7, <2>8
<1>6. ASSUME NEW u \in Users, Admit(d, u)
      PROVE  Goal
  <2>1. PICK x : x = Send(fd[d], System("created"))
    OBVIOUS
  <2>2. Sets(d, <<>>) \/ Sets(d, <<x>>)
    BY <1>6, <2>1 DEF Admit
  <2>3. room'[d] = room[d] /\ (pc[d] \in {"loop", "leave"} <=> pc'[d] \in {"loop", "leave"})
    BY <1>1, <1>6 DEF Admit
  <2>4. ~Tells(x) /\ x.op # "set_room"
    BY <2>1, QuietCalls
  <2>5. DOMAIN <<x>> = 1..Len(<<x>>)
        /\ \A k \in DOMAIN <<x>> : ~Tells(<<x>>[k]) /\ <<x>>[k].op # "set_room"
    BY <2>4
  <2>6. DOMAIN <<>> = 1..Len(<<>>)
    OBVIOUS
  <2>7. QED
    BY <1>2, <2>2, <2>3, <2>5, <2>6
<1>7. ASSUME NEW r \in Rooms, Move(d, r)
      PROVE  Goal
  <2>1. PICK x1 : x1 = Broadcast(room[d], Notice("left", d, room[d]), fd[d])
    OBVIOUS
  <2>2. PICK x2 : x2 = SetRoom(r)
    OBVIOUS
  <2>3. PICK x3 : x3 = Send(fd[d], Joined(r))
    OBVIOUS
  <2>4. PICK x4 : x4 = Broadcast(r, Notice("joined", d, r), fd[d])
    OBVIOUS
  <2>5. PICK x5 : x5 = Replay(r, kHistoryLimit)
    OBVIOUS
  <2>6. PICK calls : calls = <<x1, x2, x3, x4, x5>>
    OBVIOUS
  <2>7. /\ Sets(d, calls) /\ pc[d] = "loop" /\ pc'[d] = "loop" /\ room'[d] = room[d]
    BY <1>7, <2>1, <2>2, <2>3, <2>4, <2>5, <2>6 DEF Move, Says
  <2>8. /\ Tells(x1) /\ x1.op = "broadcast" /\ x1.frame.text = "left"
        /\ x1.frame.room = room[d] /\ IsNotice(x1.frame)
        /\ Tells(x4) /\ x4.op = "broadcast" /\ x4.frame.text = "joined"
        /\ x4.frame.room = r /\ IsNotice(x4.frame)
    <3>1. /\ Tells(x1) /\ x1.op = "broadcast" /\ x1.frame.text = "left"
          /\ x1.frame.room = room[d]
      BY <2>1, NoticeCalls
    <3>2. /\ Tells(x4) /\ x4.op = "broadcast" /\ x4.frame.text = "joined"
          /\ x4.frame.room = r
      BY <2>4, NoticeCalls
    <3>3. QED
      BY <3>1, <3>2 DEF Tells
  <2>9. /\ ~Tells(x2) /\ x2.op = "set_room" /\ ~Tells(x3) /\ x3.op = "send"
        /\ ~Tells(x5) /\ x5.op = "replay"
    BY <2>2, <2>3, <2>5, QuietCalls
  <2>10. Pending(d)' = {x1, x2, x3, x4, x5} /\ todo'[d] = calls
    BY <2>6, <2>7, SetsEffect, ListElements
  <2>11. Moving(d)'
    BY <2>9, <2>10 DEF Moving
  <2>12. Announced(d)'
    BY <2>2, <2>7, <2>8, <2>9, <2>10, <2>11 DEF Announced
  <2>13. MovesNext(todo'[d])
    <3>1. /\ Len(calls) = 5 /\ calls[1] = x1 /\ calls[2] = x2 /\ calls[3] = x3
          /\ calls[4] = x4 /\ calls[5] = x5
      BY <2>6
    <3>2. ASSUME NEW k \in 1..Len(calls), calls[k].op = "set_room"
          PROVE  k = 2
      BY <2>8, <2>9, <3>1, <3>2
    <3>3. QED
      BY <2>8, <2>10, <3>1, <3>2 DEF MovesNext
  <2>14. ASSUME NEW q, q # room[d]
         PROVE  ~In(d, q)' /\ ~In(d, q)
    BY <2>7, <2>14 DEF In
  <2>15. x1 \in Pending(d)'
    BY <2>10
  <2>16. QED
    BY <2>8, <2>12, <2>13, <2>14, <2>15
<1>8. ASSUME NEW calls, Says(d, calls), DOMAIN calls = 1..Len(calls),
             \A k \in DOMAIN calls : ~Tells(calls[k]) /\ calls[k].op # "set_room"
      PROVE  Goal
  <2>1. Sets(d, calls) /\ pc'[d] = pc[d] /\ room'[d] = room[d]
    BY <1>8 DEF Says
  <2>2. QED
    BY <1>2, <1>8, <2>1
<1>9. ASSUME NEW m \in Message, Speak(d, m)
      PROVE  Goal
  <2>1. PICK calls : calls = <<Store(m), Broadcast(m.room, ChatMsg(m), fd[d])>>
    OBVIOUS
  <2>2. Says(d, calls) /\ DOMAIN calls = 1..Len(calls)
    BY <1>9, <2>1 DEF Speak
  <2>3. \A k \in DOMAIN calls : ~Tells(calls[k]) /\ calls[k].op # "set_room"
    BY <2>1, QuietCalls
  <2>4. QED
    BY <1>8, <2>2, <2>3
<1>10. ASSUME NEW m \in Message, NEW u \in Users, NEW e \in clients, Whisper(d, m, u, e)
       PROVE  Goal
  <2>1. PICK calls : calls = <<Store(m), Send(e.socket, DirectMsg(m, u, owner[e.socket])),
                               Send(fd[d], DirectMsg(m, u, owner[e.socket]))>>
    OBVIOUS
  <2>2. Says(d, calls) /\ DOMAIN calls = 1..Len(calls)
    BY <1>10, <2>1 DEF Whisper
  <2>3. \A k \in DOMAIN calls : ~Tells(calls[k]) /\ calls[k].op # "set_room"
    BY <2>1, QuietCalls
  <2>4. QED
    BY <1>8, <2>2, <2>3
<1>11. QED
  <2> HIDE DEF Goal
  <2>1. Goal
    BY <1>3, <1>4, <1>5, <1>6, <1>7, <1>9, <1>10 DEF Begins
  <2>2. QED
    BY <2>1 DEF Goal

\* A call that is made keeps the announcements right; only set_room changes where
\* a handler is, and then the announcement of the arrival is left to make.
LEMMA CallsAnnounced ==
  ASSUME IInv, IInv', Script, NEW d \in Conns, Calls(d), MovesNext(todo[d]), Announced(d)
  PROVE  /\ MovesNext(todo'[d]) /\ Announced(d)'
         /\ \A r : \/ In(d, r)' <=> In(d, r)
                   \/ \E x \in Pending(d)' : /\ x.op = "broadcast" /\ IsNotice(x.frame)
                                             /\ x.frame.room = r
<1>1. PICK h : h = Head(todo[d])
  OBVIOUS
<1>2. todo[d] # <<>> /\ UNCHANGED <<pc, fd, owner, user>> /\ h \in Pending(d)
  BY <1>1, CallsReturn, HeadPending
<1>3. CASE CallSetRoom(d)
  <2>1. /\ h.op = "set_room" /\ pc[d] = "loop" /\ room'[d] = h.room
        /\ Pending(d)' = {Send(fd[d], Joined(h.room)),
                          Broadcast(h.room, Notice("joined", d, h.room), fd[d]),
                          Replay(h.room, kHistoryLimit)}
    BY <1>1, <1>3, SetRoomEffect
  <2>2. PICK x : x = Broadcast(h.room, Notice("joined", d, h.room), fd[d])
    OBVIOUS
  <2>3. /\ Tells(x) /\ x.op = "broadcast" /\ x.frame.text = "joined"
        /\ x.frame.room = h.room
    BY <2>2, NoticeCalls
  <2>4. x \in Pending(d)' /\ \A y \in Pending(d)' : y.op # "set_room" /\ (Tells(y) => y = x)
    BY <2>1, <2>2, <2>3, QuietCalls
  <2>5. ~Moving(d)' /\ Moving(d)
    BY <1>2, <2>1, <2>4 DEF Moving
  <2>6. MovesNext(todo'[d])
    <3>1. \A k \in 1..Len(todo'[d]) : todo'[d][k] \in Pending(d)'
      BY PendingIs, <1>2 DEF Pending, IInv, TypeOK
    <3>2. QED
      BY <2>4, <3>1 DEF MovesNext
  <2>7. In(d, h.room)' /\ pc'[d] = "loop"
    BY <1>2, <2>1, <2>5 DEF In
  <2>8. Announced(d)'
    BY <2>3, <2>4, <2>7 DEF Announced
  <2>9. ASSUME NEW r, r # h.room
        PROVE  ~In(d, r)' /\ ~In(d, r)
    BY <2>1, <2>5, <2>9 DEF In
  <2>10. QED
    BY <2>3, <2>4, <2>6, <2>8, <2>9 DEF Tells
<1>4. CASE ~CallSetRoom(d)
  <2>1. h.op # "set_room"
    BY <1>1, <1>4, MadeBy
  <2>2. UNCHANGED room
    BY <1>4 DEF Calls, CallSend, CallBroadcast, CallSendEach, CallReplay, CallStore,
                CallListRooms
  <2> DEFINE Kept ==
        /\ \A x \in Pending(d) : x.op = "set_room" => x \in Pending(d)'
        /\ \A x \in Pending(d)' :
             \/ x \in Pending(d)
             \/ x.op # "set_room" /\ (Tells(x) => Tells(h) /\ h.frame = x.frame)
        /\ MovesNext(todo'[d])
  <2>3. Kept
    <3>1. ASSUME Returns(d, <<>>)
          PROVE  Kept
      <4>1. /\ \A x \in Pending(d) : x.op = "set_room" => x \in Pending(d)'
            /\ \A x \in Pending(d)' : x \in Pending(d)
        BY <1>1, <1>2, <2>1, <3>1, PendingPopped
      <4>2. ASSUME NEW k \in 1..Len(todo'[d]), todo'[d][k].op = "set_room"
            PROVE  k = 1
        <5>1. k + 1 \in 1..Len(todo[d]) /\ todo[d][k + 1].op = "set_room"
          BY <1>2, <3>1, <4>2, Popped
        <5>2. k + 1 = 1 \/ k + 1 = 2
          BY <5>1 DEF MovesNext
        <5>3. QED
          BY <1>2, <3>1, <5>2, Popped
      <4>3. QED
        BY <4>1, <4>2 DEF MovesNext
    <3>2. ASSUME NEW call \in Call, Returns(d, <<call>>), call.op # "set_room",
                 IF h.op \in {"broadcast", "send each"}
                 THEN call.op = "send each" /\ call.frame = h.frame
                 ELSE call.op = "send"
          PROVE  Kept
      <4>1. /\ \A x \in Pending(d) : x.op = "set_room" => x \in Pending(d)'
            /\ \A x \in Pending(d)' : x \in Pending(d) \/ x = call
        BY <1>1, <1>2, <2>1, <3>2, PendingSwapped
      <4>2. (Tells(call) => Tells(h) /\ h.frame = call.frame)
            /\ (Tells(h) => Tells(call) /\ h.frame = call.frame)
        BY <3>2 DEF Tells
      <4>3. ASSUME NEW k \in 1..Len(todo'[d]), todo'[d][k].op = "set_room"
            PROVE  k = 2 /\ Tells(call) /\ call.frame.text = "left" /\ todo'[d][1] = call
        <5>1. /\ Len(todo'[d]) = Len(todo[d]) /\ todo'[d][1] = call
              /\ todo[d][1] = Head(todo[d])
              /\ \A j \in 1..Len(todo[d]) : j # 1 => todo'[d][j] = todo[d][j]
          BY <1>2, <3>2, Swapped
        <5>2. k # 1 /\ k \in 1..Len(todo[d]) /\ todo[d][k].op = "set_room"
          BY <3>2, <4>3, <5>1
        <5>3. QED
          BY <1>1, <4>2, <5>1, <5>2 DEF MovesNext
      <4>4. QED
        BY <3>2, <4>1, <4>2, <4>3 DEF MovesNext
    <3>3. QED
      BY <1>1, <3>1, <3>2, CallsReturn
  <2>4. Moving(d)' <=> Moving(d)
    BY <2>3 DEF Moving
  <2>5. \A r : In(d, r)' <=> In(d, r)
    BY <1>2, <2>2, <2>4 DEF In
  <2>6. ASSUME NEW x \in Pending(d)', Tells(x)
        PROVE  \/ /\ x.frame.text = "joined" /\ pc'[d] = "loop"
                  /\ In(d, x.frame.room)' \/ SetRoom(x.frame.room) \in Pending(d)'
               \/ /\ x.frame.text = "left" /\ room'[d] = x.frame.room
                  /\ pc'[d] = "close" \/ Moving(d)'
    <3>1. PICK y \in Pending(d) : Tells(y) /\ y.frame = x.frame
      BY <1>2, <2>3, <2>6
    <3>2. \/ /\ x.frame.text = "joined" /\ pc[d] = "loop"
             /\ In(d, x.frame.room) \/ SetRoom(x.frame.room) \in Pending(d)
          \/ /\ x.frame.text = "left" /\ room[d] = x.frame.room
             /\ pc[d] = "close" \/ Moving(d)
      BY <3>1 DEF Announced
    <3>3. \A r : SetRoom(r) \in Pending(d) => SetRoom(r) \in Pending(d)'
      BY <2>3, QuietCalls
    <3>4. QED
      BY <1>2, <2>2, <2>4, <2>5, <3>2, <3>3
  <2>7. Announced(d)'
    BY <2>6 DEF Announced
  <2>8. QED
    BY <2>3, <2>5, <2>7
<1>5. QED
  BY <1>3, <1>4

\* Every step keeps the announcements right, and whoever comes into a room or
\* leaves it has a broadcast of that to make.
LEMMA AnnouncingStep ==
  ASSUME IInv, IInv', Script, Announcing, NEW s \in Conns, StepOf(s), NEW d \in Conns
  PROVE  /\ MovesNext(todo'[d]) /\ Announced(d)'
         /\ \A r : \/ In(d, r)' <=> In(d, r)
                   \/ \E x \in Pending(d)' : /\ x.op = "broadcast" /\ IsNotice(x.frame)
                                             /\ x.frame.room = r
<1>1. pc \in [Conns -> {"none", "auth", "enter", "loop", "leave", "close", "done"}]
  BY DEF IInv, TypeOK
<1>2. MovesNext(todo[d]) /\ Announced(d)
  BY DEF Announcing
<1>3. CASE d # s
  <2>1. /\ todo'[d] = todo[d] /\ Pending(d)' = Pending(d) /\ pc'[d] = pc[d]
        /\ room'[d] = room[d]
    BY <1>3, StepKeeps, TodoKept
  <2>2. (Moving(d)' <=> Moving(d)) /\ \A r : In(d, r)' <=> In(d, r)
    BY <2>1 DEF Moving, In
  <2>3. Announced(d)'
    BY <1>2, <2>1, <2>2 DEF Announced
  <2>4. QED
    BY <1>2, <2>1, <2>2, <2>3
<1>4. ASSUME d = s, UNCHANGED todo, Pending(d) = {},
             pc[d] \notin {"loop", "leave"}, pc'[d] \notin {"loop", "leave"}
      PROVE  /\ MovesNext(todo'[d]) /\ Announced(d)'
             /\ \A r : In(d, r)' <=> In(d, r)
  <2>1. Pending(d)' = {}
    BY <1>4 DEF Pending
  <2>2. QED
    BY <1>2, <1>4, <2>1 DEF Announced, In
<1>5. ASSUME d = s, NEW f \in Fds, Accept(d, f)
      PROVE  /\ MovesNext(todo'[d]) /\ Announced(d)'
             /\ \A r : In(d, r)' <=> In(d, r)
  <2>1. UNCHANGED todo /\ pc[d] = "none" /\ pc'[d] = "auth"
    BY <1>1, <1>5 DEF Accept
  <2>2. Pending(d) = {}
    BY <2>1, PendingAlive
  <2>3. QED
    BY <1>4, <1>5, <2>1, <2>2
<1>6. ASSUME d = s, Finish(d)
      PROVE  /\ MovesNext(todo'[d]) /\ Announced(d)'
             /\ \A r : In(d, r)' <=> In(d, r)
  <2>1. UNCHANGED todo /\ todo[d] = <<>> /\ pc[d] \in {"auth", "close"} /\ pc'[d] = "done"
    BY <1>1, <1>6 DEF Finish, CloseSocket
  <2>2. Pending(d) = {}
    BY <2>1, NonePending
  <2>3. QED
    BY <1>4, <1>6, <2>1, <2>2
<1>7. CASE d = s /\ Begins(d)
  BY <1>7, BeginsAnnounced
<1>8. CASE d = s /\ Calls(d)
  BY <1>2, <1>8, CallsAnnounced
<1>9. QED
  BY <1>3, <1>5, <1>6, <1>7, <1>8, StepKinds

\* Who is announced at the head of its list is where the notice says.
LEMMA HeadTells ==
  ASSUME IInv, Script, Announcing, NEW d \in Conns, todo[d] # <<>>,
         NEW h, h = Head(todo[d]), Tells(h)
  PROVE  h.frame.text = "joined" <=> In(d, h.frame.room)
<1>1. h \in Pending(d) /\ MovesNext(todo[d]) /\ Announced(d) /\ todo[d] \in Seq(Call)
      /\ todo[d][1] = h
  BY HeadPending, HeadFirst DEF Announcing, IInv, TypeOK
<1>2. CASE h.frame.text = "left" /\ (pc[d] = "close" \/ Moving(d))
  BY <1>2 DEF In
<1>3. CASE h.frame.text = "joined" /\ In(d, h.frame.room)
  BY <1>3
<1>4. ASSUME h.frame.text = "joined", SetRoom(h.frame.room) \in Pending(d)
      PROVE  FALSE
  <2>1. PICK k \in 1..Len(todo[d]) : todo[d][k] = SetRoom(h.frame.room)
    BY <1>4, PendingIs
  <2>2. todo[d][k].op = "set_room" /\ h.op # "set_room"
    BY <2>1, QuietCalls DEF Tells
  <2>3. k = 1 \/ h.frame.text = "left"
    BY <1>1, <2>2 DEF MovesNext
  <2>4. QED
    BY <1>1, <1>4, <2>2, <2>3
<1>5. QED
  BY <1>1, <1>2, <1>3, <1>4 DEF Announced

\* While a change of where d is reaches a client in that room, a notice is due.
LEMMA InKept ==
  ASSUME IInv, IInv', Script, Announcing, NEW s \in Conns, StepOf(s),
         NEW c \in Conns, NEW d \in Conns, c # d, room'[c] = room[c]
  PROVE  (In(d, room[c])' <=> In(d, room[c])) \/ Due(d, c)'
<1>1. PICK r : r = room[c]
  OBVIOUS
<1>2. r = room'[c]
  BY <1>1
<1>3. CASE In(d, r)' <=> In(d, r)
  BY <1>1, <1>2, <1>3 DEF In
<1>4. ASSUME NEW x \in Pending(d)', x.op = "broadcast", IsNotice(x.frame), x.frame.room = r
      PROVE  Due(d, c)'
  BY <1>2, <1>4 DEF Due, Reaching
<1>5. QED
  BY <1>3, <1>4, AnnouncingStep

\* A notice that is due stays due until it is written.
LEMMA DueKept ==
  ASSUME IInv, IInv', Script, {"joined", "left"} \subseteq Watched,
         NEW s \in Conns, StepOf(s),
         NEW c \in Conns, NEW d \in Conns, c # d, pc[c] = "loop", room'[c] = room[c],
         c \notin lost, Due(d, c)
  PROVE  \/ Due(d, c)'
         \/ \E frame \in Frame :
              /\ IsNotice(frame) /\ frame.room = room[c] /\ frame.by = d
              /\ s = d /\ CallSendEach(d) /\ out'[c] = Append(out[c], frame)
<1>1. PICK frame : IsNotice(frame) /\ frame.room = room[c] /\ Reaching(d, c, frame)
  BY DEF Due
<1>2. RoomOf(frame) = room[c] /\ Kind(frame) \in Watched /\ Fits(frame)
  BY <1>1 DEF RoomOf, IsNotice, Kind, Fits
<1>3. \/ Reaching(d, c, frame)'
      \/ s = d /\ CallSendEach(d) /\ frame \in Frame /\ out'[c] = Append(out[c], frame)
  BY <1>1, <1>2, ReachingKept
<1>4. frame.by = d
  <2>1. PICK x \in Pending(d) : x.op \in {"broadcast", "send each"} /\ x.frame = frame
    BY <1>1 DEF Reaching
  <2>2. CallFits(d, x)
    BY <2>1, PendingFits
  <2>3. QED
    BY <1>1, <2>1, <2>2 DEF CallFits, IsNotice
<1>5. QED
  BY <1>1, <1>3, <1>4 DEF Due

\* What a step writes to a connection is the frame of the call its handler is at;
\* a notice is written by a broadcast.
LEMMA Writes ==
  ASSUME IInv, IInv', Script, NEW s \in Conns, StepOf(s), NEW c \in Conns
  PROVE  \/ out'[c] = out[c]
         \/ \E frame \in Frame :
              /\ out'[c] = Append(out[c], frame)
              /\ todo[s] # <<>> /\ Head(todo[s]).frame = frame
              /\ IsNotice(frame) => Tells(Head(todo[s])) /\ frame.by = s
<1>1. PICK h : h = Head(todo[s])
  OBVIOUS
<1>2. CASE CallSend(s)
  <2>1. /\ Makes(s, h) /\ h.op = "send" /\ h.to \in Fds /\ h.frame \in Frame
        /\ Write(s, h.to, h.frame)
    BY <1>1, <1>2, SendEffect
  <2>2. out'[c] = out[c] \/ out'[c] = Append(out[c], h.frame)
    BY <2>1, Written DEF Makes
  <2>3. todo[s] # <<>> /\ ~IsNotice(h.frame)
    BY <2>1 DEF Makes, CallFits
  <2>4. QED
    BY <1>1, <2>1, <2>2, <2>3
<1>3. CASE CallSendEach(s)
  <2>1. Makes(s, h) /\ h.op = "send each" /\ h.frame \in Frame
    BY <1>1, <1>3, SendEachEffect
  <2>2. PICK e \in h.to : e.socket \in Fds /\ Write(s, e.socket, h.frame)
    BY <1>1, <1>3, SendEachEffect
  <2>3. out'[c] = out[c] \/ out'[c] = Append(out[c], h.frame)
    <3>1. PICK f \in Fds : f = e.socket
      BY <2>2
    <3>2. PICK x \in Frame : x = h.frame
      BY <2>1
    <3>3. Write(s, f, x) /\ pc[s] \notin {"none", "done"}
      BY <2>1, <2>2, <3>1, <3>2 DEF Makes
    <3>4. QED
      BY <3>2, <3>3, Written
  <2>4. todo[s] # <<>> /\ (IsNotice(h.frame) => Tells(h) /\ h.frame.by = s)
    BY <2>1 DEF Makes, CallFits, Tells, IsNotice
  <2>5. QED
    BY <1>1, <2>1, <2>3, <2>4
<1>4. CASE ~CallSend(s) /\ ~CallSendEach(s)
  BY <1>4, WritesOnly
<1>5. QED
  BY <1>2, <1>3, <1>4

\* A frame is a notice or an entry, not both, and is recorded as what it is.
LEMMA FrameKinds ==
  ASSUME NEW frame \in Frame
  PROVE  /\ Kind(frame) \in {"joined", "left"} <=> IsNotice(frame)
         /\ ~(IsEntry(frame) /\ IsNotice(frame))
  BY DEF Frame, Kind, IsNotice, IsEntry

\* The notices that count after one more frame.
LEMMA NoticesAppend ==
  ASSUME IInv, NEW c \in Conns, NEW d \in Conns, NEW frame \in Frame,
         out'[c] = Append(out[c], frame)
  PROVE  /\ IsEntry(frame) => NoticesAbout(c, d)' = {}
         /\ (~IsEntry(frame) /\ room'[c] = room[c]) =>
              \/ /\ IsNotice(frame) /\ frame.by = d /\ frame.room = room[c]
                 /\ \E k \in NoticesAbout(c, d)' :
                      /\ \A j \in NoticesAbout(c, d)' : j <= k
                      /\ out'[c][k] = frame
              \/ /\ ~(IsNotice(frame) /\ frame.by = d /\ frame.room = room[c])
                 /\ NoticesAbout(c, d)' = NoticesAbout(c, d)
                 /\ \A k \in NoticesAbout(c, d) : out'[c][k] = out[c][k]
<1>1. PICK n : n = Len(out[c])
  OBVIOUS
<1>2. PICK a : a = out[c]
  OBVIOUS
<1>3. PICK b : b = out'[c]
  OBVIOUS
<1>4. a \in Seq(Frame) /\ n = Len(a) /\ b = Append(a, frame)
  BY <1>1, <1>2, <1>3 DEF IInv, TypeOK
<1>5. /\ n \in Nat /\ DOMAIN a = 1..n /\ DOMAIN b = 1..(n + 1) /\ b[n + 1] = frame
      /\ \A k \in 1..n : b[k] = a[k]
  BY <1>4
<1>6. PICK r : r = room'[c]
  OBVIOUS
<1> DEFINE Counts(x, k, q) == Kind(x[k]) \in {"joined", "left"} /\ x[k].by = d /\ x[k].room = q
           Later(x, k) == \A j \in DOMAIN x : x[j].type \in {"AuthOk", "Joined"} => j < k
<1>7. /\ \A k : k \in NoticesAbout(c, d) <=> k \in DOMAIN a /\ Counts(a, k, room[c]) /\ Later(a, k)
      /\ \A k : k \in NoticesAbout(c, d)' <=> k \in DOMAIN b /\ Counts(b, k, r) /\ Later(b, k)
  BY <1>2, <1>3, <1>6 DEF NoticesAbout, Entries
<1>8. ASSUME IsEntry(frame)
      PROVE  NoticesAbout(c, d)' = {}
  <2>1. \A k \in DOMAIN b : ~Later(b, k)
    BY <1>5, <1>8 DEF IsEntry
  <2>2. QED
    BY <1>7, <2>1
<1>9. ASSUME ~IsEntry(frame), NEW k \in 1..n
      PROVE  Later(b, k) <=> Later(a, k)
  BY <1>5, <1>9 DEF IsEntry
<1>10. \A k \in 1..n : \A q : Counts(b, k, q) <=> Counts(a, k, q)
  BY <1>5
<1>11. Later(b, n + 1) <=> ~IsEntry(frame)
  BY <1>5 DEF IsEntry
<1>12. \A q : Counts(b, n + 1, q) <=> IsNotice(frame) /\ frame.by = d /\ frame.room = q
  BY <1>5, FrameKinds
<1> HIDE DEF Counts, Later
<1>13. ASSUME ~IsEntry(frame), r = room[c],
              IsNotice(frame), frame.by = d, frame.room = room[c]
       PROVE  /\ n + 1 \in NoticesAbout(c, d)'
              /\ \A j \in NoticesAbout(c, d)' : j <= n + 1
              /\ b[n + 1] = frame
  BY <1>5, <1>7, <1>11, <1>12, <1>13
<1>14. ASSUME ~IsEntry(frame), r = room[c],
              ~(IsNotice(frame) /\ frame.by = d /\ frame.room = room[c])
       PROVE  /\ NoticesAbout(c, d)' = NoticesAbout(c, d)
              /\ \A k \in NoticesAbout(c, d) : b[k] = a[k]
  <2>1. n + 1 \notin NoticesAbout(c, d)'
    BY <1>7, <1>12, <1>14
  <2>2. ASSUME NEW k
        PROVE  k \in NoticesAbout(c, d)' <=> k \in NoticesAbout(c, d)
    BY <1>5, <1>7, <1>9, <1>10, <1>14, <2>1
  <2>3. \A k \in NoticesAbout(c, d) : k \in 1..n
    BY <1>5, <1>7
  <2>4. QED
    BY <1>5, <2>2, <2>3
<1>15. QED
  BY <1>2, <1>3, <1>6, <1>8, <1>13, <1>14

\* Nothing is written, and the room is the same.
LEMMA NoticesSame ==
  ASSUME NEW c, NEW d, out'[c] = out[c], room'[c] = room[c]
  PROVE  NoticesAbout(c, d)' = NoticesAbout(c, d)
  BY DEF NoticesAbout, Entries

\* Whoever knows its room after a step has just been told, or knew before.
LEMMA ArrivedKept ==
  ASSUME IInv, IInv', Script, {"AuthOk", "Joined"} \subseteq Watched,
         NEW s \in Conns, StepOf(s), NEW c \in Conns, Arrived(c)'
  PROVE  \/ \E frame \in Frame : IsEntry(frame) /\ out'[c] = Append(out[c], frame)
         \/ Arrived(c) /\ room'[c] = room[c]
<1>1. /\ pc'[c] = "loop" /\ c \notin lost
      /\ \A x \in Pending(c)' : ~(x.op = "send" /\ IsEntry(x.frame))
  BY NetSteps DEF Arrived
<1>2. CASE c # s
  BY <1>1, <1>2, StepKeeps DEF Arrived
<1>3. ASSUME c = s, NEW y \in Pending(c), y.op = "send", IsEntry(y.frame)
      PROVE  \E frame \in Frame : IsEntry(frame) /\ out'[c] = Append(out[c], frame)
  <2>1. y = Head(todo[c]) /\ Makes(c, y) /\ Calls(c)
    BY <1>1, <1>3, StepKeeps
  <2>2. CallSend(c)
    BY <1>3, <2>1, MadeBy
  <2>3. y.to \in Fds /\ y.frame \in Frame /\ Write(c, y.to, y.frame)
    BY <2>1, <2>2, SendEffect
  <2>4. owner[y.to] = c /\ pc[c] \notin {"none", "done"}
    BY <1>3, <2>1 DEF Makes, CallFits, IsEntry
  <2>5. Fits(y.frame) /\ Kind(y.frame) \in Watched
    BY <1>3 DEF IsEntry, Kind, Fits
  <2>6. out'[c] = Append(out[c], y.frame)
    BY <1>1, <2>3, <2>4, <2>5, OwnNotMisled, Written
  <2>7. QED
    BY <1>3, <2>3, <2>6
<1>4. CASE c = s /\ \A y \in Pending(c) : ~(y.op = "send" /\ IsEntry(y.frame))
  <2>1. CASE pc[c] = "loop" /\ room'[c] = room[c]
    BY <1>1, <1>4, <2>1 DEF Arrived
  <2>2. CASE Enter(c)
    <3>1. PICK x : x = Send(fd[c], AuthOk(user[c], kDefaultRoom))
      OBVIOUS
    <3>2. Sets(c, Greeting(c))
      BY <2>2 DEF Enter, Do, Sets
    <3>3. x \in Pending(c)'
      BY <3>1, <3>2, SetsEffect, ListElements DEF Greeting
    <3>4. x.op = "send" /\ IsEntry(x.frame)
      BY <3>1 DEF Send, AuthOk, IsEntry
    <3>5. QED
      BY <1>1, <3>3, <3>4
  <2>3. CASE CallSetRoom(c)
    <3>1. PICK r : r = Head(todo[c]).room
      OBVIOUS
    <3>2. PICK x : x = Send(fd[c], Joined(r))
      OBVIOUS
    <3>3. x \in Pending(c)'
      BY <2>3, <3>1, <3>2, SetRoomEffect
    <3>4. x.op = "send" /\ IsEntry(x.frame)
      BY <3>2 DEF Send, Joined, IsEntry
    <3>5. QED
      BY <1>1, <3>3, <3>4
  <2>4. QED
    BY <1>1, <1>4, <2>1, <2>2, <2>3, StaysPut
<1>5. QED
  BY <1>2, <1>3, <1>4

\* One step, one client and one handler the client may have heard of.
LEMMA LastIsKept ==
  ASSUME IInv, IInv', Script, Announcing,
         {"joined", "left", "AuthOk", "Joined"} \subseteq Watched,
         NEW s \in Conns, StepOf(s), NEW c \in Conns, NEW d \in Conns, c # d, LastIs(c, d)
  PROVE  LastIs(c, d)'
<1>1. SUFFICES ASSUME Arrived(c)', NoticesAbout(c, d)' # {}, ~Due(d, c)'
               PROVE  \E k \in NoticesAbout(c, d)' :
                        /\ \A j \in NoticesAbout(c, d)' : j <= k
                        /\ out'[c][k].text = "joined" <=> In(d, room[c])'
  BY DEF LastIs
<1>2. \A frame \in Frame : out'[c] = Append(out[c], frame) => ~IsEntry(frame)
  BY <1>1, NoticesAppend
<1>3. Arrived(c) /\ room'[c] = room[c] /\ pc[c] = "loop" /\ c \notin lost
  <2>1. Arrived(c) /\ room'[c] = room[c]
    BY <1>1, <1>2, ArrivedKept
  <2>2. QED
    BY <2>1 DEF Arrived
<1>4. In(d, room[c])' <=> In(d, room[c])
  BY <1>1, <1>3, InKept
<1>5. Due(d, c) => \E frame \in Frame :
                     /\ IsNotice(frame) /\ frame.room = room[c] /\ frame.by = d
                     /\ out'[c] = Append(out[c], frame)
  BY <1>1, <1>3, DueKept
<1>6. out[c] \in Seq(Frame)
  BY DEF IInv, TypeOK
<1>7. CASE out'[c] = out[c]
  <2>1. \A frame \in Frame : out'[c] # Append(out[c], frame)
    <3>1. \A frame \in Frame : Len(Append(out[c], frame)) # Len(out[c])
      BY <1>6
    <3>2. QED
      BY <1>7, <3>1
  <2>2. ~Due(d, c)
    BY <1>5, <2>1
  <2>3. NoticesAbout(c, d)' = NoticesAbout(c, d)
    BY <1>3, <1>7, NoticesSame
  <2>4. QED
    BY <1>1, <1>3, <1>4, <1>7, <2>2, <2>3 DEF LastIs
<1>8. ASSUME NEW frame \in Frame, out'[c] = Append(out[c], frame),
             todo[s] # <<>>, Head(todo[s]).frame = frame,
             IsNotice(frame) => Tells(Head(todo[s])) /\ frame.by = s
      PROVE  \E k \in NoticesAbout(c, d)' :
               /\ \A j \in NoticesAbout(c, d)' : j <= k
               /\ out'[c][k].text = "joined" <=> In(d, room[c])'
  <2>1. ~IsEntry(frame)
    BY <1>2, <1>8
  <2>2. CASE IsNotice(frame) /\ frame.by = d /\ frame.room = room[c]
    <3>1. PICK k \in NoticesAbout(c, d)' : /\ \A j \in NoticesAbout(c, d)' : j <= k
                                           /\ out'[c][k] = frame
      <4>1. room'[c] = room[c] /\ frame \in Frame /\ out'[c] = Append(out[c], frame)
        BY <1>3, <1>8
      <4>2. QED
        BY <2>1, <2>2, <4>1, NoticesAppend
    <3>2. frame.text = "joined" <=> In(d, frame.room)
      <4>1. s = d /\ Tells(Head(todo[d])) /\ todo[d] # <<>> /\ Head(todo[d]).frame = frame
        BY <1>8, <2>2
      <4>2. QED
        BY <4>1, HeadTells
    <3>3. QED
      BY <1>4, <2>2, <3>1, <3>2
  <2>3. CASE ~(IsNotice(frame) /\ frame.by = d /\ frame.room = room[c])
    <3>1. /\ NoticesAbout(c, d)' = NoticesAbout(c, d)
          /\ \A k \in NoticesAbout(c, d) : out'[c][k] = out[c][k]
      BY <1>3, <1>8, <2>1, <2>3, NoticesAppend
    <3>2. ~Due(d, c)
      <4>1. \A x \in Frame : Append(out[c], x) = Append(out[c], frame) => x = frame
        BY <1>6
      <4>2. QED
        BY <1>5, <1>8, <2>3, <4>1
    <3>3. QED
      BY <1>1, <1>3, <1>4, <3>1, <3>2 DEF LastIs
  <2>4. QED
    BY <2>2, <2>3
<1>9. QED
  BY <1>7, <1>8, Writes

\* Present, with Announcing, is inductive.
LEMMA PresentStep ==
  ASSUME IInv, IInv', Script, Announcing, Present,
         {"joined", "left", "AuthOk", "Joined"} \subseteq Watched, [Next]_vars
  PROVE  Announcing' /\ Present'
<1>1. CASE Restart
  <2>1. \A c \in Conns : pc'[c] = "none" /\ Pending(c)' = {} /\ todo'[c] = <<>>
    BY <1>1, RestartEmpties DEF Restart
  <2>2. QED
    BY <2>1 DEF Announcing, MovesNext, Announced, Present, LastIs, Arrived
<1>2. CASE Idle
  <2>1. UNCHANGED <<pc, fd, room, todo, out>>
    BY <1>2 DEF Idle
  <2>2. Announcing'
    BY <2>1 DEF Announcing, Announced, Moving, In, Pending
  <2>3. \A c, d \in Conns : pc[c] = "loop" /\ Due(d, c) => Due(d, c)'
    BY <1>2, <2>1 DEF Idle, NoneMisled, Due, Reaching, Pending
  <2>4. \A c, d : /\ Arrived(c)' => Arrived(c) /\ pc[c] = "loop"
                  /\ NoticesAbout(c, d)' = NoticesAbout(c, d)
                  /\ In(d, room[c])' <=> In(d, room[c])
    BY <1>2, <2>1 DEF Idle, Pending, Arrived, NoticesAbout, Entries, In, Moving
  <2>5. Present'
    BY <2>1, <2>3, <2>4 DEF Present, LastIs
  <2>6. QED
    BY <2>2, <2>5
<1>3. ASSUME NEW s \in Conns, StepOf(s)
      PROVE  Announcing' /\ Present'
  <2>1. Announcing'
    BY <1>3, AnnouncingStep DEF Announcing
  <2>2. ASSUME NEW c \in Conns, NEW d \in Conns \ {c}
        PROVE  LastIs(c, d)'
    BY <1>3, LastIsKept DEF Present
  <2>3. QED
    BY <2>1, <2>2 DEF Present
<1>4. QED
  BY <1>1, <1>2, <1>3, Steps

\* Nobody has heard anything at the start.
LEMMA PresentInit ==
  ASSUME Init
  PROVE  Announcing /\ Present
<1>1. \A c \in Conns : todo[c] = <<>> /\ Pending(c) = {} /\ pc[c] = "none"
  BY DEF Init, Pending
<1>2. QED
  BY <1>1 DEF Announcing, MovesNext, Announced, Present, LastIs, Arrived

\* With no call pending nothing is under way: the invariant is the property.
LEMMA PresentSettled ==
  ASSUME IInv, Present
  PROVE  PresenceAccurate
<1>1. SUFFICES ASSUME NEW c \in Settled, NEW d \in Conns \ {c},
                      todo[d] = <<>>, NoticesAbout(c, d) # {}
               PROVE  \E k \in NoticesAbout(c, d) :
                        /\ \A j \in NoticesAbout(c, d) : j <= k
                        /\ out[c][k].text = "joined" <=> d \in Registered /\ room[d] = room[c]
  BY DEF PresenceAccurate
<1>2. c \in Conns /\ pc[c] = "loop" /\ c \notin lost /\ Pending(c) = {} /\ Pending(d) = {}
  BY <1>1, NonePending DEF Settled
<1>3. Arrived(c) /\ ~Due(d, c)
  BY <1>2 DEF Arrived, Due, Reaching
<1>4. In(d, room[c]) <=> d \in Registered /\ room[d] = room[c]
  BY <1>1, <1>2 DEF In, Moving, Registered
<1>5. QED
  BY <1>1, <1>2, <1>3, <1>4 DEF Present, LastIs

\* What a client was last told about another user of its room is right once that
\* user's handler has made its calls: the notices that several handler threads
\* broadcast with copied recipients arrive in an order that leaves the truth
\* standing, because a handler makes its calls one after the other and moves
\* between its farewell and its announcement.
THEOREM PresenceTold ==
  {"joined", "left", "AuthOk", "Joined"} \subseteq Watched => (Spec => []PresenceAccurate)
<1>1. SUFFICES ASSUME {"joined", "left", "AuthOk", "Joined"} \subseteq Watched
               PROVE  Spec => []PresenceAccurate
  OBVIOUS
<1>2. Init => Announcing /\ Present
  BY PresentInit
<1>3. IInv /\ Script /\ IInv' /\ Announcing /\ Present /\ [Next]_vars
        => Announcing' /\ Present'
  BY <1>1, PresentStep
<1>4. IInv /\ Present => PresenceAccurate
  BY PresentSettled
<1>5. QED
  BY <1>2, <1>3, <1>4, ScriptInvariant, PTL DEF Spec

-----------------------------------------------------------------------------
(***************************************************************************)
(* Storing comes first.                                                    *)
(***************************************************************************)
\* add_message, and the report that it failed.
Urgent(call) ==
  \/ call.op = "store"
  \/ call.op = "send" /\ call.frame.type = "System" /\ call.frame.text = "not stored"

\* Chat and Direct store a message before anything else.
StoresFirst(s) == \A k \in 1..Len(s) : k # 1 => ~Urgent(s[k])

Ordered == \A c \in Conns : StoresFirst(todo[c])

\* What a handler sets out to do begins with the call that stores.
LEMMA OrderedLists ==
  ASSUME IInv, NEW c \in Conns, Begins(c)
  PROVE  \E calls : Sets(c, calls) /\ StoresFirst(calls)
<1>1. StoresFirst(<<>>) /\ \A x : StoresFirst(<<x>>)
  BY DEF StoresFirst
<1>2. \A x, y : ~Urgent(y) => StoresFirst(<<x, y>>)
  BY DEF StoresFirst
<1>3. \A x, y, z : ~Urgent(y) /\ ~Urgent(z) => StoresFirst(<<x, y, z>>)
  BY DEF StoresFirst
<1>4. \A x, y, z, w : ~Urgent(y) /\ ~Urgent(z) /\ ~Urgent(w) => StoresFirst(<<x, y, z, w>>)
  BY DEF StoresFirst
<1>5. \A x, y, z, w, v : ~Urgent(y) /\ ~Urgent(z) /\ ~Urgent(w) /\ ~Urgent(v)
                           => StoresFirst(<<x, y, z, w, v>>)
  BY DEF StoresFirst
<1>6. /\ \A r, frame, f : ~Urgent(Broadcast(r, frame, f))
      /\ \A r, n : ~Urgent(Replay(r, n))
      /\ \A r : ~Urgent(SetRoom(r))
      /\ \A f, m, u, v : ~Urgent(Send(f, DirectMsg(m, u, v)))
      /\ \A f, r : ~Urgent(Send(f, Joined(r)))
      /\ \A f : ~Urgent(Send(f, System("welcome")))
  BY DEF Urgent, Broadcast, Replay, SetRoom, Send, DirectMsg, Joined, System
<1>7. CASE Answer(c)
  BY <1>1, <1>7 DEF Answer
<1>8. CASE Enter(c)
  <2>1. Sets(c, Greeting(c))
    BY <1>8 DEF Enter, Do, Sets
  <2>2. StoresFirst(Greeting(c))
    BY <1>4, <1>6 DEF Greeting
  <2>3. QED
    BY <2>1, <2>2
<1>9. CASE Leave(c)
  BY <1>1, <1>9 DEF Leave, Do, Sets
<1>10. ASSUME NEW u \in Users, Admit(c, u)
       PROVE  \E calls : Sets(c, calls) /\ StoresFirst(calls)
  BY <1>1, <1>10 DEF Admit
<1>11. ASSUME NEW r \in Rooms, Move(c, r)
       PROVE  \E calls : Sets(c, calls) /\ StoresFirst(calls)
  <2>1. PICK calls : calls = <<Broadcast(room[c], Notice("left", c, room[c]), fd[c]),
                               SetRoom(r),
                               Send(fd[c], Joined(r)),
                               Broadcast(r, Notice("joined", c, r), fd[c]),
                               Replay(r, kHistoryLimit)>>
    OBVIOUS
  <2>2. Sets(c, calls)
    BY <1>11, <2>1 DEF Move, Says
  <2>3. StoresFirst(calls)
    BY <1>5, <1>6, <2>1
  <2>4. QED
    BY <2>2, <2>3
<1>12. ASSUME NEW m \in Message, Speak(c, m)
       PROVE  \E calls : Sets(c, calls) /\ StoresFirst(calls)
  <2>1. PICK calls : calls = <<Store(m), Broadcast(m.room, ChatMsg(m), fd[c])>>
    OBVIOUS
  <2>2. Sets(c, calls)
    BY <1>12, <2>1 DEF Speak, Says
  <2>3. StoresFirst(calls)
    BY <1>2, <1>6, <2>1
  <2>4. QED
    BY <2>2, <2>3
<1>13. ASSUME NEW m \in Message, NEW u \in Users, NEW e \in clients, Whisper(c, m, u, e)
       PROVE  \E calls : Sets(c, calls) /\ StoresFirst(calls)
  <2>1. PICK calls : calls = <<Store(m), Send(e.socket, DirectMsg(m, u, owner[e.socket])),
                               Send(fd[c], DirectMsg(m, u, owner[e.socket]))>>
    OBVIOUS
  <2>2. Sets(c, calls)
    BY <1>13, <2>1 DEF Whisper, Says
  <2>3. StoresFirst(calls)
    BY <1>3, <1>6, <2>1
  <2>4. QED
    BY <2>2, <2>3
<1>14. QED
  BY <1>7, <1>8, <1>9, <1>10, <1>11, <1>12, <1>13 DEF Begins

\* The order is kept by every step.
LEMMA OrderedStep ==
  ASSUME IInv, IInv', Script, Ordered, [Next]_vars
  PROVE  Ordered'
<1>1. StoresFirst(<<>>)
  BY DEF StoresFirst
<1>2. CASE Restart
  BY <1>1, <1>2 DEF Restart, Ordered
<1>3. CASE Idle
  BY <1>3 DEF Idle, Ordered
<1>4. ASSUME NEW c \in Conns, StepOf(c)
      PROVE  Ordered'
  <2>1. CASE UNCHANGED todo
    BY <2>1 DEF Ordered
  <2>2. CASE Begins(c)
    <3>1. PICK calls : Sets(c, calls) /\ StoresFirst(calls)
      BY <2>2, OrderedLists
    <3>2. /\ todo'[c] = calls
          /\ \A d \in Conns : d # c => todo'[d] = todo[d]
      BY <3>1, SetsEffect
    <3>3. QED
      BY <3>1, <3>2 DEF Ordered
  <2>3. CASE Calls(c)
    <3>1. PICK a : a = todo[c]
      OBVIOUS
    <3>2. PICK b : b = todo'[c]
      OBVIOUS
    <3>3. StoresFirst(a) /\ todo[c] # <<>>
      BY <2>3, <3>1, CallsReturn DEF Ordered
    <3>4. StoresFirst(b) /\ \A d \in Conns : d # c => todo'[d] = todo[d]
      <4>1. CASE Returns(c, <<>>)
        <5>1. /\ Len(a) \in Nat /\ Len(b) \in Nat
              /\ \A k \in 1..Len(b) : k + 1 \in 1..Len(a) /\ b[k] = a[k + 1]
              /\ \A d \in Conns : d # c => todo'[d] = todo[d]
          BY <3>1, <3>2, <3>3, <4>1, Popped
        <5>2. \A k \in 1..Len(b) : k + 1 # 1
          BY <5>1
        <5>3. QED
          BY <3>3, <5>1, <5>2 DEF StoresFirst
      <4>2. ASSUME NEW call \in Call, Returns(c, <<call>>)
            PROVE  StoresFirst(b) /\ \A d \in Conns : d # c => todo'[d] = todo[d]
        <5>1. /\ Len(b) = Len(a) /\ \A k \in 1..Len(a) : k # 1 => b[k] = a[k]
              /\ \A d \in Conns : d # c => todo'[d] = todo[d]
          BY <3>1, <3>2, <3>3, <4>2, Swapped
        <5>2. QED
          BY <3>3, <5>1 DEF StoresFirst
      <4>3. QED
        BY <2>3, <4>1, <4>2, CallsReturn
    <3>5. QED
      BY <3>2, <3>4 DEF Ordered
  <2>4. (\E f \in Fds : Accept(c, f)) \/ Finish(c) => UNCHANGED todo
    BY DEF Accept, Finish
  <2>5. QED
    BY <1>4, <2>1, <2>2, <2>3, <2>4, StepKinds
<1>5. QED
  BY <1>2, <1>3, <1>4, Steps

\* The order in which a handler stores and sends, in every behaviour.
LEMMA OrderInvariant == Spec => [](IInv /\ Script /\ Ordered)
<1>1. Init => Ordered
  BY DEF Init, Ordered, StoresFirst
<1>2. IInv /\ IInv' /\ Script /\ Ordered /\ [Next]_vars => Ordered'
  BY OrderedStep
<1>3. QED
  BY <1>1, <1>2, ScriptInvariant, PTL DEF Spec

\* An urgent call is the one at the head, and none is left when it is made.
LEMMA UrgentIsHead ==
  ASSUME IInv, Ordered, NEW c \in Conns, NEW x \in Pending(c), Urgent(x)
  PROVE  todo[c] # <<>> /\ x = Head(todo[c])
<1>1. todo[c] \in Seq(Call)
  BY DEF IInv, TypeOK
<1>2. PICK k \in 1..Len(todo[c]) : x = todo[c][k]
  BY PendingIs
<1>3. k = 1
  BY <1>2 DEF Ordered, StoresFirst
<1>4. todo[c] # <<>>
  BY <1>1, <1>2
<1>5. QED
  BY <1>1, <1>2, <1>3, <1>4, HeadFirst

-----------------------------------------------------------------------------
(***************************************************************************)
(* Stored or reported.                                                     *)
(***************************************************************************)
IsMessage(frame) == frame.type \in {"ChatMsg", "DirectMsg"}

\* A call that will show a message.
Carries(call) == call.op \in {"send", "send each", "broadcast"} /\ IsMessage(call.frame)

\* The message is in the table, or its author has been told that it is not, or is
\* gone.
Known(m) ==
  \/ \E i \in DOMAIN messages : messages[i] = m
  \/ NotStored(m.content) \in Got(Author(m))
  \/ Author(m) \in lost

\* What clients were shown is known; what they will be shown is known already or
\* will be first.
Reported ==
  /\ \A c \in Conns : \A frame \in Got(c) :
       IsMessage(frame) => Author(frame.message) \in Conns /\ Known(frame.message)
  /\ \A c \in Conns : \A x \in Pending(c) :
       Carries(x) => \/ Known(x.frame.message)
                     \/ Store(x.frame.message) \in Pending(c)
                     \/ Send(fd[c], NotStored(x.frame.message.content)) \in Pending(c)

\* What is known stays known.
LEMMA KnownKept ==
  ASSUME IInv, IInv', Script, NEW c \in Conns, StepOf(c), NEW m, Author(m) \in Conns,
         Known(m)
  PROVE  Known(m)'
<1>1. CASE NotStored(m.content) \in Got(Author(m))
  BY <1>1, StepKeeps DEF Known
<1>2. ASSUME NEW i \in DOMAIN messages, messages[i] = m
      PROVE  Known(m)'
  <2>1. messages \in Seq(Message)
    BY DEF IInv, TypeOK, DatabaseTypeOK
  <2>2. CASE messages' = messages
    BY <1>2, <2>2 DEF Known
  <2>3. CASE messages' = Append(messages, Head(todo[c]).message)
    <3>1. i \in DOMAIN messages' /\ messages'[i] = messages[i]
      BY <1>2, <2>1, <2>3
    <3>2. QED
      BY <1>2, <3>1 DEF Known
  <2>4. QED
    BY <2>2, <2>3, RowsKept
<1>3. CASE Author(m) \in lost
  BY <1>3, NetSteps DEF Known, Author
<1>4. QED
  BY <1>1, <1>2, <1>3 DEF Known

\* Who wrote what a call carries.
LEMMA CarriesOwn ==
  ASSUME IInv, Script, NEW c \in Conns, NEW x \in Pending(c), Carries(x)
  PROVE  Author(x.frame.message) = c
<1>1. CallFits(c, x)
  BY PendingFits
<1>2. QED
  BY <1>1 DEF CallFits, Carries, IsMessage, IsNotice

\* A call that carries a message is made only when the message is known.
LEMMA CarriedIsKnown ==
  ASSUME IInv, Script, Ordered, Reported, NEW c \in Conns, NEW h, todo[c] # <<>>,
         h = Head(todo[c]), Carries(h)
  PROVE  Known(h.frame.message)
<1>1. h \in Pending(c)
  BY HeadPending
<1>2. PICK m : m = h.frame.message
  OBVIOUS
<1>3. CASE Store(m) \in Pending(c)
  <2>1. Urgent(Store(m)) /\ Store(m).op = "store"
    BY DEF Urgent, Store
  <2>2. h = Store(m)
    BY <1>3, <2>1, UrgentIsHead
  <2>3. QED
    BY <2>1, <2>2 DEF Carries
<1>4. CASE Send(fd[c], NotStored(m.content)) \in Pending(c)
  <2>1. /\ Urgent(Send(fd[c], NotStored(m.content)))
        /\ ~Carries(Send(fd[c], NotStored(m.content)))
    BY DEF Urgent, Send, NotStored, Carries, IsMessage
  <2>2. h = Send(fd[c], NotStored(m.content))
    BY <1>4, <2>1, UrgentIsHead
  <2>3. QED
    BY <2>1, <2>2
<1>5. QED
  BY <1>1, <1>2, <1>3, <1>4 DEF Reported

\* New frames carry known messages.
LEMMA ReportedGot ==
  ASSUME IInv, IInv', Script, Ordered, Reported, NEW c \in Conns, StepOf(c),
         NEW d \in Conns, NEW frame \in Got(d)', IsMessage(frame)
  PROVE  Author(frame.message) \in Conns /\ Known(frame.message)'
<1>1. PICK h : h = Head(todo[c])
  OBVIOUS
<1>2. CASE frame \in Got(d)
  BY <1>2, KnownKept DEF Reported
<1>3. ASSUME Makes(c, h), h.op \in {"send", "send each"}, frame = h.frame
      PROVE  Author(frame.message) \in Conns /\ Known(frame.message)'
  <2>1. Carries(h)
    BY <1>3 DEF Carries
  <2>2. Known(h.frame.message)
    BY <1>3, <2>1, CarriedIsKnown DEF Makes
  <2>3. Author(h.frame.message) = c
    BY <1>3, <2>1, CarriesOwn DEF Makes
  <2>4. QED
    BY <1>3, <2>2, <2>3, KnownKept
<1>4. CASE CallSend(c)
  BY <1>1, <1>2, <1>3, <1>4, SendEffect DEF Delivers
<1>5. CASE CallSendEach(c)
  <2>1. Makes(c, h) /\ h.op = "send each"
    BY <1>1, <1>5, SendEachEffect
  <2>2. PICK e \in h.to : Delivers(c, e.socket, h.frame)
    BY <1>1, <1>5, SendEachEffect
  <2>3. frame \in Got(d) \/ frame = h.frame
    BY <2>2 DEF Delivers
  <2>4. QED
    BY <1>2, <1>3, <2>1, <2>3
<1>6. CASE ~CallSend(c) /\ ~CallSendEach(c)
  BY <1>2, <1>6, WritesOnly, GotSame
<1>7. QED
  BY <1>4, <1>5, <1>6

\* A handler that sets out to show a message sets out to store it.
LEMMA CarriesNew ==
  ASSUME IInv, NEW c \in Conns, Begins(c), NEW x \in Pending(c)', Carries(x)
  PROVE  Store(x.frame.message) \in Pending(c)'
<1>1. /\ \A r, t, f : ~Carries(Broadcast(r, Notice(t, c, r), f))
      /\ \A r, n : ~Carries(Replay(r, n))
      /\ \A r : ~Carries(SetRoom(r))
      /\ \A f, r : ~Carries(Send(f, Joined(r)))
      /\ \A f, u, r : ~Carries(Send(f, AuthOk(u, r)))
      /\ \A f, t : ~Carries(Send(f, System(t)))
      /\ \A m : ~Carries(Store(m))
      /\ \A y : PlainSend(c, y) \/ y.op \in {"replay", "list_rooms"} => ~Carries(y)
  BY DEF Carries, IsMessage, Broadcast, Notice, Replay, SetRoom, Send, Joined, AuthOk,
         System, Store, PlainSend, Plain
<1>2. CASE Answer(c)
  <2>1. CASE Sets(c, <<>>)
    BY <2>1, SetsEffect, ListElements
  <2>2. ASSUME NEW call, Sets(c, <<call>>),
               PlainSend(c, call) \/ call.op \in {"replay", "list_rooms"}
        PROVE  FALSE
    BY <1>1, <2>2, SetsEffect, ListElements
  <2>3. QED
    BY <1>2, <2>1, <2>2 DEF Answer
<1>3. CASE Enter(c)
  <2>1. Sets(c, Greeting(c))
    BY <1>3 DEF Enter, Do, Sets
  <2>2. Pending(c)' = {Send(fd[c], AuthOk(user[c], kDefaultRoom)),
                       Send(fd[c], System("welcome")),
                       Replay(kDefaultRoom, kHistoryLimit),
                       Broadcast(kDefaultRoom, Notice("joined", c, kDefaultRoom), fd[c])}
    BY <2>1, SetsEffect, ListElements DEF Greeting
  <2>3. QED
    BY <1>1, <2>2
<1>4. CASE Leave(c)
  <2>1. Sets(c, <<Broadcast(room[c], Notice("left", c, room[c]), INVALID_SOCKET)>>)
    BY <1>4 DEF Leave, Do, Sets
  <2>2. x = Broadcast(room[c], Notice("left", c, room[c]), INVALID_SOCKET)
    BY <2>1, SetsEffect, ListElements
  <2>3. QED
    BY <1>1, <2>2
<1>5. ASSUME NEW u \in Users, Admit(c, u)
      PROVE  FALSE
  <2>1. Sets(c, <<>>) \/ Sets(c, <<Send(fd[c], System("created"))>>)
    BY <1>5 DEF Admit
  <2>2. QED
    BY <1>1, <2>1, SetsEffect, ListElements
<1>6. ASSUME NEW r \in Rooms, Move(c, r)
      PROVE  FALSE
  <2>1. Pending(c)' = {Broadcast(room[c], Notice("left", c, room[c]), fd[c]),
                       SetRoom(r),
                       Send(fd[c], Joined(r)),
                       Broadcast(r, Notice("joined", c, r), fd[c]),
                       Replay(r, kHistoryLimit)}
    BY <1>6, SetsEffect, ListElements DEF Move, Says
  <2>2. QED
    BY <1>1, <2>1
<1>7. ASSUME NEW m \in Message, Speak(c, m)
      PROVE  Store(x.frame.message) \in Pending(c)'
  <2>1. Pending(c)' = {Store(m), Broadcast(m.room, ChatMsg(m), fd[c])}
    BY <1>7, SetsEffect, ListElements DEF Speak, Says
  <2>2. Broadcast(m.room, ChatMsg(m), fd[c]).frame.message = m
    BY DEF Broadcast, ChatMsg
  <2>3. QED
    BY <1>1, <2>1, <2>2
<1>8. ASSUME NEW m \in Message, NEW u \in Users, NEW e \in clients, Whisper(c, m, u, e)
      PROVE  Store(x.frame.message) \in Pending(c)'
  <2>1. Pending(c)' = {Store(m), Send(e.socket, DirectMsg(m, u, owner[e.socket])),
                       Send(fd[c], DirectMsg(m, u, owner[e.socket]))}
    BY <1>8, SetsEffect, ListElements DEF Whisper, Says
  <2>2. \A f, v : Send(f, DirectMsg(m, u, v)).frame.message = m
    BY DEF Send, DirectMsg
  <2>3. QED
    BY <1>1, <2>1, <2>2
<1>9. QED
  BY <1>2, <1>3, <1>4, <1>5, <1>6, <1>7, <1>8 DEF Begins

\* A call that is new after another was made carries what that one carried.
LEMMA CarriesLeft ==
  ASSUME IInv, IInv', Script, NEW c \in Conns, Calls(c), NEW h, h = Head(todo[c]),
         NEW x \in Pending(c)', Carries(x), x \notin Pending(c)
  PROVE  Carries(h) /\ x.frame = h.frame /\ Makes(c, h) /\ x.op = "send each"
<1>1. CASE CallSend(c)
  BY <1>1, SendEffect DEF Drops
<1>2. CASE CallSetRoom(c)
  BY <1>2, SetRoomEffect DEF Drops
<1>3. CASE CallSendEach(c)
  <2>1. Makes(c, h) /\ h.op = "send each"
    BY <1>3, SendEachEffect
  <2>2. PICK e \in h.to : Drops(c, h) \/ Leaves(c, h, SendEach(h.to \ {e}, h.frame))
    BY <1>3, SendEachEffect
  <2>3. x = SendEach(h.to \ {e}, h.frame)
    BY <2>2 DEF Drops, Leaves
  <2>4. x.frame = h.frame /\ x.op = "send each"
    BY <2>3 DEF SendEach
  <2>5. QED
    BY <2>1, <2>4 DEF Carries
<1>4. CASE CallBroadcast(c)
  <2>1. PICK S : S = {e \in clients : e.room = h.room /\ e.socket # h.exclude}
    OBVIOUS
  <2>2. /\ Makes(c, h) /\ h.op = "broadcast"
        /\ Drops(c, h) \/ Leaves(c, h, SendEach(S, h.frame))
    BY <1>4, <2>1, BroadcastEffect
  <2>3. x = SendEach(S, h.frame)
    BY <2>2 DEF Drops, Leaves
  <2>4. x.frame = h.frame /\ x.op = "send each"
    BY <2>3 DEF SendEach
  <2>5. QED
    BY <2>2, <2>4 DEF Carries
<1>5. CASE CallReplay(c) \/ CallListRooms(c)
  <2>1. PICK call \in Call : PlainSend(c, call) /\ Leaves(c, h, call)
    BY <1>5, LookUpEffect
  <2>2. ~Carries(call)
    BY <2>1 DEF Carries, IsMessage, PlainSend, Plain
  <2>3. QED
    BY <2>1, <2>2 DEF Leaves
<1>6. CASE CallStore(c)
  <2>1. Drops(c, h) \/ Leaves(c, h, Send(fd[c], NotStored(h.message.content)))
    BY <1>6, StoreEffect
  <2>2. ~Carries(Send(fd[c], NotStored(h.message.content)))
    BY DEF Carries, IsMessage, Send, NotStored
  <2>3. QED
    BY <2>1, <2>2 DEF Drops, Leaves
<1>7. QED
  BY <1>1, <1>2, <1>3, <1>4, <1>5, <1>6 DEF Calls

\* A message is stored, or the report that it is not comes next.
LEMMA StoreMade ==
  ASSUME IInv, IInv', Script, NEW c \in Conns, Calls(c), NEW m, Head(todo[c]) = Store(m)
  PROVE  \/ \E i \in DOMAIN messages' : messages'[i] = m
         \/ Send(fd[c], NotStored(m.content)) \in Pending(c)'
<1>1. PICK h : h = Head(todo[c]) /\ h.op = "store" /\ h.message = m
  BY ReportFields
<1>2. CallStore(c)
  BY <1>1, MadeBy
<1>3. /\ m \in Message
      /\ \/ messages' = Append(messages, m)
         \/ Leaves(c, h, Send(fd[c], NotStored(m.content)))
  BY <1>1, <1>2, StoreEffect
<1>4. CASE messages' = Append(messages, m)
  <2>1. messages \in Seq(Message)
    BY DEF IInv, TypeOK, DatabaseTypeOK
  <2>2. Len(messages) + 1 \in DOMAIN messages' /\ messages'[Len(messages) + 1] = m
    BY <1>3, <1>4, <2>1
  <2>3. QED
    BY <2>2
<1>5. CASE Leaves(c, h, Send(fd[c], NotStored(m.content)))
  BY <1>5 DEF Leaves
<1>6. QED
  BY <1>3, <1>4, <1>5

\* The report reaches the author, if its peer is there.
LEMMA ReportMade ==
  ASSUME IInv, IInv', Script, NEW c \in Conns, Calls(c), "not stored" \in Watched, NEW z,
         Head(todo[c]) = Send(fd[c], NotStored(z))
  PROVE  NotStored(z) \in Got(c)' \/ c \in lost'
<1>1. PICK h : h = Head(todo[c])
  OBVIOUS
<1>2. h = Send(fd[c], NotStored(z))
  BY <1>1
<1>3. h.op = "send" /\ h.to = fd[c] /\ h.frame = NotStored(z)
  BY <1>2 DEF Send
<1>4. CallSend(c)
  BY <1>1, <1>3, MadeBy
<1>5. Delivers(c, fd[c], NotStored(z)) /\ owner[fd[c]] = c /\ UNCHANGED lost
  BY <1>1, <1>3, <1>4, SendEffect DEF Makes, CallSend
<1>6. Fits(NotStored(z)) /\ Kind(NotStored(z)) = "not stored"
  BY DEF NotStored, Kind, Fits
<1>7. QED
  BY <1>5, <1>6, OwnNotMisled DEF Delivers

\* A message that was to be stored, or reported, is or still will be.
LEMMA ReportedPending ==
  ASSUME IInv, IInv', Script, Ordered, Reported, "not stored" \in Watched,
         NEW c \in Conns, StepOf(c),
         NEW d \in Conns, NEW x \in Pending(d)', Carries(x), NEW m, m = x.frame.message
  PROVE  \/ Known(m)'
         \/ Store(m) \in Pending(d)'
         \/ Send(fd'[d], NotStored(m.content)) \in Pending(d)'
<1> DEFINE report == Send(fd[d], NotStored(m.content))
<1>1. /\ \A y \in Pending(c) :
           y \in Pending(c)' \/ (y = Head(todo[c]) /\ Makes(c, y) /\ Calls(c))
      /\ d # c => Pending(d)' = Pending(d)
      /\ pc[d] # "none" => fd'[d] = fd[d]
  BY StepKeeps
<1>2. ASSUME x \in Pending(d)
      PROVE  Author(m) = d /\ fd'[d] = fd[d]
             /\ (Known(m) \/ Store(m) \in Pending(d) \/ report \in Pending(d))
  BY <1>1, <1>2, PendingAlive, CarriesOwn DEF Reported
<1>3. CASE x \in Pending(d) /\ Known(m)
  BY <1>2, <1>3, KnownKept
<1>4. CASE x \in Pending(d) /\ d # c
  BY <1>1, <1>2, <1>3, <1>4
<1>5. CASE d = c /\ x \in Pending(c) /\ Store(m) \in Pending(c)
  <2>1. CASE Store(m) \in Pending(c)'
    BY <1>5, <2>1
  <2>2. CASE Store(m) = Head(todo[c]) /\ Calls(c)
    BY <1>2, <1>5, <2>2, StoreMade DEF Known
  <2>3. QED
    BY <1>1, <1>5, <2>1, <2>2
<1>6. CASE d = c /\ x \in Pending(c) /\ report \in Pending(c)
  <2>1. CASE report \in Pending(c)'
    BY <1>2, <1>6, <2>1
  <2>2. CASE report = Head(todo[c]) /\ Calls(c)
    <3>1. NotStored(m.content) \in Got(c)' \/ c \in lost'
      BY <1>6, <2>2, ReportMade
    <3>2. QED
      BY <1>2, <1>6, <3>1 DEF Known, Author
  <2>3. QED
    BY <1>1, <1>6, <2>1, <2>2
<1>7. CASE d = c /\ x \notin Pending(c)
  <2>1. CASE Begins(c)
    BY <1>7, <2>1, CarriesNew
  <2>2. CASE Calls(c)
    <3>1. PICK h : h = Head(todo[c])
      OBVIOUS
    <3>2. Carries(h) /\ h.frame.message = m /\ Makes(c, h)
      BY <1>7, <2>2, <3>1, CarriesLeft
    <3>3. Known(m)
      BY <3>1, <3>2, CarriedIsKnown DEF Makes
    <3>4. Author(m) = c
      BY <3>2, CarriesOwn DEF Makes
    <3>5. QED
      BY <3>3, <3>4, KnownKept
  <2>3. CASE (\E f \in Fds : Accept(c, f)) \/ Finish(c)
    <3>1. UNCHANGED todo
      BY <2>3 DEF Accept, Finish
    <3>2. QED
      BY <1>7, <3>1 DEF Pending
  <2>4. QED
    BY <2>1, <2>2, <2>3, StepKinds
<1>8. QED
  BY <1>1, <1>2, <1>3, <1>4, <1>5, <1>6, <1>7

\* Reported is inductive.
LEMMA ReportedStep ==
  ASSUME IInv, IInv', Script, Ordered, Reported, "not stored" \in Watched, [Next]_vars
  PROVE  Reported'
<1>1. CASE Restart
  <2>1. \A c \in Conns : Got(c)' = {} /\ Pending(c)' = {}
    BY <1>1, RestartEmpties
  <2>2. QED
    BY <2>1 DEF Reported
<1>2. CASE Idle
  <2>1. /\ UNCHANGED <<fd, messages>> /\ lost \subseteq lost'
        /\ \A c : Got(c)' = Got(c) /\ Pending(c)' = Pending(c)
    BY <1>2 DEF Idle, Got, Pending
  <2>2. \A m : Known(m) => Known(m)'
    BY <2>1 DEF Known, Author
  <2>3. QED
    BY <2>1, <2>2 DEF Reported
<1>3. ASSUME NEW c \in Conns, StepOf(c)
      PROVE  Reported'
  <2>1. \A d \in Conns : \A frame \in Got(d)' :
          IsMessage(frame) => Author(frame.message) \in Conns /\ Known(frame.message)'
    BY <1>3, ReportedGot
  <2>2. \A d \in Conns : \A x \in Pending(d)' : Carries(x) =>
          \/ Known(x.frame.message)'
          \/ Store(x.frame.message) \in Pending(d)'
          \/ Send(fd'[d], NotStored(x.frame.message.content)) \in Pending(d)'
    BY <1>3, ReportedPending
  <2>3. QED
    BY <2>1, <2>2 DEF Reported
<1>4. QED
  BY <1>1, <1>2, <1>3, Steps

\* Whatever a client was ever sent as a message is in the table, or its author
\* has been told before that it is not, unless the author's own connection is
\* gone: Chat and Direct call add_message, and report its failure, before any
\* send_frame of the message.
THEOREM NothingUnaccounted ==
  "not stored" \in Watched => (Spec => []ShownIsStoredOrReported)
<1>1. SUFFICES ASSUME "not stored" \in Watched
               PROVE  Spec => []ShownIsStoredOrReported
  OBVIOUS
<1>2. Init => Reported
  <2>1. Init => \A c \in Conns : Got(c) = {} /\ Pending(c) = {}
    BY DEF Init, Got, Pending
  <2>2. QED
    BY <2>1 DEF Reported
<1>3. IInv /\ Script /\ IInv' /\ Ordered /\ Reported /\ [Next]_vars => Reported'
  BY <1>1, ReportedStep
<1>4. Reported => ShownIsStoredOrReported
  BY DEF Reported, ShownIsStoredOrReported, IsMessage, Known
<1>5. QED
  BY <1>2, <1>3, <1>4, OrderInvariant, PTL DEF Spec

-----------------------------------------------------------------------------
(***************************************************************************)
(* Echoes.                                                                 *)
(***************************************************************************)
\* The text fills a frame up: no message of it fits one.
Long(frame) == frame.message.content \in LongTexts

\* The session found for the target is the target's, and has the message unless it
\* has ended or is gone, or the message fits no frame.
Delivered(frame) ==
  LET d == frame.session
  IN  /\ d \in Conns /\ user[d] = frame.to
      /\ frame \in Got(d) \/ pc[d] = "done" \/ d \in lost \/ Long(frame)

IsDirect(call) == call.op = "send" /\ call.frame.type = "DirectMsg"

\* The call of c sends the frame to the descriptor of the session it found, and
\* will not miss it.
Targets(c, call, frame) ==
  LET d == frame.session
  IN  /\ call.op = "send" /\ call.frame = frame
      /\ d \in Conns /\ user[d] = frame.to /\ pc[d] # "none" /\ fd[d] = call.to
      /\ pc[d] = "done" \/ ~Misled(c, d)

\* Every direct message in a list of calls of c has reached the target, or goes
\* to the target before it goes to anybody else.
TargetFirst(c, s) ==
  \A k \in 1..Len(s) :
    IsDirect(s[k]) => \/ Delivered(s[k].frame)
                      \/ \E j \in 1..k : Targets(c, s[j], s[k].frame)

Echoed ==
  /\ \A c \in Conns : pc[c] \in {"none", "auth"} => user[c] = NoUser
  /\ \A c \in Conns : \A frame \in Got(c) : frame.type = "DirectMsg" =>
       ~Long(frame) /\ (Author(frame.message) = c => Delivered(frame))
  /\ \A c \in Conns : TargetFirst(c, todo[c])

\* What is delivered stays delivered, and a target stays a target.
LEMMA DeliveredKept ==
  ASSUME IInv, IInv', Script, Echoed, NEW c \in Conns, StepOf(c), NEW frame,
         frame.to \in Users
  PROVE  /\ Delivered(frame) => Delivered(frame)'
         /\ \A a \in Conns : \A x : Targets(a, x, frame) => Targets(a, x, frame)'
<1>1. PICK d : d = frame.session
  OBVIOUS
<1>2. ASSUME d \in Conns, user[d] = frame.to
      PROVE  user'[d] = user[d] /\ (pc[d] = "done" => pc'[d] = "done")
  <2>1. pc[d] \notin {"none", "auth"}
    BY <1>2, ServerAssumption DEF Echoed
  <2>2. QED
    BY <1>2, <2>1, UserKept
<1>3. ASSUME Delivered(frame)
      PROVE  Delivered(frame)'
  <2>1. /\ d \in Conns /\ user[d] = frame.to
        /\ frame \in Got(d) \/ pc[d] = "done" \/ d \in lost \/ Long(frame)
    BY <1>1, <1>3 DEF Delivered
  <2>2. /\ user'[d] = frame.to
        /\ frame \in Got(d)' \/ pc'[d] = "done" \/ d \in lost' \/ Long(frame)
    BY <1>2, <2>1, StepKeeps, NetSteps
  <2>3. QED
    BY <1>1, <2>1, <2>2 DEF Delivered, Long
<1>4. ASSUME NEW a \in Conns, NEW x, Targets(a, x, frame)
      PROVE  Targets(a, x, frame)'
  <2>1. /\ d \in Conns /\ user[d] = frame.to /\ pc[d] # "none" /\ fd[d] = x.to
        /\ pc[d] = "done" \/ ~Misled(a, d)
    BY <1>1, <1>4 DEF Targets
  <2>2. user'[d] = frame.to /\ pc'[d] # "none" /\ fd'[d] = x.to
    BY <1>2, <2>1, StepKeeps, UserKept
  <2>3. pc'[d] = "done" \/ ~Misled(a, d)'
    BY <1>2, <2>1, NetSteps DEF NoneMisled
  <2>4. QED
    BY <1>1, <1>4, <2>1, <2>2, <2>3 DEF Targets
<1>5. QED
  BY <1>3, <1>4

\* A direct message names a user, and fits a frame unless its text is long.
LEMMA DirectFields ==
  ASSUME NEW frame \in Frame, frame.type = "DirectMsg"
  PROVE  frame.to \in Users /\ Kind(frame) = "DirectMsg" /\ (Fits(frame) <=> ~Long(frame))
<1>1. frame.to \in Users
  BY DEF Frame
<1>2. Kind(frame) = "DirectMsg" /\ (Fits(frame) <=> ~Long(frame))
  BY DEF Kind, Fits, Long
<1>3. QED
  BY <1>1, <1>2

\* The call that goes to the target delivers.
LEMMA TargetHit ==
  ASSUME IInv, IInv', Script, Echoed, "DirectMsg" \in Watched, NEW c \in Conns, Calls(c),
         NEW frame, frame.type = "DirectMsg", Targets(c, Head(todo[c]), frame)
  PROVE  Delivered(frame)'
<1>1. PICK h : h = Head(todo[c])
  OBVIOUS
<1>2. h.op = "send" /\ h.frame = frame
  BY <1>1 DEF Targets
<1>3. CallSend(c)
  BY <1>1, <1>2, MadeBy
<1>4. frame \in Frame /\ Delivers(c, h.to, frame) /\ UNCHANGED <<pc, user, fd, lost>>
  BY <1>1, <1>2, <1>3, SendEffect DEF CallSend
<1>5. PICK d : d = frame.session
  OBVIOUS
<1>6. /\ d \in Conns /\ user[d] = frame.to /\ pc[d] # "none" /\ fd[d] = h.to
      /\ pc[d] = "done" \/ ~Misled(c, d)
  BY <1>1, <1>5 DEF Targets
<1>7. CASE pc[d] = "done" \/ d \in lost \/ Long(frame)
  BY <1>4, <1>5, <1>6, <1>7 DEF Delivered, Long
<1>8. CASE pc[d] # "done" /\ d \notin lost /\ ~Long(frame)
  <2>1. owner[h.to] = d
    BY <1>6, <1>8 DEF IInv, DescriptorsOwned
  <2>2. Fits(frame) /\ Kind(frame) \in Watched
    BY <1>4, <1>8, DirectFields
  <2>3. frame \in Got(d)'
    BY <1>4, <1>6, <1>8, <2>1, <2>2 DEF Delivers
  <2>4. QED
    BY <1>4, <1>5, <1>6, <2>3 DEF Delivered
<1>9. QED
  BY <1>7, <1>8

\* A list without a direct message.
LEMMA NoDirect ==
  ASSUME NEW c, NEW s, \A k \in 1..Len(s) : ~IsDirect(s[k])
  PROVE  TargetFirst(c, s)'
  BY DEF TargetFirst

\* What a handler sets out to do: only Direct sends a direct message, to the
\* first element of `clients` with the target's name and then to the author.
LEMMA TargetNew ==
  ASSUME IInv, NEW c \in Conns, Begins(c)
  PROVE  \E calls : Sets(c, calls) /\ TargetFirst(c, calls)'
<1>1. /\ \A r, frame, f : ~IsDirect(Broadcast(r, frame, f))
      /\ \A r, n : ~IsDirect(Replay(r, n))
      /\ \A r : ~IsDirect(SetRoom(r))
      /\ \A f, r : ~IsDirect(Send(f, Joined(r)))
      /\ \A f, u, r : ~IsDirect(Send(f, AuthOk(u, r)))
      /\ \A f, t : ~IsDirect(Send(f, System(t)))
      /\ \A m : ~IsDirect(Store(m))
      /\ \A y : PlainSend(c, y) \/ y.op \in {"replay", "list_rooms"} => ~IsDirect(y)
  BY DEF IsDirect, Broadcast, Replay, SetRoom, Send, Joined, AuthOk, System, Store,
         PlainSend, Plain
<1>2. TargetFirst(c, <<>>)'
  BY NoDirect
<1>3. ASSUME NEW x, ~IsDirect(x)
      PROVE  TargetFirst(c, <<x>>)'
  BY <1>3, NoDirect
<1>4. CASE Answer(c)
  BY <1>1, <1>2, <1>3, <1>4 DEF Answer
<1>5. CASE Enter(c)
  <2>1. PICK calls : calls = Greeting(c)
    OBVIOUS
  <2>2. Sets(c, calls)
    BY <1>5, <2>1 DEF Enter, Do, Sets
  <2>3. \A k \in 1..Len(calls) : ~IsDirect(calls[k])
    BY <1>1, <2>1 DEF Greeting
  <2>4. QED
    BY <2>2, <2>3, NoDirect
<1>6. CASE Leave(c)
  <2>1. PICK x : x = Broadcast(room[c], Notice("left", c, room[c]), INVALID_SOCKET)
    OBVIOUS
  <2>2. Sets(c, <<x>>)
    BY <1>6, <2>1 DEF Leave, Do, Sets
  <2>3. QED
    BY <1>1, <1>3, <2>1, <2>2
<1>7. ASSUME NEW u \in Users, Admit(c, u)
      PROVE  \E calls : Sets(c, calls) /\ TargetFirst(c, calls)'
  <2>1. PICK x : x = Send(fd[c], System("created"))
    OBVIOUS
  <2>2. Sets(c, <<>>) \/ Sets(c, <<x>>)
    BY <1>7, <2>1 DEF Admit
  <2>3. QED
    BY <1>1, <1>2, <1>3, <2>1, <2>2
<1>8. ASSUME NEW r \in Rooms, Move(c, r)
      PROVE  \E calls : Sets(c, calls) /\ TargetFirst(c, calls)'
  <2>1. PICK calls : calls = <<Broadcast(room[c], Notice("left", c, room[c]), fd[c]),
                               SetRoom(r),
                               Send(fd[c], Joined(r)),
                               Broadcast(r, Notice("joined", c, r), fd[c]),
                               Replay(r, kHistoryLimit)>>
    OBVIOUS
  <2>2. Sets(c, calls)
    BY <1>8, <2>1 DEF Move, Says
  <2>3. \A k \in 1..Len(calls) : ~IsDirect(calls[k])
    BY <1>1, <2>1
  <2>4. QED
    BY <2>2, <2>3, NoDirect
<1>9. ASSUME NEW m \in Message, Speak(c, m)
      PROVE  \E calls : Sets(c, calls) /\ TargetFirst(c, calls)'
  <2>1. PICK calls : calls = <<Store(m), Broadcast(m.room, ChatMsg(m), fd[c])>>
    OBVIOUS
  <2>2. Sets(c, calls)
    BY <1>9, <2>1 DEF Speak, Says
  <2>3. \A k \in 1..Len(calls) : ~IsDirect(calls[k])
    BY <1>1, <2>1
  <2>4. QED
    BY <2>2, <2>3, NoDirect
<1>10. ASSUME NEW m \in Message, NEW u \in Users, NEW e \in clients, Whisper(c, m, u, e)
       PROVE  \E calls : Sets(c, calls) /\ TargetFirst(c, calls)'
  <2>0. PICK frame : frame = DirectMsg(m, u, owner[e.socket])
    OBVIOUS
  <2>1. PICK x1 : x1 = Store(m)
    OBVIOUS
  <2>2. PICK x2 : x2 = Send(e.socket, frame)
    OBVIOUS
  <2>3. PICK x3 : x3 = Send(fd[c], frame)
    OBVIOUS
  <2>4. PICK calls : calls = <<x1, x2, x3>>
    OBVIOUS
  <2>5. Sets(c, calls) /\ UNCHANGED <<pc, user, fd, waiting>> /\ e.username = u
    BY <1>10, <2>0, <2>1, <2>2, <2>3, <2>4 DEF Whisper, Says, netVars
  <2>6. /\ ~IsDirect(x1) /\ x2.op = "send" /\ x2.to = e.socket /\ x2.frame = frame
        /\ x3.frame = x2.frame /\ frame.to = u /\ frame.session = owner[e.socket]
    BY <1>1, <2>0, <2>1, <2>2, <2>3 DEF Send, DirectMsg
  <2>7. PICK d \in Conns : /\ d = owner[e.socket] /\ user[d] = u
                          /\ pc[d] # "none" /\ fd[d] = e.socket /\ ~Misled(c, d)
    <3>1. PICK d : d = owner[e.socket]
      OBVIOUS
    <3>2. d \in Registered /\ user[d] = u
      BY <2>5, <3>1 DEF IInv, RegistryMatchesHandlers
    <3>3. d \in Conns /\ pc[d] # "none"
      BY <3>2 DEF Registered
    <3>4. e.socket \in Fds
      BY DEF IInv, TypeOK, ClientInfo
    <3>5. fd[d] = e.socket
      BY <3>1, <3>3, <3>4, ServerAssumption DEF IInv, DescriptorsOwned
    <3>6. ~Misled(c, d)
      BY <2>5 DEF Sets, IInv, Waits, Misled
    <3>7. QED
      BY <3>1, <3>2, <3>3, <3>5, <3>6
  <2>8. Targets(c, x2, x2.frame)'
    BY <2>5, <2>6, <2>7 DEF Targets, Misled
  <2>9. Len(calls) = 3 /\ calls[1] = x1 /\ calls[2] = x2 /\ calls[3] = x3
    BY <2>4
  <2>10. ASSUME NEW k \in 1..Len(calls), IsDirect(calls[k])
         PROVE  \E j \in 1..k : Targets(c, calls[j], calls[k].frame)'
    <3>1. k = 2 \/ k = 3
      BY <2>6, <2>9, <2>10
    <3>2. 2 \in 1..k /\ calls[k].frame = x2.frame
      BY <2>6, <2>9, <3>1
    <3>3. QED
      BY <2>8, <2>9, <3>2
  <2>11. TargetFirst(c, calls)'
    BY <2>10 DEF TargetFirst
  <2>12. QED
    BY <2>5, <2>11
<1>11. QED
  BY <1>4, <1>5, <1>6, <1>7, <1>8, <1>9, <1>10 DEF Begins

\* A list that does not change, ...
LEMMA TargetSame ==
  ASSUME IInv, IInv', Script, Echoed, NEW c \in Conns, StepOf(c),
         NEW a \in Conns, NEW s \in Seq(Call), TargetFirst(a, s)
  PROVE  TargetFirst(a, s)'
<1>1. SUFFICES ASSUME NEW k \in 1..Len(s), IsDirect(s[k])
               PROVE  \/ Delivered(s[k].frame)'
                      \/ \E j \in 1..k : Targets(a, s[j], s[k].frame)'
  BY DEF TargetFirst
<1>2. s[k] \in Call
  OBVIOUS
<1>3. s[k].frame \in Frame /\ s[k].frame.type = "DirectMsg"
  BY <1>1, <1>2, CallFields DEF IsDirect
<1>4. PICK frame : frame = s[k].frame /\ frame.to \in Users
  BY <1>3, DirectFields
<1>5. Delivered(frame) \/ \E j \in 1..k : Targets(a, s[j], frame)
  BY <1>1, <1>4 DEF TargetFirst
<1>6. /\ Delivered(frame) => Delivered(frame)'
      /\ \A x : Targets(a, x, frame) => Targets(a, x, frame)'
  BY <1>4, DeliveredKept
<1>7. QED
  BY <1>4, <1>5, <1>6

\* ... and one whose first call is made.
LEMMA TargetNext ==
  ASSUME IInv, IInv', Script, Echoed, "DirectMsg" \in Watched,
         NEW c \in Conns, StepOf(c), Calls(c), NEW b, b = todo'[c]
  PROVE  TargetFirst(c, b)'
<1>1. PICK a : a = todo[c]
  OBVIOUS
<1>2. a \in Seq(Call) /\ todo[c] # <<>> /\ TargetFirst(c, a)
  BY <1>1, CallsReturn DEF IInv, TypeOK, Echoed
<1>3. ASSUME NEW k \in 1..Len(a), IsDirect(a[k])
      PROVE  \/ Delivered(a[k].frame)'
             \/ \E j \in 1..k : j # 1 /\ Targets(c, a[j], a[k].frame)'
  <2>1. a[k] \in Call
    BY <1>2
  <2>2. a[k].frame \in Frame /\ a[k].frame.type = "DirectMsg"
    BY <1>3, <2>1, CallFields DEF IsDirect
  <2>3. PICK frame : frame = a[k].frame
    OBVIOUS
  <2>4. frame.to \in Users /\ frame.type = "DirectMsg"
    BY <2>2, <2>3, DirectFields
  <2>5. /\ Delivered(frame) => Delivered(frame)'
        /\ \A x : Targets(c, x, frame) => Targets(c, x, frame)'
    BY <2>4, DeliveredKept
  <2>6. a[1] = Head(todo[c])
    BY <1>1, <1>2, HeadFirst
  <2>7. Targets(c, a[1], frame) => Delivered(frame)'
    BY <2>4, <2>6, TargetHit
  <2>8. Delivered(frame) \/ \E j \in 1..k : Targets(c, a[j], frame)
    BY <1>2, <1>3, <2>3 DEF TargetFirst
  <2>9. QED
    BY <2>3, <2>5, <2>7, <2>8
<1>4. CASE Returns(c, <<>>)
  <2>1. /\ Len(a) \in Nat /\ Len(b) \in Nat
        /\ \A k \in 1..Len(b) : k + 1 \in 1..Len(a) /\ b[k] = a[k + 1]
    BY <1>1, <1>2, <1>4, Popped
  <2>2. ASSUME NEW k \in 1..Len(b), IsDirect(b[k])
        PROVE  \/ Delivered(b[k].frame)'
               \/ \E j \in 1..k : Targets(c, b[j], b[k].frame)'
    <3>1. k + 1 \in 1..Len(a) /\ b[k] = a[k + 1]
      BY <2>1
    <3>2. PICK frame : frame = b[k].frame
      OBVIOUS
    <3>3. \/ Delivered(frame)'
          \/ \E j \in 1..(k + 1) : j # 1 /\ Targets(c, a[j], frame)'
      BY <1>3, <2>2, <3>1, <3>2
    <3>4. ASSUME NEW j \in 1..(k + 1), j # 1, Targets(c, a[j], frame)'
          PROVE  \E i \in 1..k : Targets(c, b[i], frame)'
      <4>1. j - 1 \in 1..k /\ j - 1 \in 1..Len(b) /\ (j - 1) + 1 = j
        BY <2>1, <3>4
      <4>2. b[j - 1] = a[j]
        BY <2>1, <4>1
      <4>3. QED
        BY <3>4, <4>1, <4>2
    <3>5. QED
      BY <3>2, <3>3, <3>4
  <2>3. QED
    BY <2>2 DEF TargetFirst
<1>5. ASSUME NEW call \in Call, Returns(c, <<call>>), ~IsDirect(call)
      PROVE  TargetFirst(c, b)'
  <2>1. /\ Len(b) = Len(a) /\ Len(a) \in Nat /\ b[1] = call
        /\ \A k \in 1..Len(a) : k # 1 => b[k] = a[k]
    BY <1>1, <1>2, <1>5, Swapped
  <2>2. ASSUME NEW k \in 1..Len(b), IsDirect(b[k])
        PROVE  \/ Delivered(b[k].frame)'
               \/ \E j \in 1..k : Targets(c, b[j], b[k].frame)'
    <3>1. k # 1 /\ k \in 1..Len(a) /\ b[k] = a[k]
      BY <1>5, <2>1, <2>2
    <3>2. PICK frame : frame = b[k].frame
      OBVIOUS
    <3>3. \/ Delivered(frame)'
          \/ \E j \in 1..k : j # 1 /\ Targets(c, a[j], frame)'
      BY <1>3, <2>2, <3>1, <3>2
    <3>4. ASSUME NEW j \in 1..k, j # 1, Targets(c, a[j], frame)'
          PROVE  \E i \in 1..k : Targets(c, b[i], frame)'
      <4>1. j \in 1..Len(a)
        BY <2>1, <3>1
      <4>2. b[j] = a[j]
        BY <2>1, <3>4, <4>1
      <4>3. QED
        BY <3>4, <4>2
    <3>5. QED
      BY <3>2, <3>3, <3>4
  <2>3. QED
    BY <2>2 DEF TargetFirst
<1>6. QED
  BY <1>4, <1>5, CallsReturn DEF IsDirect

\* The author's copy is written when the target's has been.
LEMMA EchoedGot ==
  ASSUME IInv, IInv', Script, Echoed, "DirectMsg" \in Watched,
         NEW c \in Conns, StepOf(c), NEW d \in Conns, NEW frame \in Got(d)',
         frame.type = "DirectMsg"
  PROVE  ~Long(frame) /\ (Author(frame.message) = d => Delivered(frame)')
<1>1. out \in [Conns -> Seq(Frame)] /\ todo[c] \in Seq(Call)
  BY DEF IInv, TypeOK
<1>2. CASE frame \in Got(d)
  <2>1. frame \in Frame
    BY <1>1, <1>2 DEF Got
  <2>2. frame.to \in Users
    BY <2>1, DirectFields
  <2>3. QED
    BY <1>2, <2>2, DeliveredKept DEF Echoed
<1>3. PICK h : h = Head(todo[c])
  OBVIOUS
<1>4. CASE CallSend(c) /\ frame \notin Got(d)
  <2>1. /\ Makes(c, h) /\ h.op = "send" /\ h.frame \in Frame /\ Delivers(c, h.to, h.frame)
    BY <1>3, <1>4, SendEffect
  <2>2. frame = h.frame /\ Fits(h.frame)
    BY <1>4, <2>1 DEF Delivers
  <2>3. frame.to \in Users /\ ~Long(frame)
    BY <2>1, <2>2, DirectFields
  <2>4. 1 \in 1..Len(todo[c]) /\ todo[c][1] = h
    BY <1>1, <1>3, <2>1, HeadFirst DEF Makes
  <2>5. Delivered(frame) \/ \E j \in 1..1 : Targets(c, todo[c][j], frame)
    BY <2>1, <2>2, <2>4 DEF Echoed, TargetFirst, IsDirect
  <2>6. Delivered(frame) \/ Targets(c, h, frame)
    BY <2>4, <2>5
  <2>7. Calls(c)
    BY <1>4 DEF Calls
  <2>8. QED
    BY <1>3, <2>3, <2>6, <2>7, DeliveredKept, TargetHit
<1>5. CASE CallSendEach(c) /\ frame \notin Got(d)
  <2>1. Makes(c, h) /\ h.op = "send each"
    BY <1>3, <1>5, SendEachEffect
  <2>2. PICK e \in h.to : Delivers(c, e.socket, h.frame)
    BY <1>3, <1>5, SendEachEffect
  <2>3. frame = h.frame
    BY <1>5, <2>2 DEF Delivers
  <2>4. QED
    BY <2>1, <2>3 DEF Makes, CallFits, IsNotice
<1>6. CASE ~CallSend(c) /\ ~CallSendEach(c)
  BY <1>2, <1>6, WritesOnly, GotSame
<1>7. QED
  BY <1>2, <1>4, <1>5, <1>6

\* Echoed is inductive.
LEMMA EchoedStep ==
  ASSUME IInv, IInv', Script, Echoed, "DirectMsg" \in Watched, [Next]_vars
  PROVE  Echoed'
<1>1. CASE Restart
  <2>1. \A c \in Conns : Got(c)' = {}
    BY <1>1, RestartEmpties
  <2>2. \A c \in Conns : user'[c] = NoUser /\ todo'[c] = <<>>
    BY <1>1 DEF Restart
  <2>3. \A c : TargetFirst(c, <<>>)'
    BY NoDirect
  <2>4. QED
    BY <2>1, <2>2, <2>3 DEF Echoed, TargetFirst
<1>2. CASE Idle
  <2>1. UNCHANGED <<pc, fd, user, todo>> /\ \A c : Got(c)' = Got(c)
    BY <1>2 DEF Idle, Got
  <2>2. /\ \A frame : Delivered(frame) => Delivered(frame)'
        /\ \A c \in Conns : \A x, frame : Targets(c, x, frame) => Targets(c, x, frame)'
    <3>1. \A frame : Delivered(frame) => Delivered(frame)'
      BY <1>2, <2>1 DEF Idle, Delivered, Long
    <3>2. ASSUME NEW c \in Conns, NEW x, NEW frame, Targets(c, x, frame)
          PROVE  Targets(c, x, frame)'
      BY <1>2, <2>1, <3>2 DEF Idle, NoneMisled, Targets
    <3>3. QED
      BY <3>1, <3>2
  <2>3. \A c \in Conns : \A s : TargetFirst(c, s) => TargetFirst(c, s)'
    BY <2>2 DEF TargetFirst
  <2>4. ASSUME NEW c \in Conns
        PROVE  TargetFirst(c, todo[c])'
    <3>1. PICK s : s = todo[c] /\ s = todo'[c]
      BY <2>1
    <3>2. TargetFirst(c, s)'
      BY <2>3, <3>1 DEF Echoed
    <3>3. QED
      BY <3>1, <3>2 DEF TargetFirst
  <2>5. QED
    BY <2>1, <2>2, <2>4 DEF Echoed, Long, Author
<1>3. ASSUME NEW c \in Conns, StepOf(c)
      PROVE  Echoed'
  <2>1. ASSUME NEW d \in Conns, pc'[d] \in {"none", "auth"}
        PROVE  user'[d] = NoUser
    BY <1>3, <2>1, UserKept DEF Echoed
  <2>2. \A d \in Conns : \A frame \in Got(d)' : frame.type = "DirectMsg" =>
          ~Long(frame) /\ (Author(frame.message) = d => Delivered(frame)')
    BY <1>3, EchoedGot
  <2>3. ASSUME NEW d \in Conns
        PROVE  TargetFirst(d, todo[d])'
    <3>1. PICK s : s = todo'[d]
      OBVIOUS
    <3>2. SUFFICES TargetFirst(d, s)'
      BY <3>1 DEF TargetFirst
    <3>3. CASE s = todo[d]
      <4>1. s \in Seq(Call) /\ TargetFirst(d, s)
        BY <3>3 DEF IInv, TypeOK, Echoed
      <4>2. QED
        BY <1>3, <4>1, TargetSame
    <3>4. CASE d = c /\ Begins(c)
      <4>1. Begins(d)
        BY <3>4
      <4>2. PICK calls : Sets(d, calls) /\ TargetFirst(d, calls)'
        BY <4>1, TargetNew
      <4>3. s = calls
        BY <3>1, <4>2, SetsEffect
      <4>4. QED
        BY <4>2, <4>3
    <3>5. CASE d = c /\ Calls(c)
      BY <1>3, <3>1, <3>5, TargetNext
    <3>6. CASE d # c
      BY <1>3, <3>1, <3>3, <3>6, TodoKept
    <3>7. CASE (\E f \in Fds : Accept(c, f)) \/ Finish(c)
      <4>1. UNCHANGED todo
        BY <3>7 DEF Accept, Finish
      <4>2. QED
        BY <3>1, <3>3, <4>1
    <3>8. QED
      BY <1>3, <3>4, <3>5, <3>6, <3>7, StepKinds
  <2>4. QED
    BY <2>1, <2>2, <2>3 DEF Echoed, Long, Author
<1>4. QED
  BY <1>1, <1>2, <1>3, Steps

\* When the author of a direct message sees its echo, the session of the target
\* that was found for it has been sent the message, or ended or lost its
\* connection after it was found: Direct looks the target up and sends to it
\* before it sends to the author, whoever waits, closes or opens descriptors in
\* between.
THEOREM EchoIsHonest == "DirectMsg" \in Watched => (Spec => []EchoMeansDelivered)
<1>1. SUFFICES ASSUME "DirectMsg" \in Watched
               PROVE  Spec => []EchoMeansDelivered
  OBVIOUS
<1>2. Init => Echoed
  <2>1. SUFFICES ASSUME Init
                 PROVE  Echoed
    OBVIOUS
  <2>2. \A c \in Conns : Got(c) = {} /\ user[c] = NoUser /\ todo[c] = <<>>
    BY <2>1 DEF Init, Got
  <2>3. \A c : TargetFirst(c, <<>>)
    BY DEF TargetFirst
  <2>4. QED
    BY <2>2, <2>3 DEF Echoed
<1>3. IInv /\ Script /\ IInv' /\ Echoed /\ [Next]_vars => Echoed'
  BY <1>1, EchoedStep
<1>4. Echoed => EchoMeansDelivered
  BY DEF Echoed, EchoMeansDelivered, Delivered
<1>5. QED
  BY <1>2, <1>3, <1>4, ScriptInvariant, PTL DEF Spec

-----------------------------------------------------------------------------
(***************************************************************************)
(* Nobody misses a message.                                                *)
(***************************************************************************)
\* The rows of a room in the order a query returns them, the newest first.
Newer == {p \in (DOMAIN messages) \X (DOMAIN messages) : Before(p[2], p[1])}

\* That order is strict and total on the rows of the table.
LEMMA NewerOrders ==
  ASSUME messages \in Seq(Message), NEW r
  PROVE  /\ IsFiniteSet(RowsIn(r)) /\ StrictOrder(Newer, RowsIn(r))
         /\ \A i \in RowsIn(r) : Below(Newer, RowsIn(r), i) = {j \in RowsIn(r) : Before(i, j)}
<1>1. Len(messages) \in Nat /\ DOMAIN messages = 1..Len(messages)
  OBVIOUS
<1>2. RowsIn(r) \subseteq 1..Len(messages)
  BY <1>1 DEF RowsIn
<1>3. \A i \in RowsIn(r) : i \in Nat /\ messages[i].sent_at \in Nat
  <2>1. \A i \in 1..Len(messages) : messages[i] \in Message
    BY <1>1
  <2>2. \A m \in Message : m.sent_at \in Nat
    BY DatabaseAssumption DEF Message
  <2>3. QED
    BY <1>1, <1>2, <2>1, <2>2
<1>4. IsFiniteSet(RowsIn(r))
  <2>1. IsFiniteSet(1..Len(messages))
    BY <1>1, FS_Interval
  <2>2. QED
    BY <1>2, <2>1, FS_Subset
<1>5. \A i, j \in RowsIn(r) : <<i, j>> \in Newer <=> Before(j, i)
  BY DEF Newer, RowsIn
<1>6. /\ \A i \in RowsIn(r) : ~Before(i, i)
      /\ \A i, j \in RowsIn(r) : i # j => Before(i, j) \/ Before(j, i)
      /\ \A i, j, k \in RowsIn(r) : Before(i, j) /\ Before(j, k) => Before(i, k)
  BY <1>3 DEF Before
<1>7. StrictOrder(Newer, RowsIn(r))
  BY <1>5, <1>6 DEF StrictOrder
<1>8. QED
  BY <1>4, <1>5, <1>7 DEF Below

\* A history is no longer than its limit, and it is full and later than a row it
\* leaves out.
LEMMA RecentWindow ==
  ASSUME messages \in Seq(Message), NEW r, NEW limit \in Nat
  PROVE  /\ Cardinality(RecentRows(r, limit)) \in Nat
         /\ Cardinality(RecentRows(r, limit)) <= limit
         /\ \A i \in RowsIn(r) :
              \/ i \in RecentRows(r, limit)
              \/ /\ Cardinality(RecentRows(r, limit)) >= limit
                 /\ \A j \in RecentRows(r, limit) : Before(i, j)
<1>1. PICK S : S = RowsIn(r)
  OBVIOUS
<1>2. PICK R : R = Newer
  OBVIOUS
<1>3. PICK T : T = RecentRows(r, limit)
  OBVIOUS
<1>4. /\ IsFiniteSet(S) /\ StrictOrder(R, S)
      /\ \A i \in S : Below(R, S, i) = {j \in S : Before(i, j)}
  BY <1>1, <1>2, NewerOrders
<1>5. T = Lowest(R, S, limit)
  BY <1>1, <1>3, <1>4 DEF RecentRows, Lowest
<1>6. Cardinality(S) \in Nat
  BY <1>4, FS_CardinalityType
<1>7. CASE limit <= Cardinality(S)
  <2>1. Cardinality(T) = limit
    <3>1. PICK s : IsSorted(s, R, S)
      BY <1>4, SortedExists
    <3>2. limit \in 0..Cardinality(S)
      BY <1>6, <1>7
    <3>3. QED
      BY <1>4, <1>5, <3>1, <3>2, SortedPrefix
  <2>2. ASSUME NEW i \in S, i \notin T, NEW j \in T
        PROVE  Before(i, j)
    <3>1. /\ j \in S /\ Cardinality(Below(R, S, j)) < limit
          /\ ~(Cardinality(Below(R, S, i)) < limit) /\ i # j
      BY <1>5, <2>2 DEF Lowest
    <3>2. Cardinality(Below(R, S, i)) \in Nat /\ Cardinality(Below(R, S, j)) \in Nat
      BY <1>4, <3>1, BelowIsSmaller
    <3>3. <<i, j>> \notin R
      BY <1>4, <3>1, <3>2, BelowGrows
    <3>4. <<j, i>> \in R
      BY <1>4, <3>1, <3>3 DEF StrictOrder
    <3>5. j \in Below(R, S, i)
      BY <3>1, <3>4 DEF Below
    <3>6. QED
      BY <1>4, <3>5
  <2>3. QED
    BY <1>1, <1>3, <2>1, <2>2
<1>8. CASE ~(limit <= Cardinality(S))
  <2>1. \A i \in S : i \in T
    <3>1. ASSUME NEW i \in S
          PROVE  Cardinality(Below(R, S, i)) < limit
      BY <1>4, <1>6, <1>8, BelowIsSmaller
    <3>2. QED
      BY <1>5, <3>1 DEF Lowest
  <2>2. T = S
    BY <1>5, <2>1 DEF Lowest
  <2>3. QED
    BY <1>1, <1>3, <1>6, <1>8, <2>2
<1>9. QED
  BY <1>7, <1>8

\* A history shows row i, or is full and begins after it.
HistoryCovers(frame, i) ==
  /\ frame.type = "History"
  /\ \/ i \in frame.rows
     \/ /\ i <= frame.upto /\ frame.rows \subseteq DOMAIN messages
        /\ Cardinality(frame.rows) >= kHistoryLimit
        /\ \A j \in frame.rows : messages[j].room = messages[i].room /\ Before(i, j)

Shown(c, i) ==
  \E frame \in Got(c) : \/ frame.type = "ChatMsg" /\ frame.message = messages[i]
                        \/ HistoryCovers(frame, i)

\* The replay that comes with entering a room has still to be looked up, or to
\* be sent.
Replaying(c, i) ==
  \E x \in Pending(c) :
    \/ x.op = "replay" /\ x.room = messages[i].room /\ x.limit = kHistoryLimit
    \/ x.op = "send" /\ HistoryCovers(x.frame, i) /\ Cardinality(x.frame.rows) <= FrameRows

Covered ==
  \A c \in Conns : pc[c] = "loop" /\ c \notin lost =>
    \A i \in RowsFor(c) :
      \/ Shown(c, i)
      \/ Reaching(Author(messages[i]), c, ChatMsg(messages[i]))
      \/ Replaying(c, i)

\* Rows are written by connections, and a row for a room will be broadcast.
Authored == \A i \in DOMAIN messages : Author(messages[i]) \in Conns

Follows(c, x, S) ==
  x.op = "store" /\ x.message.room \in Rooms
    => Broadcast(x.message.room, ChatMsg(x.message), fd[c]) \in S

ChatFollows == \A c \in Conns : \A x \in Pending(c) : Follows(c, x, Pending(c))

\* A room is not the key of a thread: sanitize_room yields no name with a colon.
RoomsAreNoKeys == \A a, b \in Users : dm_room_key(a, b) \notin Rooms

\* Rows that are there stay as they are; a new one is what was to be stored.
LEMMA RowsStay ==
  ASSUME IInv, NEW s \in Conns, StepOf(s)
  PROVE  /\ messages \in Seq(Message) /\ messages' \in Seq(Message)
         /\ \A i \in DOMAIN messages :
              i \in DOMAIN messages' /\ messages'[i] = messages[i]
         /\ \A i \in DOMAIN messages' :
              \/ i \in DOMAIN messages
              \/ /\ CallStore(s) /\ todo[s] # <<>> /\ Head(todo[s]).op = "store"
                 /\ messages'[i] = Head(todo[s]).message
<1>1. messages \in Seq(Message)
  BY DEF IInv, TypeOK, DatabaseTypeOK
<1>2. CASE messages' = messages
  BY <1>1, <1>2
<1>3. CASE CallStore(s) /\ messages' = Append(messages, Head(todo[s]).message)
  <2>1. PICK m : m = Head(todo[s]).message
    OBVIOUS
  <2>2. todo[s] # <<>> /\ Head(todo[s]).op = "store"
    BY <1>3 DEF CallStore, Calling
  <2>3. m \in Message
    <3>1. Head(todo[s]) \in Call
      BY <2>2, HeadPending
    <3>2. QED
      BY <2>1, <2>2, <3>1, CallFields
  <2>4. messages' = Append(messages, m)
    BY <1>3, <2>1
  <2>5. /\ Append(messages, m) \in Seq(Message)
        /\ \A i \in DOMAIN messages : i \in DOMAIN Append(messages, m)
                                      /\ Append(messages, m)[i] = messages[i]
        /\ \A i \in DOMAIN Append(messages, m) :
             i \in DOMAIN messages \/ Append(messages, m)[i] = m
    BY <1>1, <2>3
  <2>6. QED
    BY <1>1, <1>3, <2>1, <2>2, <2>4, <2>5
<1>4. QED
  BY <1>2, <1>3, RowsKept

\* Authored is inductive.
LEMMA AuthoredStep ==
  ASSUME IInv, IInv', Script, Authored, [Next]_vars
  PROVE  Authored'
<1>1. CASE Restart \/ Idle
  BY <1>1 DEF Restart, Idle, dbVars, Authored
<1>2. ASSUME NEW s \in Conns, StepOf(s), NEW i \in DOMAIN messages'
      PROVE  Author(messages'[i]) \in Conns
  <2>1. CASE i \in DOMAIN messages
    BY <1>2, <2>1, RowsStay DEF Authored
  <2>2. CASE /\ CallStore(s) /\ todo[s] # <<>> /\ Head(todo[s]).op = "store"
             /\ messages'[i] = Head(todo[s]).message
    <3>1. PICK h : h = Head(todo[s])
      OBVIOUS
    <3>2. CallFits(s, h)
      BY <2>2, <3>1, AtCall DEF Makes
    <3>3. Author(h.message) = s
      BY <2>2, <3>1, <3>2 DEF CallFits
    <3>4. QED
      BY <2>2, <3>1, <3>3
  <2>3. QED
    BY <1>2, <2>1, <2>2, RowsStay
<1>3. QED
  <2>1. (\E s \in Conns : StepOf(s)) => Authored'
    BY <1>2 DEF Authored, Author
  <2>2. QED
    BY <1>1, <2>1, Steps

\* What a handler sets out to store it sets out to broadcast, if it is for a room.
LEMMA FollowLists ==
  ASSUME IInv, IInv', RoomsAreNoKeys, NEW c \in Conns, Begins(c)
  PROVE  \A x \in Pending(c)' : Follows(c, x, Pending(c)')
<1>1. ASSUME NEW calls, Sets(c, calls), \A k \in DOMAIN calls : calls[k].op # "store"
      PROVE  \A x \in Pending(c)' : Follows(c, x, Pending(c)')
  BY <1>1, SetsEffect DEF Follows
<1>2. /\ \A r, frame, f : Broadcast(r, frame, f).op # "store"
      /\ \A r, n : Replay(r, n).op # "store"
      /\ \A r : SetRoom(r).op # "store"
      /\ \A f, frame : Send(f, frame).op # "store"
  BY DEF Broadcast, Replay, SetRoom, Send
<1>3. CASE Answer(c)
  <2>1. CASE Sets(c, <<>>)
    BY <1>1, <2>1
  <2>2. ASSUME NEW call, Sets(c, <<call>>),
               PlainSend(c, call) \/ call.op \in {"replay", "list_rooms"}
        PROVE  \A x \in Pending(c)' : Follows(c, x, Pending(c)')
    <3>1. call.op # "store"
      BY <2>2 DEF PlainSend
    <3>2. QED
      BY <1>1, <2>2, <3>1
  <2>3. QED
    BY <1>3, <2>1, <2>2 DEF Answer
<1>4. CASE Enter(c)
  <2>1. Sets(c, Greeting(c))
    BY <1>4 DEF Enter, Do, Sets
  <2>2. \A k \in DOMAIN Greeting(c) : Greeting(c)[k].op # "store"
    BY <1>2 DEF Greeting
  <2>3. QED
    BY <1>1, <2>1, <2>2
<1>5. CASE Leave(c)
  <2>1. PICK x : x = Broadcast(room[c], Notice("left", c, room[c]), INVALID_SOCKET)
    OBVIOUS
  <2>2. Sets(c, <<x>>) /\ x.op # "store"
    BY <1>2, <1>5, <2>1 DEF Leave, Do, Sets
  <2>3. QED
    BY <1>1, <2>2
<1>6. ASSUME NEW u \in Users, Admit(c, u)
      PROVE  \A x \in Pending(c)' : Follows(c, x, Pending(c)')
  <2>1. PICK x : x = Send(fd[c], System("created"))
    OBVIOUS
  <2>2. Sets(c, <<>>) \/ Sets(c, <<x>>)
    BY <1>6, <2>1 DEF Admit
  <2>3. x.op # "store"
    BY <1>2, <2>1
  <2>4. QED
    BY <1>1, <2>2, <2>3
<1>7. ASSUME NEW r \in Rooms, Move(c, r)
      PROVE  \A x \in Pending(c)' : Follows(c, x, Pending(c)')
  <2>1. PICK calls : calls = <<Broadcast(room[c], Notice("left", c, room[c]), fd[c]),
                               SetRoom(r),
                               Send(fd[c], Joined(r)),
                               Broadcast(r, Notice("joined", c, r), fd[c]),
                               Replay(r, kHistoryLimit)>>
    OBVIOUS
  <2>2. Sets(c, calls)
    BY <1>7, <2>1 DEF Move, Says
  <2>3. \A k \in DOMAIN calls : calls[k].op # "store"
    BY <1>2, <2>1
  <2>4. QED
    BY <1>1, <2>2, <2>3
<1>8. ASSUME NEW m \in Message, Speak(c, m)
      PROVE  \A x \in Pending(c)' : Follows(c, x, Pending(c)')
  <2>1. PICK y : y = Broadcast(m.room, ChatMsg(m), fd[c])
    OBVIOUS
  <2>2. Sets(c, <<Store(m), y>>)
    BY <1>8, <2>1 DEF Speak, Says
  <2>3. Pending(c)' = {Store(m), y}
    BY <2>2, SetsEffect, ListElements
  <2>4. Follows(c, Store(m), Pending(c)')
    BY <2>1, <2>3, ReportFields DEF Follows
  <2>5. Follows(c, y, Pending(c)')
    BY <1>2, <2>1 DEF Follows
  <2>6. QED
    BY <2>3, <2>4, <2>5
<1>9. ASSUME NEW m \in Message, NEW u \in Users, NEW e \in clients, Whisper(c, m, u, e)
      PROVE  \A x \in Pending(c)' : Follows(c, x, Pending(c)')
  <2>1. PICK y : y = Send(e.socket, DirectMsg(m, u, owner[e.socket]))
    OBVIOUS
  <2>2. PICK z : z = Send(fd[c], DirectMsg(m, u, owner[e.socket]))
    OBVIOUS
  <2>3. Sets(c, <<Store(m), y, z>>)
    BY <1>9, <2>1, <2>2 DEF Whisper, Says
  <2>4. Pending(c)' = {Store(m), y, z}
    BY <2>3, SetsEffect, ListElements
  <2>5. m.room \notin Rooms
    BY <1>9 DEF Whisper, RoomsAreNoKeys
  <2>6. Follows(c, Store(m), Pending(c)')
    BY <2>5, ReportFields DEF Follows
  <2>7. Follows(c, y, Pending(c)') /\ Follows(c, z, Pending(c)')
    BY <1>2, <2>1, <2>2 DEF Follows
  <2>8. QED
    BY <2>4, <2>6, <2>7
<1>10. QED
  BY <1>3, <1>4, <1>5, <1>6, <1>7, <1>8, <1>9 DEF Begins

\* No call that returns leaves anything to store.
LEMMA NothingToStore ==
  ASSUME IInv, IInv', Script, Ordered, NEW c \in Conns, Calls(c)
  PROVE  \A x \in Pending(c)' : x.op # "store"
<1>1. PICK a : a = todo[c]
  OBVIOUS
<1>2. PICK b : b = todo'[c]
  OBVIOUS
<1>3. StoresFirst(a) /\ todo[c] # <<>>
  BY <1>1, CallsReturn DEF Ordered
<1>4. \A k \in 1..Len(b) : b[k].op # "store"
  <2>1. CASE Returns(c, <<>>)
    <3>1. /\ Len(a) \in Nat /\ Len(b) \in Nat
          /\ \A k \in 1..Len(b) : k + 1 \in 1..Len(a) /\ b[k] = a[k + 1]
      BY <1>1, <1>2, <1>3, <2>1, Popped
    <3>2. \A k \in 1..Len(b) : k + 1 # 1
      BY <3>1
    <3>3. QED
      BY <1>3, <3>1, <3>2 DEF StoresFirst, Urgent
  <2>2. ASSUME NEW call \in Call, Returns(c, <<call>>), call.op \in {"send", "send each"}
        PROVE  \A k \in 1..Len(b) : b[k].op # "store"
    <3>1. /\ Len(b) = Len(a) /\ b[1] = call /\ \A k \in 1..Len(a) : k # 1 => b[k] = a[k]
      BY <1>1, <1>2, <1>3, <2>2, Swapped
    <3>2. QED
      BY <1>3, <2>2, <3>1 DEF StoresFirst, Urgent
  <2>3. Returns(c, <<>>) \/ \E call \in Call : /\ Returns(c, <<call>>)
                                               /\ call.op \in {"send", "send each"}
    BY CallsReturn
  <2>4. QED
    BY <2>1, <2>2, <2>3
<1>5. \A x \in Pending(c)' : \E k \in 1..Len(b) : x = b[k]
  BY <1>2 DEF Pending, IInv, TypeOK
<1>6. QED
  BY <1>4, <1>5

\* ChatFollows is inductive.
LEMMA ChatFollowsStep ==
  ASSUME IInv, IInv', Script, Ordered, RoomsAreNoKeys, ChatFollows, [Next]_vars
  PROVE  ChatFollows'
<1>1. CASE Restart
  BY <1>1, RestartEmpties DEF ChatFollows
<1>2. CASE Idle
  BY <1>2 DEF Idle, ChatFollows, Follows, Pending
<1>3. ASSUME NEW s \in Conns, StepOf(s), NEW c \in Conns
      PROVE  \A x \in Pending(c)' : Follows(c, x, Pending(c))'
  <2>1. CASE c # s
    <3>1. Pending(c)' = Pending(c) /\ (pc[c] # "none" => fd'[c] = fd[c])
      BY <1>3, <2>1, StepKeeps
    <3>2. \A x \in Pending(c) : fd'[c] = fd[c]
      BY <3>1, PendingAlive
    <3>3. QED
      BY <3>1, <3>2 DEF ChatFollows, Follows
  <2>2. CASE c = s /\ Begins(c)
    <3>1. fd'[c] = fd[c]
      BY <2>2, BeginsEffect
    <3>2. \A x \in Pending(c)' : Follows(c, x, Pending(c)')
      BY <2>2, FollowLists
    <3>3. QED
      BY <3>1, <3>2 DEF Follows
  <2>3. CASE c = s /\ Calls(c)
    BY <2>3, NothingToStore DEF Follows
  <2>4. CASE c = s /\ ((\E f \in Fds : Accept(c, f)) \/ Finish(c))
    <3>1. UNCHANGED todo /\ (pc[c] = "none" \/ todo[c] = <<>>)
      BY <2>4 DEF Accept, Finish
    <3>2. Pending(c) = {} /\ Pending(c)' = Pending(c)
      <4>1. Pending(c)' = Pending(c)
        BY <3>1 DEF Pending
      <4>2. Pending(c) = {}
        BY <3>1, PendingAlive, NonePending
      <4>3. QED
        BY <4>1, <4>2
    <3>3. QED
      BY <3>2
  <2>5. QED
    BY <1>3, <2>1, <2>2, <2>3, <2>4, StepKinds
<1>4. QED
  <2>1. (\E s \in Conns : StepOf(s)) => ChatFollows'
    BY <1>3 DEF ChatFollows
  <2>2. QED
    BY <1>1, <1>2, <2>1, Steps

\* A row stays shown, whatever is stored later.
LEMMA CoverKept ==
  ASSUME IInv, NEW s \in Conns, StepOf(s), NEW i \in DOMAIN messages, NEW frame,
         HistoryCovers(frame, i)
  PROVE  HistoryCovers(frame, i)'
<1>1. \A j \in DOMAIN messages : j \in DOMAIN messages' /\ messages'[j] = messages[j]
  BY RowsStay
<1>2. \A j \in DOMAIN messages : Before(i, j)' <=> Before(i, j)
  BY <1>1 DEF Before
<1>3. QED
  BY <1>1, <1>2 DEF HistoryCovers

\* replay_history looks up a window that shows every row of the room or begins
\* after it, and that fits a frame.
LEMMA ReplayCovers ==
  ASSUME IInv, IInv', Script, ~StorageFails, kHistoryLimit <= FrameRows,
         NEW c \in Conns, CallReplay(c), NEW h, h = Head(todo[c]), h.limit = kHistoryLimit,
         NEW i \in RowsIn(h.room)
  PROVE  Replaying(c, i)'
<1>1. PICK rows : rows = RecentRows(h.room, h.limit)
  OBVIOUS
<1>2. PICK n : n = Len(messages)
  OBVIOUS
<1>3. PICK frame : frame = History(rows, n)
  OBVIOUS
<1>4. PICK call : call = Send(fd[c], frame)
  OBVIOUS
<1>5. messages \in Seq(Message) /\ messages' = messages /\ n \in Nat
      /\ DOMAIN messages = 1..n
  <2>1. messages \in Seq(Message)
    BY DEF IInv, TypeOK, DatabaseTypeOK
  <2>2. messages' = messages
    BY DEF CallReplay, dbVars
  <2>3. QED
    BY <1>2, <2>1, <2>2
<1>6. kHistoryLimit \in Nat /\ kHistoryLimit >= 1 /\ FrameRows \in Nat
  BY ServerAssumption
<1>7. /\ Cardinality(rows) \in Nat /\ Cardinality(rows) <= kHistoryLimit
      /\ \/ i \in rows
         \/ Cardinality(rows) >= kHistoryLimit /\ \A j \in rows : Before(i, j)
  BY <1>1, <1>5, <1>6, RecentWindow
<1>8. rows # {}
  BY <1>6, <1>7, FS_EmptySet
<1>9. /\ rows \subseteq RowsIn(h.room) /\ rows \subseteq DOMAIN messages /\ rows \subseteq Nat
      /\ \A j \in rows : messages[j].room = h.room
      /\ i \in DOMAIN messages /\ messages[i].room = h.room
  BY <1>1, <1>5 DEF RecentRows, RowsIn
<1>10. todo[c] # <<>> /\ fd[c] \in Fds
  BY HeadPending DEF CallReplay, Calling
<1>11. Returns(c, <<call>>)
  <2>1. \E q \in get_recent_messages(h.room, h.limit) :
          Returns(c, IF q = {} THEN <<Send(fd[c], System("no history"))>>
                     ELSE <<Send(fd[c], History(q, n))>>)
    BY <1>2 DEF CallReplay
  <2>2. get_recent_messages(h.room, h.limit) = {rows}
    BY <1>1 DEF get_recent_messages
  <2>3. QED
    BY <1>3, <1>4, <1>8, <2>1, <2>2
<1>12. call \in Call
  <2>1. frame \in Frame
    BY <1>3, <1>5, <1>9, FrameTypes
  <2>2. QED
    BY <1>4, <1>10, <2>1, CallTypes DEF PlainCall
<1>13. call \in Pending(c)'
  BY <1>10, <1>11, <1>12, PendingSwapped
<1>14. call.op = "send" /\ call.frame = frame /\ frame.type = "History" /\ frame.rows = rows
       /\ frame.upto = n
  BY <1>3, <1>4 DEF Send, History
<1>15. Cardinality(frame.rows) <= FrameRows
  BY <1>6, <1>7, <1>14
<1>16. HistoryCovers(frame, i)
  BY <1>5, <1>7, <1>9, <1>14 DEF HistoryCovers
<1>17. HistoryCovers(frame, i)'
  BY <1>5, <1>16 DEF HistoryCovers, Before
<1>18. QED
  BY <1>13, <1>14, <1>15, <1>17 DEF Replaying

\* What is being replayed goes on being replayed until it is shown.
LEMMA ReplayingKept ==
  ASSUME IInv, IInv', Script, ~StorageFails, kHistoryLimit <= FrameRows, LongTexts = {},
         "History" \in Watched, NEW s \in Conns, StepOf(s), NEW c \in Conns, c \notin lost,
         NEW i \in DOMAIN messages, Replaying(c, i)
  PROVE  Replaying(c, i)' \/ Shown(c, i)'
<1>1. PICK x \in Pending(c) :
        \/ x.op = "replay" /\ x.room = messages[i].room /\ x.limit = kHistoryLimit
        \/ x.op = "send" /\ HistoryCovers(x.frame, i) /\ Cardinality(x.frame.rows) <= FrameRows
  BY DEF Replaying
<1>2. i \in DOMAIN messages' /\ messages'[i] = messages[i]
  BY RowsStay
<1>3. HistoryCovers(x.frame, i) => HistoryCovers(x.frame, i)'
  BY CoverKept
<1>4. CASE x \in Pending(c)'
  BY <1>1, <1>2, <1>3, <1>4 DEF Replaying
<1>5. CASE x \notin Pending(c)'
  <2>1. c = s /\ x = Head(todo[c]) /\ Makes(c, x) /\ Calls(c)
    BY <1>5, StepKeeps
  <2>2. CASE x.op = "replay" /\ x.room = messages[i].room /\ x.limit = kHistoryLimit
    <3>1. CallReplay(c)
      BY <2>1, <2>2, MadeBy
    <3>2. i \in RowsIn(x.room)
      BY <2>2 DEF RowsIn
    <3>3. QED
      BY <2>1, <2>2, <3>1, <3>2, ReplayCovers
  <2>3. CASE x.op = "send" /\ HistoryCovers(x.frame, i) /\ Cardinality(x.frame.rows) <= FrameRows
    <3>1. CallSend(c)
      BY <2>1, <2>3, MadeBy
    <3>2. x.to \in Fds /\ x.frame \in Frame /\ Write(c, x.to, x.frame)
      BY <2>1, <3>1, SendEffect
    <3>3. x.frame.type = "History"
      BY <2>3 DEF HistoryCovers
    <3>4. owner[x.to] = c /\ pc[c] \notin {"none", "done"}
      BY <2>1, <2>3, <3>3 DEF Makes, CallFits
    <3>5. out'[c] = Append(out[c], x.frame)
      <4>1. Kind(x.frame) \in Watched /\ Fits(x.frame)
        BY <2>3, <3>3 DEF Kind, Fits
      <4>2. QED
        BY <3>2, <3>4, <4>1, OwnNotMisled, Written
    <3>6. x.frame \in Got(c)'
      BY <3>2, <3>5, GotMore
    <3>7. QED
      BY <1>3, <2>3, <3>6 DEF Shown
  <2>4. QED
    BY <1>1, <2>2, <2>3
<1>6. QED
  BY <1>4, <1>5

\* Covered is kept for a row that was there and a client that was there.
LEMMA CoveredOld ==
  ASSUME IInv, IInv', Script, ~StorageFails, kHistoryLimit <= FrameRows, LongTexts = {},
         Authored, Covered, {"ChatMsg", "History"} \subseteq Watched, NEW s \in Conns,
         StepOf(s), NEW c \in Conns, pc[c] = "loop", room'[c] = room[c], c \notin lost,
         NEW i \in DOMAIN messages, i \in RowsFor(c)'
  PROVE  \/ Shown(c, i)'
         \/ Reaching(Author(messages[i]), c, ChatMsg(messages[i]))'
         \/ Replaying(c, i)'
<1>1. PICK m : m = messages[i]
  OBVIOUS
<1>2. m = messages'[i] /\ m \in Message
  BY <1>1, RowsStay
<1>3. Author(m) \in Conns /\ Author(m) # c /\ m.room = room[c] /\ i \in RowsFor(c)
  BY <1>1, <1>2 DEF Authored, RowsFor, RowsIn
<1>4. CASE Shown(c, i)
  <2>1. \A frame : HistoryCovers(frame, i) => HistoryCovers(frame, i)'
    BY CoverKept
  <2>2. \A x : x \in Got(c) => x \in Got(c)'
    BY StepKeeps
  <2>3. QED
    BY <1>1, <1>2, <1>4, <2>1, <2>2 DEF Shown
<1>5. CASE Reaching(Author(messages[i]), c, ChatMsg(messages[i]))
  <2>1. PICK a : a = Author(m)
    OBVIOUS
  <2>2. PICK frame : frame = ChatMsg(m)
    OBVIOUS
  <2>3. RoomOf(frame) = room[c] /\ Kind(frame) \in Watched /\ frame.type = "ChatMsg"
        /\ frame.message = m /\ Fits(frame)
    BY <1>3, <2>2 DEF RoomOf, IsNotice, ChatMsg, Kind, Fits
  <2>4. Reaching(a, c, frame) /\ a \in Conns /\ a # c
    BY <1>1, <1>3, <1>5, <2>1, <2>2
  <2>5. Reaching(a, c, frame)' \/ (frame \in Frame /\ out'[c] = Append(out[c], frame))
    BY <2>3, <2>4, ReachingKept
  <2>6. CASE Reaching(a, c, frame)'
    BY <1>2, <2>1, <2>2, <2>6
  <2>7. CASE frame \in Frame /\ out'[c] = Append(out[c], frame)
    <3>1. frame \in Got(c)'
      BY <2>7, GotMore
    <3>2. QED
      BY <1>2, <2>3, <3>1 DEF Shown
  <2>8. QED
    BY <2>5, <2>6, <2>7
<1>6. CASE Replaying(c, i)
  BY <1>6, ReplayingKept
<1>7. QED
  BY <1>3, <1>4, <1>5, <1>6 DEF Covered

\* A row just stored is about to be broadcast by its author.
LEMMA CoveredNew ==
  ASSUME IInv, IInv', Script, ChatFollows, NEW s \in Conns, StepOf(s),
         NEW c \in Conns, NEW i \in DOMAIN messages', i \notin DOMAIN messages,
         i \in RowsFor(c)'
  PROVE  Reaching(Author(messages[i]), c, ChatMsg(messages[i]))'
<1>1. PICK h : h = Head(todo[s])
  OBVIOUS
<1>2. PICK m : m = h.message
  OBVIOUS
<1>3. CallStore(s) /\ todo[s] # <<>> /\ h.op = "store" /\ messages'[i] = m
  BY <1>1, <1>2, RowsStay
<1>4. h \in Pending(s) /\ Author(m) = s
  <2>1. Makes(s, h)
    BY <1>1, <1>3, AtCall
  <2>2. QED
    BY <1>2, <1>3, <2>1 DEF Makes, CallFits
<1>5. m.room \in Rooms
  BY <1>3 DEF RowsFor, RowsIn, IInv, TypeOK
<1>6. PICK y : y = Broadcast(m.room, ChatMsg(m), fd[s])
  OBVIOUS
<1>7. y \in Pending(s)
  BY <1>2, <1>3, <1>4, <1>5, <1>6 DEF ChatFollows, Follows
<1>8. y.op = "broadcast" /\ y.frame = ChatMsg(m)
  BY <1>6 DEF Broadcast
<1>9. y \in Pending(s)'
  <2>1. Drops(s, h) \/ Leaves(s, h, Send(fd[s], NotStored(h.message.content)))
    BY <1>1, <1>3, StoreEffect
  <2>2. QED
    BY <1>3, <1>7, <1>8, <2>1 DEF Drops, Leaves
<1>10. QED
  BY <1>3, <1>4, <1>8, <1>9 DEF Reaching

\* Whoever comes into a room has its replay pending.
LEMMA CoveredArrival ==
  ASSUME IInv, IInv', Script, NEW c \in Conns, Enter(c) \/ CallSetRoom(c),
         NEW i \in RowsFor(c)'
  PROVE  Replaying(c, i)'
<1>1. PICK r : r = room'[c]
  OBVIOUS
<1>2. PICK x : x = Replay(r, kHistoryLimit)
  OBVIOUS
<1>3. x.op = "replay" /\ x.room = r /\ x.limit = kHistoryLimit
  BY <1>2 DEF Replay
<1>4. x \in Pending(c)'
  <2>1. CASE Enter(c)
    <3>1. room'[c] = kDefaultRoom /\ Sets(c, Greeting(c))
      BY <2>1 DEF Enter, Do, Sets, IInv, TypeOK
    <3>2. QED
      BY <1>1, <1>2, <3>1, SetsEffect, ListElements DEF Greeting
  <2>2. CASE CallSetRoom(c)
    <3>1. PICK h : h = Head(todo[c])
      OBVIOUS
    <3>2. room'[c] = h.room /\ Replay(h.room, kHistoryLimit) \in Pending(c)'
      BY <2>2, <3>1, SetRoomEffect
    <3>3. QED
      BY <1>1, <1>2, <3>2
  <2>3. QED
    BY <2>1, <2>2
<1>5. messages'[i].room = r
  BY <1>1 DEF RowsFor, RowsIn
<1>6. QED
  BY <1>3, <1>4, <1>5 DEF Replaying

\* Covered is inductive.
LEMMA CoveredStep ==
  ASSUME IInv, IInv', Script, ~StorageFails, kHistoryLimit <= FrameRows, LongTexts = {},
         {"ChatMsg", "History"} \subseteq Watched, Authored, ChatFollows, Covered,
         [Next]_vars
  PROVE  Covered'
<1>1. CASE Restart
  BY <1>1 DEF Restart, Covered
<1>2. CASE Idle
  <2>1. UNCHANGED <<pc, fd, room, todo, out, messages>>
    BY <1>2 DEF Idle
  <2>2. \A c, i : /\ Shown(c, i)' <=> Shown(c, i)
                  /\ Replaying(c, i)' <=> Replaying(c, i)
    BY <2>1 DEF Shown, Replaying, Got, Pending, HistoryCovers, Before
  <2>3. \A a, c \in Conns : \A frame :
          pc[c] = "loop" /\ Reaching(a, c, frame) => Reaching(a, c, frame)'
    BY <1>2, <2>1 DEF Idle, NoneMisled, Reaching, Pending
  <2>4. \A c : /\ RowsFor(c)' = RowsFor(c)
               /\ \A i \in RowsFor(c) : i \in DOMAIN messages
    BY <2>1 DEF RowsFor, RowsIn
  <2>5. ASSUME NEW c \in Conns, pc'[c] = "loop", c \notin lost', NEW i \in RowsFor(c)'
        PROVE  \/ Shown(c, i)'
               \/ Reaching(Author(messages[i]), c, ChatMsg(messages[i]))'
               \/ Replaying(c, i)'
    <3>1. pc[c] = "loop" /\ c \notin lost /\ i \in RowsFor(c) /\ i \in DOMAIN messages
      BY <1>2, <2>1, <2>4, <2>5 DEF Idle
    <3>2. PICK m : m = messages[i] /\ m = messages'[i] /\ Author(m) \in Conns
      BY <2>1, <3>1 DEF Authored
    <3>3. Shown(c, i) \/ Reaching(Author(m), c, ChatMsg(m)) \/ Replaying(c, i)
      BY <3>1, <3>2 DEF Covered
    <3>4. Reaching(Author(m), c, ChatMsg(m)) => Reaching(Author(m), c, ChatMsg(m))'
      BY <2>3, <3>1, <3>2
    <3>5. QED
      BY <2>2, <3>2, <3>3, <3>4
  <2>6. QED
    BY <2>5 DEF Covered
<1>3. ASSUME NEW s \in Conns, StepOf(s), NEW c \in Conns, pc'[c] = "loop", c \notin lost',
             NEW i \in RowsFor(c)'
      PROVE  \/ Shown(c, i)'
             \/ Reaching(Author(messages[i]), c, ChatMsg(messages[i]))'
             \/ Replaying(c, i)'
  <2>1. i \in DOMAIN messages'
    BY <1>3 DEF RowsFor, RowsIn
  <2>2. CASE c = s /\ (Enter(c) \/ CallSetRoom(c))
    BY <1>3, <2>2, CoveredArrival
  <2>3. CASE c # s \/ ~(Enter(c) \/ CallSetRoom(c))
    <3>1. pc[c] = "loop" /\ room'[c] = room[c]
      <4>1. CASE c # s
        BY <1>3, <4>1, StepKeeps
      <4>2. CASE c = s
        BY <1>3, <2>3, <4>2, StaysPut
      <4>3. QED
        BY <4>1, <4>2
    <3>2. CASE i \in DOMAIN messages
      <4>1. c \notin lost
        BY <1>3, NetSteps
      <4>2. QED
        BY <1>3, <3>1, <3>2, <4>1, CoveredOld
    <3>3. CASE i \notin DOMAIN messages
      BY <1>3, <2>1, <3>3, CoveredNew
    <3>4. QED
      BY <3>2, <3>3
  <2>4. QED
    BY <2>2, <2>3
<1>4. QED
  <2>1. (\E s \in Conns : StepOf(s)) => Covered'
    BY <1>3 DEF Covered
  <2>2. QED
    BY <1>1, <1>2, <2>1, Steps

\* With no call pending a row is shown, on its way or before the window.
LEMMA CoveredSettled ==
  ASSUME IInv, Covered
  PROVE  NoMissedMessage
<1>1. SUFFICES ASSUME NEW c \in Settled, NEW i \in RowsFor(c)
               PROVE  Seen(c, i) \/ OnItsWay(messages[i], c) \/ BeyondWindow(c, i)
  BY DEF NoMissedMessage
<1>2. c \in Conns /\ pc[c] = "loop" /\ c \notin lost /\ Pending(c) = {}
  BY NonePending DEF Settled
<1>3. Shown(c, i) \/ Reaching(Author(messages[i]), c, ChatMsg(messages[i]))
  BY <1>2 DEF Covered, Replaying
<1>4. Shown(c, i) => Seen(c, i) \/ BeyondWindow(c, i)
  BY DEF Shown, HistoryCovers, Seen, BeyondWindow
<1>5. Reaching(Author(messages[i]), c, ChatMsg(messages[i])) => OnItsWay(messages[i], c)
  BY DEF Reaching, OnItsWay
<1>6. QED
  BY <1>3, <1>4, <1>5

\* Nobody in a room whose connection stands misses a message of it, however many clients chat, switch
\* rooms and come and go, and whatever the clock does: Chat stores before it
\* broadcasts and a joiner is registered before it replays, so each row is in the
\* replay or the joiner among the recipients.  It supposes what a replay cannot
\* do without: the statements do not fail, and every message and a full window fit
\* one frame.
THEOREM EveryMessageShown ==
  ASSUME ~StorageFails, kHistoryLimit <= FrameRows, LongTexts = {}, RoomsAreNoKeys,
         {"ChatMsg", "History"} \subseteq Watched
  PROVE  Spec => []NoMissedMessage
<1>1. Init => Authored /\ ChatFollows /\ Covered
  <2>1. ASSUME Init
        PROVE  Authored /\ ChatFollows /\ Covered
    <3>1. /\ messages = <<>> /\ \A c \in Conns : pc[c] = "none" /\ Pending(c) = {}
      BY <2>1 DEF Init, Pending
    <3>2. QED
      BY <3>1 DEF Authored, ChatFollows, Covered
  <2>2. QED
    BY <2>1
<1>2. IInv /\ IInv' /\ Script /\ Ordered /\ Authored /\ ChatFollows /\ Covered /\ [Next]_vars
        => Authored' /\ ChatFollows' /\ Covered'
  BY AuthoredStep, ChatFollowsStep, CoveredStep
<1>3. IInv /\ Covered => NoMissedMessage
  BY CoveredSettled
<1>4. QED
  BY <1>1, <1>2, <1>3, OrderInvariant, PTL DEF Spec
=============================================================================

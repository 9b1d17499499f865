-------------------------- MODULE ChatClientProofs --------------------------
(***************************************************************************)
(* The safety of the client's two threads, for every set of names and      *)
(* rooms, every number of lines typed and of frames received.              *)
(*                                                                         *)
(* Everything the server has sent and receive_thread has not handled is    *)
(* one sequence, Coming: the batch at hand, then the connection.  Before a *)
(* login is accepted there is one token, which is in one place only: main  *)
(* that has not sent, the request on its way, the AuthFail that answers    *)
(* it, or g_auth_failed.  That is why an old refusal cannot answer a new   *)
(* attempt.  An AuthOk is sent once, and g_authenticated is set when it    *)
(* has been taken off Coming, its name and room assigned.                  *)
(***************************************************************************)
EXTENDS ChatClient, SequenceTheorems, TLAPS

Frame ==
  [type : {"AuthOk"}, username : Users, room : Rooms]
  \cup [type : {"Joined"}, room : Rooms]
  \cup [type : {"AuthFail", "Text"}]

Requests ==
  [type : {"Login"}, username : Users] \cup [type : {"Join"}, room : Rooms]
  \cup [type : {"Command", "Quit"}]

\* What receive_thread has still to handle.
Coming == frames \o toClient

\* Main before it has sent credentials, in its chat loop, and before it ends.
Unsent  == {"connect", "connected", "start", "menu"}
Chat    == {"loop", "prompt", "input"}
Live    == {"start", "menu", "wait", "answered", "ending"} \cup Chat

Assigning == {"set name", "set room", "set flag"}

MainPlaces == {"connect", "connected", "shut", "close", "join", "exited"} \cup Live
Places     == {"none", "loop", "recv", "frames", "set joined", "ended"} \cup Assigning
Prompts    == [room : Rooms \cup {Empty, Torn}, user : Users \cup {Empty, Torn},
               drawn : BOOLEAN]
Sessions   == [at : {"auth", "entering", "loop", "closed"},
               user : Users \cup {Empty}, room : Rooms]

TypeOK ==
  /\ main \in MainPlaces
  /\ g_username \in Users \cup {Empty}
  /\ g_room \in Rooms \cup {Empty}
  /\ prompt \in Prompts
  /\ sock \in {"open", "shut", "closed"}
  /\ receiver \in Places
  /\ frames \in Seq(Frame) /\ toClient \in Seq(Frame) /\ toServer \in Seq(Requests)
  /\ session \in Sessions

\* The order of connecting and ending.
ThreadsOK ==
  /\ main \in {"connect", "connected", "start"} => receiver = "none" /\ ~told
  /\ g_connected => main \in Live
  /\ main \in Live \cup {"connected"} => sock = "open"
  /\ receiver \in {"none", "loop", "recv", "ended"} => frames = <<>>

\* The string assignments of receive_thread.
AssigningOK ==
  /\ receiver \in Assigning => frames # <<>> /\ Head(frames).type = "AuthOk"
  /\ receiver \in {"set room", "set flag"} => g_username = Head(frames).username
  /\ receiver = "set flag" => g_room = Head(frames).room
  /\ receiver = "set joined" => frames # <<>> /\ Head(frames).type = "Joined"

\* The token of the login, where it is not in Coming.
LoginOK ==
  /\ session.at = "auth" => session.user = Empty
  /\ session.at \in {"entering", "loop"} => session.user # Empty
  /\ main \in Unsent => /\ session.user = Empty /\ toServer = <<>>
                        /\ ~g_auth_failed
  /\ g_auth_failed => session.user = Empty /\ toServer = <<>>
  /\ session.user = Empty =>
       /\ Len(toServer) <= 1
       /\ \A i \in 1..Len(toServer) : toServer[i].type = "Login"
  /\ g_authenticated => /\ session.user # Empty
                        /\ session.at \notin {"auth", "entering"}
                        /\ g_username = session.user /\ g_room \in Rooms
  /\ main \in Chat => g_authenticated

PromptOK == prompt.drawn => /\ prompt.user = session.user
                            /\ session.user # Empty
                            /\ prompt.room # Empty

\* A sequence of frames: one refusal at most, as long as nobody is logged in,
\* and one AuthOk at most, with the name on record.
ComingOK(p) ==
  /\ \A i \in 1..Len(p) : p[i].type = "AuthFail" =>
       /\ session.user = Empty /\ toServer = <<>>
       /\ ~g_auth_failed /\ main \notin Unsent
  /\ \A i \in 1..Len(p) : p[i].type = "AuthOk" =>
       /\ session.at \notin {"auth", "entering"}
       /\ p[i].username = session.user /\ session.user # Empty
       /\ ~g_authenticated
  /\ \A i, j \in 1..Len(p) :
       p[i].type \in {"AuthFail", "AuthOk"} /\ p[i].type = p[j].type => i = j

\* The frame that tells the client its room.
Announces(m) == m.type \in {"AuthOk", "Joined"}

\* The last room announced, or g_room if none is coming, is the server's.
RoomFollows(p) ==
  \/ \E i \in 1..Len(p) :
       /\ Announces(p[i]) /\ p[i].room = session.room
       /\ \A j \in 1..Len(p) : j > i => ~Announces(p[j])
  \/ /\ \A j \in 1..Len(p) : ~Announces(p[j])
     /\ g_room = session.room

\* receive_thread will handle nothing more.
Deaf == receiver = "ended" \/ (receiver = "loop" /\ ~g_connected)

RoomOK == session.at = "loop" /\ ~Deaf => RoomFollows(Coming)

IInv == /\ TypeOK /\ ThreadsOK /\ AssigningOK /\ LoginOK /\ PromptOK
        /\ ComingOK(Coming) /\ RoomOK /\ NoFalseAlarm

-----------------------------------------------------------------------------
(***************************************************************************)
(* Sequences.                                                              *)
(***************************************************************************)
\* What Tail leaves, ...
LEMMA TailFacts ==
  ASSUME NEW S, NEW a \in Seq(S), a # <<>>
  PROVE  /\ Tail(a) \in Seq(S) /\ Len(a) \in Nat /\ 1 \in 1..Len(a)
         /\ Head(a) \in S /\ a[1] = Head(a)
         /\ Len(Tail(a)) = Len(a) - 1
         /\ \A i \in 1..Len(Tail(a)) : i + 1 \in 1..Len(a) /\ Tail(a)[i] = a[i + 1]
<1>1. /\ Tail(a) \in Seq(S) /\ Len(a) \in Nat /\ Len(Tail(a)) = Len(a) - 1
      /\ Len(a) > 0
  OBVIOUS
<1>2. QED
  BY <1>1

\* ... what Append keeps and adds, ...
LEMMA AppendFacts ==
  ASSUME NEW S, NEW a \in Seq(S), NEW m \in S
  PROVE  /\ Append(a, m) \in Seq(S) /\ Len(a) \in Nat
         /\ Len(Append(a, m)) = Len(a) + 1
         /\ Append(a, m)[Len(a) + 1] = m
         /\ \A i \in 1..Len(a) : Append(a, m)[i] = a[i]
  OBVIOUS

\* ... and the second part of two.
LEMMA ConcatFacts ==
  ASSUME NEW S, NEW a \in Seq(S), NEW b \in Seq(S)
  PROVE  /\ a \o b \in Seq(S) /\ Len(a) \in Nat /\ Len(b) \in Nat
         /\ Len(a \o b) = Len(a) + Len(b)
         /\ \A i \in 1..Len(b) : /\ i + Len(a) \in 1..Len(a \o b)
                                 /\ (a \o b)[i + Len(a)] = b[i]
<1>1. /\ a \o b \in Seq(S) /\ Len(a) \in Nat /\ Len(b) \in Nat
      /\ Len(a \o b) = Len(a) + Len(b)
  OBVIOUS
<1>2. QED
  BY <1>1

\* The head and the tail of two parts are those of the first.
LEMMA ConcatTail ==
  ASSUME NEW S, NEW a \in Seq(S), NEW b \in Seq(S), a # <<>>
  PROVE  a \o b # <<>> /\ Head(a \o b) = Head(a) /\ Tail(a) \o b = Tail(a \o b)
<1>1. Len(a) \in Nat /\ Len(b) \in Nat /\ Len(a) > 0
  OBVIOUS
<1>2. Tail(a) \in Seq(S) /\ Len(Tail(a)) = Len(a) - 1
  OBVIOUS
<1>3. Len(Tail(a) \o b) = Len(a) + Len(b) - 1 /\ Tail(a) \o b \in Seq(S)
  BY <1>1, <1>2
<1>4. a \o b \in Seq(S) /\ Len(a \o b) = Len(a) + Len(b) /\ a \o b # <<>>
  BY <1>1
<1>5. Tail(a \o b) \in Seq(S) /\ Len(Tail(a \o b)) = Len(a) + Len(b) - 1
  BY <1>1, <1>4
<1>6. ASSUME NEW i \in 1..(Len(a) + Len(b) - 1)
      PROVE  (Tail(a) \o b)[i] = Tail(a \o b)[i]
  BY <1>1, <1>2, <1>3, <1>4, <1>5
<1>7. Tail(a) \o b = Tail(a \o b)
  BY <1>3, <1>5, <1>6, SeqEqual
<1>8. (a \o b)[1] = a[1]
  BY <1>1
<1>9. QED
  BY <1>1, <1>4, <1>7, <1>8

\* What is appended to the second part is appended to both.
LEMMA ConcatAppend ==
  ASSUME NEW S, NEW a \in Seq(S), NEW b \in Seq(S), NEW m \in S
  PROVE  a \o Append(b, m) = Append(a \o b, m)
  OBVIOUS

-----------------------------------------------------------------------------
(***************************************************************************)
(* What is coming.                                                         *)
(***************************************************************************)
\* It is well-typed.
LEMMA ComingTyped ==
  ASSUME TypeOK
  PROVE  Coming \in Seq(Frame) /\ Len(Coming) \in Nat
  BY ConcatFacts DEF TypeOK, Coming

\* Handling the head of the batch takes off the first.
LEMMA ComingPopped ==
  ASSUME TypeOK, frames # <<>>, frames' = Tail(frames), toClient' = toClient
  PROVE  Coming # <<>> /\ Head(Coming) = Head(frames) /\ Coming' = Tail(Coming)
  BY ConcatTail DEF TypeOK, Coming

\* A frame the server sends comes last.
LEMMA ComingPushed ==
  ASSUME TypeOK, NEW m \in Frame, toClient' = Append(toClient, m), frames' = frames
  PROVE  Coming' = Append(Coming, m)
<1>1. frames \in Seq(Frame) /\ toClient \in Seq(Frame)
  BY DEF TypeOK
<1>2. frames \o Append(toClient, m) = Append(frames \o toClient, m)
  BY <1>1, ConcatAppend
<1>3. QED
  BY <1>2 DEF Coming

\* A later part of a good sequence is good, if the state allows what is left.
LEMMA PartOK ==
  ASSUME NEW p, NEW q, NEW k \in Nat, Len(p) \in Nat, Len(q) \in Nat,
         \A i \in 1..Len(q) : i + k \in 1..Len(p) /\ q[i] = p[i + k],
         ComingOK(p), session'.user = session.user,
         session'.at \in {"auth", "entering"} => session.at \in {"auth", "entering"},
         \/ \A i \in 1..Len(q) : q[i].type # "AuthOk"
         \/ g_authenticated' = g_authenticated,
         \/ \A i \in 1..Len(q) : q[i].type # "AuthFail"
         \/ /\ UNCHANGED <<toServer, g_auth_failed>>
            /\ main' \in Unsent => main \in Unsent
  PROVE  ComingOK(q)'
<1>1. ASSUME NEW i \in 1..Len(q), q[i].type = "AuthFail"
      PROVE  /\ session'.user = Empty /\ toServer' = <<>>
             /\ ~g_auth_failed' /\ main' \notin Unsent
  BY <1>1 DEF ComingOK
<1>2. ASSUME NEW i \in 1..Len(q), q[i].type = "AuthOk"
      PROVE  /\ session'.at \notin {"auth", "entering"}
             /\ q[i].username = session'.user /\ session'.user # Empty
             /\ ~g_authenticated'
  BY <1>2 DEF ComingOK
<1>3. ASSUME NEW i \in 1..Len(q), NEW j \in 1..Len(q),
             q[i].type \in {"AuthFail", "AuthOk"}, q[i].type = q[j].type
      PROVE  i = j
  <2>1. i + k = j + k
    BY <1>3 DEF ComingOK
  <2>2. QED
    BY <2>1
<1>4. QED
  BY <1>1, <1>2, <1>3 DEF ComingOK, Unsent

\* A good sequence with one more frame is good, if the frame suits the state.
LEMMA LongerOK ==
  ASSUME NEW p, NEW q, Len(p) \in Nat, Len(q) = Len(p) + 1,
         NEW m, q[Len(p) + 1] = m, \A i \in 1..Len(p) : q[i] = p[i],
         ComingOK(p)',
         m.type = "AuthFail" =>
           /\ \A i \in 1..Len(p) : p[i].type # "AuthFail"
           /\ session'.user = Empty /\ toServer' = <<>>
           /\ ~g_auth_failed' /\ main' \notin Unsent,
         m.type = "AuthOk" =>
           /\ \A i \in 1..Len(p) : p[i].type # "AuthOk"
           /\ session'.at \notin {"auth", "entering"}
           /\ m.username = session'.user /\ session'.user # Empty
           /\ ~g_authenticated'
  PROVE  ComingOK(q)'
<1>1. \A i \in 1..Len(q) : \/ i \in 1..Len(p) /\ q[i] = p[i]
                           \/ i = Len(p) + 1 /\ q[i] = m
  OBVIOUS
<1>2. ASSUME NEW i \in 1..Len(q), q[i].type = "AuthFail"
      PROVE  /\ session'.user = Empty /\ toServer' = <<>>
             /\ ~g_auth_failed' /\ main' \notin Unsent
  BY <1>1, <1>2 DEF ComingOK, Unsent
<1>3. ASSUME NEW i \in 1..Len(q), q[i].type = "AuthOk"
      PROVE  /\ session'.at \notin {"auth", "entering"}
             /\ q[i].username = session'.user /\ session'.user # Empty
             /\ ~g_authenticated'
  BY <1>1, <1>3 DEF ComingOK
<1>4. ASSUME NEW i \in 1..Len(q), NEW j \in 1..Len(q),
             q[i].type \in {"AuthFail", "AuthOk"}, q[i].type = q[j].type
      PROVE  i = j
  BY <1>1, <1>4 DEF ComingOK
<1>5. QED
  BY <1>2, <1>3, <1>4 DEF ComingOK, Unsent

\* Handling a frame keeps the room: an announcement is assigned to g_room.
LEMMA RoomPopped ==
  ASSUME NEW p \in Seq(Frame), p # <<>>, NEW q, q = Tail(p),
         RoomFollows(p), session'.room = session.room,
         g_room' = IF Announces(Head(p)) THEN Head(p).room ELSE g_room
  PROVE  RoomFollows(q)'
<1>1. /\ Len(p) \in Nat /\ 1 \in 1..Len(p) /\ p[1] = Head(p)
      /\ Len(q) = Len(p) - 1
      /\ \A i \in 1..Len(q) : i + 1 \in 1..Len(p) /\ q[i] = p[i + 1]
  BY TailFacts
<1>2. \A j \in 1..Len(p) : j # 1 => j - 1 \in 1..Len(q) /\ q[j - 1] = p[j]
  <2> SUFFICES ASSUME NEW j \in 1..Len(p), j # 1
               PROVE  j - 1 \in 1..Len(q) /\ q[j - 1] = p[j]
    OBVIOUS
  <2>1. j - 1 \in 1..Len(q) /\ (j - 1) + 1 = j
    BY <1>1
  <2>2. QED
    BY <2>1, <1>1
<1>3. CASE \A j \in 1..Len(p) : ~Announces(p[j])
  <2>1. g_room = session.room
    BY <1>3 DEF RoomFollows
  <2>2. g_room' = session'.room
    BY <2>1, <1>1, <1>3
  <2>3. \A j \in 1..Len(q) : ~Announces(q[j])
    BY <1>1, <1>3
  <2>4. QED
    BY <2>2, <2>3 DEF RoomFollows, Announces
<1>4. ASSUME NEW i \in 1..Len(p), Announces(p[i]), p[i].room = session.room,
             \A j \in 1..Len(p) : j > i => ~Announces(p[j])
      PROVE  RoomFollows(q)'
  <2>1. CASE i = 1
    <3>1. g_room' = session'.room
      BY <2>1, <1>1, <1>4
    <3>2. \A j \in 1..Len(q) : ~Announces(q[j])
      BY <2>1, <1>1, <1>4
    <3>3. QED
      BY <3>1, <3>2 DEF RoomFollows, Announces
  <2>2. CASE i # 1
    <3>1. i - 1 \in 1..Len(q) /\ Announces(q[i - 1]) /\ q[i - 1].room = session'.room
      BY <2>2, <1>2, <1>4
    <3>2. \A j \in 1..Len(q) : j > i - 1 => ~Announces(q[j])
      BY <1>1, <1>4
    <3>3. QED
      BY <3>1, <3>2 DEF RoomFollows, Announces
  <2>3. QED
    BY <2>1, <2>2
<1>5. QED
  BY <1>3, <1>4 DEF RoomFollows

\* A frame the server sends keeps it: an announcement is of the server's room.
LEMMA RoomPushed ==
  ASSUME NEW p \in Seq(Frame), NEW m \in Frame, NEW q, q = Append(p, m),
         Announces(m) => m.room = session'.room,
         ~Announces(m) => RoomFollows(p) /\ session'.room = session.room,
         g_room' = g_room
  PROVE  RoomFollows(q)'
<1>1. /\ Len(p) \in Nat /\ Len(q) = Len(p) + 1 /\ q[Len(p) + 1] = m
      /\ \A i \in 1..Len(p) : q[i] = p[i]
  BY AppendFacts
<1>2. \A i \in 1..Len(q) : i \in 1..Len(p) \/ i = Len(p) + 1
  BY <1>1
<1>3. CASE Announces(m)
  <2>1. /\ Len(p) + 1 \in 1..Len(q) /\ Announces(q[Len(p) + 1])
        /\ q[Len(p) + 1].room = session'.room
        /\ \A j \in 1..Len(q) : j > Len(p) + 1 => ~Announces(q[j])
    BY <1>1, <1>3
  <2>2. QED
    BY <2>1 DEF RoomFollows, Announces
<1>4. CASE ~Announces(m)
  <2>1. CASE \A j \in 1..Len(p) : ~Announces(p[j])
    <3>1. g_room' = session'.room
      BY <2>1, <1>4 DEF RoomFollows
    <3>2. \A j \in 1..Len(q) : ~Announces(q[j])
      BY <2>1, <1>1, <1>2, <1>4
    <3>3. QED
      BY <3>1, <3>2 DEF RoomFollows, Announces
  <2>2. ASSUME NEW i \in 1..Len(p), Announces(p[i]), p[i].room = session.room,
               \A j \in 1..Len(p) : j > i => ~Announces(p[j])
        PROVE  RoomFollows(q)'
    <3>1. i \in 1..Len(q) /\ Announces(q[i]) /\ q[i].room = session'.room
      BY <2>2, <1>1, <1>4
    <3>2. \A j \in 1..Len(q) : j > i => ~Announces(q[j])
      BY <2>2, <1>1, <1>2, <1>4
    <3>3. QED
      BY <3>1, <3>2 DEF RoomFollows, Announces
  <2>3. QED
    BY <1>4, <2>1, <2>2 DEF RoomFollows
<1>5. QED
  BY <1>3, <1>4

-----------------------------------------------------------------------------
(***************************************************************************)
(* The invariant holds at the start.                                       *)
(***************************************************************************)
\* Nothing is coming, and nobody is logged in.
LEMMA InitIInv == Init => IInv
<1> SUFFICES ASSUME Init PROVE IInv
  OBVIOUS
<1>1. <<>> \in Seq(Frame) /\ <<>> \in Seq(Requests) /\ Len(<<>>) = 0
  OBVIOUS
<1>3. TypeOK
  BY <1>1, ClientAssumption DEF Init, TypeOK, MainPlaces, Places, Prompts, Sessions
<1>4. ThreadsOK /\ AssigningOK /\ PromptOK /\ NoFalseAlarm /\ RoomOK
  BY DEF Init, ThreadsOK, AssigningOK, PromptOK, NoFalseAlarm, RoomOK, Live, Chat,
         Assigning
<1>5. LoginOK
  BY <1>1 DEF Init, LoginOK, Unsent, Chat
<1>6. ComingOK(Coming)
  <2>1. Coming = <<>>
    BY <1>1, ConcatEmptySeq DEF Init, Coming
  <2>2. QED
    BY <1>1, <2>1 DEF ComingOK
<1>7. QED
  BY <1>3, <1>4, <1>5, <1>6 DEF IInv

-----------------------------------------------------------------------------
(***************************************************************************)
(* The steps of main.                                                      *)
(***************************************************************************)
\* Main takes nothing off what is coming.
LEMMA ComingKept ==
  ASSUME IInv, UNCHANGED <<frames, toClient>>,
         session'.user = session.user,
         session'.at \in {"auth", "entering"} => session.at \in {"auth", "entering"},
         g_authenticated' = g_authenticated,
         \/ \A i \in 1..Len(Coming) : Coming[i].type # "AuthFail"
         \/ /\ UNCHANGED <<toServer, g_auth_failed>>
            /\ main' \in Unsent => main \in Unsent
  PROVE  ComingOK(Coming)'
<1>1. PICK p : p = Coming
  OBVIOUS
<1>2. p \in Seq(Frame) /\ Len(p) \in Nat /\ ComingOK(p) /\ Coming' = p
  BY <1>1, ComingTyped DEF IInv, Coming
<1>3. \A i \in 1..Len(p) : i + 0 \in 1..Len(p) /\ p[i] = p[i + 0]
  BY <1>2
<1>4. ComingOK(p)'
  BY <1>1, <1>2, <1>3, PartOK
<1>5. QED
  BY <1>2, <1>4 DEF ComingOK

\* Before main has sent anything no refusal is coming.
LEMMA UnsentMeansNone ==
  ASSUME IInv, main \in Unsent
  PROVE  \A i \in 1..Len(Coming) : Coming[i].type # "AuthFail"
  BY DEF IInv, ComingOK

\* Main does not touch the rooms.
LEMMA RoomKept ==
  ASSUME IInv, UNCHANGED <<frames, toClient, session, g_room, receiver>>,
         g_connected' => g_connected
  PROVE  RoomOK'
<1>1. Coming' = Coming
  BY DEF Coming
<1>2. Deaf => Deaf'
  BY DEF Deaf
<1>3. QED
  BY <1>1, <1>2 DEF IInv, RoomOK, RoomFollows

\* A step that only moves main.
LEMMA MainMoves ==
  ASSUME IInv, UNCHANGED <<flags, strings, prompt, sock, threadVars>>,
         UNCHANGED <<session, toServer, toClient>>,
         \/ main' = main
         \/ /\ main' \in {"wait", "answered", "exited"} \cup Chat \cup {"ending"}
            /\ main \in Live \cup {"join", "connect"}
            /\ main \notin Live => main' = "exited"
            /\ main' \in Chat => g_authenticated
            /\ main' = "exited" => main \notin Live
  PROVE  IInv'
<1>1. /\ UNCHANGED <<g_connected, g_authenticated, g_auth_failed, told>>
      /\ UNCHANGED <<g_username, g_room, prompt, sock, receiver, frames>>
      /\ UNCHANGED <<session, toServer, toClient>>
  BY DEF flags, strings, threadVars
<1>2. TypeOK'
  BY <1>1 DEF IInv, TypeOK, MainPlaces, Live, Chat
<1>3. ThreadsOK' /\ AssigningOK' /\ PromptOK' /\ NoFalseAlarm'
  BY <1>1 DEF IInv, ThreadsOK, AssigningOK, PromptOK, NoFalseAlarm, Live, Chat
<1>4. LoginOK'
  BY <1>1 DEF IInv, LoginOK, Unsent, Chat
<1>5. main' \in Unsent => main \in Unsent
  BY DEF Unsent, Chat
<1>6. ComingOK(Coming)'
  BY <1>1, <1>5, ComingKept
<1>7. RoomOK'
  BY <1>1, RoomKept
<1>8. QED
  BY <1>2, <1>3, <1>4, <1>6, <1>7 DEF IInv

\* connect().
LEMMA ConnectStep ==
  ASSUME IInv, Connect
  PROVE  IInv'
<1>1. CASE main' = "exited" /\ UNCHANGED <<sock, session>>
  BY <1>1, MainMoves DEF Connect, threadVars, Live, Chat
<1>2. CASE /\ main' = "connected" /\ sock' = "open"
           /\ session' = [session EXCEPT !.at = "auth"]
  <2>1. /\ main = "connect"
        /\ UNCHANGED <<g_connected, g_authenticated, g_auth_failed, told>>
        /\ UNCHANGED <<g_username, g_room, prompt, receiver, frames>>
        /\ UNCHANGED <<toServer, toClient>>
    BY DEF Connect, flags, strings, threadVars
  <2>2. /\ session' \in Sessions
        /\ session'.at = "auth" /\ session'.user = Empty
        /\ session.user = Empty
    BY <1>2, <2>1 DEF IInv, TypeOK, Sessions, LoginOK, Unsent
  <2>3. receiver = "none" /\ ~told /\ ~g_connected
    BY <2>1 DEF IInv, ThreadsOK, Live, Chat
  <2>4. TypeOK'
    BY <1>2, <2>1, <2>2 DEF IInv, TypeOK, MainPlaces
  <2>5. ThreadsOK' /\ AssigningOK' /\ NoFalseAlarm'
    BY <1>2, <2>1, <2>3
       DEF IInv, ThreadsOK, AssigningOK, NoFalseAlarm, Live, Chat, Assigning
  <2>6. ~g_authenticated /\ ~prompt.drawn
    BY <2>2 DEF IInv, LoginOK, PromptOK
  <2>7. PromptOK'
    BY <2>1, <2>6 DEF PromptOK
  <2>8. LoginOK'
    BY <1>2, <2>1, <2>2, <2>6 DEF IInv, LoginOK, Unsent, Chat
  <2>9. ComingOK(Coming)'
    <3>1. PICK p : p = Coming
      OBVIOUS
    <3>2. p \in Seq(Frame) /\ Len(p) \in Nat /\ ComingOK(p) /\ Coming' = p
      BY <2>1, <3>1, ComingTyped DEF IInv, Coming
    <3>3. \A i \in 1..Len(p) : p[i].type \notin {"AuthFail", "AuthOk"}
      BY <2>1, <2>2, <3>2 DEF ComingOK, Unsent
    <3>4. ComingOK(p)'
      BY <3>3 DEF ComingOK
    <3>5. QED
      BY <3>2, <3>4 DEF ComingOK
  <2>10. RoomOK'
    BY <2>2 DEF RoomOK
  <2>11. QED
    BY <2>4, <2>5, <2>7, <2>8, <2>9, <2>10 DEF IInv
<1>3. QED
  BY <1>1, <1>2 DEF Connect

\* g_connected = true, and the thread starts.
LEMMA StartStep ==
  ASSUME IInv, Start
  PROVE  IInv'
<1>1. /\ UNCHANGED <<g_authenticated, g_auth_failed, g_username, g_room, prompt>>
      /\ UNCHANGED <<sock, frames, told, session, toServer, toClient>>
      /\ main \in {"connected", "start"} /\ main' \in {"start", "menu"}
  BY DEF Start, flags, outcome, strings, threadVars, net, serverVars
<1>2. \/ main' = "start" /\ g_connected' = TRUE /\ receiver' = receiver
      \/ main' = "menu" /\ g_connected' = g_connected /\ receiver' = "loop"
  BY DEF Start, flags, threadVars
<1>3. receiver = "none" /\ frames = <<>> /\ ~told /\ sock = "open"
      /\ session.user = Empty
  BY <1>1 DEF IInv, ThreadsOK, LoginOK, Unsent, Live
<1>4. TypeOK'
  BY <1>1, <1>2 DEF IInv, TypeOK, MainPlaces, Live, Places
<1>5. ThreadsOK' /\ AssigningOK'
  BY <1>1, <1>2, <1>3 DEF IInv, ThreadsOK, AssigningOK, Live, Assigning
<1>6. LoginOK' /\ PromptOK' /\ NoFalseAlarm'
  BY <1>1, <1>3 DEF IInv, LoginOK, PromptOK, NoFalseAlarm, Unsent, Chat
<1>7. ComingOK(Coming)'
  <2>1. main \in Unsent
    BY <1>1 DEF Unsent
  <2>2. QED
    BY <1>1, <2>1, ComingKept, UnsentMeansNone
<1>8. RoomOK'
  <2>1. session'.at # "loop"
    BY <1>1, <1>3 DEF IInv, LoginOK
  <2>2. QED
    BY <2>1 DEF RoomOK
<1>9. QED
  BY <1>4, <1>5, <1>6, <1>7, <1>8 DEF IInv

\* The credentials are sent, or the send fails.
LEMMA MenuSentStep ==
  ASSUME IInv, NEW u \in Users, MenuSent(u)
  PROVE  IInv'
<1>1. /\ UNCHANGED <<g_connected, g_authenticated, g_auth_failed, g_username>>
      /\ UNCHANGED <<g_room, prompt, sock, receiver, frames, told, session>>
      /\ UNCHANGED toClient
      /\ main = "menu" /\ main' \in {"wait", "ending"}
      /\ toServer' = Append(toServer, Credentials(u)) \/ toServer' = toServer
  BY DEF MenuSent, Typed, Send, flags, strings, threadVars, serverVars
<1>2. /\ toServer = <<>> /\ session.user = Empty /\ ~g_auth_failed
  BY <1>1 DEF IInv, LoginOK, Unsent
<1>3. toServer' = <<>> \/ toServer' = <<Credentials(u)>>
  BY <1>1, <1>2
<1>4. /\ toServer' \in Seq(Requests) /\ Len(toServer') <= 1
      /\ \A i \in 1..Len(toServer') : toServer'[i].type = "Login"
  <2>1. Credentials(u) \in Requests /\ Credentials(u).type = "Login"
    BY DEF Credentials, Requests
  <2>2. CASE toServer' = <<>>
    BY <2>2
  <2>3. CASE toServer' = <<Credentials(u)>>
    <3>1. Len(toServer') = 1 /\ toServer'[1] = Credentials(u)
      BY <2>3
    <3>2. toServer' \in Seq(Requests)
      BY <2>1, <2>3
    <3>3. QED
      BY <2>1, <3>1, <3>2
  <2>4. QED
    BY <1>3, <2>2, <2>3
<1>5. TypeOK'
  BY <1>1, <1>4 DEF IInv, TypeOK, MainPlaces, Live
<1>6. ThreadsOK' /\ AssigningOK' /\ PromptOK' /\ NoFalseAlarm'
  BY <1>1 DEF IInv, ThreadsOK, AssigningOK, PromptOK, NoFalseAlarm, Live
<1>7. LoginOK'
  BY <1>1, <1>2, <1>4 DEF IInv, LoginOK, Unsent, Chat
<1>8. ComingOK(Coming)'
  <2>1. main \in Unsent
    BY <1>1 DEF Unsent
  <2>2. QED
    BY <1>1, <2>1, ComingKept, UnsentMeansNone
<1>9. RoomOK'
  BY <1>1, RoomKept
<1>10. QED
  BY <1>5, <1>6, <1>7, <1>8, <1>9 DEF IInv

\* Back to the menu: g_auth_failed was the token.
LEMMA RetryStep ==
  ASSUME IInv, Retry
  PROVE  IInv'
<1>1. /\ UNCHANGED <<g_connected, g_authenticated, g_username, g_room, prompt>>
      /\ UNCHANGED <<sock, receiver, frames, told, session, toServer, toClient>>
      /\ main = "answered" /\ main' = "menu" /\ g_auth_failed
      /\ g_auth_failed' = FALSE
  BY DEF Retry, strings, threadVars, net, serverVars
<1>2. toServer = <<>> /\ session.user = Empty
  BY <1>1 DEF IInv, LoginOK
<1>3. TypeOK'
  BY <1>1 DEF IInv, TypeOK, MainPlaces, Live
<1>4. ThreadsOK' /\ AssigningOK' /\ PromptOK' /\ NoFalseAlarm'
  BY <1>1 DEF IInv, ThreadsOK, AssigningOK, PromptOK, NoFalseAlarm, Live
<1>5. LoginOK'
  BY <1>1, <1>2 DEF IInv, LoginOK, Unsent, Chat
<1>6. ComingOK(Coming)'
  <2>1. \A i \in 1..Len(Coming) : Coming[i].type # "AuthFail"
    BY <1>1 DEF IInv, ComingOK
  <2>2. QED
    BY <1>1, <2>1, ComingKept
<1>7. RoomOK'
  BY <1>1, RoomKept
<1>8. QED
  BY <1>3, <1>4, <1>5, <1>6, <1>7 DEF IInv

\* The prompt is put together from strings that are not being assigned, or from
\* a room that is.
LEMMA PromptStep ==
  ASSUME IInv, build_prompt
  PROVE  IInv'
<1>1. /\ UNCHANGED <<g_connected, g_authenticated, g_auth_failed, g_username>>
      /\ UNCHANGED <<g_room, sock, receiver, frames, told, session, toServer>>
      /\ UNCHANGED toClient
      /\ main = "prompt" /\ main' = "input"
  BY DEF build_prompt, flags, strings, threadVars, net, serverVars
<1>2. PICK r \in Read(g_room, {"set room", "set joined"}),
           u \in Read(g_username, {"set name"}) :
        prompt' = [room |-> r, user |-> u, drawn |-> TRUE]
  BY DEF build_prompt
<1>3. /\ g_authenticated /\ g_username = session.user /\ session.user # Empty
      /\ g_room \in Rooms
  BY <1>1 DEF IInv, LoginOK, Chat
<1>4. receiver # "set name"
  <2> SUFFICES ASSUME receiver = "set name" PROVE FALSE
    OBVIOUS
  <2>1. frames # <<>> /\ Head(frames).type = "AuthOk"
    BY DEF IInv, AssigningOK, Assigning
  <2>2. PICK p : p = Coming
    OBVIOUS
  <2>3. frames \in Seq(Frame) /\ toClient \in Seq(Frame) /\ p \in Seq(Frame)
    BY <2>2, ComingTyped DEF IInv, TypeOK
  <2>4. p # <<>> /\ Head(p) = Head(frames)
    BY <2>1, <2>2, <2>3, ConcatTail DEF Coming
  <2>5. 1 \in 1..Len(p) /\ p[1] = Head(frames)
    BY <2>3, <2>4, TailFacts
  <2>6. ~g_authenticated
    BY <2>1, <2>2, <2>5 DEF IInv, ComingOK
  <2>7. QED
    BY <2>6, <1>3
<1>5. u = session.user /\ r \in Rooms \cup {Torn} /\ r # Empty
  BY <1>3, <1>4, ClientAssumption DEF Read
<1>6. TypeOK'
  <2>1. prompt' \in Prompts
    BY <1>2, <1>5 DEF Prompts, IInv, TypeOK, Sessions
  <2>2. QED
    BY <1>1, <2>1 DEF IInv, TypeOK, MainPlaces, Live, Chat
<1>7. PromptOK'
  BY <1>1, <1>2, <1>3, <1>5 DEF PromptOK
<1>8. ThreadsOK' /\ AssigningOK' /\ NoFalseAlarm'
  BY <1>1 DEF IInv, ThreadsOK, AssigningOK, NoFalseAlarm, Live, Chat
<1>9. LoginOK'
  BY <1>1 DEF IInv, LoginOK, Unsent, Chat
<1>10. ComingOK(Coming)'
  BY <1>1, ComingKept DEF Unsent
<1>11. RoomOK'
  BY <1>1, RoomKept
<1>12. QED
  BY <1>6, <1>7, <1>8, <1>9, <1>10, <1>11 DEF IInv

\* A line that becomes a request: by then somebody is logged in.
LEMMA RequestStep ==
  ASSUME IInv, NEW m \in Requests, Request(m)
  PROVE  IInv'
<1>1. /\ UNCHANGED <<g_connected, g_authenticated, g_auth_failed, g_username>>
      /\ UNCHANGED <<g_room, prompt, sock, receiver, frames, told, session>>
      /\ UNCHANGED toClient
      /\ main = "input" /\ main' \in {"loop", "ending"}
      /\ toServer' = Append(toServer, m) \/ toServer' = toServer
  BY DEF Request, Typed, Send, flags, strings, threadVars, serverVars
<1>2. g_authenticated /\ session.user # Empty /\ ~g_auth_failed
  BY <1>1 DEF IInv, LoginOK, Chat
<1>3. TypeOK'
  <2>1. toServer' \in Seq(Requests)
    BY <1>1, AppendFacts DEF IInv, TypeOK
  <2>2. QED
    BY <1>1, <2>1 DEF IInv, TypeOK, MainPlaces, Live, Chat
<1>4. ThreadsOK' /\ AssigningOK' /\ PromptOK' /\ NoFalseAlarm'
  BY <1>1 DEF IInv, ThreadsOK, AssigningOK, PromptOK, NoFalseAlarm, Live, Chat
<1>5. LoginOK'
  BY <1>1, <1>2 DEF IInv, LoginOK, Unsent, Chat
<1>6. ComingOK(Coming)'
  <2>1. \A i \in 1..Len(Coming) : Coming[i].type # "AuthFail"
    BY <1>2 DEF IInv, ComingOK
  <2>2. QED
    BY <1>1, <2>1, ComingKept
<1>7. RoomOK'
  BY <1>1, RoomKept
<1>8. QED
  BY <1>3, <1>4, <1>5, <1>6, <1>7 DEF IInv

\* g_connected = false, shutdown and close.
LEMMA EndingStep ==
  ASSUME IInv, Ending \/ Closing
  PROVE  IInv'
<1>1. /\ UNCHANGED <<g_authenticated, g_auth_failed, g_username>>
      /\ UNCHANGED <<g_room, prompt, receiver, frames, told, session, toServer>>
      /\ UNCHANGED toClient
      /\ \/ main = "ending" /\ main' = "shut" /\ g_connected' = FALSE
         \/ /\ main \in {"shut", "close"} /\ main' \in {"close", "join"}
            /\ g_connected' = g_connected
      /\ sock' \in {"open", "shut", "closed"}
  BY DEF Ending, Closing, Ends, flags, outcome, strings, threadVars, net,
         serverVars, IInv, TypeOK
<1>2. ~g_connected'
  BY <1>1 DEF IInv, ThreadsOK, Live, Chat
<1>3. TypeOK'
  BY <1>1 DEF IInv, TypeOK, MainPlaces
<1>4. ThreadsOK' /\ AssigningOK' /\ PromptOK' /\ NoFalseAlarm'
  BY <1>1, <1>2 DEF IInv, ThreadsOK, AssigningOK, PromptOK, NoFalseAlarm, Live, Chat
<1>5. LoginOK'
  BY <1>1 DEF IInv, LoginOK, Unsent, Chat
<1>6. ComingOK(Coming)'
  BY <1>1, ComingKept DEF Unsent
<1>7. RoomOK'
  BY <1>1, <1>2, RoomKept
<1>8. QED
  BY <1>3, <1>4, <1>5, <1>6, <1>7 DEF IInv

\* Every other step of main, of the person and of a program that has ended.
LEMMA OtherMainStep ==
  ASSUME IInv,
         \/ MenuLeft \/ MenuRefused \/ Waited \/ AuthReturns \/ Loop \/ LocalLine
         \/ EndOfInput \/ JoinThread \/ Poll \/ Terminated \/ UNCHANGED vars
  PROVE  IInv'
<1>1. /\ UNCHANGED <<flags, strings, prompt, sock, threadVars>>
      /\ UNCHANGED <<session, toServer, toClient>>
  BY DEF MenuLeft, MenuRefused, Waited, AuthReturns, Loop, LocalLine, EndOfInput,
         JoinThread, Poll, Terminated, net, serverVars, mainVars, vars
<1>2. \/ main' = main
      \/ /\ main' \in {"wait", "answered", "exited"} \cup Chat \cup {"ending"}
         /\ main \in Live \cup {"join", "connect"}
         /\ main \notin Live => main' = "exited"
         /\ main' \in Chat => g_authenticated
         /\ main' = "exited" => main \notin Live
  <2>1. main \in Chat => g_authenticated
    BY DEF IInv, LoginOK
  <2>2. CASE MenuLeft \/ MenuRefused \/ Waited \/ Poll \/ Terminated \/ UNCHANGED vars
    BY <2>2 DEF MenuLeft, MenuRefused, Waited, Poll, Terminated, vars, mainVars,
                Live, Chat
  <2>3. CASE AuthReturns \/ Loop \/ LocalLine \/ EndOfInput
    BY <2>1, <2>3 DEF AuthReturns, Loop, LocalLine, Typed, EndOfInput, Live, Chat
  <2>4. CASE JoinThread
    BY <2>4 DEF JoinThread, Ends, Live, Chat
  <2>5. QED
    BY <2>2, <2>3, <2>4
<1>3. QED
  BY <1>1, <1>2, MainMoves

-----------------------------------------------------------------------------
(***************************************************************************)
(* The steps of receive_thread.                                            *)
(***************************************************************************)
\* The frame at hand is the first of what is coming.
LEMMA FrameAtHand ==
  ASSUME IInv, frames # <<>>
  PROVE  /\ Head(frames) \in Frame /\ frames \in Seq(Frame)
         /\ 1 \in 1..Len(Coming) /\ Coming[1] = Head(frames)
<1>1. PICK p : p = Coming
  OBVIOUS
<1>2. frames \in Seq(Frame) /\ toClient \in Seq(Frame) /\ p \in Seq(Frame)
  BY <1>1, ComingTyped DEF IInv, TypeOK
<1>3. p # <<>> /\ Head(p) = Head(frames)
  BY <1>1, <1>2, ConcatTail DEF Coming
<1>4. 1 \in 1..Len(p) /\ p[1] = Head(frames) /\ Head(p) \in Frame
  BY <1>2, <1>3, TailFacts
<1>5. QED
  BY <1>1, <1>2, <1>3, <1>4

\* What an announcement carries.
LEMMA AnnouncedTyped ==
  ASSUME NEW m \in Frame
  PROVE  /\ m.type = "AuthOk" => m.username \in Users /\ m.room \in Rooms
         /\ m.type = "Joined" => m.room \in Rooms
  BY DEF Frame

\* The rooms still agree when nothing is taken off or sent.
LEMMA RoomStays ==
  ASSUME IInv, Coming' = Coming, UNCHANGED <<session, g_room>>, Deaf => Deaf'
  PROVE  RoomOK'
  BY DEF IInv, RoomOK, RoomFollows

\* A frame has been handled.
LEMMA HandledOK ==
  ASSUME IInv, frames # <<>>, frames' = Tail(frames),
         UNCHANGED <<toClient, session, toServer, main>>,
         g_authenticated' = g_authenticated \/ Head(frames).type = "AuthOk",
         g_auth_failed' = g_auth_failed \/ Head(frames).type = "AuthFail",
         g_room' = IF Announces(Head(frames)) THEN Head(frames).room ELSE g_room,
         receiver \notin {"loop", "ended"}
  PROVE  ComingOK(Coming)' /\ RoomOK'
<1>1. PICK p : p = Coming
  OBVIOUS
<1>2. PICK q : q = Tail(p)
  OBVIOUS
<1>3. p \in Seq(Frame) /\ p # <<>> /\ Head(p) = Head(frames) /\ Coming' = q
  BY <1>1, <1>2, ComingTyped, ComingPopped DEF IInv
<1>4. /\ Len(p) \in Nat /\ Len(q) \in Nat /\ 1 \in 1..Len(p) /\ p[1] = Head(p)
      /\ \A i \in 1..Len(q) : i + 1 \in 1..Len(p) /\ q[i] = p[i + 1]
  BY <1>2, <1>3, TailFacts, LenProperties
<1>5. ComingOK(p)
  BY <1>1 DEF IInv
<1>6. ASSUME NEW i \in 1..Len(q), q[i].type \in {"AuthOk", "AuthFail"}
      PROVE  q[i].type # Head(frames).type
  <2>1. i + 1 \in 1..Len(p) /\ q[i] = p[i + 1] /\ i + 1 # 1
    BY <1>4
  <2>2. QED
    BY <2>1, <1>3, <1>4, <1>5, <1>6 DEF ComingOK
<1>7. \/ \A i \in 1..Len(q) : q[i].type # "AuthOk"
      \/ g_authenticated' = g_authenticated
  BY <1>6
<1>8. \/ \A i \in 1..Len(q) : q[i].type # "AuthFail"
      \/ /\ UNCHANGED <<toServer, g_auth_failed>>
         /\ main' \in Unsent => main \in Unsent
  BY <1>6
<1>9. ComingOK(q)'
  BY <1>4, <1>5, <1>7, <1>8, PartOK, 1 \in Nat
<1>10. session.at = "loop" => RoomFollows(q)'
  <2>1. session.at = "loop" => RoomFollows(p)
    BY <1>1 DEF IInv, RoomOK, Deaf
  <2>2. QED
    BY <2>1, <1>2, <1>3, RoomPopped
<1>11. QED
  BY <1>3, <1>9, <1>10 DEF ComingOK, RoomOK, RoomFollows, Announces

\* The loop goes round, or ends.
LEMMA ReceiveLoopStep ==
  ASSUME IInv, ReceiveLoop
  PROVE  IInv'
<1>1. /\ UNCHANGED <<g_connected, g_authenticated, g_auth_failed, g_username>>
      /\ UNCHANGED <<g_room, main, prompt, sock, frames, told, session>>
      /\ UNCHANGED <<toServer, toClient>>
      /\ receiver = "loop" /\ receiver' = IF g_connected THEN "recv" ELSE "ended"
  BY DEF ReceiveLoop, Thread, flags, strings, mainVars, net, serverVars
<1>2. TypeOK'
  BY <1>1 DEF IInv, TypeOK, Places
<1>3. ThreadsOK' /\ AssigningOK' /\ PromptOK' /\ NoFalseAlarm'
  BY <1>1 DEF IInv, ThreadsOK, AssigningOK, PromptOK, NoFalseAlarm, Assigning
<1>4. LoginOK'
  BY <1>1 DEF IInv, LoginOK
<1>5. ComingOK(Coming)'
  BY <1>1, ComingKept
<1>6. RoomOK'
  <2>1. Coming' = Coming
    BY <1>1 DEF Coming
  <2>2. QED
    BY <1>1, <2>1, RoomStays DEF Deaf
<1>7. QED
  BY <1>2, <1>3, <1>4, <1>5, <1>6 DEF IInv

\* recv() returns whole messages: they move from the connection to the batch.
LEMMA RecvStep ==
  ASSUME IInv, NEW n \in 1..Len(toClient), Recv(n)
  PROVE  IInv'
<1>1. /\ UNCHANGED <<g_connected, g_authenticated, g_auth_failed, g_username>>
      /\ UNCHANGED <<g_room, main, prompt, sock, told, session, toServer>>
      /\ receiver = "recv" /\ receiver' = "frames"
      /\ frames' = SubSeq(toClient, 1, n)
      /\ toClient' = SubSeq(toClient, n + 1, Len(toClient))
  BY DEF Recv, Thread, flags, strings, mainVars, serverVars
<1>2. frames = <<>> /\ toClient \in Seq(Frame)
  BY <1>1 DEF IInv, ThreadsOK, TypeOK
<1>3. /\ frames' \in Seq(Frame) /\ toClient' \in Seq(Frame)
      /\ frames' \o toClient' = toClient
  <2>1. ASSUME NEW S, NEW t \in Seq(S), NEW k \in 1..Len(t)
        PROVE  /\ SubSeq(t, 1, k) \in Seq(S) /\ SubSeq(t, k + 1, Len(t)) \in Seq(S)
               /\ SubSeq(t, 1, k) \o SubSeq(t, k + 1, Len(t)) = t
    <3>1. Len(t) \in Nat /\ k \in Nat
      OBVIOUS
    <3>2. /\ SubSeq(t, 1, k) \in Seq(S) /\ Len(SubSeq(t, 1, k)) = k
          /\ SubSeq(t, k + 1, Len(t)) \in Seq(S)
          /\ Len(SubSeq(t, k + 1, Len(t))) = Len(t) - k
      BY <3>1
    <3>3. QED
      BY <3>1, <3>2
  <2>2. QED
    BY <1>1, <1>2, <2>1
<1>4. Coming = toClient /\ Coming' = toClient
  BY <1>2, <1>3, ConcatEmptySeq DEF Coming
<1>5. TypeOK'
  BY <1>1, <1>3 DEF IInv, TypeOK, Places
<1>6. ThreadsOK' /\ AssigningOK' /\ PromptOK' /\ NoFalseAlarm'
  BY <1>1 DEF IInv, ThreadsOK, AssigningOK, PromptOK, NoFalseAlarm, Assigning
<1>7. LoginOK'
  BY <1>1 DEF IInv, LoginOK
<1>8. ComingOK(Coming)'
  BY <1>1, <1>4 DEF IInv, ComingOK
<1>9. RoomOK'
  BY <1>1, <1>4, RoomStays DEF Deaf
<1>10. QED
  BY <1>5, <1>6, <1>7, <1>8, <1>9 DEF IInv

\* recv() or extract_frames ends the loop.  Main clears g_connected before it
\* shuts the socket down, so a thread that finds it set has lost the server.
LEMMA RecvOverStep ==
  ASSUME IInv, RecvEnds \/ RecvInvalid
  PROVE  IInv'
<1>1. /\ UNCHANGED <<g_authenticated, g_auth_failed, g_username>>
      /\ UNCHANGED <<g_room, main, prompt, sock, frames, session>>
      /\ UNCHANGED <<toServer, toClient>>
      /\ receiver = "recv" /\ receiver' = "ended" /\ g_connected' = FALSE
      /\ \/ told' = told
         \/ /\ told' = (told \/ g_connected)
            /\ session.at = "closed" \/ sock # "open"
  BY DEF RecvEnds, RecvInvalid, Thread, outcome, strings, mainVars, net, serverVars
<1>2. TypeOK'
  BY <1>1 DEF IInv, TypeOK, Places
<1>3. g_connected => sock = "open"
  BY DEF IInv, ThreadsOK
<1>4. NoFalseAlarm'
  BY <1>1, <1>3 DEF IInv, NoFalseAlarm
<1>5. ThreadsOK' /\ AssigningOK' /\ PromptOK'
  BY <1>1 DEF IInv, ThreadsOK, AssigningOK, PromptOK, Assigning
<1>6. LoginOK'
  BY <1>1 DEF IInv, LoginOK
<1>7. ComingOK(Coming)'
  BY <1>1, ComingKept
<1>8. RoomOK'
  BY <1>1 DEF RoomOK, Deaf
<1>9. QED
  BY <1>2, <1>4, <1>5, <1>6, <1>7, <1>8 DEF IInv

\* The batch is done or abandoned; if abandoned nothing more is handled.
LEMMA FramesDoneStep ==
  ASSUME IInv, FramesDone
  PROVE  IInv'
<1>1. /\ UNCHANGED <<g_connected, g_authenticated, g_auth_failed, g_username>>
      /\ UNCHANGED <<g_room, main, prompt, sock, told, session>>
      /\ UNCHANGED <<toServer, toClient>>
      /\ receiver = "frames" /\ receiver' = "loop" /\ frames' = <<>>
      /\ frames = <<>> \/ ~g_connected
  BY DEF FramesDone, Thread, flags, strings, mainVars, net, serverVars
<1>2. TypeOK'
  BY <1>1 DEF IInv, TypeOK, Places
<1>3. ThreadsOK' /\ AssigningOK' /\ PromptOK' /\ NoFalseAlarm'
  BY <1>1 DEF IInv, ThreadsOK, AssigningOK, PromptOK, NoFalseAlarm, Assigning
<1>4. LoginOK'
  BY <1>1 DEF IInv, LoginOK
<1>5. ComingOK(Coming)'
  <2>1. PICK p : p = Coming
    OBVIOUS
  <2>2. PICK q : q = toClient
    OBVIOUS
  <2>3. PICK k : k = Len(frames)
    OBVIOUS
  <2>4. /\ k \in Nat /\ Len(p) \in Nat /\ Len(q) \in Nat
        /\ \A i \in 1..Len(q) : i + k \in 1..Len(p) /\ q[i] = p[i + k]
    <3>1. frames \in Seq(Frame) /\ toClient \in Seq(Frame)
      BY DEF IInv, TypeOK
    <3>2. /\ frames \o toClient \in Seq(Frame) /\ Len(frames) \in Nat
          /\ Len(toClient) \in Nat
          /\ Len(frames \o toClient) = Len(frames) + Len(toClient)
          /\ \A i \in 1..Len(toClient) :
               /\ i + Len(frames) \in 1..Len(frames \o toClient)
               /\ (frames \o toClient)[i + Len(frames)] = toClient[i]
      BY <3>1, ConcatFacts
    <3>3. QED
      BY <2>1, <2>2, <2>3, <3>2 DEF Coming
  <2>5. Coming' = q
    BY <1>1, <2>2, ConcatEmptySeq DEF Coming, IInv, TypeOK
  <2>6. ComingOK(q)'
    BY <1>1, <2>1, <2>4, PartOK DEF IInv
  <2>7. QED
    BY <2>5, <2>6 DEF ComingOK
<1>6. RoomOK'
  <2>1. CASE ~g_connected
    BY <1>1, <2>1 DEF RoomOK, Deaf
  <2>2. CASE g_connected
    BY <1>1, <2>2, RoomStays DEF Deaf, Coming
  <2>3. QED
    BY <2>1, <2>2
<1>7. QED
  BY <1>2, <1>3, <1>4, <1>5, <1>6 DEF IInv

\* A refusal: the token moves from Coming to g_auth_failed.
LEMMA HandleAuthFailStep ==
  ASSUME IInv, HandleAuthFail
  PROVE  IInv'
<1>1. /\ UNCHANGED <<g_connected, g_authenticated, g_username>>
      /\ UNCHANGED <<g_room, main, prompt, sock, told, session>>
      /\ UNCHANGED <<toServer, toClient>> /\ receiver = "frames" /\ receiver' = "frames"
      /\ g_auth_failed' = TRUE /\ frames' = Tail(frames)
      /\ frames # <<>> /\ Head(frames).type = "AuthFail"
  BY DEF HandleAuthFail, Handling, Thread, strings, mainVars, net, serverVars
<1>2. Head(frames) \in Frame /\ frames \in Seq(Frame) /\ Tail(frames) \in Seq(Frame)
  BY <1>1, FrameAtHand, TailFacts
<1>3. /\ session.user = Empty /\ toServer = <<>> /\ main \notin Unsent
      /\ ~g_auth_failed
  BY <1>1, FrameAtHand DEF IInv, ComingOK
<1>4. TypeOK'
  BY <1>1, <1>2 DEF IInv, TypeOK
<1>5. ThreadsOK' /\ AssigningOK' /\ PromptOK' /\ NoFalseAlarm'
  BY <1>1 DEF IInv, ThreadsOK, AssigningOK, PromptOK, NoFalseAlarm, Assigning
<1>6. LoginOK'
  BY <1>1, <1>3 DEF IInv, LoginOK
<1>7. ComingOK(Coming)' /\ RoomOK'
  <2>1. g_authenticated' = g_authenticated \/ Head(frames).type = "AuthOk"
    BY <1>1
  <2>2. g_room' = IF Announces(Head(frames)) THEN Head(frames).room ELSE g_room
    BY <1>1 DEF Announces
  <2>3. QED
    BY <1>1, <2>1, <2>2, HandledOK
<1>8. QED
  BY <1>4, <1>5, <1>6, <1>7 DEF IInv

\* A frame that is only printed.
LEMMA HandleTextStep ==
  ASSUME IInv, HandleText
  PROVE  IInv'
<1>1. /\ UNCHANGED <<g_connected, g_authenticated, g_auth_failed, g_username>>
      /\ UNCHANGED <<g_room, main, prompt, sock, told, session>>
      /\ UNCHANGED <<toServer, toClient>> /\ receiver = "frames" /\ receiver' = "frames"
      /\ frames' = Tail(frames)
      /\ frames # <<>> /\ Head(frames).type = "Text"
  BY DEF HandleText, Handling, Thread, flags, strings, mainVars, net, serverVars
<1>2. frames \in Seq(Frame) /\ Tail(frames) \in Seq(Frame)
  BY <1>1, FrameAtHand, TailFacts
<1>3. TypeOK'
  BY <1>1, <1>2 DEF IInv, TypeOK
<1>4. ThreadsOK' /\ AssigningOK' /\ PromptOK' /\ NoFalseAlarm'
  BY <1>1 DEF IInv, ThreadsOK, AssigningOK, PromptOK, NoFalseAlarm, Assigning
<1>5. LoginOK'
  BY <1>1 DEF IInv, LoginOK
<1>6. ComingOK(Coming)' /\ RoomOK'
  <2>1. g_room' = IF Announces(Head(frames)) THEN Head(frames).room ELSE g_room
    BY <1>1 DEF Announces
  <2>2. QED
    BY <1>1, <2>1, HandledOK
<1>7. QED
  BY <1>3, <1>4, <1>5, <1>6 DEF IInv

\* The assignment of a string starts.
LEMMA StartAssigningStep ==
  ASSUME IInv, StartAssigning
  PROVE  IInv'
<1>1. /\ UNCHANGED <<g_connected, g_authenticated, g_auth_failed, g_username>>
      /\ UNCHANGED <<g_room, main, prompt, sock, frames, told, session>>
      /\ UNCHANGED <<toServer, toClient>> /\ receiver = "frames" /\ frames # <<>>
      /\ \/ receiver' = "set name" /\ Head(frames).type = "AuthOk"
         \/ receiver' = "set joined" /\ Head(frames).type = "Joined"
  BY DEF StartAssigning, Handling, Thread, flags, strings, mainVars, net, serverVars
<1>2. TypeOK'
  BY <1>1 DEF IInv, TypeOK, Places, Assigning
<1>3. ThreadsOK' /\ AssigningOK' /\ PromptOK' /\ NoFalseAlarm'
  BY <1>1 DEF IInv, ThreadsOK, AssigningOK, PromptOK, NoFalseAlarm, Assigning
<1>4. LoginOK'
  BY <1>1 DEF IInv, LoginOK
<1>5. ComingOK(Coming)'
  BY <1>1, ComingKept
<1>6. RoomOK'
  BY <1>1, RoomStays DEF Deaf, Coming
<1>7. QED
  BY <1>2, <1>3, <1>4, <1>5, <1>6 DEF IInv

\* While an AuthOk is handled nobody is authenticated, and it has the name on
\* record.
LEMMA AssigningMeans ==
  ASSUME IInv, receiver \in Assigning
  PROVE  /\ frames # <<>> /\ Head(frames).type = "AuthOk"
         /\ Head(frames).username \in Users /\ Head(frames).room \in Rooms
         /\ Head(frames).username = session.user /\ session.user # Empty
         /\ session.at \notin {"auth", "entering"} /\ ~g_authenticated
<1>1. frames # <<>> /\ Head(frames).type = "AuthOk"
  BY DEF IInv, AssigningOK
<1>2. /\ Head(frames) \in Frame /\ 1 \in 1..Len(Coming) /\ Coming[1] = Head(frames)
  BY <1>1, FrameAtHand
<1>3. QED
  BY <1>1, <1>2, AnnouncedTyped DEF IInv, ComingOK

\* The name and then the room are assigned, before the flag is set.
LEMMA SetStringsStep ==
  ASSUME IInv, SetName \/ SetRoom
  PROVE  IInv'
<1>1. /\ UNCHANGED <<g_connected, g_authenticated, g_auth_failed>>
      /\ UNCHANGED <<main, prompt, sock, frames, told, session>>
      /\ UNCHANGED <<toServer, toClient>>
      /\ \/ /\ receiver = "set name" /\ receiver' = "set room"
            /\ g_username' = Head(frames).username /\ g_room' = g_room
         \/ /\ receiver = "set room" /\ receiver' = "set flag"
            /\ g_room' = Head(frames).room /\ g_username' = g_username
  BY DEF SetName, SetRoom, Thread, flags, mainVars, net, serverVars
<1>2. receiver \in Assigning /\ receiver' \in Assigning
  BY <1>1 DEF Assigning
<1>3. /\ frames # <<>> /\ Head(frames).type = "AuthOk"
      /\ Head(frames).username \in Users /\ Head(frames).room \in Rooms
      /\ ~g_authenticated
  BY <1>2, AssigningMeans
<1>4. TypeOK'
  BY <1>1, <1>2, <1>3 DEF IInv, TypeOK, Places
<1>5. ThreadsOK' /\ PromptOK' /\ NoFalseAlarm'
  BY <1>1 DEF IInv, ThreadsOK, PromptOK, NoFalseAlarm
<1>6. AssigningOK'
  BY <1>1, <1>3 DEF IInv, AssigningOK, Assigning
<1>7. LoginOK'
  BY <1>1, <1>3 DEF IInv, LoginOK
<1>8. ComingOK(Coming)'
  BY <1>1, ComingKept
<1>9. RoomOK'
  <2>1. Coming' = Coming
    BY <1>1 DEF Coming
  <2>2. 1 \in 1..Len(Coming) /\ Announces(Coming[1])
    BY <1>3, FrameAtHand DEF Announces
  <2>3. QED
    BY <1>1, <2>1, <2>2 DEF IInv, RoomOK, RoomFollows, Deaf
<1>10. QED
  BY <1>4, <1>5, <1>6, <1>7, <1>8, <1>9 DEF IInv

\* g_authenticated is set, and the AuthOk has been handled.
LEMMA SetFlagStep ==
  ASSUME IInv, SetFlag
  PROVE  IInv'
<1>1. /\ UNCHANGED <<g_connected, g_auth_failed, g_username, g_room>>
      /\ UNCHANGED <<main, prompt, sock, told, session>>
      /\ UNCHANGED <<toServer, toClient>>
      /\ receiver = "set flag" /\ receiver' = "frames"
      /\ g_authenticated' = TRUE /\ frames' = Tail(frames)
  BY DEF SetFlag, Thread, strings, mainVars, net, serverVars
<1>2. /\ frames # <<>> /\ Head(frames).type = "AuthOk" /\ Head(frames).room \in Rooms
      /\ Head(frames).username = session.user /\ session.user # Empty
      /\ session.at \notin {"auth", "entering"} /\ ~g_authenticated
  BY <1>1, AssigningMeans DEF Assigning
<1>3. g_username = session.user /\ g_room = Head(frames).room
  BY <1>1, <1>2 DEF IInv, AssigningOK
<1>4. TypeOK'
  <2>1. frames' \in Seq(Frame)
    BY <1>1, <1>2, FrameAtHand, TailFacts
  <2>2. QED
    BY <1>1, <2>1 DEF IInv, TypeOK, Places
<1>5. ThreadsOK' /\ AssigningOK' /\ PromptOK' /\ NoFalseAlarm'
  BY <1>1 DEF IInv, ThreadsOK, AssigningOK, PromptOK, NoFalseAlarm, Assigning
<1>6. LoginOK'
  BY <1>1, <1>2, <1>3 DEF IInv, LoginOK
<1>7. ComingOK(Coming)' /\ RoomOK'
  <2>1. g_room' = IF Announces(Head(frames)) THEN Head(frames).room ELSE g_room
    BY <1>1, <1>3 DEF Announces
  <2>2. g_auth_failed' = g_auth_failed \/ Head(frames).type = "AuthFail"
    BY <1>1
  <2>3. g_authenticated' = g_authenticated \/ Head(frames).type = "AuthOk"
    BY <1>2
  <2>4. QED
    BY <1>1, <1>2, <2>1, <2>2, <2>3, HandledOK
<1>8. QED
  BY <1>4, <1>5, <1>6, <1>7 DEF IInv

\* The room of a Joined is assigned, and the frame has been handled.
LEMMA SetJoinedStep ==
  ASSUME IInv, SetJoined
  PROVE  IInv'
<1>1. /\ UNCHANGED <<g_connected, g_authenticated, g_auth_failed, g_username>>
      /\ UNCHANGED <<main, prompt, sock, told, session>>
      /\ UNCHANGED <<toServer, toClient>>
      /\ receiver = "set joined" /\ receiver' = "frames"
      /\ g_room' = Head(frames).room /\ frames' = Tail(frames)
  BY DEF SetJoined, Thread, flags, mainVars, net, serverVars
<1>2. frames # <<>> /\ Head(frames).type = "Joined"
  BY <1>1 DEF IInv, AssigningOK
<1>3. Head(frames).room \in Rooms /\ frames' \in Seq(Frame)
  BY <1>1, <1>2, FrameAtHand, TailFacts, AnnouncedTyped
<1>4. TypeOK'
  BY <1>1, <1>3 DEF IInv, TypeOK, Places
<1>5. ThreadsOK' /\ AssigningOK' /\ PromptOK' /\ NoFalseAlarm'
  BY <1>1 DEF IInv, ThreadsOK, AssigningOK, PromptOK, NoFalseAlarm, Assigning
<1>6. LoginOK'
  BY <1>1, <1>3 DEF IInv, LoginOK
<1>7. ComingOK(Coming)' /\ RoomOK'
  <2>1. g_room' = IF Announces(Head(frames)) THEN Head(frames).room ELSE g_room
    BY <1>1, <1>2 DEF Announces
  <2>2. QED
    BY <1>1, <1>2, <2>1, HandledOK
<1>8. QED
  BY <1>4, <1>5, <1>6, <1>7 DEF IInv

-----------------------------------------------------------------------------
(***************************************************************************)
(* The steps of the server's handler.                                      *)
(***************************************************************************)
\* What a step of the server that sends nothing of moment, or nothing, keeps.
LEMMA SilentOrText ==
  ASSUME IInv, UNCHANGED <<frames, receiver, main, g_room, g_connected>>,
         UNCHANGED <<g_authenticated, g_auth_failed>>,
         toClient' = toClient \/ toClient' = Append(toClient, Text),
         session'.user = session.user \/ session.user = Empty,
         session'.user # session.user =>
           \A i \in 1..Len(Coming) : Coming[i].type \notin {"AuthFail", "AuthOk"},
         session'.at \in {"auth", "entering"} => session.at \in {"auth", "entering"},
         session'.at = "loop" => session.at = "loop" /\ session'.room = session.room,
         \/ \A i \in 1..Len(Coming) : Coming[i].type # "AuthFail"
         \/ toServer' = toServer
  PROVE  ComingOK(Coming)' /\ RoomOK'
<1>1. PICK p : p = Coming
  OBVIOUS
<1>2. p \in Seq(Frame) /\ Len(p) \in Nat /\ ComingOK(p)
  BY <1>1, ComingTyped DEF IInv
<1>3. Text \in Frame /\ Text.type = "Text"
  BY DEF Text, Frame
<1>4. Coming' = p \/ Coming' = Append(p, Text)
  <2>1. CASE toClient' = toClient
    BY <1>1, <2>1 DEF Coming
  <2>2. CASE toClient' = Append(toClient, Text)
    BY <1>1, <1>3, <2>2, ComingPushed DEF IInv
  <2>3. QED
    BY <2>1, <2>2
<1>5. ComingOK(p)'
  <2>1. CASE session'.user = session.user
    <3>1. \A i \in 1..Len(p) : i + 0 \in 1..Len(p) /\ p[i] = p[i + 0]
      BY <1>2
    <3>2. QED
      BY <1>1, <1>2, <2>1, <3>1, PartOK
  <2>2. CASE session'.user # session.user
    BY <1>1, <2>2 DEF ComingOK
  <2>3. QED
    BY <2>1, <2>2
<1>6. session'.at = "loop" /\ ~Deaf' => RoomFollows(p)
  BY <1>1 DEF IInv, RoomOK, Deaf
<1>7. CASE Coming' = p
  <2>1. session'.at = "loop" => (RoomFollows(p)' <=> RoomFollows(p))
    BY DEF RoomFollows
  <2>2. QED
    BY <1>5, <1>6, <1>7, <2>1 DEF ComingOK, RoomOK, RoomFollows
<1>8. CASE Coming' = Append(p, Text)
  <2>1. PICK q : q = Append(p, Text)
    OBVIOUS
  <2>2. PICK m : m = Text
    OBVIOUS
  <2>3. /\ Len(q) = Len(p) + 1 /\ q[Len(p) + 1] = m
        /\ \A i \in 1..Len(p) : q[i] = p[i]
    BY <1>2, <1>3, <2>1, <2>2, AppendFacts
  <2>4. ComingOK(q)'
    BY <1>2, <1>3, <1>5, <2>2, <2>3, LongerOK
  <2>5. session'.at = "loop" /\ ~Deaf' => RoomFollows(q)'
    <3>1. ~Announces(m)
      BY <1>3, <2>2 DEF Announces
    <3>2. QED
      BY <1>2, <1>3, <1>6, <2>1, <2>2, <3>1, RoomPushed
  <2>6. QED
    BY <1>8, <2>1, <2>4, <2>5 DEF ComingOK, RoomOK, RoomFollows
<1>9. QED
  BY <1>4, <1>7, <1>8

\* The first request waiting at the server.
LEMMA RequestTaken ==
  ASSUME IInv, toServer # <<>>
  PROVE  /\ Head(toServer) \in Requests /\ Tail(toServer) \in Seq(Requests)
         /\ Len(toServer) \in Nat /\ Len(Tail(toServer)) = Len(toServer) - 1
         /\ 1 \in 1..Len(toServer) /\ toServer[1] = Head(toServer)
<1>1. toServer \in Seq(Requests)
  BY DEF IInv, TypeOK
<1>2. QED
  BY <1>1, TailFacts

\* While nobody is logged in, a request that waits is the login, and it is the
\* token: no answer is coming and none is being looked at.
LEMMA WaitingLogin ==
  ASSUME IInv, session.at = "auth", toServer # <<>>
  PROVE  /\ session.user = Empty /\ Tail(toServer) = <<>>
         /\ Head(toServer).username \in Users
         /\ ~g_auth_failed /\ ~g_authenticated /\ main \notin Unsent
         /\ \A i \in 1..Len(Coming) : Coming[i].type \notin {"AuthFail", "AuthOk"}
<1>1. session.user = Empty
  BY DEF IInv, LoginOK
<1>2. Head(toServer).type = "Login" /\ Len(toServer) = 1
  <2>1. /\ Len(toServer) \in Nat /\ 1 \in 1..Len(toServer)
        /\ toServer[1] = Head(toServer)
    BY RequestTaken
  <2>2. /\ Len(toServer) <= 1
        /\ \A i \in 1..Len(toServer) : toServer[i].type = "Login"
    BY <1>1 DEF IInv, LoginOK
  <2>3. toServer[1].type = "Login"
    BY <2>1, <2>2
  <2>4. \A k \in Nat : 1 \in 1..k /\ k <= 1 => k = 1
    OBVIOUS
  <2>5. QED
    BY <2>1, <2>2, <2>3, <2>4
<1>3. Tail(toServer) = <<>>
  <2>1. Tail(toServer) \in Seq(Requests) /\ Len(Tail(toServer)) = 0
    BY <1>2, RequestTaken
  <2>2. QED
    BY <2>1, EmptySeq
<1>4. Head(toServer).username \in Users
  BY <1>2, RequestTaken DEF Requests
<1>5. ~g_auth_failed /\ ~g_authenticated /\ main \notin Unsent
  BY <1>1 DEF IInv, LoginOK
<1>6. \A i \in 1..Len(Coming) : Coming[i].type \notin {"AuthFail", "AuthOk"}
  BY DEF IInv, ComingOK
<1>7. QED
  BY <1>1, <1>3, <1>4, <1>5, <1>6

\* handle_auth accepts the login or refuses it.
LEMMA ServeLoginStep ==
  ASSUME IInv, ServeLogin
  PROVE  IInv'
<1>1. /\ UNCHANGED <<g_connected, g_authenticated, g_auth_failed, g_username>>
      /\ UNCHANGED <<g_room, main, prompt, sock, receiver, frames, told>>
      /\ session.at = "auth" /\ toServer # <<>> /\ toServer' = Tail(toServer)
  BY DEF ServeLogin, flags, strings, mainVars, threadVars
<1>2. /\ session.user = Empty /\ toServer' = <<>>
      /\ Head(toServer).username \in Users
      /\ ~g_auth_failed /\ ~g_authenticated /\ main \notin Unsent
      /\ \A i \in 1..Len(Coming) : Coming[i].type \notin {"AuthFail", "AuthOk"}
  BY <1>1, WaitingLogin
<1>3. Text \in Frame /\ AuthFail \in Frame /\ AuthFail.type = "AuthFail"
  BY DEF Text, AuthFail, Frame
<1>4. CASE /\ session' = [session EXCEPT !.at = "entering",
                                         !.user = Head(toServer).username]
           /\ Reply(Text) \/ UNCHANGED toClient
  <2>1. /\ session' \in Sessions /\ session'.at = "entering"
        /\ session'.user \in Users /\ session'.user # Empty
    BY <1>2, <1>4, ClientAssumption DEF IInv, TypeOK, Sessions
  <2>2. toClient' = toClient \/ toClient' = Append(toClient, Text)
    BY <1>4 DEF Reply
  <2>3. TypeOK'
    <3>1. toClient' \in Seq(Frame)
      <4>1. toClient \in Seq(Frame)
        BY DEF IInv, TypeOK
      <4>2. Append(toClient, Text) \in Seq(Frame)
        BY <1>3, <4>1, AppendFacts
      <4>3. QED
        BY <2>2, <4>1, <4>2
    <3>2. QED
      BY <1>1, <1>2, <2>1, <3>1 DEF IInv, TypeOK
  <2>4. PromptOK'
    BY <1>1, <1>2 DEF IInv, PromptOK
  <2>5. ThreadsOK' /\ AssigningOK' /\ NoFalseAlarm'
    BY <1>1 DEF IInv, ThreadsOK, AssigningOK, NoFalseAlarm
  <2>6. LoginOK'
    BY <1>1, <1>2, <2>1 DEF IInv, LoginOK
  <2>7. ComingOK(Coming)' /\ RoomOK'
    BY <1>1, <1>2, <2>1, <2>2, SilentOrText
  <2>8. QED
    BY <2>3, <2>4, <2>5, <2>6, <2>7 DEF IInv
<1>5. CASE Reply(AuthFail) /\ UNCHANGED session
  <2>1. toClient' = Append(toClient, AuthFail) /\ session' = session
    BY <1>5 DEF Reply
  <2>2. TypeOK'
    <3>1. toClient' \in Seq(Frame)
      BY <1>3, <2>1, AppendFacts DEF IInv, TypeOK
    <3>2. QED
      BY <1>1, <1>2, <2>1, <3>1 DEF IInv, TypeOK
  <2>3. ThreadsOK' /\ AssigningOK' /\ NoFalseAlarm' /\ PromptOK'
    BY <1>1, <2>1 DEF IInv, ThreadsOK, AssigningOK, NoFalseAlarm, PromptOK
  <2>4. LoginOK'
    BY <1>1, <1>2, <2>1 DEF IInv, LoginOK
  <2>5. ComingOK(Coming)'
    <3>1. PICK p : p = Coming
      OBVIOUS
    <3>2. p \in Seq(Frame) /\ Len(p) \in Nat
      BY <3>1, ComingTyped DEF IInv
    <3>3. PICK m : m = AuthFail
      OBVIOUS
    <3>4. PICK q : q = Append(p, m)
      OBVIOUS
    <3>5. Coming' = q
      BY <1>1, <1>3, <2>1, <3>1, <3>3, <3>4, ComingPushed DEF IInv
    <3>6. /\ Len(q) = Len(p) + 1 /\ q[Len(p) + 1] = m
          /\ \A i \in 1..Len(p) : q[i] = p[i]
      BY <1>3, <3>2, <3>3, <3>4, AppendFacts
    <3>7. \A i \in 1..Len(p) : p[i].type \notin {"AuthFail", "AuthOk"}
      BY <1>2, <3>1
    <3>8. ComingOK(p)'
      BY <3>7 DEF ComingOK
    <3>9. ComingOK(q)'
      <4>1. m.type = "AuthFail"
        BY <1>3, <3>3
      <4>2. /\ session'.user = Empty /\ toServer' = <<>>
            /\ ~g_auth_failed' /\ main' \notin Unsent
        BY <1>1, <1>2, <2>1
      <4>3. QED
        BY <3>2, <3>6, <3>7, <3>8, <4>1, <4>2, LongerOK
    <3>10. QED
      BY <3>5, <3>9 DEF ComingOK
  <2>6. RoomOK'
    BY <1>1, <2>1 DEF RoomOK
  <2>7. QED
    BY <2>2, <2>3, <2>4, <2>5, <2>6 DEF IInv
<1>6. QED
  BY <1>4, <1>5 DEF ServeLogin

\* AuthOk is sent, once, with the name and the room on record.
LEMMA ServeEntryStep ==
  ASSUME IInv, ServeEntry
  PROVE  IInv'
<1>1. /\ UNCHANGED <<g_connected, g_authenticated, g_auth_failed, g_username>>
      /\ UNCHANGED <<g_room, main, prompt, sock, receiver, frames, told, toServer>>
      /\ session.at = "entering" /\ session' = [session EXCEPT !.at = "loop"]
      /\ toClient' = toClient \o <<AuthOk(session.user, session.room), Text>>
  BY DEF ServeEntry, flags, strings, mainVars, threadVars
<1>2. /\ session' \in Sessions /\ session'.at = "loop" /\ session'.user = session.user
      /\ session'.room = session.room /\ session.user \in Users \cup {Empty}
      /\ session.room \in Rooms
  BY <1>1 DEF IInv, TypeOK, Sessions
<1>3. session.user # Empty /\ ~g_authenticated
  BY <1>1 DEF IInv, LoginOK
<1>4. PICK m : m = AuthOk(session.user, session.room)
  OBVIOUS
<1>5. PICK t : t = Text
  OBVIOUS
<1>6. /\ m \in Frame /\ m.type = "AuthOk" /\ m.username = session.user
      /\ m.room = session.room /\ t \in Frame /\ t.type = "Text"
  BY <1>2, <1>3, <1>4, <1>5 DEF AuthOk, Text, Frame
<1>7. PICK p : p = Coming
  OBVIOUS
<1>8. p \in Seq(Frame) /\ Len(p) \in Nat /\ ComingOK(p)
  BY <1>7, ComingTyped DEF IInv
<1>9. PICK q : q = Append(p, m)
  OBVIOUS
<1>10. PICK s : s = Append(q, t)
  OBVIOUS
<1>11. toClient' \in Seq(Frame) /\ Coming' = s
  <2>1. ASSUME NEW S, NEW a \in Seq(S), NEW b \in Seq(S), NEW x \in S, NEW y \in S
        PROVE  /\ b \o <<x, y>> \in Seq(S)
               /\ a \o (b \o <<x, y>>) = Append(Append(a \o b, x), y)
    <3>1. b \o <<x, y>> = Append(Append(b, x), y)
      OBVIOUS
    <3>2. Append(b, x) \in Seq(S) /\ Append(Append(b, x), y) \in Seq(S)
      BY AppendFacts
    <3>3. QED
      BY <3>1, <3>2, ConcatAppend
  <2>2. frames \in Seq(Frame) /\ toClient \in Seq(Frame)
    BY DEF IInv, TypeOK
  <2>3. toClient' = toClient \o <<m, t>>
    BY <1>1, <1>4, <1>5
  <2>4. /\ toClient \o <<m, t>> \in Seq(Frame)
        /\ frames \o (toClient \o <<m, t>>) = Append(Append(frames \o toClient, m), t)
    BY <1>6, <2>1, <2>2
  <2>5. s = Append(Append(frames \o toClient, m), t)
    BY <1>7, <1>9, <1>10 DEF Coming
  <2>6. Coming' = frames \o (toClient \o <<m, t>>)
    BY <1>1, <2>3 DEF Coming
  <2>7. QED
    BY <2>3, <2>4, <2>5, <2>6
<1>12. /\ q \in Seq(Frame) /\ Len(q) = Len(p) + 1 /\ q[Len(p) + 1] = m
       /\ \A i \in 1..Len(p) : q[i] = p[i]
  BY <1>6, <1>8, <1>9, AppendFacts
<1>13. /\ Len(s) = Len(q) + 1 /\ s[Len(q) + 1] = t /\ Len(q) \in Nat
       /\ \A i \in 1..Len(q) : s[i] = q[i]
  BY <1>6, <1>10, <1>12, AppendFacts
<1>14. \A i \in 1..Len(p) : p[i].type # "AuthOk"
  BY <1>1, <1>8 DEF ComingOK
<1>15. ComingOK(Coming)'
  <2>1. \A i \in 1..Len(p) : i + 0 \in 1..Len(p) /\ p[i] = p[i + 0]
    BY <1>8
  <2>2. ComingOK(p)'
    BY <1>1, <1>2, <1>8, <2>1, PartOK
  <2>3. ComingOK(q)'
    <3>1. /\ session'.at \notin {"auth", "entering"}
          /\ m.username = session'.user /\ session'.user # Empty
          /\ ~g_authenticated'
      BY <1>1, <1>2, <1>3, <1>6
    <3>2. QED
      BY <1>6, <1>8, <1>12, <1>14, <2>2, <3>1, LongerOK
  <2>4. ComingOK(s)'
    BY <1>6, <1>13, <2>3, LongerOK
  <2>5. QED
    BY <1>11, <2>4 DEF ComingOK
<1>16. RoomOK'
  <2>1. PICK i : i = Len(p) + 1
    OBVIOUS
  <2>2. i \in 1..Len(s) /\ s[i] = m
    BY <1>8, <1>12, <1>13, <2>1
  <2>3. \A j \in 1..Len(s) : j > i => s[j] = t
    BY <1>8, <1>12, <1>13, <2>1
  <2>4. Announces(m) /\ ~Announces(t) /\ m.room = session'.room
    BY <1>2, <1>6 DEF Announces
  <2>5. RoomFollows(s)'
    BY <2>2, <2>3, <2>4 DEF RoomFollows, Announces
  <2>6. QED
    BY <1>11, <2>5 DEF RoomOK, RoomFollows
<1>17. TypeOK'
  BY <1>1, <1>2, <1>11 DEF IInv, TypeOK
<1>18. ThreadsOK' /\ AssigningOK'
  BY <1>1 DEF IInv, ThreadsOK, AssigningOK
<1>19. NoFalseAlarm' /\ PromptOK'
  BY <1>1, <1>2 DEF IInv, NoFalseAlarm, PromptOK
<1>20. LoginOK'
  BY <1>1, <1>2, <1>3 DEF IInv, LoginOK
<1>21. QED
  BY <1>15, <1>16, <1>17, <1>18, <1>19, <1>20 DEF IInv

\* The message loop: a Join to another room is announced, in the order in which
\* the rooms change.
LEMMA ServeRequestStep ==
  ASSUME IInv, ServeRequest
  PROVE  IInv'
<1>1. /\ UNCHANGED <<g_connected, g_authenticated, g_auth_failed, g_username>>
      /\ UNCHANGED <<g_room, main, prompt, sock, receiver, frames, told>>
      /\ session.at = "loop" /\ toServer # <<>> /\ toServer' = Tail(toServer)
  BY DEF ServeRequest, flags, strings, mainVars, threadVars
<1>2. toServer' \in Seq(Requests) /\ Head(toServer) \in Requests
  BY <1>1, RequestTaken
<1>3. /\ session.user # Empty /\ ~g_auth_failed
      /\ \A i \in 1..Len(Coming) : Coming[i].type # "AuthFail"
  BY <1>1 DEF IInv, LoginOK, ComingOK
<1>4. \/ /\ Head(toServer).type = "Join"
         /\ session' = [session EXCEPT !.room = Head(toServer).room]
         /\ toClient' = Append(toClient, Joined(Head(toServer).room))
      \/ /\ session' = session \/ session' = [session EXCEPT !.at = "closed"]
         /\ toClient' = toClient \/ toClient' = Append(toClient, Text)
  BY DEF ServeRequest, Reply
<1>5. Text \in Frame
  BY DEF Text, Frame
<1>6. SUFFICES /\ session' \in Sessions /\ session'.user = session.user
               /\ session'.at \in {"loop", "closed"} /\ toClient' \in Seq(Frame)
               /\ ComingOK(Coming)' /\ RoomOK'
  <2>1. TypeOK'
    BY <1>1, <1>2, <1>6 DEF IInv, TypeOK
  <2>2. ThreadsOK' /\ AssigningOK'
    BY <1>1 DEF IInv, ThreadsOK, AssigningOK
  <2>3. NoFalseAlarm' /\ PromptOK'
    BY <1>1, <1>6 DEF IInv, NoFalseAlarm, PromptOK
  <2>4. LoginOK'
    BY <1>1, <1>3, <1>6 DEF IInv, LoginOK
  <2>5. QED
    BY <1>6, <2>1, <2>2, <2>3, <2>4 DEF IInv
<1>7. CASE /\ Head(toServer).type = "Join"
           /\ session' = [session EXCEPT !.room = Head(toServer).room]
           /\ toClient' = Append(toClient, Joined(Head(toServer).room))
  <2>1. Head(toServer).room \in Rooms
    BY <1>2, <1>7 DEF Requests
  <2>2. /\ session' \in Sessions /\ session'.user = session.user
        /\ session'.at = "loop" /\ session'.room = Head(toServer).room
    BY <1>1, <1>7, <2>1 DEF IInv, TypeOK, Sessions
  <2>3. PICK m : m = Joined(Head(toServer).room)
    OBVIOUS
  <2>4. m \in Frame /\ m.type = "Joined" /\ m.room = session'.room
    BY <2>1, <2>2, <2>3 DEF Joined, Frame
  <2>5. toClient' \in Seq(Frame)
    BY <1>7, <2>3, <2>4, AppendFacts DEF IInv, TypeOK
  <2>6. PICK p : p = Coming
    OBVIOUS
  <2>7. PICK q : q = Append(p, m)
    OBVIOUS
  <2>8. p \in Seq(Frame) /\ Len(p) \in Nat /\ ComingOK(p) /\ Coming' = q
    BY <1>1, <1>7, <2>3, <2>4, <2>6, <2>7, ComingTyped, ComingPushed DEF IInv
  <2>9. /\ Len(q) = Len(p) + 1 /\ q[Len(p) + 1] = m
        /\ \A i \in 1..Len(p) : q[i] = p[i]
    BY <2>4, <2>7, <2>8, AppendFacts
  <2>10. ComingOK(q)'
    <3>1. \A i \in 1..Len(p) : i + 0 \in 1..Len(p) /\ p[i] = p[i + 0]
      BY <2>8
    <3>2. \A i \in 1..Len(p) : p[i].type # "AuthFail"
      BY <1>3, <2>6
    <3>3. ComingOK(p)'
      BY <1>1, <2>2, <2>8, <3>1, <3>2, PartOK
    <3>4. QED
      BY <2>4, <2>8, <2>9, <3>3, LongerOK
  <2>11. RoomFollows(q)'
    BY <1>1, <2>4, <2>7, <2>8, RoomPushed DEF Announces
  <2>12. QED
    BY <2>2, <2>5, <2>8, <2>10, <2>11 DEF ComingOK, RoomOK, RoomFollows
<1>8. CASE /\ session' = session \/ session' = [session EXCEPT !.at = "closed"]
           /\ toClient' = toClient \/ toClient' = Append(toClient, Text)
  <2>1. /\ session' \in Sessions /\ session'.user = session.user
        /\ session'.room = session.room /\ session'.at \in {"loop", "closed"}
    BY <1>1, <1>8 DEF IInv, TypeOK, Sessions
  <2>2. toClient' \in Seq(Frame)
    <3>1. toClient \in Seq(Frame)
      BY DEF IInv, TypeOK
    <3>2. Append(toClient, Text) \in Seq(Frame)
      BY <1>5, <3>1, AppendFacts
    <3>3. QED
      BY <1>8, <3>1, <3>2
  <2>3. ComingOK(Coming)' /\ RoomOK'
    BY <1>1, <1>3, <1>8, <2>1, SilentOrText
  <2>4. QED
    BY <2>1, <2>2, <2>3
<1>9. QED
  BY <1>4, <1>7, <1>8

\* Another handler sends to this client, or the session is over.
LEMMA AnyTimeStep ==
  ASSUME IInv, Notify \/ SessionEnds
  PROVE  IInv'
<1>1. /\ UNCHANGED <<g_connected, g_authenticated, g_auth_failed, g_username>>
      /\ UNCHANGED <<g_room, main, prompt, sock, receiver, frames, told, toServer>>
      /\ session' = session \/ session' = [session EXCEPT !.at = "closed"]
      /\ toClient' = toClient \/ toClient' = Append(toClient, Text)
  BY DEF Notify, SessionEnds, Reply, flags, strings, mainVars, threadVars
<1>2. Text \in Frame
  BY DEF Text, Frame
<1>3. /\ session' \in Sessions /\ session'.user = session.user
      /\ session'.room = session.room
      /\ session'.at = session.at \/ session'.at = "closed"
  BY <1>1 DEF IInv, TypeOK, Sessions
<1>4. TypeOK'
  <2>1. toClient' \in Seq(Frame)
    <3>1. toClient \in Seq(Frame)
      BY DEF IInv, TypeOK
    <3>2. Append(toClient, Text) \in Seq(Frame)
      BY <1>2, <3>1, AppendFacts
    <3>3. QED
      BY <1>1, <3>1, <3>2
  <2>2. QED
    BY <1>1, <1>3, <2>1 DEF IInv, TypeOK
<1>5. ThreadsOK' /\ AssigningOK'
  BY <1>1 DEF IInv, ThreadsOK, AssigningOK
<1>6. NoFalseAlarm' /\ PromptOK'
  BY <1>1, <1>3 DEF IInv, NoFalseAlarm, PromptOK
<1>7. LoginOK'
  BY <1>1, <1>3 DEF IInv, LoginOK
<1>8. ComingOK(Coming)' /\ RoomOK'
  BY <1>1, <1>3, SilentOrText
<1>9. QED
  BY <1>4, <1>5, <1>6, <1>7, <1>8 DEF IInv

-----------------------------------------------------------------------------
(***************************************************************************)
(* The theorems.                                                           *)
(***************************************************************************)
\* Every step keeps the invariant.
LEMMA NextIInv ==
  ASSUME IInv, [Next]_vars
  PROVE  IInv'
<1>1. CASE Person
  <2>1. \A r \in Rooms : JoinRoom(r) \in Requests
    BY DEF JoinRoom, Requests
  <2>2. Quit \in Requests /\ Command \in Requests
    BY DEF Quit, Command, Requests
  <2>3. QED
    BY <1>1, <2>1, <2>2, OtherMainStep, MenuSentStep, RequestStep DEF Person
<1>2. CASE Main
  BY <1>2, StartStep, OtherMainStep, RetryStep, PromptStep, EndingStep DEF Main
<1>3. CASE Receiver
  BY <1>3, ReceiveLoopStep, RecvStep, RecvOverStep, FramesDoneStep,
     HandleAuthFailStep, HandleTextStep, StartAssigningStep, SetStringsStep,
     SetFlagStep, SetJoinedStep DEF Receiver
<1>4. CASE Server
  BY <1>4, ServeLoginStep, ServeEntryStep, ServeRequestStep DEF Server
<1>5. CASE Connect \/ Notify \/ SessionEnds \/ Poll \/ Terminated \/ UNCHANGED vars
  BY <1>5, ConnectStep, AnyTimeStep, OtherMainStep
<1>6. QED
  BY <1>1, <1>2, <1>3, <1>4, <1>5 DEF Next

\* The inductive invariant holds of every behaviour of the client, its
\* connection and the server's handler.
THEOREM ClientInvariant == Spec => []IInv
<1>1. Init => IInv
  BY InitIInv
<1>2. IInv /\ [Next]_vars => IInv'
  BY NextIInv
<1>3. QED
  BY <1>1, <1>2, PTL DEF Spec

\* build_prompt never shows an empty or half-assigned name, nor the name of
\* anybody but the user the server accepted: receive_messages assigns g_username
\* and g_room before it sets g_authenticated.
THEOREM PromptCorrect == Spec => []PromptShowsUser
<1>1. IInv => PromptShowsUser
  BY DEF IInv, PromptOK, PromptShowsUser
<1>2. QED
  BY <1>1, ClientInvariant, PTL

\* authenticate returns to the menu only while the server has nobody logged in
\* on this connection: an AuthFail is consumed with the attempt it answers.
THEOREM LoginKept == Spec => []NoLostLogin
<1>1. IInv => NoLostLogin
  BY DEF IInv, LoginOK, NoLostLogin, Unsent
<1>2. QED
  BY <1>1, ClientInvariant, PTL

\* With nothing under way g_room is the room the server has on record.
THEOREM RoomAgrees == Spec => []QuietRoomAgrees
<1>1. IInv => QuietRoomAgrees
  <2> SUFFICES ASSUME IInv, main = "input", receiver = "recv", toClient = <<>>,
                      session.at = "loop"
               PROVE  g_room = session.room
    BY DEF QuietRoomAgrees
  <2>1. frames = <<>>
    BY DEF IInv, ThreadsOK
  <2>2. Coming = <<>>
    BY <2>1, ConcatEmptySeq DEF Coming
  <2>3. 1..Len(Coming) = {}
    BY <2>2
  <2>4. QED
    BY <2>3 DEF IInv, RoomOK, RoomFollows, Deaf
<1>2. QED
  BY <1>1, ClientInvariant, PTL

\* receive_thread prints that the server is gone only if it is: main clears
\* g_connected before it shuts the socket down.
THEOREM AlarmTrue == Spec => []NoFalseAlarm
<1>1. IInv => NoFalseAlarm
  BY DEF IInv
<1>2. QED
  BY <1>1, ClientInvariant, PTL
=============================================================================

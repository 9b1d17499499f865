------------------------ MODULE ChatServerProperties ------------------------
(***************************************************************************)
(* What the server is meant to guarantee, as properties of ChatServer.     *)
(***************************************************************************)
EXTENDS ChatServer

-----------------------------------------------------------------------------
(***************************************************************************)
(* What the properties speak of.                                           *)
(***************************************************************************)
\* Handlers that have an element in `clients`.
Registered == {c \in Conns : pc[c] \in {"loop", "leave"}}

\* Handlers that have authenticated, made all their calls, and wait to read from a
\* client that is there.
Settled == {c \in Conns : pc[c] = "loop" /\ todo[c] = <<>> /\ c \notin lost}

Got(c) == {out[c][k] : k \in DOMAIN out[c]}

Pending(c) == {todo[c][k] : k \in DOMAIN todo[c]}

\* The connection that wrote a text, and whether c was shown row i.
Author(m) == m.content[1]

Seen(c, i) ==
  \E frame \in Got(c) :
    \/ frame.type = "ChatMsg" /\ frame.message = messages[i]
    \/ frame.type = "History" /\ i \in frame.rows

\* The handler of a waits in send() for a connection that had the descriptor of d
\* before: what it sends does not reach d.
Misled(a, d) ==
  waiting[a] \notin {NoConn, d} /\ fd[waiting[a]] = fd[d]

\* The broadcast of message m has still to reach c.
OnItsWay(m, c) ==
  \E call \in Pending(Author(m)) :
    /\ call.op \in {"broadcast", "send each"}
    /\ call.frame = ChatMsg(m)
    /\ call.op = "send each" =>
         ~Misled(Author(m), c) /\ \E e \in call.to : e.socket = fd[c]

\* Row i is older than everything in a full history that c was shown.
BeyondWindow(c, i) ==
  \E frame \in Got(c) :
    /\ frame.type = "History"
    /\ i <= frame.upto
    /\ Cardinality(frame.rows) >= kHistoryLimit
    /\ \A j \in frame.rows : messages[j].room = messages[i].room /\ Before(i, j)

\* Rows of c's present room that somebody else wrote.
RowsFor(c) == {i \in RowsIn(room[c]) : Author(messages[i]) # c}

\* Positions of the frames that put c in a room, and of the notices about d and
\* that room which came after the last of them.
Entries(c) == {k \in DOMAIN out[c] : out[c][k].type \in {"AuthOk", "Joined"}}

NoticesAbout(c, d) ==
  {k \in DOMAIN out[c] :
     /\ Kind(out[c][k]) \in {"joined", "left"}
     /\ out[c][k].by = d
     /\ out[c][k].room = room[c]
     /\ \A j \in Entries(c) : j < k}

-----------------------------------------------------------------------------
(***************************************************************************)
(* Safety.                                                                 *)
(***************************************************************************)
\* A handler uses the descriptor accept() gave it until it closes it, and no
\* other connection holds that descriptor meanwhile; a descriptor is open only
\* for a live handler.  This is what makes sends to one's own socket safe.
DescriptorsOwned ==
  /\ \A c \in Conns : pc[c] \notin {"none", "done"}
                        => fd[c] \in Fds /\ owner[fd[c]] = c
  /\ \A f \in Fds : owner[f] # NoConn
                        => fd[owner[f]] = f /\ pc[owner[f]] \notin {"none", "done"}

\* The elements of `clients` are exactly the authenticated handlers between
\* push_back and erase: each names the open socket, the account and the present
\* room of one handler, so no search by socket (set_room, erase) or by room
\* (broadcast_to_room) can meet a dead or a doubled entry.
RegistryMatchesHandlers ==
  /\ \A e \in clients :
       /\ owner[e.socket] \in Registered
       /\ e.username = user[owner[e.socket]]
       /\ e.room = room[owner[e.socket]]
  /\ \A c \in Registered : \E e \in clients : e.socket = fd[c]
  /\ \A e1, e2 \in clients : e1.socket = e2.socket \/ e1.pos = e2.pos => e1 = e2

\* Nobody in a room whose connection stands misses a message of it: a row another
\* connection stored is replayed or broadcast to every member, is on its way, or
\* lies before the window of a full replay.  Depends on Chat storing before it broadcasts and
\* on joiners registering before they replay.
NoMissedMessage ==
  \A c \in Settled : \A i \in RowsFor(c) :
    Seen(c, i) \/ OnItsWay(messages[i], c) \/ BeyondWindow(c, i)

\* The last notice a waiting client has about another user and its room agrees
\* with where that user is once the user's handler has made its calls.
PresenceAccurate ==
  \A c \in Settled : \A d \in Conns \ {c} :
    (todo[d] = <<>> /\ NoticesAbout(c, d) # {}) =>
      \E k \in NoticesAbout(c, d) :
        /\ \A j \in NoticesAbout(c, d) : j <= k
        /\ out[c][k].text = "joined" <=> d \in Registered /\ room[d] = room[c]

\* Of two clients waiting in the same room one was told that the other joined:
\* handle_join and handle_client register before they announce, so two joins at
\* the same time cannot miss each other.
NoSilentNeighbours ==
  \A c, d \in Settled :
    (c # d /\ room[c] = room[d]) =>
      \/ Notice("joined", d, room[d]) \in Got(c)
      \/ Notice("joined", c, room[c]) \in Got(d)

\* Whatever a client was sent is in the table, or its author was told first that
\* it is not, or could not be told because its own connection is gone (the
\* add_message failure path of Chat and Direct, and send_system's lost result).
ShownIsStoredOrReported ==
  \A c \in Conns : \A frame \in Got(c) :
    frame.type \in {"ChatMsg", "DirectMsg"} =>
      \/ \E i \in DOMAIN messages : messages[i] = frame.message
      \/ NotStored(frame.message.content) \in Got(Author(frame.message))
      \/ Author(frame.message) \in lost

\* A direct message its author sees echoed was written before to the session of
\* the target that find_client_by_username had found, unless that session ended
\* or lost its connection between the search and the send.
EchoMeansDelivered ==
  \A c \in Conns : \A frame \in Got(c) :
    (frame.type = "DirectMsg" /\ Author(frame.message) = c) =>
      LET d == frame.session
      IN  user[d] = frame.to /\ (frame \in Got(d) \/ pc[d] = "done" \/ d \in lost)

\* However registrations of one name race, one client at most is told that it
\* created the account (register_user reports SQLITE_CONSTRAINT to the others).
OneCreator ==
  \A c, d \in Conns :
    (c # d /\ System("created") \in Got(c) /\ System("created") \in Got(d))
      => user[c] # user[d]

-----------------------------------------------------------------------------
(***************************************************************************)
(* Liveness, under FairSpec.                                               *)
(***************************************************************************)
\* A client that leaves has its descriptor closed, however many broadcasts are
\* in progress, unless some peer has stopped reading (the end of handle_client).
LeaverIsClosed ==
  \A c \in Conns :
    pc[c] = "leave" ~> (pc[c] = "done" /\ owner[fd[c]] # c) \/ stalled # {}

\* A message that is stored while somebody else is in its room is shown to that
\* client, unless it leaves the room, its connection is lost, a full replay has
\* passed the row by, or a peer has stopped reading.
MessageIsShown ==
  \A c \in Conns : \A x \in Contents :
    (\E i \in RowsFor(c) : messages[i].content = x /\ c \in Settled)
      ~> \/ \E i \in DOMAIN messages : messages[i].content = x /\ Seen(c, i)
         \/ \E i \in DOMAIN messages : messages[i].content = x /\ BeyondWindow(c, i)
         \/ \A i \in RowsFor(c) : messages[i].content # x
         \/ pc[c] # "loop" \/ c \in lost
         \/ stalled # {}

-----------------------------------------------------------------------------
(***************************************************************************)
(* What the repository says and the code does not do.                      *)
(***************************************************************************)
\* chat_server.cpp, on broadcast_to_room: "Recipients are snapshotted under the
\* lock so a slow client cannot stall the rest of the server."  If so, every
\* handler whose own client reads makes all its calls.
SlowClientStallsNobody ==
  \A c \in Conns \ SlowPeers : todo[c] # <<>> ~> todo[c] = <<>>

\* README: "messages only broadcast to clients in the same room": a chat line is
\* written only to connections that are in its room when it is written.
BroadcastStaysInRoom ==
  [][\A c \in Conns : \A frame \in Got(c)' \ Got(c) :
       frame.type = "ChatMsg" => frame.message.room = room[c]]_vars

\* README: "Direct messages between users": a direct message is written only to
\* connections of the two users it is between.
DirectReachesItsUsers ==
  \A c \in Conns : \A frame \in Got(c) :
    frame.type = "DirectMsg" => user[c] \in {frame.to, frame.message.username}

\* README: "/history [N] - show the last N messages in the current room": a
\* history that was looked up for a client is written to it.
HistoryIsShown ==
  [][\A c \in Conns :
       Calling(c, "send") /\ Head(todo[c]).frame.type = "History"
                          /\ todo'[c] # todo[c]
         => out'[c] = Append(out[c], Head(todo[c]).frame)]_vars
=============================================================================

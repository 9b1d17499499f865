----------------------------- MODULE ChatClient -----------------------------
(***************************************************************************)
(* The chat client (chat_client.cpp): the main thread, which reads lines   *)
(* from the terminal, and receive_thread, which handles what the server    *)
(* sends.  They share three atomic flags and two strings that no lock      *)
(* protects, so a string has steps of its own: one in which it is being    *)
(* assigned, and the assignment.                                           *)
(*                                                                         *)
(* The connection is two queues of messages.  Its other end is one         *)
(* handle_client thread of chat_server.cpp, seen from here: one step per   *)
(* request, and frames that other handlers write once it is registered,    *)
(* which may come before its own AuthOk.                                   *)
(***************************************************************************)
EXTENDS Naturals, Sequences

CONSTANTS
  Users,         \* account names the person at the terminal tries
  Rooms,         \* rooms, as sanitize_room returns them
  kDefaultRoom,  \* the server's "general"
  Empty,         \* the empty string
  Torn,          \* what a read during an assignment may return
  MaxLines,      \* bound: lines typed
  MaxNotices     \* bound: frames of other handlers

ASSUME ClientAssumption ==
  /\ kDefaultRoom \in Rooms
  /\ Empty \notin Users \cup Rooms
  /\ Torn \notin Users \cup Rooms \cup {Empty}
  /\ MaxLines \in Nat
  /\ MaxNotices \in Nat

VARIABLES
  main,             \* where the main thread is
  g_connected, g_authenticated, g_auth_failed,
  g_username, g_room,
  prompt,           \* what the last build_prompt put together
  sock,             \* the client's socket: "open", "shut" down or "closed"
  receiver,         \* where receive_thread is
  frames,           \* messages of the last recv() still to be handled
  told,             \* has "Disconnected from server." been printed?
  toServer, toClient,
  session,          \* the server's handler: where it is, its user and room
  lines, notices    \* counters for the bounds

flags      == <<g_connected, g_authenticated, g_auth_failed>>
outcome    == <<g_authenticated, g_auth_failed>>
strings    == <<g_username, g_room>>
mainVars   == <<main, prompt, sock, lines>>
threadVars == <<receiver, frames, told>>
serverVars == <<session, notices>>
net        == <<serverVars, toServer, toClient>>
vars == <<flags, strings, mainVars, threadVars, net>>

-----------------------------------------------------------------------------
(***************************************************************************)
(* Messages.  Login and Register differ for the database only, and every   *)
(* frame the client merely prints is Text.                                 *)
(***************************************************************************)
Credentials(u) == [type |-> "Login", username |-> u]
JoinRoom(r)    == [type |-> "Join", room |-> r]
Command        == [type |-> "Command"]
Quit           == [type |-> "Quit"]

AuthOk(u, r)   == [type |-> "AuthOk", username |-> u, room |-> r]
AuthFail       == [type |-> "AuthFail"]
Joined(r)      == [type |-> "Joined", room |-> r]
Text           == [type |-> "Text"]

Init ==
  /\ main = "connect"
  /\ g_connected = FALSE /\ g_authenticated = FALSE /\ g_auth_failed = FALSE
  /\ g_username = Empty /\ g_room = Empty
  /\ prompt = [room |-> Empty, user |-> Empty, drawn |-> FALSE]
  /\ sock = "closed"
  /\ receiver = "none" /\ frames = <<>> /\ told = FALSE
  /\ toServer = <<>> /\ toClient = <<>>
  /\ session = [at |-> "closed", user |-> Empty, room |-> kDefaultRoom]
  /\ lines = 0 /\ notices = 0

-----------------------------------------------------------------------------
(***************************************************************************)
(* The main thread.                                                        *)
(***************************************************************************)
\* connect(): the server has a handler for this client, or main returns.
Connect ==
  /\ main = "connect"
  /\ \/ /\ main' = "connected" /\ sock' = "open"
        /\ session' = [session EXCEPT !.at = "auth"]
     \/ main' = "exited" /\ UNCHANGED <<sock, session>>
  /\ UNCHANGED <<flags, strings, prompt, lines, threadVars, notices, toServer, toClient>>

\* Fault: receive_thread runs before g_connected is set.
StartEarly ==
  \/ /\ main = "connected" /\ main' = "start" /\ receiver' = "loop"
     /\ UNCHANGED <<flags, strings, prompt, sock, lines, frames, told, net>>
  \/ /\ main = "start" /\ main' = "menu" /\ g_connected' = TRUE
     /\ UNCHANGED <<outcome, strings, prompt, sock, lines, threadVars, net>>

\* g_connected = true, then receive_thread is started.
Start ==
  \/ /\ main = "connected" /\ main' = "start" /\ g_connected' = TRUE
     /\ UNCHANGED <<outcome, strings, prompt, sock, lines, threadVars, net>>
  \/ /\ main = "start" /\ main' = "menu" /\ receiver' = "loop"
     /\ UNCHANGED <<flags, strings, prompt, sock, lines, frames, told, net>>

\* send_message: the first sends to a peer that is gone may still succeed.
Send(m) ==
  \/ session.at # "closed" /\ toServer' = Append(toServer, m)
  \/ session.at = "closed" /\ UNCHANGED toServer

\* getline returns a line, in the menu or in the chat loop.
Typed(where) ==
  /\ main = where
  /\ lines < MaxLines
  /\ lines' = lines + 1

\* EOF, or the wish to leave the menu.
MenuLeft ==
  /\ main = "menu"
  /\ main' = "ending"
  /\ UNCHANGED <<flags, strings, prompt, sock, lines, threadVars, net>>

\* An invalid choice, or a name or password that is refused before it is sent.
MenuRefused ==
  /\ Typed("menu")
  /\ UNCHANGED <<flags, strings, main, prompt, sock, threadVars, net>>

\* The credentials are sent, or the send fails and authenticate returns false.
MenuSent(u) ==
  /\ Typed("menu")
  /\ \/ Send(Credentials(u)) /\ main' = "wait"
     \/ session.at = "closed" /\ main' = "ending" /\ UNCHANGED toServer
  /\ UNCHANGED <<flags, strings, prompt, sock, threadVars, serverVars, toClient>>

\* The polling loop sleeps once more.
Poll ==
  /\ main = "wait"
  /\ g_connected /\ ~g_authenticated /\ ~g_auth_failed
  /\ UNCHANGED vars

\* The polling loop ends.
Waited ==
  /\ main = "wait"
  /\ ~g_connected \/ g_authenticated \/ g_auth_failed
  /\ main' = "answered"
  /\ UNCHANGED <<flags, strings, prompt, sock, lines, threadVars, net>>

\* Fault: the flag is left set.
RetryKeepsFlag ==
  /\ main = "answered" /\ g_auth_failed
  /\ main' = "menu"
  /\ UNCHANGED <<flags, strings, prompt, sock, lines, threadVars, net>>

Retry ==
  /\ main = "answered" /\ g_auth_failed
  /\ g_auth_failed' = FALSE
  /\ main' = "menu"
  /\ UNCHANGED <<g_connected, g_authenticated, strings, prompt, sock, lines,
                 threadVars, net>>

AuthReturns ==
  /\ main = "answered" /\ ~g_auth_failed
  /\ main' = IF g_authenticated THEN "loop" ELSE "ending"
  /\ UNCHANGED <<flags, strings, prompt, sock, lines, threadVars, net>>

\* while (g_connected)
Loop ==
  /\ main = "loop"
  /\ main' = IF g_connected THEN "prompt" ELSE "ending"
  /\ UNCHANGED <<flags, strings, prompt, sock, lines, threadVars, net>>

\* A string the receive thread is assigning may read as anything.
Read(string, assigning) == IF receiver \in assigning THEN {string, Torn} ELSE {string}

build_prompt ==
  /\ main = "prompt"
  /\ \E r \in Read(g_room, {"set room", "set joined"}),
        u \in Read(g_username, {"set name"}) :
       prompt' = [room |-> r, user |-> u, drawn |-> TRUE]
  /\ main' = "input"
  /\ UNCHANGED <<flags, strings, sock, lines, threadVars, net>>

\* A line that becomes a request; the result of send_message is not looked at.
Request(m) ==
  /\ Typed("input")
  /\ Send(m)
  /\ main' = IF m = Quit THEN "ending" ELSE "loop"
  /\ UNCHANGED <<flags, strings, prompt, sock, threadVars, serverVars, toClient>>

\* A blank line, /help, a usage error or a line that is too long.
LocalLine ==
  /\ Typed("input")
  /\ main' = "loop"
  /\ UNCHANGED <<flags, strings, prompt, sock, threadVars, net>>

EndOfInput ==
  /\ main = "input"
  /\ main' = "ending"
  /\ UNCHANGED <<flags, strings, prompt, sock, lines, threadVars, net>>

\* One statement of the ending: main goes from `from` to `to`.
Ends(from, to) == main = from /\ main' = to

\* Fault: the socket is shut down while g_connected still holds.
EndingShutsFirst ==
  \/ /\ Ends("ending", "shut")
     /\ sock' = "shut"
     /\ UNCHANGED <<flags, strings, prompt, lines, threadVars, net>>
  \/ /\ Ends("shut", "close")
     /\ g_connected' = FALSE
     /\ UNCHANGED <<outcome, strings, prompt, sock, lines, threadVars, net>>

\* Fault: the thread is joined before shutdown() wakes its recv().
EndingJoinsFirst ==
  \/ /\ Ends("ending", "shut")
     /\ g_connected' = FALSE
     /\ UNCHANGED <<outcome, strings, prompt, sock, lines, threadVars, net>>
  \/ /\ Ends("shut", "close")
     /\ receiver = "ended"
     /\ sock' = "shut"
     /\ UNCHANGED <<flags, strings, prompt, lines, threadVars, net>>

\* g_connected = false, then shutdown.
Ending ==
  \/ /\ Ends("ending", "shut")
     /\ g_connected' = FALSE
     /\ UNCHANGED <<outcome, strings, prompt, sock, lines, threadVars, net>>
  \/ /\ Ends("shut", "close")
     /\ sock' = "shut"
     /\ UNCHANGED <<flags, strings, prompt, lines, threadVars, net>>

Closing ==
  /\ Ends("close", "join")
  /\ sock' = "closed"
  /\ UNCHANGED <<flags, strings, prompt, lines, threadVars, net>>

\* receive_thread.join(), and main returns.
JoinThread ==
  /\ Ends("join", "exited")
  /\ receiver = "ended"
  /\ UNCHANGED <<flags, strings, prompt, sock, lines, threadVars, net>>

-----------------------------------------------------------------------------
(***************************************************************************)
(* receive_messages.                                                       *)
(***************************************************************************)
Thread(from, to) == receiver = from /\ receiver' = to

ReceiveLoop ==
  /\ Thread("loop", IF g_connected THEN "recv" ELSE "ended")
  /\ UNCHANGED <<flags, strings, mainVars, frames, told, net>>

\* recv() returns bytes that complete n messages; with an incomplete one at the
\* end the loop only goes round (n = 0 changes nothing).
Recv(n) ==
  /\ Thread("recv", "frames")
  /\ sock # "closed"
  /\ n \in 1..Len(toClient)
  /\ frames' = SubSeq(toClient, 1, n)
  /\ toClient' = SubSeq(toClient, n + 1, Len(toClient))
  /\ UNCHANGED <<flags, strings, mainVars, told, serverVars, toServer>>

\* recv() returns 0 or an error: the server has closed or reset the connection,
\* or this client has shut it down.  The exchange decides who tells.
RecvEnds ==
  /\ Thread("recv", "ended")
  /\ session.at = "closed" \/ sock # "open"
  /\ g_connected' = FALSE
  /\ told' = (told \/ g_connected)
  /\ UNCHANGED <<outcome, strings, mainVars, frames, net>>

\* extract_frames refuses a length, which frames of several handlers that mix
\* on the socket can cause.
RecvInvalid ==
  /\ Thread("recv", "ended")
  /\ toClient # <<>> /\ sock # "closed"
  /\ g_connected' = FALSE
  /\ UNCHANGED <<outcome, strings, mainVars, frames, told, net>>

\* The batch is done, or abandoned because the connection is over.
FramesDone ==
  /\ Thread("frames", "loop")
  /\ frames = <<>> \/ ~g_connected
  /\ frames' = <<>>
  /\ UNCHANGED <<flags, strings, mainVars, told, net>>

\* The handling of a frame of this type starts; g_connected was tested before.
Handling(type) == g_connected /\ frames # <<>> /\ Head(frames).type = type

HandleAuthFail ==
  /\ Thread("frames", "frames") /\ Handling("AuthFail")
  /\ g_auth_failed' = TRUE
  /\ frames' = Tail(frames)
  /\ UNCHANGED <<g_connected, g_authenticated, strings, mainVars, told, net>>

HandleText ==
  /\ Thread("frames", "frames") /\ Handling("Text")
  /\ frames' = Tail(frames)
  /\ UNCHANGED <<flags, strings, mainVars, told, net>>

\* A frame that assigns a string: the assignment starts.
StartAssigning ==
  /\ \/ Thread("frames", "set name") /\ Handling("AuthOk")
     \/ Thread("frames", "set joined") /\ Handling("Joined")
  /\ UNCHANGED <<flags, strings, mainVars, frames, told, net>>

\* Fault: g_authenticated is set before the strings are.
SetNameAfterFlag ==
  \/ /\ receiver = "set name" /\ ~g_authenticated
     /\ g_authenticated' = TRUE
     /\ UNCHANGED <<g_connected, g_auth_failed, strings, mainVars, threadVars, net>>
  \/ /\ Thread("set name", "set room") /\ g_authenticated
     /\ g_username' = Head(frames).username
     /\ UNCHANGED <<flags, g_room, mainVars, frames, told, net>>

SetName ==
  /\ Thread("set name", "set room")
  /\ g_username' = Head(frames).username
  /\ UNCHANGED <<flags, g_room, mainVars, frames, told, net>>

SetRoom ==
  /\ Thread("set room", "set flag")
  /\ g_room' = Head(frames).room
  /\ UNCHANGED <<flags, g_username, mainVars, frames, told, net>>

SetFlag ==
  /\ Thread("set flag", "frames")
  /\ g_authenticated' = TRUE
  /\ frames' = Tail(frames)
  /\ UNCHANGED <<g_connected, g_auth_failed, strings, mainVars, told, net>>

\* Fault: the room is printed and not kept.
JoinedPrinted ==
  /\ Thread("set joined", "frames")
  /\ frames' = Tail(frames)
  /\ UNCHANGED <<flags, strings, mainVars, told, net>>

SetJoined ==
  /\ Thread("set joined", "frames")
  /\ g_room' = Head(frames).room
  /\ frames' = Tail(frames)
  /\ UNCHANGED <<flags, g_username, mainVars, told, net>>

-----------------------------------------------------------------------------
(***************************************************************************)
(* The server's handler.                                                   *)
(***************************************************************************)
Reply(m) == toClient' = Append(toClient, m)

\* handle_auth: the user is registered in `clients` (a new account is told so
\* before), or the login is refused.
ServeLogin ==
  /\ session.at = "auth" /\ toServer # <<>>
  /\ toServer' = Tail(toServer)
  /\ \/ /\ session' = [session EXCEPT !.at = "entering", !.user = Head(toServer).username]
        /\ Reply(Text) \/ UNCHANGED toClient
     \/ /\ Reply(AuthFail)
        /\ UNCHANGED session
  /\ UNCHANGED <<flags, strings, mainVars, threadVars, notices>>

\* AuthOk, and the greeting and history that follow it.
ServeEntry ==
  /\ session.at = "entering"
  /\ session' = [session EXCEPT !.at = "loop"]
  /\ toClient' = toClient \o <<AuthOk(session.user, session.room), Text>>
  /\ UNCHANGED <<flags, strings, mainVars, threadVars, notices, toServer>>

\* The message loop of handle_client.
ServeRequest ==
  /\ session.at = "loop" /\ toServer # <<>>
  /\ toServer' = Tail(toServer)
  /\ LET m == Head(toServer)
     IN  \/ /\ m.type = "Join" /\ m.room # session.room
            /\ session' = [session EXCEPT !.room = m.room]
            /\ Reply(Joined(m.room))
         \/ /\ m.type = "Join" /\ m.room = session.room
            /\ Reply(Text) /\ UNCHANGED session
         \/ /\ m.type = "Command"  \* a chat line gets no answer
            /\ Reply(Text) \/ UNCHANGED toClient
            /\ UNCHANGED session
         \/ /\ m.type = "Quit"
            /\ session' = [session EXCEPT !.at = "closed"]
            /\ Reply(Text)
  /\ UNCHANGED <<flags, strings, mainVars, threadVars, notices>>

\* Another handler sends to this client.
Notify ==
  /\ session.at \in {"entering", "loop"} /\ notices < MaxNotices
  /\ notices' = notices + 1
  /\ Reply(Text)
  /\ UNCHANGED <<flags, strings, mainVars, threadVars, session, toServer>>

\* The server stops or the connection is lost (external), or the handler sees
\* that the client is gone.
SessionEnds ==
  /\ session.at # "closed"
  /\ session' = [session EXCEPT !.at = "closed"]
  /\ UNCHANGED <<flags, strings, mainVars, threadVars, notices, toServer, toClient>>

\* The program has ended.
Terminated ==
  /\ main = "exited"
  /\ UNCHANGED vars

-----------------------------------------------------------------------------
\* What the person at the terminal does.
Person ==
  \/ MenuLeft \/ MenuRefused \/ (\E u \in Users : MenuSent(u))
  \/ LocalLine \/ EndOfInput \/ Request(Quit) \/ Request(Command)
  \/ \E r \in Rooms : Request(JoinRoom(r))

Main == \/ Start \/ Waited \/ Retry \/ AuthReturns \/ Loop \/ build_prompt
        \/ Ending \/ Closing \/ JoinThread

Receiver ==
  \/ ReceiveLoop \/ (\E n \in 1..Len(toClient) : Recv(n)) \/ RecvEnds \/ RecvInvalid
  \/ FramesDone \/ HandleAuthFail \/ HandleText \/ StartAssigning
  \/ SetName \/ SetRoom \/ SetFlag \/ SetJoined

Server == ServeLogin \/ ServeEntry \/ ServeRequest

Next == Connect \/ Person \/ Main \/ Receiver \/ Server \/ Notify \/ SessionEnds
          \/ Poll \/ Terminated

\* Both threads of the client and the server's handler are scheduled; the person
\* need not type anything.
Fairness == WF_vars(Main) /\ WF_vars(Receiver) /\ WF_vars(Server)

Spec     == Init /\ [][Next]_vars
FairSpec == Spec /\ Fairness

-----------------------------------------------------------------------------
(***************************************************************************)
(* Properties.                                                             *)
(***************************************************************************)
\* Every prompt carries the name the server accepted, never an empty or
\* half-assigned one, and some room: receive_messages assigns both strings
\* before it sets g_authenticated, and main reads them only afterwards.
PromptShowsUser ==
  prompt.drawn => /\ prompt.user = session.user
                  /\ prompt.user # Empty
                  /\ prompt.room # Empty

\* A login the server accepted is not taken for a refused one: main is back in
\* the menu only while the server has nobody logged in on this connection, so
\* an earlier AuthFail cannot answer a later attempt (authenticate).
NoLostLogin == main = "menu" => session.user = Empty

\* When nothing is under way the client's room is the one the server has for it.
QuietRoomAgrees ==
  (main = "input" /\ receiver = "recv" /\ toServer = <<>> /\ toClient = <<>>
   /\ session.at = "loop")
    => g_room = session.room

\* "Disconnected from server." is printed only if the server's end is closed:
\* main clears g_connected before it shuts the socket down.
NoFalseAlarm == told => session.at = "closed"

\* Once main leaves its loops the program ends: the shutdown wakes a receive
\* thread that waits in recv() or is in the middle of a batch.
LeavingEnds == main = "ending" ~> main = "exited"

\* The polling loop of authenticate ends with an answer or the loss of the
\* connection: the receive thread is there to see either.
AnswerEndsWait == main = "wait" ~> main # "wait"
=============================================================================

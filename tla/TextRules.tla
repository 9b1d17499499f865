------------------------------ MODULE TextRules -----------------------------
(***************************************************************************)
(* What the two programs do with the strings people type: names, rooms,    *)
(* the key of a thread of direct messages, limits, and command lines from  *)
(* the client's prompt to the server's handler.                            *)
(*                                                                         *)
(* A string is a sequence of symbols of Alphabet, the characters.  At the  *)
(* start of a line a whole command word such as "/join" is one symbol.     *)
(***************************************************************************)
EXTENDS Integers, Sequences, FiniteSetsExt

CONSTANTS
  Alphabet,       \* the symbols, in the order of their codes
  Alnum,          \* those isalnum() accepts
  NameMin,        \* lengths of a valid username (3 and 20)
  NameMax,
  RoomMax,        \* longest room name (32)
  ChatMax,        \* longest chat line the client sends (512)
  kHistoryLimit,  \* rows replayed by default (50)
  MaxHistory,     \* the most rows a HistoryReq gets (200)
  IntMax          \* largest int (2^31 - 1)

Symbols == {Alphabet[i] : i \in DOMAIN Alphabet}

\* The words that the chat loop looks for at the start of a line.
Words == {"/join", "/history", "/rooms", "/msg", "/w", "/who", "/dmhistory",
          "/help", "/quit", "/q", "exit"}

ASSUME TextAssumption ==
  /\ Alphabet \in Seq(STRING) /\ Alnum \subseteq Symbols
  /\ Alnum \cap {" ", "\t", "\r", "\n", ":", "@"} = {}
  /\ Symbols \cap Words = {}
  /\ {NameMin, NameMax, ChatMax, MaxHistory, IntMax} \subseteq Nat
  /\ RoomMax \in Nat \ {0}
  /\ kHistoryLimit \in 1..MaxHistory

Blank     == {" ", "\t", "\r", "\n"}
NameChars == Alnum \cup {"_", "-"}
Digits    == <<"0", "1", "2", "3", "4", "5", "6", "7", "8", "9">>

-----------------------------------------------------------------------------
(***************************************************************************)
(* Strings.                                                                *)
(***************************************************************************)
From(s, i) == SubSeq(s, i, Len(s))

\* find(ch): the first position of the symbol, 0 for npos.
find(s, ch) ==
  LET at == {i \in DOMAIN s : s[i] = ch}
  IN  IF at = {} THEN 0 ELSE Min(at)

\* The part before the symbol at position i, the whole if there is none.
Before(s, i) == IF i = 0 THEN s ELSE SubSeq(s, 1, i - 1)

trim(s) ==
  LET keep == {i \in DOMAIN s : s[i] \notin Blank}
  IN  IF keep = {} THEN <<>> ELSE SubSeq(s, Min(keep), Max(keep))

\* operator< of std::string.
Less(a, b) ==
  LET code(ch) == find(Alphabet, ch)
  IN  \E n \in 0..Len(a) :
        /\ n < Len(b)
        /\ SubSeq(a, 1, n) = SubSeq(b, 1, n)
        /\ n = Len(a) \/ code(a[n + 1]) < code(b[n + 1])

-----------------------------------------------------------------------------
(***************************************************************************)
(* Names, rooms and threads.                                               *)
(***************************************************************************)
valid_username(s) ==
  /\ Len(s) \in NameMin..NameMax
  /\ \A i \in DOMAIN s : s[i] \in NameChars

\* Fault: every character is accepted in a room name.
sanitize_room_verbatim(s) ==
  LET room == trim(s)
  IN  SubSeq(room, 1, IF Len(room) > RoomMax THEN RoomMax ELSE Len(room))

\* Fault: the name keeps the blanks around it.
sanitize_room_untrimmed(s) ==
  LET cut == SubSeq(s, 1, IF Len(s) > RoomMax THEN RoomMax ELSE Len(s))
  IN  [i \in DOMAIN cut |->
         IF cut[i] \in NameChars \cup {" "} THEN cut[i] ELSE "_"]

sanitize_room(s) ==
  LET room == trim(s)
      cut  == SubSeq(room, 1, IF Len(room) > RoomMax THEN RoomMax ELSE Len(room))
  IN  [i \in DOMAIN cut |->
         IF cut[i] \in NameChars \cup {" "} THEN cut[i] ELSE "_"]

\* Fault: the names stand next to each other.
dm_room_key_joined(a, b) ==
  <<"d", "m", ":">> \o (IF Less(a, b) THEN a \o b ELSE b \o a)

dm_room_key(a, b) ==
  <<"d", "m", ":">> \o (IF Less(a, b) THEN a \o <<":">> \o b
                                      ELSE b \o <<":">> \o a)

\* print_chat_message: a row is shown as part of a thread if its room looks like
\* a key, and then with the name that is not the reader's own.
looks_direct(room) == Len(room) >= 3 /\ SubSeq(room, 1, 3) = <<"d", "m", ":">>

\* Fault: the first name of the key is taken for the other one.
other_first(room, g_username) == Before(From(room, 4), find(From(room, 4), ":"))

other(room, g_username) ==
  LET names  == From(room, 4)
      split  == find(names, ":")
      user_a == Before(names, split)
      user_b == IF split = 0 THEN <<>> ELSE From(names, split + 1)
  IN  IF user_a = g_username THEN user_b ELSE user_a

-----------------------------------------------------------------------------
(***************************************************************************)
(* Limits.                                                                 *)
(***************************************************************************)
\* std::stoi: a sign, then all digits up to the first other character; it throws
\* if there is none or if the number is no int.
stoi(s) ==
  LET signed == s # <<>> /\ Head(s) \in {"+", "-"}
      body   == IF signed THEN Tail(s) ELSE s
      isdigit(ch) == find(Digits, ch) # 0
      length == CHOOSE n \in 0..Len(body) :
                  /\ \A i \in 1..n : isdigit(body[i])
                  /\ n = Len(body) \/ ~isdigit(body[n + 1])
      number[i \in 0..length] ==
        IF i = 0 THEN 0 ELSE 10 * number[i - 1] + find(Digits, body[i]) - 1
      n == IF signed /\ Head(s) = "-" THEN -number[length] ELSE number[length]
  IN  [ok |-> length > 0 /\ n \in (-IntMax - 1)..IntMax, value |-> n]

\* Fault: a number below one is passed on.
history_limit_low(text) ==
  LET n == IF stoi(text).ok THEN stoi(text).value ELSE kHistoryLimit
  IN  IF text = <<>> THEN kHistoryLimit
      ELSE IF n > MaxHistory THEN MaxHistory ELSE n

history_limit(text) ==
  LET n == IF stoi(text).ok THEN stoi(text).value ELSE kHistoryLimit
  IN  IF text = <<>> THEN kHistoryLimit
      ELSE IF n <= 0 THEN 1
      ELSE IF n > MaxHistory THEN MaxHistory
      ELSE n

Refused == [ok |-> FALSE]

\* What handle_history_request replays, unless it answers with the usage.
handle_history_request(raw_limit, username, room) ==
  LET text   == trim(raw_limit)
      space  == find(text, " ")
      target == From(Before(text, space), 2)
      rest   == IF space = 0 THEN <<>> ELSE trim(From(text, space + 1))
  IN  IF text = <<>> \/ text[1] # "@"
      THEN [ok |-> TRUE, room |-> room, limit |-> history_limit(text)]
      ELSE IF target = <<>> THEN Refused
      ELSE [ok |-> TRUE, room |-> dm_room_key(username, target),
            limit |-> history_limit(rest)]

-----------------------------------------------------------------------------
(***************************************************************************)
(* From the prompt to the handler.                                         *)
(***************************************************************************)
Request(type, payload) == [type |-> type, payload |-> payload]
Nothing == Request("none", <<>>)

\* Fault: an empty text is not noticed.
direct_request_blindly(rest) ==
  LET space == find(rest, " ")
  IN  Request("Direct", Before(rest, space) \o <<"\n">>
                          \o trim(IF space = 0 THEN <<>> ELSE From(rest, space + 1)))

\* /msg and /w, given the trimmed rest of the line.
direct_request(rest) ==
  LET space   == find(rest, " ")
      content == trim(From(rest, space + 1))
  IN  IF space = 0 \/ Before(rest, space) = <<>> \/ content = <<>> THEN Nothing
      ELSE Request("Direct", Before(rest, space) \o <<"\n">> \o content)

\* What the client's chat loop sends for a line, if anything.
client_request(line) ==
  LET input  == trim(line)
      word   == Head(input)
      spaced == Len(input) > 1 /\ input[2] = " "
      rest   == trim(Tail(input))
  IN  CASE input \in {<<>>, <<"/help">>} -> Nothing
        [] input \in {<<"exit">>, <<"/quit">>, <<"/q">>} -> Request("Quit", <<>>)
        [] input = <<"/rooms">> -> Request("RoomsReq", <<>>)
        [] input # <<>> /\ word = "/join" /\ spaced -> Request("Join", rest)
        [] input # <<>> /\ word = "/history" -> Request("HistoryReq", rest)
        [] input # <<>> /\ word \in {"/msg", "/w"} /\ spaced -> direct_request(rest)
        [] input # <<>> /\ word = "/who" /\ (spaced \/ Len(input) = 1)
             -> Request("UsersReq", rest)
        [] input # <<>> /\ word = "/dmhistory" /\ spaced
             -> IF rest = <<>> THEN Nothing ELSE Request("HistoryReq", <<"@">> \o rest)
        [] OTHER -> IF Len(input) > ChatMax THEN Nothing ELSE Request("Chat", input)

\* What the server's handler for Direct makes of a payload.
handle_direct(payload) ==
  LET separator == find(payload, "\n")
      target    == trim(Before(payload, separator))
      content   == trim(From(payload, separator + 1))
  IN  IF separator = 0 \/ target = <<>> \/ content = <<>> THEN Refused
      ELSE [ok |-> TRUE, target |-> target, content |-> content]

\* Is the request one the handler acts on?  The others get a usage message, an
\* error, or no answer.
Accepted(request, username, room) ==
  CASE request.type = "Chat" -> trim(request.payload) # <<>>
    [] request.type = "Join" -> sanitize_room(request.payload) # <<>>
    [] request.type = "HistoryReq" ->
         handle_history_request(request.payload, username, room).ok
    [] request.type = "Direct" -> handle_direct(request.payload).ok
    [] request.type = "UsersReq" ->
         trim(request.payload) = <<>> \/ sanitize_room(request.payload) # <<>>
    [] OTHER -> TRUE

\* The credentials as authenticate puts them together and handle_auth takes them
\* apart.
client_credentials(name, password) == trim(name) \o <<"\n">> \o password

\* Fault: the password is trimmed as the name is.
server_credentials_trimmed(payload) ==
  LET separator == find(payload, "\n")
  IN  IF separator = 0 THEN Refused
      ELSE [ok |-> TRUE, username |-> trim(Before(payload, separator)),
            password |-> trim(From(payload, separator + 1))]

server_credentials(payload) ==
  LET separator == find(payload, "\n")
  IN  IF separator = 0 THEN Refused
      ELSE [ok |-> TRUE, username |-> trim(Before(payload, separator)),
            password |-> From(payload, separator + 1)]
=============================================================================

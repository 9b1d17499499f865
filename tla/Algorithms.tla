----------------------------- MODULE Algorithms -----------------------------
(***************************************************************************)
(* The pure functions of the two programs, applied to every input of the   *)
(* given sets: a behaviour picks one input, and the invariants say what    *)
(* the functions must make of it.                                          *)
(***************************************************************************)
EXTENDS Codecs, Digest, TextRules

CONSTANTS
  Records,     \* chat and direct messages
  Histories,   \* lists of them
  NameLists,   \* lists of usernames, as byte strings
  ByteStrings, \* payloads of any origin
  Names,       \* valid usernames
  Texts,       \* what may arrive in a request
  Lines,       \* what may follow a command word at the prompt
  Fields,      \* what may be typed as a name or a password
  Commands,    \* command words, and the empty one of a chat line
  Salts, Passwords

\* Byte strings whose length in bits fits in the last bytes of the padding.
Paddable == {s \in Seq(Byte) : BitsPerByte * Len(s) < Power[LengthSize]}

ASSUME BytesInput ==
  /\ Records \subseteq ShortRecords /\ Histories \subseteq Lists(ShortRecords)
  /\ NameLists \subseteq Lists(Shorts(U16))
  /\ ByteStrings \subseteq Paddable
  /\ Salts \subseteq Seq(Byte) /\ Passwords \subseteq Seq(Byte)
  /\ \A salt \in Salts, password \in Passwords : salt \o password \in Paddable

\* std::getline takes what is typed up to the end of the line.
ASSUME TextInput ==
  /\ \A name \in Names : name \in Seq(Symbols) /\ valid_username(name)
  /\ Texts \subseteq Seq(Symbols)
  /\ \A typed \in Lines \cup Fields : typed \in Seq(Symbols) /\ find(typed, "\n") = 0
  /\ Commands \subseteq {<<>>} \cup {<<word>> : word \in Words}

VARIABLE input   \* the input picked, with its kind

None == [kind |-> "none", value |-> <<>>]

Pick(kind, S) ==
  /\ input = None
  /\ \E v \in S : input' = [kind |-> kind, value |-> v]

PickRecord      == Pick("record", Records)
PickHistory     == Pick("history", Histories)
PickNames       == Pick("user list", NameLists)
PickBytes       == Pick("bytes", ByteStrings)
PickUsers       == Pick("users", Names \X Names)
PickText        == Pick("text", Names \X Texts)
PickLine        == Pick("line", Commands \X Lines)
PickCredentials == Pick("credentials", Fields \X Fields)
PickPassword    == Pick("password", Salts \X Passwords)

Done == input # None /\ UNCHANGED input

Init == input = None

Next == \/ PickRecord \/ PickHistory \/ PickNames \/ PickBytes
        \/ PickUsers \/ PickText \/ PickLine \/ PickCredentials
        \/ PickPassword
        \/ Done

Spec == Init /\ [][Next]_input

x == input.value
Given(kind) == input.kind = kind

-----------------------------------------------------------------------------
(***************************************************************************)
(* Codecs.                                                                 *)
(***************************************************************************)
\* decode undoes encode and leaves nothing over, and no part of an encoding that
\* stops early, wherever it stops, passes for a whole one.
RoundTrip(Encode(_), Decode(_), v) ==
  LET bytes == Encode(v)
  IN  /\ Decode(bytes) = Taken(Len(bytes), v)
      /\ \A n \in 0 .. Len(bytes) - 1 : ~Decode(SubSeq(bytes, 1, n)).ok

\* protocol.hpp: "Binary fields are big-endian and length-prefixed so arbitrary
\* content [...] round-trips losslessly": every record, list and frame comes back
\* as it was, negative times included, and every truncated one is refused
\* (encode_* and decode_* of protocol.cpp).
RecordsRoundTrip ==
  /\ Given("record")    => RoundTrip(encode_chat_message, decode_chat_message, x)
                           /\ RoundTrip(encode_direct_message, decode_direct_message, x)
  /\ Given("history")   => RoundTrip(encode_history, decode_history, x)
  /\ Given("user list") => RoundTrip(encode_user_list, decode_user_list, x)
  /\ Given("bytes") /\ x # <<>> =>
       encode_message(decode_message(x).value.type, decode_message(x).value.payload) = x

\* Whatever bytes arrive, a decoder that accepts them has read a true encoding of
\* its result from inside them: it never runs past the end, and one meaning has
\* one form (the take_* functions of protocol.cpp).
DecodingIsSound ==
  Given("bytes") =>
    LET reads(d, bytes) == d.ok => /\ d.offset <= Len(x)
                                   /\ bytes = SubSeq(x, 1, d.offset)
    IN  /\ LET d == decode_chat_message(x)
           IN  reads(d, IF d.ok THEN encode_chat_message(d.value) ELSE <<>>)
        /\ LET d == decode_history(x)
           IN  reads(d, IF d.ok THEN encode_history(d.value) ELSE <<>>)
        /\ LET d == decode_user_list(x)
           IN  reads(d, IF d.ok THEN encode_user_list(d.value) ELSE <<>>)

-----------------------------------------------------------------------------
(***************************************************************************)
(* Digests.                                                                *)
(***************************************************************************)
\* The padding of sha256_hex gives whole blocks, no more of them than needed, and
\* the message can be read back from it, at every length around a block's end.
PaddingIsSound ==
  Given("bytes") =>
    LET message == pad(x)
        bits    == Value(Drop(message, Len(message) - LengthSize))
    IN  /\ Len(message) % BlockSize = 0
        /\ Len(message) - Len(x) <= BlockSize + LengthSize
        /\ x = SubSeq(message, 1, bits \div BitsPerByte)

\* A stored password accepts itself and no other, with a salt in front that may
\* make the hashed text longer than a block (register_user, authenticate_user).
PasswordMatchesItself ==
  Given("password") =>
    \A other_password \in Passwords :
      matches(hash_password(x[1], x[2]), other_password) <=> other_password = x[2]

-----------------------------------------------------------------------------
(***************************************************************************)
(* Names and rooms.                                                        *)
(***************************************************************************)
\* dm_room_key gives two users one key whoever writes, and no other pair of
\* users the same one: ChatDatabase may file their thread under the set {a, b}.
OneKeyPerPair ==
  Given("users") =>
    /\ dm_room_key(x[1], x[2]) = dm_room_key(x[2], x[1])
    /\ \A c, d \in Names :
         dm_room_key(c, d) = dm_room_key(x[1], x[2]) => {c, d} = {x[1], x[2]}

\* The client takes a key apart the way the server put it together: each of the
\* two users sees the name of the other (print_chat_message).
LabelNamesOther ==
  Given("users") =>
    LET key == dm_room_key(x[1], x[2])
    IN  looks_direct(key) /\ other(key, x[1]) = x[2] /\ other(key, x[2]) = x[1]

\* A room that sanitize_room made is never the key of a thread, and the client
\* never shows its messages as direct ones, whatever was typed.
RoomsAreNoThreads ==
  Given("text") =>
    /\ ~looks_direct(sanitize_room(x[2]))
    /\ \A c, d \in Names : sanitize_room(x[2]) # dm_room_key(c, d)

\* A room's name, typed behind /join as /rooms shows it, leads to that room again,
\* unless the name was cut at the length limit right behind a blank
\* (sanitize_room, and the trim of the chat loop before it).
RoomNameLeadsBack ==
  Given("text") =>
    LET room  == sanitize_room(x[2])
        again == client_request(<<"/join", " ">> \o room)
    IN  \/ room = <<>>
        \/ again.type = "Join" /\ sanitize_room(again.payload) = room
        \/ Len(room) = RoomMax /\ room[RoomMax] = " "

\* A history request shows its author the current room or a thread the author is
\* part of, and between 1 and MaxHistory rows of it, whatever the text says
\* (handle_history_request).
HistoryIsOwn ==
  Given("text") =>
    LET room   == sanitize_room(<<"a">>)
        answer == handle_history_request(x[2], x[1], room)
    IN  answer.ok =>
          /\ answer.limit \in 1..MaxHistory
          /\ \/ answer.room = room
             \/ looks_direct(answer.room)
                /\ \A c, d \in Names :
                     answer.room = dm_room_key(c, d) => x[1] \in {c, d}

-----------------------------------------------------------------------------
(***************************************************************************)
(* From one program to the other.                                          *)
(***************************************************************************)
\* The words of a text that blanks separate by at least one " ": the first, and
\* the trimmed rest.
FirstWord(s) == Before(trim(s), find(trim(s), " "))
OtherWords(s) == trim(From(trim(s), Len(FirstWord(s)) + 1))

\* No line typed at the prompt makes the server answer that it is malformed, but
\* for a /history of a nameless user, and the names, texts and numbers that the
\* handlers find are the words that were typed (the chat loop of
\* chat_client.cpp, the switch of handle_client).  Both split a line at " ": of a
\* tab behind the name Direct makes nothing, /dmhistory a part of the name.
CommandsAreUnderstood ==
  Given("line") =>
    LET text    == x[2]
        me      == <<"a">>
        room    == <<"b">>
        request == client_request(x[1] \o text)
        spaced  == text # <<>> /\ text[1] = " "
    IN  /\ \/ Accepted(request, me, room)
           \/ x[1] = <<"/history">> /\ FirstWord(text) = <<"@">>
        /\ request.type = "Direct" =>
             LET found == handle_direct(request.payload)
             IN  found.target = trim(FirstWord(text)) /\ found.content = OtherWords(text)
        /\ (x[1] = <<"/msg">> /\ spaced /\ OtherWords(text) # <<>>)
             => request.type = "Direct"
        /\ (x[1] = <<"/dmhistory">> /\ spaced /\ trim(text) # <<>>) =>
             LET answer == handle_history_request(request.payload, me, room)
             IN  /\ answer.room = dm_room_key(me, FirstWord(text))
                 /\ answer.limit = history_limit(OtherWords(text))

\* Name and password reach handle_auth as they were typed, but for blanks around
\* the name: only the name is trimmed (authenticate, handle_auth).
CredentialsArrive ==
  Given("credentials") =>
    server_credentials(client_credentials(x[1], x[2]))
      = [ok |-> TRUE, username |-> trim(x[1]), password |-> x[2]]
=============================================================================

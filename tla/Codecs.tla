------------------------------- MODULE Codecs -------------------------------
(***************************************************************************)
(* The records that frames carry (protocol.cpp): strings and lists with a  *)
(* length in front of them, and signed timestamps.  U16, U32 and U64 are   *)
(* the widths in bytes of the three kinds of integers (2, 4 and 8).        *)
(*                                                                         *)
(* Decoding works on a byte string and an offset into it.  A result has ok *)
(* (what the C++ function returns), the offset behind what was read, and   *)
(* the value.  Where one of several takes fails the C++ leaves what was    *)
(* read so far in its out parameter; no caller looks at that.              *)
(***************************************************************************)
EXTENDS Bytes

CONSTANTS U16, U32, U64

ASSUME CodecsAssumption == {U16, U32, U64} \subseteq Nat \ {0}

Failed         == [ok |-> FALSE, offset |-> 0, value |-> <<>>]
Taken(next, v) == [ok |-> TRUE, offset |-> next, value |-> v]

-----------------------------------------------------------------------------
(***************************************************************************)
(* Integers and byte strings.                                              *)
(***************************************************************************)
take_bytes(data, offset, length) ==
  IF offset > Len(data) \/ Len(data) - offset < length THEN Failed
  ELSE Taken(offset + length, SubSeq(data, offset + 1, offset + length))

\* take_u16, take_u32 and take_u64.
take_uint(data, offset, w) ==
  LET bytes == take_bytes(data, offset, w)
  IN  IF bytes.ok THEN Taken(bytes.offset, Value(bytes.value)) ELSE Failed

\* Fault: the length that a string claims is not compared with what is there.
take_string_unchecked(data, offset, w) ==
  LET length == take_uint(data, offset, w)
      next   == length.offset + length.value
  IN  IF ~length.ok THEN Failed
      ELSE Taken(next, SubSeq(data, length.offset + 1,
                              IF next < Len(data) THEN next ELSE Len(data)))

\* An integer of w bytes, then as many bytes as it says.
take_string(data, offset, w) ==
  LET length == take_uint(data, offset, w)
  IN  IF length.ok THEN take_bytes(data, length.offset, length.value) ELSE Failed

append_string(s, w) == BigEndian(Len(s), w) \o s

\* Fault: the time is taken as it stands, without its sign.
int64_unsigned(n) == n

\* std::int64_t from its two's complement and back.
int64(n)  == IF 2 * n >= Power[U64] THEN n - Power[U64] ELSE n
uint64(t) == t % Power[U64]

-----------------------------------------------------------------------------
(***************************************************************************)
(* ChatMessage and DirectMessage: two short strings, a time, a long one.   *)
(* In the first they are room and username, in the second from and to.     *)
(***************************************************************************)
take_record(data, offset) ==
  LET first   == take_string(data, offset, U16)
      second  == take_string(data, first.offset, U16)
      time    == take_uint(data, second.offset, U64)
      content == take_string(data, time.offset, U32)
  IN  IF first.ok /\ second.ok /\ time.ok /\ content.ok
      THEN Taken(content.offset, [first |-> first.value, second |-> second.value,
                                  timestamp |-> int64(time.value),
                                  content |-> content.value])
      ELSE Failed

encode_chat_message(m) ==
  append_string(m.first, U16) \o append_string(m.second, U16)
    \o BigEndian(uint64(m.timestamp), U64) \o append_string(m.content, U32)

decode_chat_message(payload) == take_record(payload, 0)

\* The other record has its own pair of functions with the same layout.
encode_direct_message(m)       == encode_chat_message(m)
decode_direct_message(payload) == take_record(payload, 0)

\* Records and lists whose lengths fit in the integers in front of them.
Shorts(w)    == {s \in Seq(Byte) : Len(s) < Power[w]}
Times        == {t \in Int : -Power[U64] <= 2 * t /\ 2 * t < Power[U64]}
ShortRecords == [first : Shorts(U16), second : Shorts(U16), timestamp : Times,
                 content : Shorts(U32)]
Lists(V)     == {s \in Seq(V) : Len(s) < Power[U16]}

-----------------------------------------------------------------------------
(***************************************************************************)
(* History and user list: a count, then the elements.                      *)
(***************************************************************************)
take_list(Take(_, _), data) ==
  LET count == take_uint(data, 0, U16)
      list[i \in 0..count.value] ==
        IF i = 0 THEN Taken(count.offset, <<>>)
        ELSE LET item == Take(data, list[i - 1].offset)
             IN  IF list[i - 1].ok /\ item.ok
                 THEN Taken(item.offset, Append(list[i - 1].value, item.value))
                 ELSE Failed
  IN  IF count.ok THEN list[count.value] ELSE Failed

append_list(Encode(_), items) ==
  LET bytes[i \in 0..Len(items)] ==
        IF i = 0 THEN BigEndian(Len(items), U16)
        ELSE bytes[i - 1] \o Encode(items[i])
  IN  bytes[Len(items)]

encode_history(messages) == append_list(encode_chat_message, messages)
decode_history(payload)  == take_list(take_record, payload)

take_name(data, offset) == take_string(data, offset, U16)
append_name(name)       == append_string(name, U16)

encode_user_list(usernames) == append_list(append_name, usernames)
decode_user_list(payload)   == take_list(take_name, payload)

-----------------------------------------------------------------------------
(***************************************************************************)
(* encode_message and decode_message: one byte of type, then the payload.  *)
(***************************************************************************)
encode_message(type, payload) == <<type>> \o payload

decode_message(frame) ==
  IF frame = <<>> THEN Failed
  ELSE Taken(1, [type |-> Head(frame), payload |-> Tail(frame)])
=============================================================================

------------------------------- MODULE Framing ------------------------------
(***************************************************************************)
(* Framing of one direction of a TCP connection (protocol.cpp): threads    *)
(* that call send_frame on a socket, the byte stream, and the reader that  *)
(* reassembles frames with extract_frames (read_next_frame in              *)
(* chat_server.cpp, receive_messages in chat_client.cpp).                  *)
(*                                                                         *)
(* send() may take any non-empty part of what it is given and recv() may   *)
(* return any non-empty part of what has arrived, so every fragmentation   *)
(* and every combination of frames is a behaviour.  Bytes are digits in    *)
(* base ByteValues and a header is kFrameHeaderSize of them, big-endian;   *)
(* the program has 256 and 4.  A peer that is some other program may put a *)
(* length on the stream that send_frame never writes.                      *)
(***************************************************************************)
EXTENDS Bytes

CONSTANTS
  Writers,              \* threads that send on this socket
  Payloads,             \* payloads they may want to send
  kFrameHeaderSize,     \* bytes of a header
  kMaxFramePayloadSize, \* the longest payload accepted
  Strangers,            \* may the peer be another program?
  BufferSize,           \* bytes recv() returns at most (4096)
  MaxCalls              \* bound: calls of send_frame

ASSUME FramingAssumption ==
  /\ kFrameHeaderSize \in Nat \ {0}
  /\ BufferSize \in Nat \ {0}
  /\ MaxCalls \in Nat
  /\ Strangers \in BOOLEAN
  /\ Strangers => kMaxFramePayloadSize + 1 < Power[kFrameHeaderSize]
  /\ Payloads \subseteq Seq(Byte)
  /\ kMaxFramePayloadSize \in 0 .. (Power[kFrameHeaderSize] - 1)

VARIABLES
  calls,     \* calls of send_frame so far
  sent,      \* payloads of the calls that passed the size check, in order
  writing,   \* per thread: what its send_all calls have still to send
  stream,    \* the bytes sent so far
  received,  \* how many of them recv() has returned
  before,    \* auxiliary: how many of them before the last recv()
  strange,   \* has the peer written a length that is too large?
  open,      \* is the connection up?
  reader,    \* where the reader is
  pending,   \* its buffer of bytes
  frames,    \* frames extract_frames has found in this call
  queue,     \* complete frames waiting to be handled
  delivered  \* frames handed to the handler

writerVars == <<calls, sent, writing, strange>>
inputVars  == <<received, before>>
readerVars == <<reader, pending, frames, queue, delivered>>
vars == <<writerVars, stream, inputVars, open, readerVars>>

-----------------------------------------------------------------------------
\* htonl and ntohl on a header.
htonl(n) == BigEndian(n, kFrameHeaderSize)
ntohl(h) == Value(h)

\* The bytes on their way.
wire == Drop(stream, received)

Init ==
  /\ calls = 0
  /\ sent = <<>>
  /\ writing = [w \in Writers |-> <<>>]
  /\ stream = <<>>
  /\ received = 0 /\ before = 0 /\ strange = FALSE
  /\ open = TRUE
  /\ reader = "recv"
  /\ pending = <<>>
  /\ frames = <<>>
  /\ queue = <<>>
  /\ delivered = <<>>

-----------------------------------------------------------------------------
(***************************************************************************)
(* The writers.  writing[w] is a sequence of buffers: the header, then the *)
(* payload, each the argument of one send_all.                             *)
(***************************************************************************)
\* Fault: the receiver's limit is not checked by the sender.
SendFrameUnchecked(w, p) ==
  /\ writing[w] = <<>> /\ calls < MaxCalls /\ ~strange
  /\ calls' = calls + 1
  /\ sent' = Append(sent, p)
  /\ writing' = [writing EXCEPT ![w] = <<htonl(Len(p)), p>>]
  /\ UNCHANGED <<strange, stream, inputVars, open, readerVars>>

\* send_frame is entered; it returns at once if the payload is too long.
SendFrame(w, p) ==
  /\ writing[w] = <<>> /\ calls < MaxCalls /\ ~strange
  /\ calls' = calls + 1
  /\ \/ /\ Len(p) <= kMaxFramePayloadSize
        /\ sent' = Append(sent, p)
        /\ writing' = [writing EXCEPT ![w] = <<htonl(Len(p)), p>>]
     \/ /\ Len(p) > kMaxFramePayloadSize
        /\ UNCHANGED <<sent, writing>>
  /\ UNCHANGED <<strange, stream, inputVars, open, readerVars>>

\* One turn of send_all's loop: send() takes n bytes of what remains.
Send(w, n) ==
  /\ writing[w] # <<>> /\ open
  /\ LET data == Head(writing[w])
     IN  /\ n \in 1..Len(data)
         /\ stream' = stream \o SubSeq(data, 1, n)
         /\ writing' = [writing EXCEPT ![w] =
              IF n < Len(data) THEN <<Drop(data, n)>> \o Tail(@) ELSE Tail(@)]
  /\ UNCHANGED <<calls, sent, strange, inputVars, open, readerVars>>

\* send_all has nothing to send (an empty payload) and returns true.
SendNothing(w) ==
  /\ writing[w] # <<>> /\ Head(writing[w]) = <<>>
  /\ writing' = [writing EXCEPT ![w] = Tail(@)]
  /\ UNCHANGED <<calls, sent, strange, stream, inputVars, open, readerVars>>

\* send() reports an error: send_all and send_frame return false.
SendFails(w) ==
  /\ writing[w] # <<>> /\ Head(writing[w]) # <<>> /\ ~open
  /\ writing' = [writing EXCEPT ![w] = <<>>]
  /\ UNCHANGED <<calls, sent, strange, stream, inputVars, open, readerVars>>

\* The connection goes down (external).  What was sent may still arrive.
Break ==
  /\ open
  /\ open' = FALSE
  /\ UNCHANGED <<writerVars, stream, inputVars, readerVars>>

\* The peer writes a length above the limit, and from then on nothing that this
\* program would (external).
Strange ==
  /\ Strangers /\ open /\ ~strange
  /\ \A w \in Writers : writing[w] = <<>>
  /\ strange' = TRUE
  /\ stream' = stream \o htonl(kMaxFramePayloadSize + 1)
  /\ UNCHANGED <<calls, sent, writing, inputVars, open, readerVars>>

-----------------------------------------------------------------------------
(***************************************************************************)
(* The reader: recv, then the loop of extract_frames one turn per step,    *)
(* then read_next_frame's caller takes the frames of the queue.            *)
(***************************************************************************)
\* Fault: recv() is called while frames wait in the queue.
RecvEagerly(n) ==
  /\ reader = "recv"
  /\ n \in 1..Len(wire) /\ n <= BufferSize
  /\ pending' = pending \o SubSeq(wire, 1, n)
  /\ received' = received + n
  /\ before' = received
  /\ frames' = <<>>
  /\ reader' = "extract"
  /\ UNCHANGED <<writerVars, stream, open, queue, delivered>>

Recv(n) ==
  /\ reader = "recv" /\ queue = <<>>
  /\ n \in 1..Len(wire) /\ n <= BufferSize
  /\ pending' = pending \o SubSeq(wire, 1, n)
  /\ received' = received + n
  /\ before' = received
  /\ frames' = <<>>
  /\ reader' = "extract"
  /\ UNCHANGED <<writerVars, stream, open, queue, delivered>>

\* recv() returns 0 or an error: read_next_frame returns false.
RecvEnds ==
  /\ reader = "recv" /\ queue = <<>> /\ ~open
  /\ reader' = "closed"
  /\ UNCHANGED <<writerVars, stream, inputVars, open, pending, frames, queue, delivered>>

payload_length == ntohl(SubSeq(pending, 1, kFrameHeaderSize))
frame_size     == kFrameHeaderSize + payload_length

HasHeader == Len(pending) >= kFrameHeaderSize
Invalid   == HasHeader /\ payload_length > kMaxFramePayloadSize

\* Fault: a frame is complete only when more bytes follow it.
CompleteLate == HasHeader /\ ~Invalid /\ Len(pending) > frame_size

Complete  == HasHeader /\ ~Invalid /\ Len(pending) >= frame_size

Extract ==
  /\ reader = "extract" /\ Complete
  /\ frames' = Append(frames, SubSeq(pending, kFrameHeaderSize + 1, frame_size))
  /\ pending' = Drop(pending, frame_size)
  /\ UNCHANGED <<writerVars, stream, inputVars, open, reader, queue, delivered>>

\* extract_frames returns false; the frames of this call go with it.  (Its buffer
\* is then not erased up to the offset, but nobody reads that buffer again.)
ExtractFails ==
  /\ reader = "extract" /\ Invalid
  /\ reader' = "invalid"
  /\ frames' = <<>>
  /\ UNCHANGED <<writerVars, stream, inputVars, open, pending, queue, delivered>>

\* Fault: an incomplete frame at the end of the buffer is thrown away.
ExtractReturnsEmptied ==
  /\ reader = "extract" /\ ~Complete /\ ~Invalid
  /\ queue' = queue \o frames
  /\ frames' = <<>>
  /\ pending' = <<>>
  /\ reader' = "recv"
  /\ UNCHANGED <<writerVars, stream, inputVars, open, delivered>>

\* extract_frames returns true; its frames join the queue.
ExtractReturns ==
  /\ reader = "extract" /\ ~Complete /\ ~Invalid
  /\ queue' = queue \o frames
  /\ frames' = <<>>
  /\ reader' = "recv"
  /\ UNCHANGED <<writerVars, stream, inputVars, open, pending, delivered>>

\* Fault: the newest frame of the queue is taken first.
TakeNewest ==
  /\ reader = "recv" /\ queue # <<>>
  /\ delivered' = Append(delivered, queue[Len(queue)])
  /\ queue' = SubSeq(queue, 1, Len(queue) - 1)
  /\ UNCHANGED <<writerVars, stream, inputVars, open, reader, pending, frames>>

\* read_next_frame returns the front of the queue.
Take ==
  /\ reader = "recv" /\ queue # <<>>
  /\ delivered' = Append(delivered, Head(queue))
  /\ queue' = Tail(queue)
  /\ UNCHANGED <<writerVars, stream, inputVars, open, reader, pending, frames>>

\* Nothing more is sent, or the reader has given up.
Idle ==
  /\ \A w \in Writers : writing[w] = <<>>
  /\ reader \in {"closed", "invalid"}
  /\ calls = MaxCalls \/ strange
  /\ UNCHANGED vars

-----------------------------------------------------------------------------
Sending(w) == (\E n \in 1..Len(Head(writing[w])) : Send(w, n))
              \/ SendNothing(w) \/ SendFails(w)

Reading == \/ \E n \in 1..Len(wire) : Recv(n)
           \/ RecvEnds \/ Extract \/ ExtractFails \/ ExtractReturns \/ Take

Next ==
  \/ \E w \in Writers : (\E p \in Payloads : SendFrame(w, p))
                        \/ (writing[w] # <<>> /\ Sending(w))
  \/ Reading
  \/ Break
  \/ Strange
  \/ Idle

\* send_all and read_next_frame keep going as long as the socket lets them.
Fairness == /\ \A w \in Writers : WF_vars(writing[w] # <<>> /\ Sending(w))
            /\ WF_vars(Reading)

Spec     == Init /\ [][Next]_vars
FairSpec == Spec /\ Fairness

-----------------------------------------------------------------------------
\* The frames as send_frame would put them on the wire.
Encoded(fs) ==
  LET bytes[i \in 0..Len(fs)] ==
        IF i = 0 THEN <<>> ELSE bytes[i - 1] \o htonl(Len(fs[i])) \o fs[i]
  IN  bytes[Len(fs)]

\* With one writer the frames come out as FrameChannel promises: whole, in
\* order, none twice, whatever send() and recv() cut and whatever a strange peer
\* adds (send_frame, extract_frames).
Channel == INSTANCE FrameChannel WITH Payloads <- Payloads, sent <- sent,
                                      delivered <- delivered
ImplementsChannel == Channel!Spec

\* With one writer of this program the reader never meets a length it refuses:
\* send_frame and extract_frames apply the same limit and stay in step.
InvalidMeansStrange == reader = "invalid" => strange

\* A length that is refused costs the frames of that recv() and no others: what
\* earlier calls had completed was handed on before (read_next_frame empties
\* its queue before it reads).
InvalidCostsOneRead ==
  reader = "invalid" =>
    \A n \in DOMAIN sent :
      Len(Encoded(SubSeq(sent, 1, n))) <= before => Len(delivered) >= n

\* A frame that send_frame accepted is delivered unless the connection goes
\* down: no complete frame waits in `pending` for bytes that may never come.
AllDelivered ==
  \A n \in 1..MaxCalls :
    Len(sent) >= n ~> Len(delivered) >= n \/ ~open \/ strange

\* Whoever writes, the reader drops, repeats and reorders no byte: the frames it
\* found and the bytes it keeps are exactly what recv() returned, so the frames
\* depend on the stream and not on how it was cut (extract_frames).
StreamAccounted ==
  reader # "invalid" =>
    Encoded(delivered \o queue \o frames) \o pending = SubSeq(stream, 1, received)

\* README: "Length-prefixed TCP frames, so fragmented or combined TCP reads
\* preserve message boundaries": whatever is delivered is a payload that some
\* thread sent.
BoundariesPreserved ==
  \A k \in DOMAIN delivered : \E j \in DOMAIN sent : delivered[k] = sent[j]
=============================================================================

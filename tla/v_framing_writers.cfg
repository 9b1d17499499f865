\* Two handler threads send on the same socket.
SPECIFICATION Spec
CONSTANTS
  Writers = {w1, w2}
  Payloads <- MCTwoPayloads
  ByteValues = 2
  kFrameHeaderSize = 2
  kMaxFramePayloadSize = 2
  Strangers = FALSE
  BufferSize = 5
  MaxCalls = 2
INVARIANT BoundariesPreserved

\* One writer, every way to cut the stream, and a peer that may turn out strange.
SPECIFICATION FairSpec
CONSTANTS
  Writers = {w1}
  Payloads <- MCPayloads
  ByteValues = 2
  kFrameHeaderSize = 2
  kMaxFramePayloadSize = 2
  Strangers = TRUE
  BufferSize = 5
  MaxCalls = 3
INVARIANTS InvalidMeansStrange InvalidCostsOneRead StreamAccounted
PROPERTIES ImplementsChannel AllDelivered

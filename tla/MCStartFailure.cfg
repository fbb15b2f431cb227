SPECIFICATION Spec
CONSTANTS
  Buffers = {b1, b2, b3}
  NoBuffer = NoBuffer
  MinQueued = 2
  SeqModulus = 4
  StartMayFail = TRUE
INVARIANT StartFailureReturnsBuffers

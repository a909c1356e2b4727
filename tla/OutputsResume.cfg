SPECIFICATION Spec
CONSTANTS
  NumOutputs = 1
  AlwaysOn = {}
  Formats = {1, 2}
  MaxChunks = 1
  Switched = {}
  CanFail = TRUE
  OtherFormat = TRUE
INVARIANT OpensClosed

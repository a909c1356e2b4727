SPECIFICATION FairSpec
CONSTANTS
  NumOutputs = 1
  AlwaysOn = {}
  Formats = {1, 2}
  MaxChunks = 2
  Switched = {1}
  CanFail = TRUE
  OtherFormat = FALSE
INVARIANT PipeAssertionsHold
PROPERTY OperationsEnd

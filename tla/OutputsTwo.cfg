SPECIFICATION Spec
CONSTANTS
  NumOutputs = 2
  AlwaysOn = {}
  Formats = {1}
  MaxChunks = 2
  Switched = {1}
  CanFail = FALSE
  OtherFormat = FALSE
INVARIANTS ChunkInPipe NoSleepWithWork AssertionsHold
PROPERTY PlayedBeforeRemoved

SPECIFICATION Spec
CONSTANTS
  Songs = {1, 2}
  Bad = {2}
  BufferSize = 2
  BufferedBeforePlay = 1
  OutputsFull = 2
  SilenceBelow = 1
  Commands = {"play", "enqueue", "cancel", "stop", "seek", "pause"}
  SeekQueued = FALSE
  PauseCloses = FALSE
  CanFail = TRUE
  Windows = TRUE
CHECK_DEADLOCK FALSE
INVARIANTS NoChunkLost AssertionsHold PlaysItsSong OldChunksAreDropped
PROPERTY ImplementsPlayer

SPECIFICATION Spec
CONSTANTS
  Songs = {1, 2}
  Bad = {}
  BufferSize = 3
  BufferedBeforePlay = 1
  OutputsFull = 2
  SilenceBelow = 1
  Commands = {"play", "enqueue", "seek"}
  SeekQueued = TRUE
  PauseCloses = TRUE
  CanFail = FALSE
  Windows = FALSE
INVARIANT NextSongIsThere
CHECK_DEADLOCK FALSE

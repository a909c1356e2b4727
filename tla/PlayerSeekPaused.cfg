SPECIFICATION FairSpec
CONSTANTS
  Songs = {1}
  Bad = {}
  BufferSize = 3
  BufferedBeforePlay = 1
  OutputsFull = 2
  SilenceBelow = 1
  Commands = {"play", "pause", "seek"}
  SeekQueued = FALSE
  PauseCloses = FALSE
  CanFail = FALSE
  Windows = FALSE
PROPERTY CommandsEnd
CHECK_DEADLOCK FALSE

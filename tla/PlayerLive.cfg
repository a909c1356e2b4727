SPECIFICATION FairSpec
CONSTANTS
  Songs = {1}
  Bad = {}
  BufferSize = 3
  BufferedBeforePlay = 1
  OutputsFull = 2
  SilenceBelow = 1
  Commands = {"play", "enqueue", "cancel", "stop", "seek", "pause", "status", "border"}
  SeekQueued = FALSE
  PauseCloses = TRUE
  CanFail = FALSE
  Windows = FALSE
PROPERTY CommandsEnd

\* Small buffers; the decoder goes back to the start, to the middle, to the end.
CONSTANTS
  Size = 6
  MaxBuffered = 5
  ResumeAt = 3
  MaxWrite = 2
  Targets = {0, 3, 6}
  SeekExactly = FALSE
  CanFail = TRUE
SPECIFICATION Spec
PROPERTY HandleIsResumed
CHECK_DEADLOCK FALSE

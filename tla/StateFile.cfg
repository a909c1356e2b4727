\* Two songs of different priorities; one edit until MPD is restarted.
SPECIFICATION StateSpec
CONSTANTS
  s1 = s1
  s2 = s2
  Songs = {s1, s2}
  Priorities = {0, 1}
  MaxLength = 2
  HashMult = 2
  VersionMax = 4
  Loaded <- Two
  LoadedPrio <- Prio
  Bad = {}
  Commands = {"playpos", "stop", "delete", "random"}
  MaxBlock = 1
  MaxAppends = 0
  Forgetful = TRUE
  Vanishing = {s1}
  Losses = {0, 2, 99}
  RestorePaused = FALSE
INVARIANTS RestoredAsSaved EditsAreWritten

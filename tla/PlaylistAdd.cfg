SPECIFICATION FairSpec
CONSTANTS
  s1 = s1
  s2 = s2
  s3 = s3
  Songs = {s1, s2, s3}
  Priorities = {0, 1}
  MaxLength = 3
  HashMult = 2
  VersionMax = 2
  Loaded <- Two
  Bad = {}
  Commands = {"play", "add", "random", "prio", "delete", "next"}
  MaxBlock = 1
  MaxAppends = 1
  Forgetful = FALSE
PROPERTIES CurrentSongKept RandomPlaysAll StopIsNoticed

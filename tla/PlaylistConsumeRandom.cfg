SPECIFICATION Spec
CONSTANTS
  s1 = s1
  s2 = s2
  s3 = s3
  Songs = {s1, s2, s3}
  Priorities = {0}
  MaxLength = 3
  HashMult = 2
  VersionMax = 2
  Loaded <- Three
  Bad = {}
  Commands = {"play", "next", "consume", "random"}
  MaxBlock = 1
  MaxAppends = 0
  Forgetful = TRUE
PROPERTY ConsumeRemovesPlayed

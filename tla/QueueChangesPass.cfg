SPECIFICATION Spec
CONSTANTS
  Songs = {s1, s2}
  Priorities = {0, 1}
  MaxLength = 2
  HashMult = 2
  VersionMax = 4
  MaxAge = 2
INVARIANTS QueueInvariant NoMissedChange
PROPERTY IdsAreStable

\* A song in the music directory itself, and one in the directory "m".
CONSTANTS
  Songs = {"r/1", "m/1"}
  Dirs = {"", "m"}
  Root = ""
  Parent <- Tree
  MaxTime = 3
  Unreadable = {}
  Unknown = {3}
  MaxQueue = 1
  MaxId = 2
  Loaded <- Full
  Asked <- Commands
  MaxChanges = 2
  MaxRequests = 0
SPECIFICATION Spec
INVARIANT DatabaseFollowsFiles

CHECK_DEADLOCK FALSE

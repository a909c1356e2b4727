\* Directories "m" and "m/d" with a song each; files change twice.
CONSTANTS
  Songs = {"m/1", "d/1"}
  Dirs = {"", "m", "d"}
  Root = ""
  Parent <- Tree
  MaxTime = 3
  Unreadable = {}
  Unknown = {3}
  MaxQueue = 1
  MaxId = 2
  Loaded <- Full
  Asked <- Commands
  MaxChanges = 2
  MaxRequests = 1
SPECIFICATION Spec
INVARIANTS NoDanglingSong AssertionsHold QueueFollowsDatabase ChangesAreSaved JobIdsAreDistinct DatabaseFollowsFiles
PROPERTY EventuallyQuiet
CHECK_DEADLOCK FALSE

\* A file is deleted while its directory is being read.
CONSTANTS
  Songs = {"m/1", "d/1"}
  Dirs = {"", "m", "d"}
  Root = ""
  Parent <- Tree
  MaxTime = 3
  Unreadable = {}
  Unknown = {3}
  MaxQueue = 1
  MaxId = 2
  Loaded <- Full
  Asked <- Commands
  MaxChanges = 2
  MaxRequests = 1
SPECIFICATION Spec
INVARIANT DeletionsAreTold

CHECK_DEADLOCK FALSE

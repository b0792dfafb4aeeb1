SPECIFICATION FairSpec
CONSTANTS
  N = 2
  Procs = {p1}
  Digests = {1, 2}
  None = None
  Stale = Stale
  Canaries = {1}
  MaxRefreshes = 1
  MaxCrashes = 0
  MaxFaults = 2
CHECK_DEADLOCK FALSE
PROPERTIES
  CommandsEnd
  QueueCompletes

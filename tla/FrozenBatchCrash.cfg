SPECIFICATION Spec
CONSTANTS
  N = 2
  Procs = {p1}
  Digests = {1}
  None = None
  Stale = Stale
  Canaries = {1}
  MaxRefreshes = 1
  MaxCrashes = 1
  MaxFaults = 0
CHECK_DEADLOCK FALSE
INVARIANTS
  LauncherCanResume

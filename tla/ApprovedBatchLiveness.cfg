SPECIFICATION FairSpec
CONSTANTS
  N = 2
  Procs = {p1, p2}
  Digests = {1}
  Plans = {m1, m2}
  NoPlan = NoPlan
  Canaries = {}
  MaxCrashes = 0
  MaxFaults = 1
PROPERTIES
  RunsEnd
  BatchCompletes

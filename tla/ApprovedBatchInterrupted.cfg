SPECIFICATION Spec
CONSTANTS
  N = 1
  Procs = {p1}
  Digests = {1}
  Plans = {m1}
  NoPlan = NoPlan
  Canaries = {}
  MaxCrashes = 1
  MaxFaults = 0
INVARIANT
  ResumesAfterInterruption

SPECIFICATION Spec
CONSTANTS
  N = 2
  Procs = {p1}
  Digests = {1}
  Plans = {m1, m2}
  NoPlan = NoPlan
  Canaries = {1}
  MaxCrashes = 0
  MaxFaults = 0
INVARIANT
  SummaryIsForItsPlan

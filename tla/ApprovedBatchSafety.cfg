SPECIFICATION Spec
CONSTANTS
  N = 2
  Procs = {p1, p2}
  Digests = {1}
  Plans = {m1, m2}
  NoPlan = NoPlan
  Canaries = {}
  MaxCrashes = 1
  MaxFaults = 1
SYMMETRY Symmetry
INVARIANTS
  TypeOK
  PreflightGuardsPayments
  PreflightReportsAll
  PaymentsAreExplained
  ResumesOwnPlan
  DoneIsProved

SPECIFICATION Spec
CONSTANTS
  N = 2
  Procs = {p1, p2}
  Digests = {1, 2}
  None = None
  Stale = Stale
  Canaries = {1}
  MaxRefreshes = 1
  MaxCrashes = 1
  MaxFaults = 1
SYMMETRY Symmetry
CHECK_DEADLOCK FALSE
INVARIANTS
  TypeOK
  PaymentTrail
  AtMostOnePaidRequest
  OneChildPerSeller
  RecordedIsProved
  PaysInOrderUnderCurrentQuote
  ResumableUnlessKilled
PROPERTIES
  ResultsAreKept
  PaysOncePerProof

SPECIFICATION FairSpec
CONSTANTS
  MaxAddress = 7
  DepositsAddress = 1
  HistoricalStart = 1
  PeriodStart = 2
  PeriodEnd = 8
  MinFunding = 1
  PathSeconds = 3
  MaxReturns = 3
  AmountMax = 1000
  Histories <- MCHistories
  Policies = {3000, 5000}
  ClaimWorkers = 2
  Torn = Torn
  Nothing = Nothing
  MaxKills = 1
  MaxFaults = 1
  MaxChanges = 1
INVARIANTS
  TypeOK
  PlanIsAccepted
  PlansProveClaims
  SavedClaimReplans
  LockedSnapshotIsWhole
  LockIsReproducible
PROPERTIES
  SnapshotCompletes

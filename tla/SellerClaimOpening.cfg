SPECIFICATION Spec
CONSTANTS
  MaxAddress = 5
  DepositsAddress = 1
  PeriodStart = 2
  PeriodEnd = 8
  Histories <- MCHistories
  Claims <- MCClaims
  AmountMax = 40
  PathSeconds = 2
  MaxBuyers = 2
  MaxHops = 3
  MaxReturns = 2
  MaxFundings = 2
  MaxSettlements = 2
INVARIANT
  OnlyFundingFinances

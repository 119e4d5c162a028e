SPECIFICATION FairSpec
CONSTANTS
  a = a
  b = b
  c = c
  Jobs = {a, b, c}
  Plans <- MCPlans
  Horizon = 5
  MaxSkew = 1
  MaxInFlight = 2
  MaxFaults = 1
INVARIANTS
  TypeOK
  EndedRunShowsEndedJobs
  ChartIsExact
PROPERTIES
  PageSettles

SPECIFICATION FairSpec
CONSTANTS
  SampleLimit = 2
  FailureLimit = 2
  RecentLimit = 1
  History <- MCHistory
  Outages <- MCOutages
  MaxStatsCalls = 2
  MaxRunsCalls = 1
  MaxChanges = 1
INVARIANTS
  TypeOK
  FallbackAgreesWithDaemon
PROPERTIES
  PageConverges
CHECK_DEADLOCK FALSE

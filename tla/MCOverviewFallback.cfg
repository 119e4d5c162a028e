SPECIFICATION Spec
CONSTANTS
  SampleLimit = 2
  FailureLimit = 2
  RecentLimit = 1
  History <- MCHistory
  Outages <- MCOutages
  MaxStatsCalls = 1
  MaxRunsCalls = 1
  MaxChanges = 1
INVARIANT
  FallbackIsShown
CHECK_DEADLOCK FALSE

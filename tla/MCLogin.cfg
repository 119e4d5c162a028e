SPECIFICATION Spec
CONSTANTS
  Window = 2
  MaxFailures = 2
  NoEntry = NoEntry
  Tabs = {t1, t2}
  Pages <- MCPages
  Home <- MCHome
  Headers <- MCHeaders
  TrustProxy = FALSE
  DirectOperator = "direct"
  MaxEntries = 1
  SessionAge = 1
  Files <- MCFiles
  LongSecrets <- MCLongSecrets
  DaemonAccepts = TRUE
  None = none
  none = none
INVARIANTS
  TypeOK
  FailuresBounded
PROPERTIES
  LockoutEnds
  NavigationSettles
CHECK_DEADLOCK FALSE

SPECIFICATION FairSpec
CONSTANTS
  MaxLines = 3
  MaxRetries = 3
  MaxOutages = 4
  MaxLate = 1
INVARIANTS
  TypeOK
  ViewFollowsLog
PROPERTIES
  NothingAfterTeardown
  StreamSettles

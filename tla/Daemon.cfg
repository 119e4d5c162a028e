SPECIFICATION FairSpec
CONSTANTS
  Runs = {r1, r2}
  Jobs = {j1, j2}
  Workers = {w1, w2}
  QueueSize = 1
  WorkerLimit = 1
  MaxFaults = 1
  MaxDowns = 2
  NoRun = NoRun
INVARIANTS
  TypeOK
  OneOwner
  ActiveRunsOwned
  RecoveredRunsSettled
  SuccessKeepsItsJobs
  RunningJobsUnderRunningRun
PROPERTIES
  TerminalIsForever
  StartsOnce
  AcceptedRunsSettle
  ShutdownCompletes
CHECK_DEADLOCK FALSE

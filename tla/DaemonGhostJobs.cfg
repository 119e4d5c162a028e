SPECIFICATION FairSpec
CONSTANTS
  Runs = {r1, r2}
  Jobs = {j1}
  Workers = {w1, w2}
  QueueSize = 1
  WorkerLimit = 1
  MaxFaults = 0
  MaxDowns = 2
  NoRun = NoRun
INVARIANTS
  InterruptedJobsFailed
CHECK_DEADLOCK FALSE

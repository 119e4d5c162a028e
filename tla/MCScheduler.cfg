SPECIFICATION FairSpec
CONSTANTS
  a = a
  b = b
  c = c
  Jobs = {a, b, c}
  Pipelines <- MCPipelines
  Dir <- MCDir
  MaxFaults = 1
INVARIANTS
  TypeOK
  StartsAfterParents
  SuccessMeansAllSucceeded
  VerdictIsQuiescent
  VerdictRecorded
  SnapshotExact
  TreeOutlivesJobs
  NoticeAgreesWithStore
PROPERTIES
  ReportedIsFinal
  KeepsPromise
  FailFast
  EventuallyFinishes

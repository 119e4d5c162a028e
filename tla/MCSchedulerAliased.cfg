SPECIFICATION FairSpec
CONSTANTS
  a = a
  b = b
  c = c
  Jobs = {a, b, c}
  Pipelines <- MCAliasedPipelines
  Dir <- MCAliasedDir
  MaxFaults = 0
INVARIANTS
  WorkspacesIsolated

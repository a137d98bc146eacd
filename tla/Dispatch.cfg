SPECIFICATION FairSpec
CONSTANTS
  s1 = s1
  s2 = s2
  v0 = v0
  v1 = v1
  v2 = v2
  None = None
  Servers = {s1, s2}
  PrimaryKeys = {0, 1, 2}
  BlockIds = {0, 1, 2}
  Values = {v0, v1, v2}
  pk_to_blockid <- MCMap
  LoadedBlocks <- MCLoaded
  Calls <- MCCalls
  BatchSize = 3
  FixedBatch = 2
  PipeSize = 1
INVARIANT ResultsMatch
PROPERTIES ImplementsExecutor CallReturns
CHECK_DEADLOCK FALSE

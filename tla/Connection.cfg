SPECIFICATION ConnectionSpec
CONSTANTS
  BucketSize = 2
  BlockSize = 2
  Trees = {1, 2, 3}
  Width = 3
  ChunkSize = 20
  MaxRuns = 2
  MaxOps = 2
INVARIANTS
  AnswersAreLatest
  InStep
  ReadyMeansStored
  TreeOnly
PROPERTY AlwaysGoesOn
CHECK_DEADLOCK FALSE

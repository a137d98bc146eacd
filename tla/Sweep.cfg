SPECIFICATION Spec
CONSTANTS
  Parts <- MCParts
  Sizes = 1
  Batches = 2
  Proxy = Proxy
  Mortal <- MCMortal
INVARIANTS PortFree WorkForTheReady ReadsBeforeUpdates OnlyThisConfig
PROPERTIES NoOrphans SweepEnds
CHECK_DEADLOCK FALSE

SPECIFICATION Spec
CONSTANTS
  Tables <- MCTables
  Noise <- MCNoise
  PartNum = 3
  ServerCounts = {0, 2}
  Threshold = 2
  MaxIter = 500
  MinCapacity = 2
  Padding = Padding
INVARIANTS RoutedToItsRecord CountWithinCap ClosedAtThreshold CapacityIsLoaded

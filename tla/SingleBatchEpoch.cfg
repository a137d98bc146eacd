SPECIFICATION FairSpec
CONSTANTS
  s1 = s1
  s2 = s2
  p = p
  v0 = v0
  v1 = v1
  v2 = v2
  None = None
  Servers = {s1, s2}
  PrimaryKeys = {p}
  Values = {v0, v1, v2}
  MaxTxns = 3
  Catalogue <- MCCatalogue
  Loaded <- MCLoaded
INVARIANTS Serializable CommitsAreWhole OldOrFinal
PROPERTIES EpochEnds
CHECK_DEADLOCK FALSE

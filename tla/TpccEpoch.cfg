SPECIFICATION Spec
CONSTANTS
  Rows <- MCRows
  PkVal <- MCPkVal
  Partitionings <- MCPartitionings
  Servers <- MCServers
  PrimaryKeys <- MCPrimaryKeys
  Values = {c1, c2, "loaded"}
  Clients = {c1, c2}
  None = None
  Shift = 4
  Customers = {1, 2}
  Items = {2}
  NumDistricts = 2
  CustomerOf <- MCCustomerOf
  DistrictOf <- MCDistrictOf
  ReadCap = 1
  LineCounts = {2}
  Configs = 2
INVARIANTS OpsHitRecords EpochIsSerial AbortsOnlyOnConflict
SYMMETRY Symmetry
CHECK_DEADLOCK FALSE

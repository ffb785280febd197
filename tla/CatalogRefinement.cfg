CONSTANTS
  A = A
  B = B
  T1 = T1
  T2 = T2
  Names <- MCNames
  TierNames <- MCTierNames
  Drivers <- MCDrivers
  None = None
  Keys <- MCKeys
  Vals <- MCVals
  Dicts <- MCDicts
  Discoveries <- MCDiscoveries
  Pools = {}
  PoolBackendNames = {"P_backend"}
  MaxIds = 5
  MaxFailures = 1
  MaxPoolRows = 0
SPECIFICATION Spec
PROPERTY CatalogRefines
SYMMETRY NameSymmetry
CHECK_DEADLOCK FALSE

CONSTANTS
  A = A
  B = B
  T1 = T1
  T2 = T2
  Names <- MCNames
  TierNames <- MCTierNames
  Drivers <- MCDrivers
  None = None
  Keys <- MCKeys
  Vals <- MCVals
  Dicts <- MCDicts
  Discoveries <- MCDiscoveries
  Pools = {"P"}
  PoolBackendNames = {None}
  MaxIds = 5
  MaxFailures = 0
  MaxPoolRows = 1
SPECIFICATION Spec
INVARIANT PoolsListable
CHECK_DEADLOCK FALSE

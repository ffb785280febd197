CONSTANTS
  Hosts <- MCHosts
  Pools <- MCPools
  BackendNames <- MCTwoBackendNames
  Tiers <- MCTiers
  InitialConf <- MCInitialConf
  MaxFailures = 1
  MaxLines = 14
SPECIFICATION Spec
INVARIANT RegistryPoolTyped
CHECK_DEADLOCK FALSE

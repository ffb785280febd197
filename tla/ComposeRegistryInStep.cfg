CONSTANTS
  Hosts <- MCHosts
  Pools <- MCPools
  BackendNames <- MCBackendNames
  Tiers <- MCTiers
  InitialConf <- MCInitialConf
  MaxFailures = 0
  MaxLines = 14
SPECIFICATION Spec
INVARIANT RegistryInStepWithHosts
CHECK_DEADLOCK FALSE

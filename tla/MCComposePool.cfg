CONSTANTS
  Hosts <- MCHosts
  Pools <- MCPools
  BackendNames <- MCBackendNames
  Tiers <- MCTiers
  InitialConf <- MCInitialConf
  MaxFailures = 1
  MaxLines = 14
SPECIFICATION Spec
INVARIANT TypeOK
PROPERTIES  DeleteCommitAfterDisabled
CHECK_DEADLOCK FALSE

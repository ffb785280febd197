CONSTANTS
  BackendNames <- MCBackendNames
  Tiers <- MCTiers
  InitialFiles <- MCInitialFiles
  MaxLines <- MCMaxLines
SPECIFICATION Spec
PROPERTY GroupingKeyInvariant
CHECK_DEADLOCK FALSE

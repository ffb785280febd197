CONSTANTS
  BackendNames <- MCBackendNames
  Tiers <- MCTiers
  InitialFiles <- MCInitialFiles
  MaxLines <- MCMaxLines
SPECIFICATION Spec
PROPERTIES UpdateApplied DeleteDisables OtherSectionsPreserved
CHECK_DEADLOCK FALSE

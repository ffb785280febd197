CONSTANTS
  H1 = H1
  H2 = H2
  H3 = H3
  H4 = H4
  Net <- MCNet
SPECIFICATION Spec
PROPERTY ScanReported
CHECK_DEADLOCK FALSE

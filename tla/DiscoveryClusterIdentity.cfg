CONSTANTS
  N0 = N0
  N1 = N1
  N2 = N2
  N3 = N3
  N4 = N4
  F1 = F1
  F2 = F2
  S1 = S1
  Addrs <- MCAddrs
  Cidrs <- MCCidrs
  CephClusters = {F1, F2}
  SwiftClusters = {S1}
  Placement <- MCPlacement
  Pools <- MCPools
  TierNames = {"rbd", "data", "gold"}
  ClusterNames = {"ceph", "east"}
  DefaultClusterName = "ceph"
  StorageTypes = {"ceph", "swift", "lvm"}
  Template = Template
  NoUrl = NoUrl
  ConfAuthUrl = Template
  Secret = Secret
  Token = Token
  ObjectStoreUrl <- MCObjectStoreUrl
  Nothing = Nothing
  None = None
SPECIFICATION RescanSpec
INVARIANT BackendIsOneCluster

----------------------------- MODULE MCDiscovery -----------------------------
(* Model-checking instance of Discovery: one /30 network whose two usable  *)
(* addresses are monitors of two Ceph clusters (fsids F1, F2), and one /32  *)
(* address of a Swift proxy (S1).  Each cluster has one pool or policy.     *)
EXTENDS Discovery

CONSTANTS N0, N1, N2, N3, N4, F1, F2, S1

MCAddrs == {N0, N1, N2, N3, N4}
MCCidrs == {<<N0, N1, N2, N3>>, <<N4>>}
MCPlacement == (N1 :> F1) @@ (N2 :> F2) @@ (N4 :> S1) @@ [a \in MCAddrs |-> Nothing]
MCPools == (F1 :> <<"rbd">>) @@ (F2 :> <<"data">>) @@ (S1 :> <<"gold">>)
MCObjectStoreUrl == N4   \* the Swift proxy is the object-store endpoint

(* The REST discoveries of a whole ip_cidr and the nodes going down and   *)
(* coming back, without the dashboard's single-address form: a behaviour  *)
(* of Spec in which a rescan of the same subnet is the only way to reach  *)
(* another cluster.                                                        *)
RescanNext ==
  \/ \E cidr \in Cidrs, type \in StorageTypes \ {"swift"}, m \in CephMetadata : discover(cidr, type, m)
  \/ \E a \in Addrs : NodeDown(a) \/ NodeUp(a)

RescanSpec == Init /\ [][RescanNext]_vars
=============================================================================

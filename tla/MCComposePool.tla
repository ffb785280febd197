---------------------------- MODULE MCComposePool ----------------------------
(* Model-checking instance of ComposePool: two cinder-volume hosts, two  *)
(* pools sharing one backend name (a second name for the runs about type *)
(* and backend-name mismatches) and one tier, starting from a            *)
(* multi-backend cinder.conf with one LVM backend.                        *)
EXTENDS ComposePool

MCHosts == {"h1", "h2"}
MCPools == {"P1", "P2"}
MCBackendNames == {"gold"}
MCTwoBackendNames == {"gold", "silver"}
MCTiers == {"t1"}

MCInitialConf ==
  << Header("DEFAULT"), Assign("enabled_backends", <<"alpha">>), Blank,
     Header("alpha"), Assign("volume_driver", <<"lvm">>) >>
=============================================================================

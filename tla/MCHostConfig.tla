----------------------------- MODULE MCHostConfig -----------------------------
(* Model-checking instance of HostConfig: one Ceph backend name, two tiers *)
(* and four shapes of cinder.conf a deployment starts from.               *)
EXTENDS HostConfig

MCBackendNames == {"gold"}
MCTiers == {"t1", "t2"}

(* A multi-backend cinder.conf with one LVM backend enabled. *)
LvmOnly ==
  << Header("DEFAULT"), Assign("enabled_backends", <<"alpha">>), Blank,
     Header("alpha"), Assign("volume_driver", <<"lvm">>) >>

(* The same with a hand-written Ceph section for tier t1 as the last     *)
(* section; like most hand-written ones it leaves rbd_max_clone_depth at  *)
(* its default.                                                           *)
LvmAndManualCeph ==
  << Header("DEFAULT"), Assign("enabled_backends", <<"alpha", "ceph">>), Blank,
     Header("alpha"), Assign("volume_driver", <<"lvm">>), Blank,
     Header("ceph"), Assign("volume_driver", <<"rbd">>),
     Assign("rbd_pool", <<"t1">>), Assign("volume_backend_name", <<"gold">>) >>

(* A cinder.conf without enabled_backends yet (a comment in its place). *)
NoEnabledKey ==
  << Header("DEFAULT"), Comment, Blank,
     Header("alpha"), Assign("volume_driver", <<"lvm">>) >>

(* Two hand-written Ceph sections for tier t1: the enabled one, and an    *)
(* older one an operator took out of enabled_backends but left in place.  *)
(* Both match the search entries of tier t1.                              *)
TwoMatchingCeph ==
  << Header("DEFAULT"), Assign("enabled_backends", <<"alpha", "ceph">>), Blank,
     Header("alpha"), Assign("volume_driver", <<"lvm">>), Blank,
     Header("ceph_old"), Assign("volume_driver", <<"rbd">>),
     Assign("rbd_pool", <<"t1">>), Assign("volume_backend_name", <<"gold">>), Blank,
     Header("ceph"), Assign("volume_driver", <<"rbd">>),
     Assign("rbd_pool", <<"t1">>), Assign("volume_backend_name", <<"gold">>) >>

MCInitialFiles == {LvmOnly, LvmAndManualCeph, NoEnabledKey, TwoMatchingCeph}
MCMaxLines == 20
=============================================================================

------------------------------ MODULE CephDriver ------------------------------
(***************************************************************************)
(* CephDriver.get_ini_config (sds/discover/drivers/ceph.py): one cinder    *)
(* section per requested tier, named <backend_name>_<tier>, found again by *)
(* its rbd_pool and volume_backend_name.  Of the options copied from the   *)
(* [cinder_ceph] configuration group, volume_driver and                    *)
(* rbd_max_clone_depth stand for all of them: each is a constant value     *)
(* the driver writes into every section.                                   *)
(***************************************************************************)
EXTENDS Sequences, TLC

SectionName(bn, t) == bn \o "_" \o t

(* search_opts[section]: the entries that identify an existing section. *)
SearchEntries(bn, t) == ("rbd_pool" :> <<t>>) @@ ("volume_backend_name" :> <<bn>>)

(* ini_cfg[section]: the search entries plus the driver options. *)
ConfigEntries(bn, t) ==
  SearchEntries(bn, t) @@ ("volume_driver" :> <<"rbd">>)
                       @@ ("rbd_max_clone_depth" :> <<"5">>)

(* get_ini_config(service, pool, backend_name, info) for info.tiers = ts. *)
get_ini_config(bn, ts) ==
  [search |-> [s \in {SectionName(bn, t) : t \in ts} |->
                 LET t == CHOOSE x \in ts : SectionName(bn, x) = s
                 IN  SearchEntries(bn, t)],
   cfg    |-> [s \in {SectionName(bn, t) : t \in ts} |->
                 LET t == CHOOSE x \in ts : SectionName(bn, x) = s
                 IN  ConfigEntries(bn, t)]]
=============================================================================

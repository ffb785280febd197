------------------------------ MODULE Discovery ------------------------------
(***************************************************************************)
(* POST /discover (sds/api/v1/discover.py) through Discover.discover of    *)
(* sds/discover/api.py and the Ceph and Swift drivers of                   *)
(* sds/discover/drivers, storing into the catalog as CatalogSpec describes *)
(* it (Catalog is checked to refine CatalogSpec, so the catalog is taken   *)
(* at that level here).  The network is a set of addresses, each either   *)
(* empty or a node of one storage cluster (a Ceph monitor or a Swift      *)
(* proxy), and nodes go down and come back between requests.              *)
(*                                                                         *)
(* Data kept: a Ceph backend's config_specs 'mon_host' and 'fsid', a Swift *)
(* backend's 'authurl' and its 'key' when stored; tiers by name.  The      *)
(* capacity figures, versions and capability dicts are left out: no        *)
(* property reads them.                                                    *)
(***************************************************************************)
EXTENDS Naturals, Sequences, FiniteSets, TLC

CONSTANTS
  Addrs,            \* addresses of the network
  Cidrs,            \* ip_cidr values: each the sequence of its addresses
                    \* in IPNetwork order
  CephClusters,     \* fsids of the Ceph clusters
  SwiftClusters,    \* the Swift clusters
  Placement,        \* address -> the cluster whose node it is, or Nothing
  Pools,            \* cluster -> sequence of its pool (policy) names
  TierNames,        \* pool and policy names
  ClusterNames,     \* metadata 'clustername' values
  DefaultClusterName, \* CONF.ceph.cluster_name ('ceph')
  StorageTypes,     \* storage_type values a request may carry
  Template,         \* an authurl carrying %host%
  NoUrl,            \* no authurl in the metadata
  ConfAuthUrl,      \* CONF.swift.auth_uri, else keystone_authtoken.auth_uri
  Secret,           \* the Swift password ('key')
  Token,            \* a dashboard user's Keystone token ('preauthtoken')
  ObjectStoreUrl,   \* the object-store endpoint of the Keystone catalog
  Nothing, None

VARIABLES
  cat,      \* the catalog, as CatalogSpec's variable
  up,       \* the addresses whose node is reachable
  origin    \* tier name -> cluster whose pool last wrote the tier

vars == <<cat, up, origin>>

Clusters == CephClusters \cup SwiftClusters

NoSpecs == [k \in {} |-> None]

-----------------------------------------------------------------------------
(* The address loop of both drivers: with more than one address, the      *)
(* network and broadcast addresses (first and last) are skipped.           *)
Usable(cidr, i) == Len(cidr) = 1 \/ i \notin {1, Len(cidr)}

(* sock.connect((ip, port)) succeeds: the node is up and is of a cluster  *)
(* of the driver's kind (a Ceph node listens on mon_port, a Swift proxy on *)
(* the Swift port).                                                         *)
Listening(a, kinds) == a \in up /\ Placement[a] \in kinds

(* _get_pool_capabilities: every pool of the osd dump, in its order. *)
PoolTiers(c) == [i \in 1..Len(Pools[c]) |-> [name |-> Pools[c][i], cap |-> NoSpecs]]

(* _get_ceph_info through the monitor at a: named after the clustername,   *)
(* config_specs with mon_host and the cluster's fsid.                       *)
get_ceph_info(a, name) ==
  [name |-> name, driver |-> "ceph", cap |-> NoSpecs,
   conf |-> ("mon_host" :> a) @@ ("fsid" :> Placement[a]),
   tiers |-> PoolTiers(Placement[a])]

(* The Ceph scan from the i-th address: the first usable address whose    *)
(* monitor port answers is asked; a failure there moves on (it cannot     *)
(* fail here: a node that answers is a monitor).  {} is the empty list.    *)
RECURSIVE CephScan(_, _, _)
CephScan(cidr, i, name) ==
  IF i > Len(cidr) THEN {}
  ELSE IF Usable(cidr, i) /\ Listening(cidr[i], CephClusters)
       THEN {get_ceph_info(cidr[i], name)}
       ELSE CephScan(cidr, i + 1, name)

(* CephDriver.discover with a non-empty ip_cidr (the REST handler rejects  *)
(* an empty one): the clustername defaults to CONF.ceph.cluster_name.      *)
(* A metadata fsid is copied into conf and overwritten by the one the     *)
(* monitor reports, so it selects nothing and is left out.                 *)
ceph_discover(cidr, m) ==
  CephScan(cidr, 1, IF m.clustername = None THEN DefaultClusterName ELSE m.clustername)

(* SwiftDriver.discover's defaults: without a preauthtoken, user, key,     *)
(* tenant_name and authurl are filled from the metadata, then CONF.swift,  *)
(* then keystone_authtoken; with one, only what the metadata has.          *)
swift_conf(m) ==
  [authurl    |-> IF m.preauthtoken \/ m.authurl # NoUrl THEN m.authurl ELSE ConfAuthUrl,
   preauthurl |-> m.preauthurl,
   token      |-> m.preauthtoken,
   key        |-> ~m.preauthtoken \/ m.key]

(* The url _get_swift_info's connection asks for capabilities: preauthurl *)
(* when given, else the storage url that get_auth obtains at the authurl,  *)
(* which needs the key (absent when a preauthtoken skipped the defaults    *)
(* and the metadata has none).                                             *)
InfoUrl(conf) ==
  CASE conf.preauthurl # NoUrl -> conf.preauthurl
    [] conf.key                -> conf.authurl
    [] OTHER                   -> NoUrl

(* get_auth_url: %host% replaced by the scanned address. *)
get_auth_url(a, conf) == IF conf.authurl = Template THEN a ELSE conf.authurl

(* _get_swift_info with conf: named 'swift' whatever the cluster, the      *)
(* policies of the proxy at InfoUrl(conf) as tiers; config_specs is the   *)
(* conf without 'password' (the secret is under 'key', and a token under  *)
(* 'preauthtoken') plus version.                                           *)
get_swift_info(conf) ==
  [name |-> "swift", driver |-> "swift", cap |-> NoSpecs,
   conf |-> (IF conf.authurl # NoUrl THEN "authurl" :> conf.authurl ELSE NoSpecs)
            @@ (IF conf.preauthurl # NoUrl THEN "preauthurl" :> conf.preauthurl ELSE NoSpecs)
            @@ (IF conf.token THEN "preauthtoken" :> Token ELSE NoSpecs)
            @@ (IF conf.key THEN "key" :> Secret ELSE NoSpecs),
   tiers |-> PoolTiers(Placement[InfoUrl(conf)])]

(* get_capabilities answers at url. *)
Answers(url) == url \in Addrs /\ Listening(url, SwiftClusters)

(* The scan: auth_conf is conf without preauthurl and preauthtoken, its   *)
(* authurl with %host% substituted.                                         *)
RECURSIVE SwiftScan(_, _, _)
SwiftScan(cidr, i, conf) ==
  IF i > Len(cidr) THEN {}
  ELSE LET auth == [conf EXCEPT !.authurl = get_auth_url(cidr[i], conf),
                                !.preauthurl = NoUrl, !.token = FALSE]
       IN  IF Usable(cidr, i) /\ Listening(cidr[i], SwiftClusters) /\ Answers(InfoUrl(auth))
           THEN {get_swift_info(auth)}
           ELSE SwiftScan(cidr, i + 1, conf)

(* SwiftDriver.discover: with a preauthurl, a preauthtoken or an authurl   *)
(* the direct connection is tried first; when it fails (or there was none) *)
(* and there is an authurl, the ip_cidr is scanned.                        *)
swift_discover(cidr, m) ==
  LET conf == swift_conf(m)
  IN  CASE InfoUrl(conf) # NoUrl /\ Answers(InfoUrl(conf)) -> {get_swift_info(conf)}
        [] conf.authurl # NoUrl -> SwiftScan(cidr, 1, conf)
        [] OTHER -> {}

(* get_driver_instance: sds.discover.drivers.<storage_type>, or an import *)
(* error. *)
get_driver_instance(type) == IF type \in {"ceph", "swift"} THEN type ELSE None

(* Every result a driver can return, whichever nodes are up. *)
Results ==
  {get_ceph_info(a, n) : a \in {a \in Addrs : Placement[a] \in CephClusters}, n \in ClusterNames}
  \cup {get_swift_info(c) : c \in {c \in [authurl : Addrs \cup {NoUrl, Template}, preauthurl : Addrs \cup {NoUrl},
                                        token : BOOLEAN, key : BOOLEAN] :
                                    InfoUrl(c) \in Addrs /\ Placement[InfoUrl(c)] \in SwiftClusters}}

(* The catalog at the level CatalogSpec describes; only the drivers write it. *)
Cat == INSTANCE CatalogSpec
         WITH Names <- ClusterNames \cup {"swift"}, Drivers <- {"ceph", "swift"},
              Keys <- {"mon_host", "fsid", "authurl", "preauthurl", "preauthtoken", "key"},
              Vals <- Addrs \cup Clusters \cup {Secret, Token, Template}, Dicts <- {}, Discoveries <- Results

-----------------------------------------------------------------------------
(* The cluster a backend record describes: the fsid of a Ceph backend's   *)
(* config_specs; for a Swift backend, the cluster answering the url a     *)
(* connection made from its config_specs asks (preauthurl, else authurl).  *)
ClusterOf(b) ==
  CASE "fsid" \in DOMAIN b.conf       -> b.conf["fsid"]
    [] "preauthurl" \in DOMAIN b.conf -> Placement[b.conf["preauthurl"]]
    [] OTHER                          -> Placement[b.conf["authurl"]]

(* store_in_db of a result: the backend, then its first k tiers, each in  *)
(* a transaction of its own (k < Len(tiers) when one fails).               *)
store_in_db(info, k) ==
  LET stored == {info.tiers[i].name : i \in 1..k}
      src    == ClusterOf(info)
  IN  /\ cat' = Cat!Discover(cat, info, k)
      /\ origin' = [tn \in TierNames |-> IF tn \in stored THEN src ELSE origin[tn]]

(* Discover.discover: the driver's result (persist is True), stored when  *)
(* it is not empty; a driver that fails to load raises.                     *)
api_discover(cidr, type, m) ==
  LET res == IF type = "ceph" THEN ceph_discover(cidr, m) ELSE swift_discover(cidr, m)
  IN  /\ get_driver_instance(type) # None
      /\ \/ res = {} /\ UNCHANGED <<cat, origin>>
         \/ \E info \in res : \E k \in 0..Len(info.tiers) : store_in_db(info, k)

(* POST /discover: ip_cidr and storage_type are required (HTTPBadRequest); *)
(* any exception of the discovery becomes HTTPNotFound, with no change.    *)
discover(cidr, type, m) ==
  /\ cidr # <<>> /\ type # None
  /\ api_discover(cidr, type, m)
  /\ UNCHANGED up

(* The dashboard's Discover form (discovercapability/forms.py), sent      *)
(* through api.sds.discover_storage and sdsclient's                        *)
(* StorageDiscoverManager.discover as POST /discover.  The Network Range    *)
(* field takes digits and dots only, so it holds one address or nothing    *)
(* (it is optional).  The form has no clustername and no authurl field: a  *)
(* Ceph cluster is named after CONF's cluster_name and Swift's authurl     *)
(* comes from CONF; 'swift_key' sends only the user's token and the        *)
(* object-store endpoint; 'cephx' is 'ceph'.  The user, fsid and key       *)
(* fields select nothing here.  A 400 or 404 answer changes nothing.        *)
Systems == {"ceph", "cephx", "swift", "swift_key"}

DashboardRanges == {<<>>} \cup {<<a>> : a \in Addrs}

(* api.sds.discover_storage: the sdsclient StorageDiscoverManager posts    *)
(* {ip_cidr, storage_type, metadata} to /discover.                          *)
discover_storage(ip, type, m) == discover(ip, type, m)

dashboard_discover(ip, system) ==
  CASE system \in {"ceph", "cephx"} -> discover_storage(ip, "ceph", [clustername |-> None])
    [] system = "swift" ->
         discover_storage(ip, "swift", [authurl |-> NoUrl, preauthurl |-> NoUrl, preauthtoken |-> FALSE, key |-> FALSE])
    [] system = "swift_key" ->
         discover_storage(ip, "swift", [authurl |-> NoUrl, preauthurl |-> ObjectStoreUrl, preauthtoken |-> TRUE, key |-> FALSE])

(* The network between requests: a node goes down or comes back. *)
NodeDown(a) == a \in up /\ up' = up \ {a} /\ UNCHANGED <<cat, origin>>
NodeUp(a) == a \notin up /\ Placement[a] # Nothing /\ up' = up \cup {a} /\ UNCHANGED <<cat, origin>>

CephMetadata == [clustername : ClusterNames \cup {None}]
SwiftMetadata == [authurl : {NoUrl, Template} \cup Addrs, preauthurl : {NoUrl} \cup Addrs,
                  preauthtoken : BOOLEAN, key : BOOLEAN]

Init ==
  /\ cat = [backends |-> NoSpecs, tiers |-> NoSpecs]
  /\ up = {a \in Addrs : Placement[a] # Nothing}
  /\ origin = [tn \in TierNames |-> Nothing]

Next ==
  \/ \E cidr \in Cidrs, type \in StorageTypes \ {"swift"}, m \in CephMetadata : discover(cidr, type, m)
  \/ \E cidr \in Cidrs, m \in SwiftMetadata : discover(cidr, "swift", m)
  \/ \E ip \in DashboardRanges, system \in Systems : dashboard_discover(ip, system)
  \/ \E a \in Addrs : NodeDown(a) \/ NodeUp(a)

Spec == Init /\ [][Next]_vars

-----------------------------------------------------------------------------
(* Every tier listed under a backend is a pool (policy) of the cluster the *)
(* backend's config_specs describe, so that get_ini_config writes the      *)
(* tier's rbd_pool next to the right cluster's settings.  store_in_db      *)
(* looks the backend up by its name (the clustername, 'ceph' by default,   *)
(* or 'swift') and merges the new cluster's config into it, keeping the   *)
(* tiers an earlier discovery of another cluster stored.                   *)
BackendIsOneCluster ==
  \A tn \in DOMAIN cat.tiers :
    ClusterOf(cat.backends[cat.tiers[tn].backend]) = origin[tn]
=============================================================================

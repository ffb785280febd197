------------------------------ MODULE ComposePool ------------------------------
(***************************************************************************)
(* The pool orchestration of sds/compose/api.py with the pool registry of  *)
(* sds/db/sqlalchemy/api.py and the cinder volume types of                 *)
(* sds/compose/cinder_client.py.  One request runs at a time, as the       *)
(* synchronous API handler runs it: create_pool, delete_pool and           *)
(* delete_pool_by_id for the 'volume' service of one Ceph backend.         *)
(* update_conf visits the hosts one by one (in the arbitrary order of the  *)
(* host list); on each it fetches cinder.conf, rewrites it with            *)
(* change_backends, copies the original back as a backup and pushes the   *)
(* rewrite.  Any copy may fail, and the failure aborts the request.        *)
(***************************************************************************)
EXTENDS IniFile, CephDriver, FiniteSets

CONSTANTS
  Hosts,          \* cinder-volume hosts (cinder_client.get_hosts)
  Pools,          \* pool (volume type) names requests use
  BackendNames,   \* volume_backend_name values requests use
  Tiers,          \* tiers of the Ceph backend in the catalog
  InitialConf,    \* the cinder.conf every host starts with
  MaxFailures,    \* bound on the copy and database failures of a behaviour
  MaxLines        \* bound on a host file's length (create/delete cycles
                  \* leave blank lines behind)

NoTier == "<no tier>"   \* storage_tier_id of a pool row without a tier
NoType == "<no type>"   \* a pool with no cinder volume type

VARIABLES
  conf,       \* host -> its live cinder.conf
  backup,     \* host -> content of its newest <conf>.orig.<uuid> backup
  registry,   \* rows of the storage_pools table: [pool, bn, tier]
  types,      \* pool -> volume_backend_name of its cinder volume type
  op,         \* the request in progress
  failures    \* copy and database failures so far

vars == <<conf, backup, registry, types, op, failures>>

Row == [pool : Pools, bn : BackendNames, tier : Tiers \cup {NoTier}]

Idle == [kind |-> "idle"]

Init ==
  /\ conf = [h \in Hosts |-> InitialConf]
  /\ backup = [h \in Hosts |-> <<>>]
  /\ registry = {}
  /\ types = [p \in Pools |-> NoType]
  /\ op = Idle
  /\ failures = 0

-----------------------------------------------------------------------------
(* get_backend_ini_config for the entries of the backends list: each      *)
(* entry is the set of its tiers, {} for an entry without tiers.  Gives    *)
(* the driver's search and config sections and the db_info records.       *)
(* Variant that records the pool name as the rows' backend_name, as the   *)
(* REST handler does when the request leaves backend_name out.             *)
BackendIniConfigPoolAsName(pool, bn, entries) ==
  LET d == get_ini_config(bn, UNION entries)
  IN  [search |-> d.search, cfg |-> d.cfg,
       dbInfo |-> UNION {IF e = {} THEN {[pool |-> pool, bn |-> pool, tier |-> NoTier]}
                         ELSE {[pool |-> pool, bn |-> pool, tier |-> t] : t \in e}
                         : e \in entries}]

BackendIniConfig(pool, bn, entries) ==
  LET d == get_ini_config(bn, UNION entries)
  IN  [search |-> d.search, cfg |-> d.cfg,
       dbInfo |-> UNION {IF e = {} THEN {[pool |-> pool, bn |-> bn, tier |-> NoTier]}
                         ELSE {[pool |-> pool, bn |-> bn, tier |-> t] : t \in e}
                         : e \in entries}]

(* storage_pool_get filters: id, pool, backend_name, storage_backend_id,  *)
(* storage_tier_id, each only when the record has it.                      *)
Matches(row, rec) ==
  /\ row.pool = rec.pool /\ row.bn = rec.bn
  /\ rec.tier # NoTier => row.tier = rec.tier

(* cinder_client: get_volume_type finds the type whose name (or id) is   *)
(* pool, create_volume_type posts a type with extra spec                   *)
(* volume_backend_name bn, delete_volume_type removes it; t is the types.  *)
get_volume_type(t, pool) == t[pool]
create_volume_type(t, pool, bn) == [t EXCEPT ![pool] = bn]
delete_volume_type(t, pool) == [t EXCEPT ![pool] = NoType]

(* get_hosts without a backend_name: the host part of every cinder-volume *)
(* service, which Hosts lists.                                             *)
get_hosts == Hosts

(* cinder_client.create_backend: a volume type named pool is created with  *)
(* volume_backend_name bn only when no type of that name exists.           *)
create_backend(pool, bn) ==
  IF get_volume_type(types, pool) = NoType THEN create_volume_type(types, pool, bn) ELSE types

(* storage_pool_create: a record with a matching row merges its services  *)
(* into the row ('volume' into 'volume', no change); any other is inserted. *)
storage_pool_create(rows, recs) ==
  rows \cup {rec \in recs : ~\E row \in rows : Matches(row, rec)}

(* storage_pool_delete over the records in the order given: each record *)
(* must match a live row, or StoragePoolNotFound rolls the whole           *)
(* transaction back; dropping 'volume' empties the services of every       *)
(* matching row, which is marked deleted at once, so a later record that   *)
(* only matched rows an earlier one deleted is not found.                  *)
RECURSIVE storage_pool_delete(_, _)
storage_pool_delete(rows, recs) ==
  IF recs = <<>> THEN [found |-> TRUE, rows |-> rows]
  ELSE IF \E row \in rows : Matches(row, Head(recs))
       THEN storage_pool_delete({row \in rows : ~Matches(row, Head(recs))}, Tail(recs))
       ELSE [found |-> FALSE, rows |-> rows]

(* delete_volume_pool's del_type: the rows listing backend_name are as     *)
(* many as the records being deleted, or there are none (NotFound).        *)
del_type(rows, bn, recs) ==
  LET dbRes == {row \in rows : row.bn = bn}
  IN  dbRes = {} \/ Cardinality(dbRes) = Cardinality(recs)

StartBatch(kind, pool, bn, hs, entries) ==
  LET c == BackendIniConfig(pool, bn, entries)
  IN  op' = [kind |-> kind, pool |-> pool, bn |-> bn, hosts |-> hs, todo |-> hs,
             search |-> c.search, upd |-> c.cfg, dbInfo |-> c.dbInfo,
             mode |-> IF kind = "create" THEN "update" ELSE "delete",
             before |-> conf]   \* history: the files when the request began

(* create_pool -> create_volume_pool: create_backend makes the volume type *)
(* if the pool has none (an existing type is kept as it is), hosts        *)
(* default to every cinder-volume host (get_hosts: hs = Hosts), then the   *)
(* driver sections are computed.                                           *)
create_volume_pool(pool, bn, ts, hs) ==
  /\ op = Idle
  /\ types' = create_backend(pool, bn)
  /\ StartBatch("create", pool, bn, hs, {ts})
  /\ UNCHANGED <<conf, backup, registry, failures>>

(* delete_volume_pool: fails unless the pool has a volume type with a     *)
(* volume_backend_name; otherwise runs the batch on every host.            *)
delete_volume_pool(pool, bn, entries) ==
  /\ op = Idle
  /\ get_volume_type(types, pool) # NoType
  /\ StartBatch("delete", pool, bn, get_hosts, entries)
  /\ UNCHANGED <<conf, backup, registry, types, failures>>

(* delete_pool: the rows of (pool, backend_name) must exist; without a    *)
(* backends list (given = FALSE), every row of the pool becomes an entry;  *)
(* with one, its only backend entry has tiers ts.                          *)
delete_pool(pool, bn, given, ts) ==
  LET rows == {r \in registry : r.pool = pool /\ r.bn = bn}
  IN  /\ rows # {}
      /\ delete_volume_pool(pool, bn,
           IF given THEN {ts}
           ELSE {IF r.tier = NoTier THEN {} ELSE {r.tier} : r \in rows})

(* delete_pool_by_id: the row's backend and tier become the request. *)
delete_pool_by_id(row) ==
  /\ row \in registry
  /\ delete_volume_pool(row.pool, row.bn,
                        {IF row.tier = NoTier THEN {} ELSE {row.tier}})

-----------------------------------------------------------------------------
(* One iteration of update_conf's host loop.  outcome says which copy, if *)
(* any, fails: the fetch of the file, the backup copy or the push of the   *)
(* rewrite.  change_backends runs between fetch and backup and leaves its  *)
(* pops in the request's section dicts, which the next host reuses.        *)
Abort == op' = Idle /\ failures' = failures + 1

(* The dict order of a host's sections.  Every section a host gets here   *)
(* is named by the driver after its (backend_name, tier), so at most one   *)
(* section matches a request's search entries and the order never decides.*)
HostOrder(f) == [s \in DOMAIN Parse(f) |-> 0]

update_conf_host(h, outcome) ==
  LET r == change_backends(conf[h], op.search, op.upd, op.mode, HostOrder(conf[h]))
  IN  /\ op.kind \in {"create", "delete"}
      /\ h \in op.todo
      /\ Len(conf[h]) <= MaxLines
      /\ outcome # "ok" => failures < MaxFailures
      /\ CASE outcome = "fetch" ->
                Abort /\ UNCHANGED <<conf, backup>>
           [] outcome = "backup" ->
                Abort /\ UNCHANGED <<conf, backup>>
           [] outcome = "push" ->
                Abort /\ backup' = [backup EXCEPT ![h] = conf[h]] /\ UNCHANGED conf
           [] outcome = "ok" ->
                /\ backup' = [backup EXCEPT ![h] = conf[h]]
                /\ conf' = [conf EXCEPT ![h] = r.out]
                /\ op' = [op EXCEPT !.todo = @ \ {h}, !.upd = r.upd]
                /\ UNCHANGED failures
      /\ UNCHANGED <<registry, types>>

(* After every host: storage_pool_create commits db_info in one          *)
(* transaction, which may fail as a whole.                                 *)
commit_create(ok) ==
  /\ op.kind = "create" /\ op.todo = {}
  /\ ok \/ failures < MaxFailures
  /\ registry' = IF ok THEN storage_pool_create(registry, op.dbInfo) ELSE registry
  /\ failures' = IF ok THEN failures ELSE failures + 1
  /\ op' = Idle
  /\ UNCHANGED <<conf, backup, types>>

(* commit_delete without waiting for the host loop to finish. *)
commit_delete_early(ok, order) ==
  /\ op.kind = "delete"
  /\ ok \/ failures < MaxFailures
  /\ types' = IF del_type(registry, op.bn, op.dbInfo) THEN delete_volume_type(types, op.pool)
              ELSE types
  /\ LET res == storage_pool_delete(registry, order)
     IN  registry' = IF ok /\ res.found THEN res.rows ELSE registry
  /\ failures' = IF ok THEN failures ELSE failures + 1
  /\ op' = Idle
  /\ UNCHANGED <<conf, backup>>

(* After every host of a delete: the volume type is deleted when del_type *)
(* holds, then destroy_pool runs storage_pool_delete, which fails as a     *)
(* whole when a record finds no row or the transaction fails (ok = FALSE);*)
(* order is the order of db_info, that of the request's backends or of    *)
(* the rows storage_pool_get returned.                                     *)
(* The type deletion is not undone.                                        *)
commit_delete(ok, order) ==
  /\ op.kind = "delete" /\ op.todo = {}
  /\ ok \/ failures < MaxFailures
  /\ types' = IF del_type(registry, op.bn, op.dbInfo) THEN delete_volume_type(types, op.pool)
              ELSE types
  /\ LET res == storage_pool_delete(registry, order)
     IN  registry' = IF ok /\ res.found THEN res.rows ELSE registry
  /\ failures' = IF ok THEN failures ELSE failures + 1
  /\ op' = Idle
  /\ UNCHANGED <<conf, backup>>

-----------------------------------------------------------------------------
Outcomes == {"ok", "fetch", "backup", "push"}

Next ==
  \/ \E p \in Pools, bn \in BackendNames, ts \in SUBSET Tiers, hs \in SUBSET Hosts \ {{}} :
       create_volume_pool(p, bn, ts, hs)
  \/ \E p \in Pools, bn \in BackendNames, given \in BOOLEAN, ts \in SUBSET Tiers :
       delete_pool(p, bn, given, ts)
  \/ \E row \in registry : delete_pool_by_id(row)
  \/ \E h \in Hosts, o \in Outcomes : update_conf_host(h, o)
  \/ \E ok \in BOOLEAN : commit_create(ok)
  \/ op.kind = "delete" /\ \E ok \in BOOLEAN, order \in SetToSeqs(op.dbInfo) :
                            commit_delete(ok, order)

Spec == Init /\ [][Next]_vars

-----------------------------------------------------------------------------
Sections(h) == Parse(conf[h])
Enabled(h)  == EnabledIn(Parse(conf[h]))

(* Host h serves backend bn's tier t: an enabled section of its file      *)
(* carries the tier's search entries.                                      *)
Serves(h, bn, t) ==
  \E s \in Enabled(h) \cap DOMAIN Sections(h) :
     contains_entries(Sections(h)[s], SearchEntries(bn, t))

TypeOK ==
  /\ registry \subseteq Row
  /\ types \in [Pools -> BackendNames \cup {NoType}]
  /\ op.kind \in {"idle", "create", "delete"}
  /\ op.kind # "idle" => op.todo \subseteq op.hosts /\ op.dbInfo \subseteq Row
  /\ failures \in 0..MaxFailures

DeleteCommitAfterDisabled ==
  [][(op.kind = "delete" /\ registry' # registry) =>
       \A h \in op.hosts, rec \in op.dbInfo :
          rec.tier # NoTier => ~Serves(h, rec.bn, rec.tier)]_vars

(* Spec 7: "operations either fully apply (all target hosts rewritten,    *)
(* registry updated) or fail".  A create adds registry rows only once every *)
(* host of its batch serves the pool's tiers, under whatever section name. *)
CreateCommitAfterServed ==
  [][(op.kind = "create" /\ registry' # registry) =>
       \A h \in op.hosts, rec \in op.dbInfo :
          rec.tier # NoTier => Serves(h, rec.bn, rec.tier)]_vars

(* A pool row (pool, backend_name) lives only while volume type pool      *)
(* exists and sends volumes to volume_backend_name backend_name (api.py:   *)
(* "pool is volume_type, backend_name is volume_backend_name"), so that    *)
(* the pool can be used and delete_volume_pool can still remove it.        *)
RegistryPoolTyped ==
  \A row \in registry : types[row.pool] = row.bn

(* The registry and the hosts' files are kept in step: between requests,   *)
(* a backend_name's tier has a live pool row exactly when some host serves *)
(* it, so the pools the registry lists are configured and the pools it     *)
(* forgets are not.                                                        *)
RegistryInStepWithHosts ==
  op = Idle =>
    \A bn \in BackendNames, t \in Tiers :
       (\E row \in registry : row.bn = bn /\ row.tier = t) <=> (\E h \in Hosts : Serves(h, bn, t))
=============================================================================

-------------------------------- MODULE Catalog --------------------------------
(***************************************************************************)
(* The backend/tier catalog of sds/db/sqlalchemy/api.py (storage_backends, *)
(* storage_backend_tiers and storage_extra_specs), driven by its callers:  *)
(* the REST controllers of sds/api/v1 (backends, tiers and their           *)
(* capability specs) and Discover.store_in_db of sds/discover/api.py.      *)
(* Each database function runs in one session transaction: it either      *)
(* commits all its writes or raises and rolls them all back.  Requests     *)
(* run one at a time.  A uuid is a number; only equality of uuids         *)
(* matters, so a new uuid is the least number no row mentions, which is   *)
(* as fresh as uuid4 to every later step.  Deleted rows are dropped,      *)
(* since every read of the callers uses read_deleted = "no".               *)
(***************************************************************************)
EXTENDS Naturals, Sequences, FiniteSets

CONSTANTS
  Names,        \* storage backend names
  TierNames,    \* storage tier names (Ceph pool names)
  Drivers,      \* driver names a backend may record
  None,         \* the driver of a backend created without one
  Keys, Vals,   \* keys and values of capability and config specs
  Dicts,        \* the spec dicts REST requests carry
  Discoveries,  \* the results a discovery driver may return
  Pools,        \* pool (volume type) names of create_pool requests
  PoolBackendNames, \* their backend_name (volume_backend_name) values, None
                    \* for a request that leaves it out
  MaxIds,       \* bound on the uuids the rows mention at once
  MaxFailures,  \* bound on the failed discovery transactions
  MaxPoolRows   \* bound on the rows of storage_pools

NoId == 0                   \* a NULL capability_specs_id / config_specs_id

VARIABLES
  db,         \* the live rows: [backends, tiers, specs, pools]
  failures    \* failed discovery transactions so far

vars == <<db, failures>>

SpecDicts == UNION {[D -> Vals] : D \in SUBSET Keys}
ASSUME Dicts \subseteq SpecDicts
HasSpecs(specs) == DOMAIN specs # {}

(* The empty dict: specs a request leaves out ({} in the controllers). *)
NoSpecs == [k \in {} |-> NoId]

Ids        == 1..MaxIds
BackendRow == [id : Ids, name : Names, driver : Drivers \cup {None},
               cap : Ids \cup {NoId}, conf : Ids \cup {NoId}]
TierRow    == [id : Ids, name : TierNames, backend : Ids, cap : Ids \cup {NoId}]
SpecRow    == [sid : Ids, key : Keys, val : Vals]   \* storage_id is NOT NULL
PoolRow    == [pool : Pools, bn : (PoolBackendNames \ {None}) \cup Pools \cup {p \o "_backend" : p \in Pools},
               backend : Ids, tier : Ids \cup {NoId}]

Init ==
  /\ db = [backends |-> {}, tiers |-> {}, specs |-> {}, pools |-> {}]
  /\ failures = 0

-----------------------------------------------------------------------------
(* A database function's result: the rows it leaves, and the exception it *)
(* raised ("none" when it returned); a raise rolls the session back.       *)
Ok(d) == [db |-> d, exc |-> "none"]
Raise(d, e) == [db |-> d, exc |-> e]

(* _storage_get_info with filters {key: val}: the live matching rows; the  *)
(* single-row callers take result[0], the only row when names are unique.  *)
FindRows(rows, key, val) == {r \in rows : r[key] = val}
First(rows) == CHOOSE r \in rows : TRUE
SetRow(rows, r, new) == (rows \ {r}) \cup {new}

(* _find_storage_backend and _find_storage_tier: an update of a row the   *)
(* filter does not find raises NotFound, an insert of one it finds raises *)
(* Exists.                                                                 *)
find_storage_backend(rows, update) ==
  CASE update /\ rows = {}  -> "StorageBackendNotFound"
    [] ~update /\ rows # {} -> "StorageBackendExists"
    [] OTHER                -> "none"

find_storage_tier(rows, update) ==
  CASE update /\ rows = {}  -> "StorageTierNotFound"
    [] ~update /\ rows # {} -> "StorageTierExists"
    [] OTHER                -> "none"

(* The uuids the rows mention (a pool row's storage_backend_id and       *)
(* storage_tier_id too, even when they name deleted rows), and the n-th   *)
(* least one they do not: the n-th str(uuid.uuid4()) of a function.        *)
UsedIds(d) ==
  ({b.id : b \in d.backends} \cup {b.cap : b \in d.backends} \cup {b.conf : b \in d.backends}
   \cup {t.id : t \in d.tiers} \cup {t.backend : t \in d.tiers} \cup {t.cap : t \in d.tiers}
   \cup {s.sid : s \in d.specs}
   \cup {p.backend : p \in d.pools} \cup {p.tier : p \in d.pools}) \ {NoId}
NewId(d, n) ==
  LET free == (1..(Cardinality(UsedIds(d)) + 3)) \ UsedIds(d)
  IN  CHOOSE i \in free : Cardinality({j \in free : j < i}) = n - 1

(* _storage_specs_update_or_create without the lookup of the existing    *)
(* row: every key is inserted anew.                                        *)
storage_specs_insert_always(d, sid, specs) ==
  [d EXCEPT !.specs = @ \cup {[sid |-> sid, key |-> k, val |-> specs[k]] : k \in DOMAIN specs}]

(* _storage_specs_update_or_create: each key's row under storage_id sid   *)
(* is updated when _storage_extra_specs_get_item finds it and inserted    *)
(* otherwise; keys the dict does not name keep their rows.                *)
storage_specs_update_or_create(d, sid, specs) ==
  [d EXCEPT !.specs = {s \in @ : ~(s.sid = sid /\ s.key \in DOMAIN specs)}
                      \cup {[sid |-> sid, key |-> k, val |-> specs[k]] : k \in DOMAIN specs}]

(* The update_or_create helpers without the branch that gives a row      *)
(* without a specs uuid its first one.                                     *)
OwnerSpecsUpsertNoAlloc(d, table, key, val, field, specs) ==
  storage_specs_update_or_create(d, First(FindRows(d[table], key, val))[field], specs)

(* _storage_backend_capability_specs_update_or_create: the row found by  *)
(* key = val in table gets a new uuid in field when it has none, then the *)
(* specs are written under that uuid.  The config and tier twins below     *)
(* differ only in the table and the column.                                *)
OwnerSpecsUpsert(d, table, key, val, field, specs) ==
  LET o   == First(FindRows(d[table], key, val))
      sid == IF o[field] = NoId THEN NewId(d, 1) ELSE o[field]
      d1  == IF o[field] = NoId
             THEN [d EXCEPT ![table] = SetRow(@, o, [o EXCEPT ![field] = sid])]
             ELSE d
  IN  storage_specs_update_or_create(d1, sid, specs)

storage_backend_config_specs_update_or_create(d, key, val, specs) ==
  OwnerSpecsUpsert(d, "backends", key, val, "conf", specs)

storage_tier_capability_specs_update_or_create(d, key, val, specs) ==
  OwnerSpecsUpsert(d, "tiers", key, val, "cap", specs)

(* storage_backend_capability_specs_create and its tier twin: the update  *)
(* in a transaction of its own; an id no live row has is NotFound.         *)
storage_backend_capability_specs_create(d, id, specs) ==
  IF FindRows(d.backends, "id", id) = {} THEN Raise(d, "StorageBackendNotFound")
  ELSE Ok(OwnerSpecsUpsert(d, "backends", "id", id, "cap", specs))

storage_tier_capability_specs_create(d, id, specs) ==
  IF FindRows(d.tiers, "id", id) = {} THEN Raise(d, "StorageTierNotFound")
  ELSE Ok(storage_tier_capability_specs_update_or_create(d, "id", id, specs))

(* The filter and soft delete shared by the *_specs_destroy functions:    *)
(* nothing when the owner row o has no uuid in field; otherwise its spec   *)
(* rows with a key in keys (every key when no skey is given) go.           *)
OwnerSpecsDestroy(d, o, field, keys) ==
  IF o[field] = NoId THEN d
  ELSE [d EXCEPT !.specs = {s \in @ : ~(s.sid = o[field] /\ s.key \in keys)}]

(* storage_backend_config_specs_destroy, storage_backend_capability_specs_ *)
(* destroy and storage_tier_capability_specs_destroy: the owner is found   *)
(* by the filter (NotFound when no live row matches) and first is the row  *)
(* the query returned first.                                               *)
storage_backend_config_specs_destroy(d, found, first, keys) ==
  IF found = {} THEN Raise(d, "StorageBackendNotFound")
  ELSE Ok(OwnerSpecsDestroy(d, first, "conf", keys))

storage_backend_capability_specs_destroy(d, found, first, keys) ==
  IF found = {} THEN Raise(d, "StorageBackendNotFound")
  ELSE Ok(OwnerSpecsDestroy(d, first, "cap", keys))

storage_tier_capability_specs_destroy(d, found, first, keys) ==
  IF found = {} THEN Raise(d, "StorageTierNotFound")
  ELSE Ok(OwnerSpecsDestroy(d, first, "cap", keys))

-----------------------------------------------------------------------------
(* storage_backend_create(values, update).  An update of a backend no     *)
(* name finds is NotFound; an insert of one it finds is Exists.  An      *)
(* update of a backend without a driver by values with one calls          *)
(* self._storage_backend_update in a module function: the NameError is    *)
(* wrapped as DBError and the transaction rolls back.  An insert takes    *)
(* uuids for the row, its capability specs and its config specs, in that  *)
(* order.  Both then write the non-empty spec dicts.                       *)
storage_backend_create(d, v, update) ==
  LET found == FindRows(d.backends, "name", v.name)
      capId  == IF HasSpecs(v.cap) THEN NewId(d, 2) ELSE NoId
      confId == IF HasSpecs(v.conf) THEN NewId(d, IF HasSpecs(v.cap) THEN 3 ELSE 2)
                ELSE NoId
      new == [id |-> NewId(d, 1), name |-> v.name, driver |-> v.driver,
              cap |-> capId, conf |-> confId]
      d1 == IF found # {} THEN d ELSE [d EXCEPT !.backends = @ \cup {new}]
      d2 == IF HasSpecs(v.cap) THEN OwnerSpecsUpsert(d1, "backends", "name", v.name, "cap", v.cap)
            ELSE d1
      d3 == IF HasSpecs(v.conf) THEN storage_backend_config_specs_update_or_create(d2, "name", v.name, v.conf)
            ELSE d2
      e  == find_storage_backend(found, update)
  IN  CASE e # "none" -> Raise(d, e)
        [] found # {} /\ First(found).driver = None /\ v.driver # None -> Raise(d, "DBError")
        [] OTHER -> Ok(d3)

(* storage_tier_create looking the tier up by name within the backend,   *)
(* as its _tier_ref (name and storage_backend_id) suggests.               *)
storage_tier_create_per_backend(d, v, update) ==
  LET bs == FindRows(d.backends, "name", v.backend_name)
      ts == {t \in FindRows(d.tiers, "name", v.tier_name) : t.backend = First(bs).id}
      new == [id |-> NewId(d, 1), name |-> v.tier_name, backend |-> First(bs).id,
              cap |-> IF HasSpecs(v.cap) THEN NewId(d, 2) ELSE NoId]
      d1 == IF ts # {} THEN d ELSE [d EXCEPT !.tiers = @ \cup {new}]
      d2 == IF HasSpecs(v.cap) THEN storage_tier_capability_specs_update_or_create(d1, "id", First(ts \cup {new}).id, v.cap)
            ELSE d1
      e  == find_storage_tier(ts, update)
  IN  CASE bs = {}     -> Raise(d, "StorageBackendNotFound")
        [] e # "none"  -> Raise(d, e)
        [] OTHER       -> Ok(d2)

(* storage_tier_create(values, update): the backend is found by name (or  *)
(* NotFound); the tier is looked up by name alone, across every backend,  *)
(* and is NotFound for an update, Exists for an insert.  An update writes *)
(* the specs of the tier found, whichever backend it belongs to; an       *)
(* insert takes uuids for the row and its capability specs.                *)
storage_tier_create(d, v, update) ==
  LET bs == FindRows(d.backends, "name", v.backend_name)
      ts == FindRows(d.tiers, "name", v.tier_name)
      new == [id |-> NewId(d, 1), name |-> v.tier_name, backend |-> First(bs).id,
              cap |-> IF HasSpecs(v.cap) THEN NewId(d, 2) ELSE NoId]
      d1 == IF ts # {} THEN d ELSE [d EXCEPT !.tiers = @ \cup {new}]
      d2 == IF HasSpecs(v.cap) THEN storage_tier_capability_specs_update_or_create(d1, "name", v.tier_name, v.cap)
            ELSE d1
      e  == find_storage_tier(ts, update)
  IN  CASE bs = {}     -> Raise(d, "StorageBackendNotFound")
        [] e # "none"  -> Raise(d, e)
        [] OTHER       -> Ok(d2)

(* _storage_tier_destroy_in_session deleting only the tier it found first. *)
storage_tier_destroy_in_session_first_only(d, key, val, first) ==
  LET r == storage_tier_capability_specs_destroy(d, FindRows(d.tiers, key, val), first, Keys)
  IN  IF r.exc # "none" THEN r
      ELSE Ok([r.db EXCEPT !.tiers = {t \in @ : t.id # first.id}])

(* _storage_tier_destroy_in_session(filters = {key: val}):                *)
(* storage_tier_capability_specs_destroy finds the first tier matching    *)
(* the filter (NotFound when none does) and deletes that tier's specs     *)
(* only; then every matching tier is marked deleted.  first is the row the *)
(* query returned first.                                                   *)
storage_tier_destroy_in_session(d, key, val, first) ==
  LET r == storage_tier_capability_specs_destroy(d, FindRows(d.tiers, key, val), first, Keys)
  IN  IF r.exc # "none" THEN r
      ELSE Ok([r.db EXCEPT !.tiers = {t \in @ : t[key] # val}])

(* _storage_backend_destroy without the destroy of the backend's tiers. *)
storage_backend_destroy_keep_tiers(d, id, first) ==
  LET bs == FindRows(d.backends, "id", id)
      r2 == storage_backend_capability_specs_destroy(d, bs, First(bs), Keys)
      r3 == storage_backend_config_specs_destroy(r2.db, bs, First(bs), Keys)
  IN  IF find_storage_backend(bs, TRUE) # "none" THEN Raise(d, "StorageBackendNotFound")
      ELSE Ok([r3.db EXCEPT !.backends = @ \ bs])

(* _storage_backend_destroy(dict(id = id)), which backend_destroy_by_id   *)
(* and db.storage_backend_destroy call: NotFound for an unknown id; the   *)
(* backend's tiers are destroyed (the StorageTierNotFound of a backend    *)
(* without tiers is caught), then its capability and config specs, then   *)
(* the backend row is marked deleted, all in one session.                  *)
storage_backend_destroy(d, id, first) ==
  LET bs == FindRows(d.backends, "id", id)
      r1 == storage_tier_destroy_in_session(d, "backend", id, first)
      d1 == IF r1.exc = "StorageTierNotFound" THEN d ELSE r1.db
      r2 == storage_backend_capability_specs_destroy(d1, bs, First(bs), Keys)
      r3 == storage_backend_config_specs_destroy(r2.db, bs, First(bs), Keys)
  IN  IF find_storage_backend(bs, TRUE) # "none" THEN Raise(d, "StorageBackendNotFound")
      ELSE Ok([r3.db EXCEPT !.backends = @ \ bs])

(* storage_backend_get_by_name and storage_tier_get_by_name (through      *)
(* get_backend_by_name and get_tier_by_name without is_detail): the live  *)
(* rows of that name; store_in_db takes StorageBackendNotFound or          *)
(* StorageTierNotFound, the empty set here, as "not stored yet".           *)
storage_backend_get_by_name(d, n) == FindRows(d.backends, "name", n)
storage_tier_get_by_name(d, tn) == FindRows(d.tiers, "name", tn)

(* backend_destroy_by_id, which db.storage_backend_destroy calls, and      *)
(* storage_tier_destroy_by_id, whose _storage_tier_destroy opens the       *)
(* session of _storage_tier_destroy_in_session.                            *)
backend_destroy_by_id(d, id, first) == storage_backend_destroy(d, id, first)
storage_tier_destroy_by_id(d, t) == storage_tier_destroy_in_session(d, "id", t.id, t)

(* Discover.store_in_db: the backend is looked up by name and created or  *)
(* updated accordingly; then each tier, looked up by name, is created or  *)
(* updated in a transaction of its own, so a failure stops the loop with  *)
(* the earlier tiers stored.  Transaction number fail (the backend's is 1) *)
(* fails with a database error; fail = 0 means none does.                  *)
RECURSIVE store_tiers(_, _, _, _)
store_tiers(d, name, tiers, fail) ==
  IF tiers = <<>> THEN Ok(d)
  ELSE LET t == Head(tiers)
           r == storage_tier_create(d, [tier_name |-> t.name, backend_name |-> name, cap |-> t.cap],
                                    storage_tier_get_by_name(d, t.name) # {})
       IN  CASE fail = 1        -> Raise(d, "DBError")
             [] r.exc # "none"  -> r
             [] OTHER           -> store_tiers(r.db, name, Tail(tiers), fail - 1)

store_in_db(d, info, fail) ==
  LET r == storage_backend_create(d, info, storage_backend_get_by_name(d, info.name) # {})
  IN  CASE fail = 1        -> Raise(d, "DBError")
        [] r.exc # "none"  -> r
        [] OTHER           -> store_tiers(r.db, info.name, info.tiers, fail - 1)

(* storage_backend_get_by_id or _by_name with is_detail: the backend (or *)
(* NotFound), and set_backend_extra_info's get_all_tiers of its tiers,    *)
(* where storage_tier_get_all raises StorageTierNotFound when there are   *)
(* none.                                                                   *)
get_backend(d, key, val) ==
  LET bs == FindRows(d.backends, key, val)
  IN  CASE bs = {} -> [exc |-> "StorageBackendNotFound"]
        [] FindRows(d.tiers, "backend", First(bs).id) = {} -> [exc |-> "StorageTierNotFound"]
        [] OTHER -> [exc |-> "none", b |-> First(bs), tiers |-> FindRows(d.tiers, "backend", First(bs).id)]

(* A requested tier ({'name': x}) matches a tier of the backend whose name *)
(* or id is x: a name for a REST create, an id for delete_pool_by_id.      *)
TierRefMatches(t, ref) == IF ref.by = "name" THEN t.name = ref.v ELSE t.id = ref.v

(* Mutant: the requested tiers are looked up among all tiers, not the   *)
(* backend's own.                                                          *)
get_backend_ini_config_any_tier(d, pool, bn, key, val, refs) ==
  LET g  == get_backend(d, key, val)
      ts == {t \in d.tiers : \E ref \in refs : TierRefMatches(t, ref)}
      rec(tier) == [pool |-> pool, bn |-> bn, backend |-> g.b.id, tier |-> tier]
  IN  CASE g.exc # "none" -> [exc |-> g.exc]
        [] \E ref \in refs : ~\E t \in d.tiers : TierRefMatches(t, ref) -> [exc |-> "StorageTierNotFound"]
        [] g.b.driver = None -> [exc |-> "DriverMappingError"]
        [] OTHER -> [exc |-> "none",
                     recs |-> IF refs = {} THEN {rec(NoId)} ELSE {rec(t.id) : t \in ts}]

(* get_backend_ini_config for one backends entry (key = val, tier refs    *)
(* refs): every requested tier must be one of the backend's, a backend    *)
(* without a driver raises DriverMappingError, and the records for        *)
(* storage_pool_create / _delete are one per tier, or one without a tier  *)
(* when the request names none.                                            *)
get_backend_ini_config(d, pool, bn, key, val, refs) ==
  LET g  == get_backend(d, key, val)
      ts == {t \in g.tiers : \E ref \in refs : TierRefMatches(t, ref)}
      rec(tier) == [pool |-> pool, bn |-> bn, backend |-> g.b.id, tier |-> tier]
  IN  CASE g.exc # "none" -> [exc |-> g.exc]
        [] \E ref \in refs : ~\E t \in g.tiers : TierRefMatches(t, ref) -> [exc |-> "StorageTierNotFound"]
        [] g.b.driver = None -> [exc |-> "DriverMappingError"]
        [] OTHER -> [exc |-> "none",
                     recs |-> IF refs = {} THEN {rec(NoId)} ELSE {rec(t.id) : t \in ts}]

(* storage_pool_get: the live rows matching the record's fields (a record  *)
(* without a tier does not filter on it); none is StoragePoolNotFound.     *)
(* Each row's backend and tier are then read by id, which raises NotFound  *)
(* for a deleted one.  rec = {} lists every row.                           *)
PoolMatches(row, rec) ==
  /\ row.pool = rec.pool /\ row.bn = rec.bn /\ row.backend = rec.backend
  /\ rec.tier # NoId => row.tier = rec.tier

storage_pool_get(d, rows) ==
  CASE \E r \in rows : FindRows(d.backends, "id", r.backend) = {} -> "StorageBackendNotFound"
    [] \E r \in rows : r.tier # NoId /\ FindRows(d.tiers, "id", r.tier) = {} -> "StorageTierNotFound"
    [] OTHER -> "none"

PoolGet(d, rec) ==
  LET rows == {r \in d.pools : PoolMatches(r, rec)}
  IN  [exc |-> IF rows = {} THEN "StoragePoolNotFound" ELSE storage_pool_get(d, rows), rows |-> rows]

(* storage_pool_create: a record whose storage_pool_get finds rows merges *)
(* its services into them ('volume' into 'volume', no change); a record    *)
(* it does not find is inserted; any other exception is a DBError.         *)
storage_pool_create(d, recs) ==
  IF \E rec \in recs : PoolGet(d, rec).exc \notin {"none", "StoragePoolNotFound"}
  THEN Raise(d, "DBError")
  ELSE Ok([d EXCEPT !.pools = @ \cup {rec \in recs : PoolGet(d, rec).exc = "StoragePoolNotFound"}])

(* storage_pool_delete of one record: its rows must be found (any         *)
(* exception is a DBError); dropping 'volume' leaves no service, so every  *)
(* row matching the record is marked deleted.                              *)
storage_pool_delete(d, rec) ==
  IF PoolGet(d, rec).exc # "none" THEN Raise(d, "DBError")
  ELSE Ok([d EXCEPT !.pools = {r \in @ : ~PoolMatches(r, rec)}])

(* storage_backend_capability_specs_get, storage_backend_config_specs_get *)
(* and storage_tier_capability_specs_get read the dict of the live rows    *)
(* under the owner's specs uuid (a NULL uuid matches none; no rows reads   *)
(* as None, here the dict without keys).                                   *)
specs_get(d, sid) ==
  LET rows == FindRows(d.specs, "sid", sid)
  IN  [k \in {s.key : s \in rows} |-> (CHOOSE s \in rows : s.key = k).val]

(* storage_backend_get_by_id and storage_tier_get_by_id: through         *)
(* _find_storage_backend/_tier, result[0] of the live rows with the id, or *)
(* NotFound.  A missing row is the empty set.                              *)
storage_backend_get_by_id(d, id) == FindRows(d.backends, "id", id)

storage_tier_get_by_id(d, id) == FindRows(d.tiers, "id", id)

(* The three *_specs_get by owner id: NotFound for an unknown owner, else  *)
(* the dict of the owner's specs uuid.                                      *)
SpecsOf(rows, field, d, e) ==
  IF rows = {} THEN [exc |-> e] ELSE [exc |-> "none", specs |-> specs_get(d, First(rows)[field])]

storage_backend_capability_specs_get(d, id) ==
  SpecsOf(storage_backend_get_by_id(d, id), "cap", d, "StorageBackendNotFound")

storage_backend_config_specs_get(d, id) ==
  SpecsOf(storage_backend_get_by_id(d, id), "conf", d, "StorageBackendNotFound")

storage_tier_capability_specs_get(d, id) ==
  SpecsOf(storage_tier_get_by_id(d, id), "cap", d, "StorageTierNotFound")

(* storage_backend_get_all and storage_tier_get_all (_storage_get_info    *)
(* with all=True): the live rows matching every search option, NotFound   *)
(* when there is none.                                                      *)
Matching(rows, opts) == {r \in rows : \A k \in DOMAIN opts : r[k] = opts[k]}
NoOpts == [k \in {} |-> NoId]

storage_backend_get_all(d, opts) ==
  IF Matching(d.backends, opts) = {} THEN [exc |-> "StorageBackendNotFound"]
  ELSE [exc |-> "none", rows |-> Matching(d.backends, opts)]

storage_tier_get_all(d, opts) ==
  IF Matching(d.tiers, opts) = {} THEN [exc |-> "StorageTierNotFound"]
  ELSE [exc |-> "none", rows |-> Matching(d.tiers, opts)]

(* StorageBackendsController._get_backends and                            *)
(* StorageBackendTiersController._get_tiers without is_detail (the index   *)
(* listings): NotFound of a search without options is an empty list.        *)
get_backends_index(d, opts) ==
  LET r == storage_backend_get_all(d, opts)
  IN  IF r.exc = "StorageBackendNotFound" /\ DOMAIN opts = {} THEN [exc |-> "none", rows |-> {}] ELSE r

get_tiers_index(d, opts) ==
  LET r == storage_tier_get_all(d, opts)
  IN  IF r.exc = "StorageTierNotFound" /\ DOMAIN opts = {} THEN [exc |-> "none", rows |-> {}] ELSE r

(* GET /storage_backends/id/capability_specs and                          *)
(* GET /storage_tiers/id/capability_specs: _check_backend (_tier) answers  *)
(* 404 for an unknown id; _get_capability_specs then copies the whole      *)
(* *_capability_specs_get result (id, name and the dict) under              *)
(* 'capability_specs'.                                                      *)
backend_capability_specs_index(d, id) ==
  IF storage_backend_get_by_id(d, id) = {} THEN [exc |-> "HTTPNotFound"]
  ELSE storage_backend_capability_specs_get(d, id)

tier_capability_specs_index(d, id) ==
  IF storage_tier_get_by_id(d, id) = {} THEN [exc |-> "HTTPNotFound"]
  ELSE storage_tier_capability_specs_get(d, id)

(* The catalog as its REST reads show it, keyed by name as                *)
(* get_backend_by_name and get_tier_by_name look rows up: the index         *)
(* listings, each backend's and tier's capability dict, a backend's config *)
(* dict, and a tier's backend read by its storage_backend_id.  (The detail *)
(* listings read the same dicts but raise StorageTierNotFound once a       *)
(* backend has no tiers.)                                                   *)
ListedBackend(d, b) ==
  [driver |-> b.driver, cap |-> backend_capability_specs_index(d, b.id).specs,
   conf |-> storage_backend_config_specs_get(d, b.id).specs]

ListedTier(d, t) ==
  LET b == storage_backend_get_by_id(d, t.backend)
  IN  [backend |-> IF b = {} THEN None ELSE First(b).name,
       cap |-> tier_capability_specs_index(d, t.id).specs]

RestCatalog(d) ==
  LET bs == get_backends_index(d, NoOpts).rows
      ts == get_tiers_index(d, NoOpts).rows
  IN  [backends |-> [n \in {b.name : b \in bs} |-> ListedBackend(d, First(FindRows(bs, "name", n)))],
       tiers    |-> [tn \in {t.name : t \in ts} |-> ListedTier(d, First(FindRows(ts, "name", tn)))]]

-----------------------------------------------------------------------------
(* A request commits the rows its transactions leave, within the uuid     *)
(* bound.                                                                   *)
Commit(r) ==
  /\ \A i \in UsedIds(r.db) : i <= MaxIds
  /\ db' = r.db

RestRequest(r) == Commit(r) /\ UNCHANGED failures

(* POST /storage_backends: name is required; driver and specs may be       *)
(* missing; create_backend inserts (update = False).                       *)
create_backend(n, drv, cap, conf) ==
  RestRequest(storage_backend_create(db, [name |-> n, driver |-> drv, cap |-> cap, conf |-> conf],
                                     FALSE))

(* DELETE /storage_backends/id -> destroy_backend -> backend_destroy_by_id. *)
destroy_backend(b, first) == RestRequest(backend_destroy_by_id(db, b.id, first))

(* POST /storage_tiers: tier_name and backend_name are required;           *)
(* create_tier inserts.                                                     *)
create_tier(tn, n, cap) ==
  RestRequest(storage_tier_create(db, [tier_name |-> tn, backend_name |-> n, cap |-> cap], FALSE))

(* DELETE /storage_tiers/id -> storage_tier_destroy_by_id in a session of  *)
(* its own.                                                                 *)
destroy_tier_by_id(t) == RestRequest(storage_tier_destroy_by_id(db, t))

(* POST and DELETE /storage_backends/id/capability_specs: the controller  *)
(* checks the backend exists, then writes the dict in one transaction, or  *)
(* deletes the rows of one key.                                            *)
create_backend_capability_specs(o, specs) ==
  RestRequest(storage_backend_capability_specs_create(db, o.id, specs))

destroy_backend_capability_specs(o, skey) ==
  RestRequest(storage_backend_capability_specs_destroy(db, FindRows(db.backends, "id", o.id), o, {skey}))

(* The same for /storage_tiers/id/capability_specs. *)
create_tier_capability_specs(o, specs) ==
  RestRequest(storage_tier_capability_specs_create(db, o.id, specs))

destroy_tier_capability_specs(o, skey) ==
  RestRequest(storage_tier_capability_specs_destroy(db, FindRows(db.tiers, "id", o.id), o, {skey}))

(* POST /discover with persist: the driver's result is stored.              *)
discover(info, fail) ==
  LET r == store_in_db(db, info, fail)
  IN  /\ fail # 0 => failures < MaxFailures
      /\ Commit(r)
      /\ failures' = IF fail # 0 THEN failures + 1 ELSE failures

(* POST /storage_pools -> create_pool -> create_volume_pool for one       *)
(* backends entry {name, tiers}: the catalog lookups of                   *)
(* get_backend_ini_config, then (after update_conf, which does not touch   *)
(* the catalog) storage_pool_create.  A request any step of which raises   *)
(* leaves the rows as they were.                                           *)
create_pool(pool, bn, n, refs) ==
  LET c == get_backend_ini_config(db, pool, bn, "name", n, refs)
  IN  /\ c.exc = "none"
      /\ Cardinality(storage_pool_create(db, c.recs).db.pools) <= MaxPoolRows
      /\ RestRequest(storage_pool_create(db, c.recs))

(* POST /storage_pools (StoragePoolController._pool): a request without  *)
(* pool or without a non-empty backends list is a 400; a missing          *)
(* backend_name is the pool's name, missing services are ['volume'] and    *)
(* no hosts means every cinder-volume host.  Any exception of create_pool  *)
(* is a 404.                                                                *)
pool_create_request(pool, bn, n, refs) ==
  create_pool(pool, IF bn = None THEN pool ELSE bn, n, refs)

(* api.sds.storage_pools_create: the sdsclient StoragePoolManager posts   *)
(* {pool, backend_name, backends, services ['volume']} to /pools.           *)
storage_pools_create(pool, bn, n, refs) == pool_create_request(pool, bn, n, refs)

(* `sds pool-create <pool> <backend_name> <services> <backends>`: the JSON *)
(* backends list, here backend n with the tiers named tns, is posted as    *)
(* given; an empty backend_name argument is None here.                     *)
do_pool_create(pool, bn, n, tns) ==
  pool_create_request(pool, bn, n, {[by |-> "name", v |-> x] : x \in tns})

(* `sds backend-create <name> [key=value ...]`: StorageBackendManager.create *)
(* sends the name and the pairs as capability_specs, never a driver or     *)
(* config_specs.                                                            *)
do_backend_create(n, cap) == create_backend(n, None, cap, NoSpecs)

(* GET /storage_backends/detail (_get_backends with is_detail): for every *)
(* backend, set_backend_extra_info reads its specs and get_all_tiers of    *)
(* its tiers, which raises StorageTierNotFound for a backend without any;  *)
(* _get_backends only catches StorageBackendNotFound, which an empty table *)
(* raises and which answers [].                                             *)
get_backends_detail(d) ==
  IF \E b \in d.backends : FindRows(d.tiers, "backend", b.id) = {} THEN "StorageTierNotFound"
  ELSE "none"

(* The dashboard's CreateVirtualPoolForm (composepool/forms.py) through   *)
(* api.sds.storage_pools_create: building the form lists the backends in   *)
(* detail (a failure there leaves no form to submit) and offers, for the   *)
(* storage system chosen, the ids of the tiers of the backend of that      *)
(* name; the request names that backend and the tier by id, with           *)
(* backend_name "<pool>_backend".                                          *)
dashboard_create_pool(pool, n, tid) ==
  /\ get_backends_detail(db) = "none"
  /\ tid \in {t.id : t \in {t \in db.tiers : \E b \in FindRows(db.backends, "name", n) : t.backend = b.id}}
  /\ storage_pools_create(pool, pool \o "_backend", n, {[by |-> "id", v |-> tid]})

(* DELETE /storage_pools/id -> delete_pool_by_id: storage_pool_get of the  *)
(* row, get_backend_ini_config by the row's backend and tier ids, then     *)
(* delete_volume_pool's del_type lookup by backend_name (whose exceptions  *)
(* other than StoragePoolNotFound propagate) and storage_pool_delete.       *)
delete_pool_by_id(row) ==
  LET c == get_backend_ini_config(db, row.pool, row.bn, "id", row.backend,
                                  IF row.tier = NoId THEN {} ELSE {[by |-> "id", v |-> row.tier]})
  IN  /\ storage_pool_get(db, {row}) = "none"
      /\ c.exc = "none"
      /\ storage_pool_get(db, {r \in db.pools : r.bn = row.bn}) = "none"
      /\ \E rec \in c.recs : RestRequest(storage_pool_delete(db, rec))

(* GET /storage_pools (StoragePoolController.index -> get_pool_list ->    *)
(* get_volume_pool_info): storage_pool_get without values lists every live *)
(* row, [] when there is none, with its backend's and tier's names read by *)
(* id, which raises NotFound for a row whose backend or tier is gone; the  *)
(* handler answers any exception with 404.  The merge of cinder's          *)
(* scheduler pools (get_pool_info, merge_entries) only adds section and    *)
(* host to rows it lists.                                                   *)
get_pool_list(d) == IF d.pools = {} THEN "none" ELSE storage_pool_get(d, d.pools)

pools_index(d) == IF get_pool_list(d) = "none" THEN "200" ELSE "HTTPNotFound"

(* The dashboard's Compose Virtual Pool table (composepool/views.py        *)
(* IndexView.get_data): the rows of api.sds.storage_pools_list, GET /pools; *)
(* get_data catches nothing, so a failing listing shows no table.          *)
ComposePoolTableShown(d) == pools_index(d) = "200"

(* RemoveVirtualPool (composepool/tables.py): a row of the table shown is  *)
(* deleted through api.sds.storage_pools_delete, DELETE /pools/id.         *)
dashboard_delete_pool(row) == ComposePoolTableShown(db) /\ delete_pool_by_id(row)

(* The first tier a query by backend id returns, when there is one. *)
FirstChoices(id) ==
  LET ts == FindRows(db.tiers, "backend", id)
  IN  IF ts = {} THEN {[id |-> NoId, cap |-> NoId]} ELSE ts

Next ==
  \/ \E n \in Names, drv \in Drivers \cup {None}, cap, conf \in Dicts :
       create_backend(n, drv, cap, conf)
  \/ \E b \in db.backends : \E first \in FirstChoices(b.id) : destroy_backend(b, first)
  \/ \E tn \in TierNames, n \in Names, cap \in Dicts : create_tier(tn, n, cap)
  \/ \E t \in db.tiers : destroy_tier_by_id(t)
  \/ \E o \in db.backends, specs \in Dicts : create_backend_capability_specs(o, specs)
  \/ \E o \in db.backends, k \in Keys : destroy_backend_capability_specs(o, k)
  \/ \E o \in db.tiers, specs \in Dicts : create_tier_capability_specs(o, specs)
  \/ \E o \in db.tiers, k \in Keys : destroy_tier_capability_specs(o, k)
  \/ \E info \in Discoveries : \E fail \in 0..(Len(info.tiers) + 1) : discover(info, fail)
  \/ \E p \in Pools, bn \in PoolBackendNames, n \in Names, tns \in SUBSET TierNames :
       do_pool_create(p, bn, n, tns)
  \/ \E p \in Pools, n \in Names, tid \in Ids : dashboard_create_pool(p, n, tid)
  \/ \E n \in Names, cap \in Dicts : do_backend_create(n, cap)
  \/ \E row \in db.pools : delete_pool_by_id(row)
  \/ \E row \in db.pools : dashboard_delete_pool(row)

Spec == Init /\ [][Next]_vars

-----------------------------------------------------------------------------
(* The rows have the columns' types; in particular every spec row has a  *)
(* storage_id (the column is NOT NULL).                                    *)
TypeOK ==
  /\ db.backends \subseteq BackendRow
  /\ db.tiers \subseteq TierRow
  /\ db.specs \subseteq SpecRow
  /\ db.pools \subseteq PoolRow
  /\ failures \in 0..MaxFailures

(* The lookups by name (get_backend_by_name, get_tier_by_name, and the    *)
(* name filters of _find_storage_backend and _find_storage_tier) take the *)
(* first row: they are only meaningful while no two live backends, and no *)
(* two live tiers of any backends, share a name.                           *)
UniqueNames ==
  /\ \A b1, b2 \in db.backends : b1.name = b2.name => b1 = b2
  /\ \A t1, t2 \in db.tiers : t1.name = t2.name => t1 = t2

(* Every live tier belongs to a live backend: deleting a backend deletes  *)
(* all of its tiers, so set_backend_extra_info and the pool code never    *)
(* meet a tier whose storage_backend_id names no backend.                  *)
TiersHaveBackend ==
  \A t \in db.tiers : \E b \in db.backends : b.id = t.backend

(* The specs read back as a dict (storage_*_specs_get build one from the  *)
(* rows): no storage id holds two live rows of one key with different     *)
(* values, whatever sequence of creates, updates and deletes wrote them.   *)
SpecsFunctional ==
  \A s1, s2 \in db.specs : s1.sid = s2.sid /\ s1.key = s2.key => s1.val = s2.val

(* Deleting a backend or a tier deletes its specs: every live spec row    *)
(* belongs to the capability or config specs of a live backend or tier.   *)
NoOrphanSpecs ==
  \A s \in db.specs :
     s.sid \in {b.cap : b \in db.backends} \cup {b.conf : b \in db.backends}
               \cup {t.cap : t \in db.tiers}

(* A pool row's tier is a tier of the row's backend: get_backend_ini_config *)
(* takes the tiers of a pool request from the backend's own tiers, and a   *)
(* tier never moves to another backend, whatever creates, discoveries and  *)
(* deletes of backends, tiers and pools come in between.                   *)
PoolTierOfBackend ==
  \A r \in db.pools, t \in db.tiers : t.id = r.tier => t.backend = r.backend

(* GET /storage_pools answers, and so do the pool deletes: every pool     *)
(* row's backend and tier are live, so the lookups by id of               *)
(* storage_pool_get find them.                                             *)
PoolsListable == pools_index(db) = "200"

(* The catalog the REST reads show is the dict-level catalog of          *)
(* CatalogSpec: every request, whatever uuids, spec rows and first rows it *)
(* goes through, changes what the index listings and the capability and  *)
(* config reads show only as one of the dict-level writes does (or not at *)
(* all), and a failed                                                      *)
(* discovery shows its backend and a prefix of its tiers.                  *)
Abstract == INSTANCE CatalogSpec WITH cat <- RestCatalog(db)
CatalogRefines == Abstract!Spec
=============================================================================

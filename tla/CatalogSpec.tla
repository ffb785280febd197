----------------------------- MODULE CatalogSpec -----------------------------
(***************************************************************************)
(* What the backend/tier catalog promises its readers, at the level of    *)
(* the dicts the REST reads return (GET /storage_backends/detail and      *)
(* GET /storage_tiers/detail): named backends, each with a driver, a      *)
(* capability dict and a config dict, and named tiers, each with the      *)
(* name of its backend and a capability dict.  No uuids, no spec rows.    *)
(*                                                                         *)
(* Writes merge dicts key by key (a key written replaces its value, other *)
(* keys stay); a tier name is one tier whichever backend asks for it;     *)
(* deleting a backend deletes its tiers; a discovery writes its backend    *)
(* and then a prefix of its tiers, each write taking effect as a whole.    *)
(***************************************************************************)
EXTENDS Naturals, Sequences, TLC
LOCAL INSTANCE SequencesExt

CONSTANTS Names, TierNames, Drivers, None, Keys, Vals, Dicts, Discoveries

VARIABLE cat   \* [backends: name -> [driver, cap, conf], tiers: name -> [backend, cap]]

NoSpecs == [k \in {} |-> None]   \* a dict without keys: None in a read

(* f with x bound to v, and f without the arguments in S. *)
Put(f, x, v) == [y \in DOMAIN f \cup {x} |-> IF y = x THEN v ELSE f[y]]
Drop(f, S)   == [y \in DOMAIN f \ S |-> f[y]]

(* A write of a backend: an unknown name is added with its driver and    *)
(* dicts; a known one keeps its driver and merges the dicts.               *)
PutBackend(c, n, drv, cap, conf) ==
  IF n \in DOMAIN c.backends
  THEN [c EXCEPT !.backends[n].cap = cap @@ @, !.backends[n].conf = conf @@ @]
  ELSE [c EXCEPT !.backends = Put(@, n, [driver |-> drv, cap |-> cap, conf |-> conf])]

(* A write of a tier for backend n: an unknown tier name is added under n; *)
(* a known one, under whichever backend, merges the dict.                  *)
PutTier(c, tn, n, cap) ==
  IF tn \in DOMAIN c.tiers
  THEN [c EXCEPT !.tiers[tn].cap = cap @@ @]
  ELSE [c EXCEPT !.tiers = Put(@, tn, [backend |-> n, cap |-> cap])]

(* The other writes, each a function of the catalog c. *)
RemoveBackend(c, n) ==
  [backends |-> Drop(c.backends, {n}),
   tiers |-> Drop(c.tiers, {tn \in DOMAIN c.tiers : c.tiers[tn].backend = n})]

RemoveTier(c, tn) == [c EXCEPT !.tiers = Drop(@, {tn})]

DropBackendCap(c, n, k) == [c EXCEPT !.backends[n].cap = Drop(@, {k})]

DropTierCap(c, tn, k) == [c EXCEPT !.tiers[tn].cap = Drop(@, {k})]

(* A discovery that stored its backend and its first k tiers. *)
Discover(c, info, k) ==
  FoldLeft(LAMBDA c1, t : PutTier(c1, t.name, info.name, t.cap),
           PutBackend(c, info.name, info.driver, info.cap, info.conf),
           SubSeq(info.tiers, 1, k))

(* One write turns catalog c into c2: adding a backend, or a tier of a   *)
(* known backend, under a new name; merging a dict into a known backend's *)
(* or tier's capabilities; removing one; dropping one key; a discovery.    *)
(* The first disjunct is a stuttering step, which [Next]_cat allows       *)
(* anyway; stated first, it spares TLC the search for the others.         *)
Write(c, c2) ==
  \/ c2 = c
  \/ \E n \in Names \ DOMAIN c.backends, drv \in Drivers \cup {None}, cap, conf \in Dicts :
        c2 = PutBackend(c, n, drv, cap, conf)
  \/ \E n \in DOMAIN c.backends, cap \in Dicts : c2 = PutBackend(c, n, None, cap, NoSpecs)
  \/ \E n \in DOMAIN c.backends : c2 = RemoveBackend(c, n)
  \/ \E tn \in TierNames \ DOMAIN c.tiers, n \in DOMAIN c.backends, cap \in Dicts :
        c2 = PutTier(c, tn, n, cap)
  \/ \E tn \in DOMAIN c.tiers, cap \in Dicts : c2 = PutTier(c, tn, None, cap)
  \/ \E tn \in DOMAIN c.tiers : c2 = RemoveTier(c, tn)
  \/ \E n \in DOMAIN c.backends, k \in Keys : c2 = DropBackendCap(c, n, k)
  \/ \E tn \in DOMAIN c.tiers, k \in Keys : c2 = DropTierCap(c, tn, k)
  \/ \E info \in Discoveries : \E k \in 0..Len(info.tiers) : c2 = Discover(c, info, k)

Init == cat = [backends |-> NoSpecs, tiers |-> NoSpecs]

(* c and c2 are bound to the two catalogs once, so that a catalog given by *)
(* a refinement mapping is computed once per step.                          *)
Next == \E c \in {cat}, c2 \in {cat'} : Write(c, c2)

Spec == Init /\ [][Next]_cat
=============================================================================

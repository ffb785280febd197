------------------------------ MODULE MCCatalog ------------------------------
(* Model-checking instance of Catalog: two backend names, two tier names  *)
(* (Ceph pools of the same name are common to clusters), one spec key     *)
(* with two values, and discoveries shaped as the Ceph driver returns     *)
(* them: driver "ceph", non-empty capability and config specs, and every  *)
(* pool as a tier with non-empty capability specs. A discovery has zero or *)
(* one tier: with MaxIds = 5 a second tier (two more uuids) never commits, *)
(* and its failing transaction leaves a state the one-tier discovery and a *)
(* failed discovery reach as well.                                          *)
EXTENDS Catalog, TLC

CONSTANTS A, B,    \* backend names, as model values
          T1, T2   \* tier (pool) names, as model values

MCNames == {A, B}
MCTierNames == {T1, T2}
MCDrivers == {"ceph"}
MCKeys == {"k"}
MCVals == {"v1", "v2"}
MCDicts == {<<>>, "k" :> "v2"}

Caps(v) == "k" :> v
Pool(t) == [name |-> t, cap |-> Caps("v2")]   \* a pool as a tier

MCDiscoveries ==
  {[name |-> n, driver |-> "ceph", cap |-> Caps("v1"), conf |-> Caps("v1"),
    tiers |-> ts] :
     n \in MCNames,
     ts \in {<<>>} \cup {<<Pool(t)>> : t \in MCTierNames}}

(* Backend names are interchangeable, and so are tier names: the          *)
(* discoveries are the same for each, and a lookup by name only ever has   *)
(* one row to choose from.                                                 *)
NameSymmetry == Permutations(MCNames) \cup Permutations(MCTierNames)
=============================================================================

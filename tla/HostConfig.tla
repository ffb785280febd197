------------------------------ MODULE HostConfig ------------------------------
(***************************************************************************)
(* One host's cinder.conf under the rewrites of IniConfigWriter:           *)
(* every step is one call of change_backends with the sections the Ceph    *)
(* driver produces for a request, in mode "update" (create_volume_pool) or *)
(* "delete" (delete_volume_pool), with the fresh section dicts that a      *)
(* single-host update_conf passes in.  The properties relate the file      *)
(* before and after a rewrite, as the parser that cinder uses reads them.  *)
(***************************************************************************)
EXTENDS IniFile, CephDriver

CONSTANTS
  BackendNames,   \* volume_backend_name values requests use
  Tiers,          \* tier (rbd pool) names of the Ceph backend
  InitialFiles,   \* cinder.conf contents the host may start with
  MaxLines        \* bound on the file length: a delete leaves the blank line
                  \* before a removed section, so create/delete cycles grow it

VARIABLES
  conf,   \* the host's cinder.conf, a sequence of lines
  req     \* the last request applied: its mode, sections and resolved names

vars == <<conf, req>>

Modes == {"update", "delete"}

NoRequest == [mode |-> "none", bn |-> "", tiers |-> {}, resolved |-> <<>>]

Init ==
  /\ conf \in InitialFiles
  /\ req = NoRequest

(* The orders in which Python 2 may iterate the dict of f's sections:    *)
(* every ranking of them, since hash order depends on the names and on the *)
(* dict's history, not on the file.                                        *)
DictOrders(f) ==
  LET secs == DOMAIN Parse(f)
  IN  {o \in [secs -> 1..Cardinality(secs)] : IsInjective(o)}

(* change_backends on this host for backend_name bn and tiers ts, with the *)
(* sections iterated in any order.                                         *)
Rewrite(bn, ts, mode) ==
  \E order \in DictOrders(conf) :
  LET d == get_ini_config(bn, ts)
      r == change_backends(conf, d.search, d.cfg, mode, order)
  IN  /\ conf' = r.out
      /\ req' = [mode |-> mode, bn |-> bn, tiers |-> ts, resolved |-> r.resolved]

Next == Len(conf) <= MaxLines /\ \E bn \in BackendNames, ts \in SUBSET Tiers, mode \in Modes :
          Rewrite(bn, ts, mode)

Spec == Init /\ [][Next]_vars

-----------------------------------------------------------------------------
Sections(f) == Parse(f)
Enabled(f)  == EnabledIn(Parse(f))

(* After an update rewrite every section of the request, under the name   *)
(* the matcher resolved it to, is in the file, is listed in               *)
(* enabled_backends, and cinder (which takes the last assignment of a key) *)
(* reads every entry the driver asked for.                                 *)
UpdateApplied ==
  [][req'.mode = "update" =>
       LET d == get_ini_config(req'.bn, req'.tiers).cfg
           p == Sections(conf')
       IN  \A s \in DOMAIN req'.resolved :
             /\ s \in DOMAIN p
             /\ s \in Enabled(conf')
             /\ \A k \in DOMAIN d[req'.resolved[s]] :
                  k \in DOMAIN p[s] /\ Last(p[s][k]) = d[req'.resolved[s]][k]]_vars

(* After a delete rewrite no section of the request is listed in          *)
(* enabled_backends any more, so cinder stops serving it.                  *)
DeleteDisables ==
  [][req'.mode = "delete" => Enabled(conf') \cap DOMAIN req'.resolved = {}]_vars

(* A rewrite leaves every section it was not asked about exactly as the   *)
(* parser read it before, and the DEFAULT section's other keys too.        *)
OtherSectionsPreserved ==
  [][req'.mode # "none" =>
       LET p == Sections(conf)  p2 == Sections(conf')
       IN  /\ \A s \in DOMAIN p \ (DOMAIN req'.resolved \cup {DefaultSection}) :
                s \in DOMAIN p2 /\ p2[s] = p[s]
           /\ DefaultSection \in DOMAIN p =>
                \A k \in DOMAIN p[DefaultSection] \ {BackendKey} :
                   p2[DefaultSection][k] = p[DefaultSection][k]]_vars

(* The names written in enabled_backends: the tokens of its first value. *)
EnabledNames(f) ==
  LET p == Parse(f)
  IN  IF DefaultSection \in DOMAIN p /\ BackendKey \in DOMAIN p[DefaultSection]
      THEN ToSet(p[DefaultSection][BackendKey][1]) ELSE {}

(* Spec section 8, the grouping-key invariant: after a rewrite every name  *)
(* written in enabled_backends is a section of the file (never an empty    *)
(* name between commas), and after a delete the removed sections are       *)
(* absent from the file as well as from enabled_backends.                  *)
GroupingKeyInvariant ==
  [][req'.mode # "none" =>
       /\ EnabledNames(conf') \subseteq DOMAIN Sections(conf')
       /\ req'.mode = "delete" =>
            (DOMAIN Sections(conf') \cup EnabledNames(conf')) \cap DOMAIN req'.resolved = {}]_vars
=============================================================================

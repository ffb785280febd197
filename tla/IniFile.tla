------------------------------- MODULE IniFile -------------------------------
(***************************************************************************)
(* The configuration-file editor of sds/compose/iniwriter.py: the parser   *)
(* it reads a cinder.conf with (oslo cfg.ConfigParser), the section        *)
(* matcher and enabled_backends recomputation of change_backends, and the  *)
(* line-streaming rewrite of IniConfigWriter.parse_and_write.              *)
(*                                                                         *)
(* A file is a sequence of lines.  A value is the sequence of the          *)
(* comma-separated tokens of its text, so that the join and split of       *)
(* enabled_backends are modelled by what they do; the empty text is <<>>.  *)
(* Continuation lines are not modelled (every value fits on one line).     *)
(* A section-update map ("update_sections") is kept as two parts, as in    *)
(* Python where the outer dict holds references to shared inner dicts:     *)
(* ref maps a section name to a dict identity, dicts maps an identity to   *)
(* its entries.  The writer pops keys from the inner dicts, and the caller *)
(* sees those pops.                                                        *)
(***************************************************************************)
EXTENDS Naturals, Sequences, SequencesExt, Functions, TLC

DefaultSection == "DEFAULT"            \* IniConfigWriter.default_section
BackendKey     == "enabled_backends"   \* IniConfigWriter.backend_key_name
DefaultId      == "<default entries>"  \* identity of the dict built for DEFAULT
NoSection      == "<none>"             \* cur_section = None

Line(t, n, k, v) == [t |-> t, name |-> n, key |-> k, val |-> v]
Header(s)    == Line("header", s, "", <<>>)
Assign(k, v) == Line("assign", "", k, v)
Blank        == Line("blank", "", "", <<>>)
Comment      == Line("comment", "", "", <<>>)

(* re.split(r'[,\s]\s*', v.strip()): the empty text splits to {""}. *)
Split(v) == IF v = <<>> THEN {""} ELSE ToSet(v)
(* ','.join(s): the set {""} and the empty set both join to "". *)
Join(s) == IF s \subseteq {""} THEN <<>> ELSE SetToSeq(s)

-----------------------------------------------------------------------------
(* oslo cfg.ConfigParser: section name -> key -> sequence of the values of *)
(* every assignment of that key in the section (duplicate headers merge).  *)
ParseStep(p, l) ==
  CASE l.t = "header" ->
         [section |-> l.name,
          sections |-> p.sections @@ (l.name :> <<>>)]
    [] l.t = "assign" ->
         LET e == p.sections[p.section]
             old == IF l.key \in DOMAIN e THEN e[l.key] ELSE <<>>
         IN  [p EXCEPT !.sections[p.section] = (l.key :> (old \o <<l.val>>)) @@ e]
    [] OTHER -> p

RECURSIVE ParseLines(_, _)
ParseLines(p, lines) ==
  IF lines = <<>> THEN p ELSE ParseLines(ParseStep(p, Head(lines)), Tail(lines))

Parse(lines) == ParseLines([section |-> NoSection, sections |-> <<>>], lines).sections

(* _contains: every search key is present with the same (sorted) values.   *)
contains_entries(cur, search) ==
  \A k \in DOMAIN search : k \in DOMAIN cur /\ cur[k] = <<search[k]>>

(* The search loop of change_backends: the first existing section that     *)
(* contains the search entries takes over the logical section's dict.      *)
(* parser.sections is the plain dict change_backends passes to oslo's      *)
(* ConfigParser, so "first" is Python 2 hash order, not file order: order  *)
(* ranks the file's sections in that iteration order (equal ranks leave    *)
(* the choice to a fixed CHOOSE).                                          *)
FirstInOrder(found, order) == CHOOSE x \in found : \A y \in found : order[x] <= order[y]

Resolve(parsed, search, names, order) ==
  LET MatchStep(ns, s) ==
        LET found == {sec \in DOMAIN parsed : contains_entries(parsed[sec], search[s])}
        IN  IF found = {} THEN ns
            ELSE (FirstInOrder(found, order) :> ns[s]) @@ Restrict(ns, DOMAIN ns \ {s})
  IN  FoldLeft(MatchStep, [n \in names |-> n], SetToSeq(DOMAIN search))

(* The current enabled_backends set: the first value of the key, split.    *)
EnabledIn(parsed) ==
  IF DefaultSection \in DOMAIN parsed /\ BackendKey \in DOMAIN parsed[DefaultSection]
  THEN Split(parsed[DefaultSection][BackendKey][1])
  ELSE {}

-----------------------------------------------------------------------------
(* IniConfigWriter.parse_and_write, one line at a time.                    *)
Entries(e) ==
  LET ks == SetToSeq(DOMAIN e)
  IN  [i \in 1..Len(ks) |-> Assign(ks[i], e[ks[i]])]

Emit(w, ls) == IF w.skip THEN w ELSE [w EXCEPT !.out = @ \o ls]

process_section(w, ref, s) ==
  IF ~w.skip /\ s \in w.open THEN Emit(w, Entries(w.dicts[ref[s]])) ELSE w

process_key_value(w, ref, k, v) ==
  IF w.cur \in w.open /\ k \in DOMAIN w.dicts[ref[w.cur]]
  THEN LET id == ref[w.cur]
       IN  Emit([w EXCEPT !.dicts[id] = Restrict(@, DOMAIN @ \ {k})],
                <<Assign(k, w.dicts[id][k])>>)
  ELSE Emit(w, <<Assign(k, v)>>)

(* Variant that never resets skip_write at a header (the reset of line    *)
(* 101 left out): every section after a deleted one is dropped too.        *)
WriterStepNoSkipReset(w, l, ref, mode) ==
  CASE l.t = "blank"   -> [w EXCEPT !.out = @ \o <<Blank>>]
    [] l.t = "comment" -> Emit(w, <<l>>)
    [] l.t = "assign"  -> process_key_value(w, ref, l.key, l.val)
    [] l.t = "header"  ->
         LET w1   == process_section(w, ref, w.cur)
             open == w1.open \ {w.cur}
             skip == w.skip \/ (mode = "delete" /\ l.name \in open /\ l.name # DefaultSection)
         IN  [w1 EXCEPT !.open = open, !.cur = l.name, !.skip = skip,
                        !.out = IF skip THEN @ ELSE @ \o <<l>>]

WriterStep(w, l, ref, mode) ==
  CASE l.t = "blank"   -> [w EXCEPT !.out = @ \o <<Blank>>]
    [] l.t = "comment" -> Emit(w, <<l>>)
    [] l.t = "assign"  -> process_key_value(w, ref, l.key, l.val)
    [] l.t = "header"  ->
         LET w1   == process_section(w, ref, w.cur)
             open == w1.open \ {w.cur}
             skip == mode = "delete" /\ l.name \in open /\ l.name # DefaultSection
         IN  [w1 EXCEPT !.open = open, !.cur = l.name, !.skip = skip,
                        !.out = IF skip THEN @ ELSE @ \o <<l>>]

(* At end of file, outside delete mode, the sections still open that have *)
(* entries left are appended, each after a blank line and its header.      *)
(* Variant that appends a new section's entries without its header line. *)
AppendRemainingNoHeader(w, ref, mode) ==
  LET rest == SetToSeq({s \in w.open : DOMAIN w.dicts[ref[s]] # {}})
      Block(s) == <<Blank>> \o Entries(w.dicts[ref[s]])
  IN  IF mode = "delete" THEN w
      ELSE [w EXCEPT !.out = @ \o FoldLeft(LAMBDA o, s : o \o Block(s), <<>>, rest)]

AppendRemaining(w, ref, mode) ==
  LET rest == SetToSeq({s \in w.open : DOMAIN w.dicts[ref[s]] # {}})
      Block(s) == <<Blank, Header(s)>> \o Entries(w.dicts[ref[s]])
  IN  IF mode = "delete" THEN w
      ELSE [w EXCEPT !.out = @ \o FoldLeft(LAMBDA o, s : o \o Block(s), <<>>, rest)]

(* The loop over the file's lines.  The test of w2.skip forces each step  *)
(* to be evaluated before the next, so that TLC does not build a chain of  *)
(* unevaluated steps as deep as the file; it always holds.                 *)
RECURSIVE WriteLines(_, _, _, _)
WriteLines(w, lines, ref, mode) ==
  IF lines = <<>> THEN w
  ELSE LET w2 == WriterStep(w, Head(lines), ref, mode)
       IN  IF w2.skip \in BOOLEAN THEN WriteLines(w2, Tail(lines), ref, mode) ELSE w2

parse_and_write(lines, ref, dicts, mode) ==
  LET w0 == [out |-> <<>>, cur |-> NoSection, skip |-> FALSE,
             open |-> DOMAIN ref, dicts |-> dicts]
  IN  AppendRemaining(WriteLines(w0, lines, ref, mode), ref, mode)

(* IniConfigWriter.change_backends(read_file, write_file, search_sections, *)
(* upd_sections, mode).  upd is the caller's dict: logical name -> entries.*)
(* Returns the rewritten file, the resolved names (resolved section name   *)
(* -> logical name, the returned new_sections) and the caller's dicts as   *)
(* the writer leaves them.  order is the sections' dict iteration order.   *)
(* Variant that recomputes enabled_backends from the logical names the    *)
(* caller passed instead of the section names the matcher resolved.        *)
change_backends_logical_names(lines, search, upd, mode, order) ==
  LET parsed  == Parse(lines)
      ns      == Resolve(parsed, search, DOMAIN upd, order)
      enabled == IF mode = "update" THEN EnabledIn(parsed) \cup DOMAIN upd
                 ELSE EnabledIn(parsed) \ DOMAIN upd
      ref     == ns @@ (DefaultSection :> DefaultId)
      dicts   == upd @@ (DefaultId :> (BackendKey :> Join(enabled)))
      w       == parse_and_write(lines, ref, dicts, mode)
  IN  [out |-> w.out, resolved |-> ns, upd |-> Restrict(w.dicts, DOMAIN upd)]

change_backends(lines, search, upd, mode, order) ==
  LET parsed  == Parse(lines)
      ns      == Resolve(parsed, search, DOMAIN upd, order)
      enabled == IF mode = "update" THEN EnabledIn(parsed) \cup DOMAIN ns
                 ELSE EnabledIn(parsed) \ DOMAIN ns
      ref     == ns @@ (DefaultSection :> DefaultId)
      dicts   == upd @@ (DefaultId :> (BackendKey :> Join(enabled)))
      w       == parse_and_write(lines, ref, dicts, mode)
  IN  [out |-> w.out, resolved |-> ns, upd |-> Restrict(w.dicts, DOMAIN upd)]
=============================================================================

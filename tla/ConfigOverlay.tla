---------------------------- MODULE ConfigOverlay ----------------------------
(***************************************************************************)
(* prepare_variant_config and _set_nested_key of generic_benchmark.py     *)
(* (lines 61-105): the configuration a variant runs with.                  *)
(*                                                                         *)
(* A YAML document is either NullDoc (what yaml.safe_load returns for an   *)
(* empty file) or a tree, written as a function from the paths of its     *)
(* nodes (non-empty sequences of keys) to a scalar or MapNode; a tree     *)
(* holds every strict prefix of its paths, as MapNode.  The inputs, a     *)
(* variant's config source and config_overrides, are chosen in Init.      *)
(***************************************************************************)
EXTENDS Naturals, Sequences

CONSTANTS
    Keys,          \* mapping keys
    Values,        \* scalar values
    MapNode,       \* the node of a nested mapping
    NullDoc,       \* yaml.safe_load of an empty file
    Bases,         \* the documents a config source may hold
    OverrideSeqs   \* the config_overrides dicts, as sequences of
                   \* [path, value] in the dict's order

\* variant.get('config'): a path to an existing or a missing file, an
\* inline mapping, or absent.
Sources == {"file", "missingFile", "inline", "absent"}

VARIABLES
    source,        \* the kind of variant['config']
    hasOverrides,  \* 'config_overrides' in variant
    base,          \* the file's or the inline mapping's content
    overrides,     \* variant['config_overrides'].items()
    pc,            \* "prepare", "apply", "done" or "error"
    cfg,           \* the in-memory config the overrides are applied to
    k,             \* the next override
    out,           \* what the function returns: "none", "original", "temp"
    file           \* the content of the temp YAML file, once written

\* A config document is NullDoc or a function on paths (sequences of
\* keys); config_overrides holds dotted paths split into keys, with values.
ASSUME InputsAssumption ==
    /\ \A b \in Bases \ {NullDoc} :
          /\ DOMAIN b \subseteq Seq(Keys)
          /\ b = [q \in DOMAIN b |-> b[q]]
    /\ OverrideSeqs \subseteq Seq([path : Seq(Keys), value : Values])

vars == <<source, hasOverrides, base, overrides, pc, cfg, k, out, file>>

\* The strict prefixes of a path.
StrictPrefixes(path) == {SubSeq(path, 1, n) : n \in 1 .. Len(path) - 1}

\* q lies in the subtree below path.
Below(q, path) == path \in StrictPrefixes(q)

\* The loop `for key in keys[:-1]: d = d.setdefault(key, {})` only gets
\* through when every prefix on the way is absent or a mapping;
\* setdefault on None or on a scalar raises.
CanDescend(doc, path) ==
    /\ doc # NullDoc
    /\ \A p \in StrictPrefixes(path) : p \notin DOMAIN doc \/ doc[p] = MapNode

\* _set_nested_key(doc, path, value) once CanDescend holds: the missing
\* prefixes become empty mappings, and d[keys[-1]] = value replaces the
\* node at path with its whole subtree.
SetNestedKey(doc, path, value) ==
    LET D == {q \in DOMAIN doc : ~Below(q, path)} \cup StrictPrefixes(path)
                                                 \cup {path}
    IN  [q \in D |-> IF q = path THEN value
                     ELSE IF q \in DOMAIN doc THEN doc[q] ELSE MapNode]

EmptyTree == [q \in {} |-> MapNode]

Init ==
    /\ source \in Sources
    /\ hasOverrides \in BOOLEAN
    /\ base \in IF source = "inline" THEN Bases \ {NullDoc} ELSE Bases
    /\ overrides \in IF hasOverrides THEN OverrideSeqs ELSE {<< >>}
    /\ pc = "prepare"
    /\ cfg = NullDoc
    /\ k = 1
    /\ out = "none"
    /\ file = NullDoc

\* The branches of prepare_variant_config on variant.get('config').
PrepareVariantConfig ==
    /\ pc = "prepare"
    /\ \/ /\ source \in {"missingFile", "absent"}
          /\ pc' = "done"
          /\ UNCHANGED <<cfg, k, out, file>>
       \/ /\ source = "file" /\ ~hasOverrides
          /\ out' = "original"
          /\ pc' = "done"
          /\ UNCHANGED <<cfg, k, file>>
       \/ /\ source = "file" /\ hasOverrides
          /\ cfg' = base
          /\ pc' = "apply"
          /\ UNCHANGED <<k, out, file>>
       \/ /\ source = "inline"
          /\ file' = base
          /\ out' = "temp"
          /\ pc' = "done"
          /\ UNCHANGED <<cfg, k>>
    /\ UNCHANGED <<source, hasOverrides, base, overrides>>

\* Mutant: the last key's old subtree is kept (a merge instead of
\* d[keys[-1]] = value).
ApplyOverrideMerge ==
    /\ pc = "apply"
    /\ k <= Len(overrides)
    /\ LET o == overrides[k] IN
       IF CanDescend(cfg, o.path)
       THEN /\ cfg' = [q \in DOMAIN SetNestedKey(cfg, o.path, o.value) \cup
                               {q \in DOMAIN cfg : Below(q, o.path)} |->
                          IF q \in DOMAIN SetNestedKey(cfg, o.path, o.value)
                          THEN SetNestedKey(cfg, o.path, o.value)[q] ELSE cfg[q]]
            /\ k' = k + 1
            /\ UNCHANGED pc
       ELSE /\ pc' = "error"
            /\ UNCHANGED <<cfg, k>>
    /\ UNCHANGED <<source, hasOverrides, base, overrides, out, file>>

\* One iteration of the loop of lines 78-79: _set_nested_key, or the
\* AttributeError or TypeError it raises, which leaves the function.
ApplyOverride ==
    /\ pc = "apply"
    /\ k <= Len(overrides)
    /\ LET o == overrides[k] IN
       IF CanDescend(cfg, o.path)
       THEN /\ cfg' = SetNestedKey(cfg, o.path, o.value)
            /\ k' = k + 1
            /\ UNCHANGED pc
       ELSE /\ pc' = "error"
            /\ UNCHANGED <<cfg, k>>
    /\ UNCHANGED <<source, hasOverrides, base, overrides, out, file>>

\* Lines 81-86: the modified config is dumped to the temp file.
WriteTempConfig ==
    /\ pc = "apply"
    /\ k > Len(overrides)
    /\ file' = cfg
    /\ out' = "temp"
    /\ pc' = "done"
    /\ UNCHANGED <<source, hasOverrides, base, overrides, cfg, k>>

Finished ==
    /\ pc \in {"done", "error"}
    /\ UNCHANGED vars

Next == PrepareVariantConfig \/ ApplyOverride \/ WriteTempConfig \/ Finished

Spec == Init /\ [][Next]_vars

-----------------------------------------------------------------------------
(* The overlay the spec describes (sections 3 and 8), stated per node.     *)

\* The overrides, in order, whose path is q, lies above q or below q.
Touching(ovs, q) ==
    {j \in DOMAIN ovs : \/ ovs[j].path = q
                        \/ Below(q, ovs[j].path)
                        \/ Below(ovs[j].path, q)}

\* The last override touching q.
LastTouching(ovs, q) ==
    CHOOSE j \in Touching(ovs, q) : \A i \in Touching(ovs, q) : i <= j

\* The node q of the overlay of ovs on doc: the last override touching q
\* decides it (its value, a mapping above it, nothing below it);
\* untouched nodes keep doc's value.
OverlayNode(doc, ovs, q) ==
    IF Touching(ovs, q) = {} THEN doc[q]
    ELSE IF ovs[LastTouching(ovs, q)].path = q THEN ovs[LastTouching(ovs, q)].value
    ELSE MapNode

\* The nodes of the overlay.
OverlayDomain(doc, ovs) ==
    LET docNodes == IF doc = NullDoc THEN {} ELSE DOMAIN doc
        ovNodes == UNION {StrictPrefixes(ovs[j].path) \cup {ovs[j].path} :
                          j \in DOMAIN ovs}
    IN  {q \in docNodes \cup ovNodes :
            Touching(ovs, q) = {} \/ ~Below(q, ovs[LastTouching(ovs, q)].path)}

Overlay(doc, ovs) ==
    IF doc = NullDoc /\ ovs = << >> THEN NullDoc
    ELSE [q \in OverlayDomain(doc, ovs) |-> OverlayNode(doc, ovs, q)]

\* The loop of lines 78-79 keeps the in-memory config equal to the overlay
\* of the overrides applied so far on the file's content.
OverlayInv ==
    /\ base \in Bases
    /\ overrides \in Seq([path : Seq(Keys), value : Values])
    /\ k \in 1 .. Len(overrides) + 1
    /\ pc = "prepare" => k = 1
    /\ pc = "apply" =>
          /\ source = "file"
          /\ cfg = Overlay(base, SubSeq(overrides, 1, k - 1))
    /\ pc = "done" /\ source = "file" /\ out = "temp" =>
          file = Overlay(base, overrides)

-----------------------------------------------------------------------------
(* Properties.                                                             *)

\* Applying config_overrides one by one with setdefault and assignment, in
\* the dict's order, yields the overlay: every override's last writer wins
\* per node, missing mappings are created, a replaced node loses its old
\* subtree and every other node of the file is kept.
FileOverlayCorrect ==
    pc = "done" /\ source = "file" /\ out = "temp" =>
        file = Overlay(base, overrides)

\* The spec (section 8): overrides applied to an empty base configuration
\* give the nested mappings of their paths, for any config source.
EmptyBaseOverlay ==
    /\ pc \in {"done", "error"}
    /\ source \in {"file", "inline"}
    /\ base \in {NullDoc, EmptyTree}
    /\ overrides # << >>
    => pc = "done" /\ out = "temp" /\ file = Overlay(EmptyTree, overrides)
=============================================================================

------------------------- MODULE MC_ConfigOverlay -------------------------
(* Model values for ConfigOverlay.                                         *)
EXTENDS ConfigOverlay

MC_Keys == {"a", "b"}

\* 1 is a value of the base document, 2 the value of every override.
MC_Values == {1, 2}

\* Paths of one to n keys.
PathsUpTo(n) == UNION {[1 .. m -> MC_Keys] : m \in 1 .. n}

\* A tree: every strict prefix of a node is a mapping of the tree.
IsTree(t) ==
    \A q \in DOMAIN t : \A p \in StrictPrefixes(q) : p \in DOMAIN t /\ t[p] = MapNode

\* Every document of depth at most two whose scalars are 1, and the empty
\* file.
MC_Bases ==
    {NullDoc} \cup
    {t \in UNION {[D -> {1, MapNode}] : D \in SUBSET PathsUpTo(2)} : IsTree(t)}

\* config_overrides of up to two distinct dotted paths of up to three keys,
\* one deeper than any base document.
MC_OverrideSeqs ==
    LET O == [path : PathsUpTo(3), value : {2}]
    IN  {<< >>} \cup {<<o>> : o \in O}
        \cup {s \in {<<o1, o2>> : o1, o2 \in O} : s[1].path # s[2].path}
=============================================================================

------------------------- MODULE ConfigOverlayProofs -------------------------
(***************************************************************************)
(* Proofs about ConfigOverlay for every set of keys, values, base          *)
(* documents and config_overrides: one iteration of the override loop     *)
(* (_set_nested_key) extends the overlay by one override, so the loop      *)
(* invariant OverlayInv holds and FileOverlayCorrect follows from it.      *)
(***************************************************************************)
EXTENDS ConfigOverlay, SequenceTheorems, WellFoundedInduction, TLAPS

\* An override: a dotted path split into keys, and its value.
OvRec == [path : Seq(Keys), value : Values]

\* A strict prefix of a path is a shorter path.
LEMMA PrefixShorter ==
  ASSUME NEW p \in Seq(Keys), NEW q \in StrictPrefixes(p)
  PROVE  q \in Seq(Keys) /\ Len(q) < Len(p)
<1>1. PICK n \in 1 .. Len(p) - 1 : q = SubSeq(p, 1, n)
  BY DEF StrictPrefixes
<1>2. SubSeq(p, 1, n) \in Seq(Keys) /\ Len(SubSeq(p, 1, n)) = n
  BY <1>1, SubSeqProperties
<1>3. QED
  BY <1>1, <1>2

\* A path is not below itself nor below any of its strict prefixes, and a
\* node below a path is neither the path nor one of its prefixes.
LEMMA BelowOrder ==
  ASSUME NEW p \in Seq(Keys), NEW q \in Seq(Keys)
  PROVE  /\ q \in StrictPrefixes(p) \cup {p} => ~Below(q, p)
         /\ Below(q, p) => q \notin StrictPrefixes(p) \cup {p}
         /\ q \in StrictPrefixes(p) => q # p
<1>1. Below(q, p) => Len(p) < Len(q)
  BY PrefixShorter DEF Below
<1>2. q \in StrictPrefixes(p) => Len(q) < Len(p)
  BY PrefixShorter
<1>3. QED
  BY <1>1, <1>2

\* The strict prefixes of a path are paths.
LEMMA PrefixesArePaths ==
  ASSUME NEW p \in Seq(Keys)
  PROVE  StrictPrefixes(p) \cup {p} \subseteq Seq(Keys)
BY PrefixShorter

\* The first j overrides are the first j - 1 followed by the j-th.
LEMMA SubSeqAppend ==
  ASSUME NEW S, NEW s \in Seq(S), NEW j \in 1 .. Len(s)
  PROVE  /\ SubSeq(s, 1, j) = Append(SubSeq(s, 1, j - 1), s[j])
         /\ SubSeq(s, 1, j - 1) \in Seq(S)
         /\ Len(SubSeq(s, 1, j - 1)) = j - 1
<1>1. SubSeq(s, 1, j - 1) \in Seq(S) /\ Len(SubSeq(s, 1, j - 1)) = j - 1
  BY SubSeqProperties
<1>2. SubSeq(s, 1, j) = SubSeq(s, 1, j - 1) \o << s[j] >>
  <2>1. 1 \in 1 .. Len(s) /\ j \in 1 .. Len(s)
    OBVIOUS
  <2>2. QED
    BY <2>1, SubSeqRecursiveSecond, Zenon
<1>3. s[j] \in S
  OBVIOUS
<1>4. Append(SubSeq(s, 1, j - 1), s[j]) = SubSeq(s, 1, j - 1) \o << s[j] >>
  BY <1>1, <1>3, AppendIsConcat
<1>5. QED
  BY <1>1, <1>2, <1>4
\* A non-empty set of override indices has a greatest element: the least
\* element, under the well-founded < on Nat, of the distances to n.
LEMMA MaxExists ==
  ASSUME NEW n \in Nat, NEW T \in SUBSET (1 .. n), T # {}
  PROVE  \E j \in T : \A i \in T : i <= j
<1> DEFINE U == {n - i : i \in T}
<1>1. U \subseteq Nat /\ U # {}
  <2>1. \A i \in T : n - i \in Nat
    OBVIOUS
  <2>2. PICK t \in T : TRUE
    OBVIOUS
  <2>3. QED
    BY <2>1, <2>2 DEF U
<1>2. PICK m \in U : \A y \in U : ~(<<y, m>> \in OpToRel(<, Nat))
  BY <1>1, NatLessThanWellFounded, WFMin
<1>3. \A y \in U : ~(y < m)
  BY <1>1, <1>2 DEF OpToRel
<1>4. PICK j \in T : m = n - j
  BY DEF U
<1>5. \A i \in T : i <= j
  BY <1>3, <1>4 DEF U
<1>6. QED
  BY <1>5

\* The last override touching a node is one of those touching it, and
\* every other one comes before it.
LEMMA LastTouchingMax ==
  ASSUME NEW ovs \in Seq(OvRec), NEW q, Touching(ovs, q) # {}
  PROVE  /\ LastTouching(ovs, q) \in Touching(ovs, q)
         /\ \A i \in Touching(ovs, q) : i <= LastTouching(ovs, q)
<1>1. Touching(ovs, q) \subseteq 1 .. Len(ovs)
  BY DEF Touching
<1>2. \E j \in Touching(ovs, q) : \A i \in Touching(ovs, q) : i <= j
  <2>1. Len(ovs) \in Nat
    OBVIOUS
  <2>2. QED
    BY <1>1, <2>1, MaxExists
<1>3. QED
  BY <1>2 DEF LastTouching
\* q is the path p, lies below it or is one of its prefixes.
TouchesPath(p, q) == q = p \/ Below(q, p) \/ Below(p, q)

\* A node is in the overlay when the document or an override holds it and
\* the last override touching it does not lie above it.
LEMMA OverlayDomainIff ==
  ASSUME NEW doc, NEW ovs, NEW q
  PROVE  q \in OverlayDomain(doc, ovs) <=>
           /\ \/ doc # NullDoc /\ q \in DOMAIN doc
              \/ \E j \in DOMAIN ovs : q \in StrictPrefixes(ovs[j].path) \cup {ovs[j].path}
           /\ Touching(ovs, q) = {} \/ ~Below(q, ovs[LastTouching(ovs, q)].path)
BY DEF OverlayDomain

\* The nodes of an overlay are paths.
LEMMA OverlayDomainPaths ==
  ASSUME NEW doc, NEW ovs \in Seq(OvRec),
         doc # NullDoc => DOMAIN doc \subseteq Seq(Keys)
  PROVE  OverlayDomain(doc, ovs) \subseteq Seq(Keys)
<1> SUFFICES ASSUME NEW q \in OverlayDomain(doc, ovs) PROVE q \in Seq(Keys)
  OBVIOUS
<1>1. CASE doc # NullDoc /\ q \in DOMAIN doc
  BY <1>1
<1>2. ASSUME NEW j \in DOMAIN ovs,
             q \in StrictPrefixes(ovs[j].path) \cup {ovs[j].path}
      PROVE  q \in Seq(Keys)
  <2>0. ovs[j] \in OvRec
    OBVIOUS
  <2>1. ovs[j].path \in Seq(Keys)
    BY <2>0 DEF OvRec
  <2>2. QED
    BY <1>2, <2>1, PrefixesArePaths
<1>3. QED
  BY <1>1, <1>2, OverlayDomainIff

\* Appending an override o adds its index to the overrides touching the
\* nodes o touches, and leaves the other nodes' overrides alone.
LEMMA TouchingAppend ==
  ASSUME NEW ovs \in Seq(OvRec), NEW o \in OvRec, NEW q
  PROVE  /\ TouchesPath(o.path, q) =>
              /\ Touching(Append(ovs, o), q) # {}
              /\ LastTouching(Append(ovs, o), q) = Len(ovs) + 1
         /\ ~TouchesPath(o.path, q) =>
              /\ Touching(Append(ovs, o), q) = Touching(ovs, q)
              /\ LastTouching(Append(ovs, o), q) = LastTouching(ovs, q)
              /\ Touching(ovs, q) # {} =>
                   Append(ovs, o)[LastTouching(ovs, q)] = ovs[LastTouching(ovs, q)]
<1> DEFINE ovs1 == Append(ovs, o)
<1>1. /\ ovs1 \in Seq(OvRec)
      /\ DOMAIN ovs1 = 1 .. Len(ovs) + 1
      /\ ovs1[Len(ovs) + 1] = o
      /\ \A i \in 1 .. Len(ovs) : ovs1[i] = ovs[i]
  BY AppendProperties DEF ovs1
<1>2. ASSUME TouchesPath(o.path, q)
      PROVE  Touching(ovs1, q) # {} /\ LastTouching(ovs1, q) = Len(ovs) + 1
  <2>1. Len(ovs) + 1 \in Touching(ovs1, q)
    BY <1>1, <1>2 DEF Touching, TouchesPath
  <2>2. Touching(ovs1, q) \subseteq 1 .. Len(ovs) + 1
    BY <1>1 DEF Touching
  <2>3. LastTouching(ovs1, q) \in Touching(ovs1, q) /\ Len(ovs) + 1 <= LastTouching(ovs1, q)
    BY <1>1, <2>1, LastTouchingMax
  <2>4. QED
    BY <2>1, <2>2, <2>3
<1>3. ASSUME ~TouchesPath(o.path, q)
      PROVE  Touching(ovs1, q) = Touching(ovs, q)
  BY <1>1, <1>3 DEF Touching, TouchesPath
<1>4. ASSUME Touching(ovs, q) # {}
      PROVE  ovs1[LastTouching(ovs, q)] = ovs[LastTouching(ovs, q)]
  <2>1. LastTouching(ovs, q) \in 1 .. Len(ovs)
    BY <1>4, LastTouchingMax DEF Touching
  <2>2. QED
    BY <1>1, <2>1
<1>5. QED
  BY <1>2, <1>3, <1>4 DEF LastTouching
\* One iteration of the override loop: when _set_nested_key gets through,
\* writing override o on the overlay of ovs gives the overlay of ovs
\* followed by o.
LEMMA OverlayStep ==
  ASSUME NEW doc, NEW ovs \in Seq(OvRec), NEW o \in OvRec,
         doc # NullDoc => DOMAIN doc \subseteq Seq(Keys),
         CanDescend(Overlay(doc, ovs), o.path)
  PROVE  Overlay(doc, Append(ovs, o)) = SetNestedKey(Overlay(doc, ovs), o.path, o.value)
<1> DEFINE ovs1 == Append(ovs, o)
           p == o.path
           D0 == Overlay(doc, ovs)
           S == SetNestedKey(D0, p, o.value)
           DomS == {q \in DOMAIN D0 : ~Below(q, p)} \cup StrictPrefixes(p) \cup {p}
<1>1. /\ ovs1 \in Seq(OvRec)
      /\ ovs1 # << >>
      /\ DOMAIN ovs1 = 1 .. Len(ovs) + 1
      /\ ovs1[Len(ovs) + 1] = o
      /\ \A i \in 1 .. Len(ovs) : ovs1[i] = ovs[i]
  BY AppendProperties DEF ovs1
<1>2. D0 = [q \in OverlayDomain(doc, ovs) |-> OverlayNode(doc, ovs, q)]
  <2>1. D0 # NullDoc
    BY DEF CanDescend, D0
  <2>2. QED
    BY <2>1 DEF Overlay, D0
<1>3. Overlay(doc, ovs1) = [q \in OverlayDomain(doc, ovs1) |-> OverlayNode(doc, ovs1, q)]
  BY <1>1 DEF Overlay
<1>4. S = [q \in DomS |-> IF q = p THEN o.value
                         ELSE IF q \in DOMAIN D0 THEN D0[q] ELSE MapNode]
  BY DEF SetNestedKey, S, DomS
<1>5. p \in Seq(Keys) /\ OverlayDomain(doc, ovs1) \cup DomS \subseteq Seq(Keys)
  <2>1. p \in Seq(Keys)
    BY DEF OvRec
  <2>2. OverlayDomain(doc, ovs) \cup OverlayDomain(doc, ovs1) \subseteq Seq(Keys)
    BY <1>1, OverlayDomainPaths
  <2>3. QED
    BY <1>2, <2>1, <2>2, PrefixesArePaths DEF DomS
<1>6. ASSUME NEW q \in Seq(Keys), TouchesPath(p, q)
      PROVE  /\ q \in OverlayDomain(doc, ovs1) <=> q \in DomS
             /\ q \in DomS => OverlayNode(doc, ovs1, q) = S[q]
  <2>1. Touching(ovs1, q) # {} /\ ovs1[LastTouching(ovs1, q)] = o
    BY <1>1, <1>6, TouchingAppend
  <2>2. CASE q = p
    <3>1. q \in OverlayDomain(doc, ovs1)
      <4>1. \E j \in DOMAIN ovs1 : q \in StrictPrefixes(ovs1[j].path) \cup {ovs1[j].path}
        BY <1>1, <2>2
      <4>2. ~Below(q, ovs1[LastTouching(ovs1, q)].path)
        BY <1>5, <2>1, <2>2, BelowOrder
      <4>3. QED
        BY <4>1, <4>2, OverlayDomainIff
    <3>2. OverlayNode(doc, ovs1, q) = o.value
      BY <2>1, <2>2 DEF OverlayNode
    <3>3. QED
      BY <1>4, <2>2, <3>1, <3>2 DEF DomS
  <2>3. CASE q \in StrictPrefixes(p)
    <3>1. q # p /\ ~Below(q, p)
      BY <1>5, <2>3, BelowOrder
    <3>2. q \in OverlayDomain(doc, ovs1)
      <4>1. \E j \in DOMAIN ovs1 : q \in StrictPrefixes(ovs1[j].path) \cup {ovs1[j].path}
        BY <1>1, <2>3
      <4>2. QED
        BY <2>1, <3>1, <4>1, OverlayDomainIff
    <3>3. OverlayNode(doc, ovs1, q) = MapNode
      BY <2>1, <3>1 DEF OverlayNode
    <3>4. q \in DOMAIN D0 => D0[q] = MapNode
      BY <2>3 DEF CanDescend, D0
    <3>5. QED
      BY <1>4, <2>3, <3>1, <3>2, <3>3, <3>4 DEF DomS
  <2>4. CASE Below(q, p)
    <3>1. q \notin StrictPrefixes(p) \cup {p}
      BY <1>5, <2>4, BelowOrder
    <3>2. q \notin OverlayDomain(doc, ovs1)
      BY <2>1, <2>4, OverlayDomainIff
    <3>3. QED
      BY <2>4, <3>1, <3>2 DEF DomS
  <2>5. QED
    BY <1>6, <2>2, <2>3, <2>4 DEF TouchesPath, Below
<1>7. ASSUME NEW q \in Seq(Keys), ~TouchesPath(p, q)
      PROVE  /\ q \in OverlayDomain(doc, ovs1) <=> q \in DomS
             /\ q \in DomS => OverlayNode(doc, ovs1, q) = S[q]
  <2>1. /\ Touching(ovs1, q) = Touching(ovs, q)
        /\ LastTouching(ovs1, q) = LastTouching(ovs, q)
        /\ Touching(ovs, q) # {} =>
             ovs1[LastTouching(ovs, q)] = ovs[LastTouching(ovs, q)]
    BY <1>7, TouchingAppend
  <2>2. q # p /\ ~Below(q, p) /\ q \notin StrictPrefixes(p)
    BY <1>7 DEF TouchesPath, Below
  <2>3. q \in OverlayDomain(doc, ovs1) <=> q \in OverlayDomain(doc, ovs)
    <3>1. (\E j \in DOMAIN ovs1 : q \in StrictPrefixes(ovs1[j].path) \cup {ovs1[j].path})
          <=> (\E j \in DOMAIN ovs : q \in StrictPrefixes(ovs[j].path) \cup {ovs[j].path})
      BY <1>1, <2>2
    <3>2. (Touching(ovs1, q) = {} \/ ~Below(q, ovs1[LastTouching(ovs1, q)].path))
          <=> (Touching(ovs, q) = {} \/ ~Below(q, ovs[LastTouching(ovs, q)].path))
      BY <2>1
    <3>3. QED
      BY <3>1, <3>2, OverlayDomainIff
  <2>4. OverlayNode(doc, ovs1, q) = OverlayNode(doc, ovs, q)
    BY <2>1 DEF OverlayNode
  <2>5. QED
    BY <1>2, <1>4, <2>2, <2>3, <2>4 DEF DomS
<1>8. OverlayDomain(doc, ovs1) = DomS
  BY <1>5, <1>6, <1>7
<1>9. \A q \in DomS : OverlayNode(doc, ovs1, q) = S[q]
  BY <1>5, <1>6, <1>7
<1>10. QED
  BY <1>3, <1>4, <1>8, <1>9 DEF ovs1, p, D0, S
\* With no overrides, the overlay of a config document is the document.
LEMMA OverlayEmpty ==
  ASSUME NEW b \in Bases
  PROVE  Overlay(b, << >>) = b
<1>1. CASE b = NullDoc
  BY <1>1 DEF Overlay
<1>2. CASE b # NullDoc
  <2>1. \A q : Touching(<< >>, q) = {}
    BY DEF Touching
  <2>2. OverlayDomain(b, << >>) = DOMAIN b
    <3>1. UNION {StrictPrefixes(<< >>[j].path) \cup {<< >>[j].path} :
                 j \in DOMAIN << >>} = {}
      OBVIOUS
    <3>2. QED
      BY <1>2, <2>1, <3>1 DEF OverlayDomain
  <2>3. \A q : OverlayNode(b, << >>, q) = b[q]
    BY <2>1 DEF OverlayNode
  <2>4. b = [q \in DOMAIN b |-> b[q]]
    BY <1>2, InputsAssumption
  <2>5. QED
    BY <1>2, <2>2, <2>3, <2>4 DEF Overlay
<1>3. QED
  BY <1>1, <1>2

\* The loop invariant holds when prepare_variant_config is called.
LEMMA InitOverlayInv == Init => OverlayInv
<1> SUFFICES ASSUME Init PROVE OverlayInv
  OBVIOUS
<1>1. base \in Bases
  BY DEF Init
<1>2. overrides \in Seq(OvRec)
  <2>1. CASE hasOverrides
    BY <2>1, InputsAssumption DEF Init, OvRec
  <2>2. CASE ~hasOverrides
    BY <2>2, EmptySeq DEF Init
  <2>3. QED
    BY <2>1, <2>2
<1>3. k \in 1 .. Len(overrides) + 1
  BY <1>2 DEF Init
<1>4. QED
  BY <1>1, <1>2, <1>3 DEF Init, OverlayInv, OvRec

\* Every step of prepare_variant_config keeps the loop invariant.
LEMMA NextOverlayInv == OverlayInv /\ [Next]_vars => OverlayInv'
<1> SUFFICES ASSUME OverlayInv, [Next]_vars PROVE OverlayInv'
  OBVIOUS
<1>0. /\ base \in Bases
      /\ overrides \in Seq(OvRec)
      /\ base # NullDoc => DOMAIN base \subseteq Seq(Keys)
  BY InputsAssumption DEF OverlayInv, OvRec
<1>1. CASE PrepareVariantConfig
  <2>1. CASE source = "file" /\ hasOverrides /\ cfg' = base /\ pc' = "apply"
             /\ UNCHANGED <<k, out, file>>
    <3>1. k = 1
      BY <1>1 DEF PrepareVariantConfig, OverlayInv
    <3>2. SubSeq(overrides, 1, 0) = << >>
      BY <1>0, SubSeqEmpty
    <3>3. Overlay(base, << >>) = base
      BY <1>0, OverlayEmpty
    <3>4. base' = base /\ overrides' = overrides /\ k' = 1
      BY <1>1, <2>1, <3>1 DEF PrepareVariantConfig
    <3>5. SubSeq(overrides', 1, k' - 1) = << >>
      BY <3>2, <3>4
    <3>6. cfg' = Overlay(base', SubSeq(overrides', 1, k' - 1))
      BY <2>1, <3>3, <3>4, <3>5, Zenon
    <3>7. QED
      BY <1>1, <2>1, <3>6 DEF PrepareVariantConfig, OverlayInv
  <2>2. CASE ~(source = "file" /\ hasOverrides /\ cfg' = base /\ pc' = "apply"
             /\ UNCHANGED <<k, out, file>>)
    <3>1. pc' = "done" /\ (source = "file" => out' = "original")
      BY <1>1, <2>2 DEF PrepareVariantConfig
    <3>2. QED
      BY <1>1, <3>1 DEF PrepareVariantConfig, OverlayInv
  <2>3. QED
    BY <2>1, <2>2
<1>2. CASE ApplyOverride
  <2> DEFINE o == overrides[k]
             done == SubSeq(overrides, 1, k - 1)
  <2>1. pc = "apply" /\ k \in 1 .. Len(overrides)
    BY <1>2 DEF ApplyOverride, OverlayInv
  <2>2. cfg = Overlay(base, done) /\ source = "file"
    BY <2>1 DEF OverlayInv, done
  <2>3. CASE CanDescend(cfg, o.path)
    <3>1. cfg' = SetNestedKey(cfg, o.path, o.value) /\ k' = k + 1 /\ pc' = "apply"
      BY <1>2, <2>1, <2>3 DEF ApplyOverride, o
    <3>2. /\ SubSeq(overrides, 1, k) = Append(done, o)
          /\ done \in Seq(OvRec)
      BY <1>0, <2>1, SubSeqAppend DEF done, o
    <3>3. o \in OvRec
      BY <1>0, <2>1 DEF o
    <3>4. Overlay(base, Append(done, o)) = SetNestedKey(cfg, o.path, o.value)
      BY <1>0, <2>2, <2>3, <3>2, <3>3, OverlayStep
    <3>5. SubSeq(overrides, 1, k' - 1) = Append(done, o)
      BY <2>1, <3>1, <3>2
    <3>6. cfg' = Overlay(base, SubSeq(overrides, 1, k' - 1))
      BY <3>1, <3>4, <3>5
    <3>7. QED
      BY <1>2, <2>1, <2>2, <3>1, <3>6 DEF ApplyOverride, OverlayInv
  <2>4. CASE ~CanDescend(cfg, o.path)
    <3>1. pc' = "error"
      BY <1>2, <2>4 DEF ApplyOverride, o
    <3>2. QED
      BY <1>2, <3>1 DEF ApplyOverride, OverlayInv
  <2>5. QED
    BY <2>3, <2>4
<1>3. CASE WriteTempConfig
  <2>1. pc = "apply" /\ k = Len(overrides) + 1
    BY <1>3 DEF WriteTempConfig, OverlayInv
  <2>2. SubSeq(overrides, 1, Len(overrides)) = overrides
    BY <1>0, SubSeqFull
  <2>3. SubSeq(overrides, 1, k - 1) = overrides
    BY <2>1, <2>2
  <2>4. cfg = Overlay(base, overrides)
    BY <2>1, <2>3 DEF OverlayInv
  <2>5. file' = Overlay(base, overrides)
    BY <1>3, <2>4 DEF WriteTempConfig
  <2>6. QED
    BY <1>3, <2>1, <2>5 DEF WriteTempConfig, OverlayInv
<1>4. CASE Finished \/ UNCHANGED vars
  BY <1>4 DEF Finished, vars, OverlayInv
<1>5. QED
  BY <1>1, <1>2, <1>3, <1>4 DEF Next

\* Applying config_overrides one by one with _set_nested_key, then
\* dumping the config to the temp file, writes the overlay of the
\* overrides on the file's content: FileOverlayCorrect holds in every
\* behaviour, for every keys, values, documents and overrides.
THEOREM FileOverlayCorrectInvariant == Spec => []FileOverlayCorrect
<1>1. OverlayInv => FileOverlayCorrect
  BY DEF OverlayInv, FileOverlayCorrect
<1>2. QED
  BY <1>1, InitOverlayInv, NextOverlayInv, PTL DEF Spec
=============================================================================

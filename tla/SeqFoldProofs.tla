---------------------------- MODULE SeqFoldProofs ----------------------------
(***************************************************************************)
(* Facts about FoldSeq and FilterSeq, and the least-element principle     *)
(* their proofs rest on.                                                   *)
(*                                                                         *)
(* The lemmas take the folded operator as a parameter Op and mention it   *)
(* only as an argument of the operators below, never applied: that is the *)
(* form in which the provers instantiate Op with the LAMBDA of a use.      *)
(***************************************************************************)
EXTENDS SeqFold, SequenceTheorems, WellFoundedInduction, TLAPS

\* One step of a fold.
Apply(Op(_, _), acc, x) == Op(acc, x)

\* Op maps an accumulator in S and an element of T to an accumulator in S.
Closed(Op(_, _), S, T) == \A acc \in S, x \in T : Op(acc, x) \in S

\* Test holds of x.
Passes(Test(_), x) == Test(x)

\* A non-empty set of naturals has a least element, by the well-founded <
\* on Nat.
LEMMA LeastNat ==
  ASSUME NEW U \in SUBSET Nat, U # {}
  PROVE  \E m \in U : \A y \in U : m <= y
<1>1. PICK m \in U : \A y \in U : ~(<<y, m>> \in OpToRel(<, Nat))
  BY NatLessThanWellFounded, WFMin
<1>2. \A y \in U : ~(y < m)
  BY <1>1 DEF OpToRel
<1>3. QED
  BY <1>2

\* The recursive function of FoldPrefixes exists and satisfies its
\* defining equation, whatever Op is: a partial solution on 0 .. m exists
\* for every m, since extending one on 0 .. m - 1 gives one on 0 .. m (by
\* the least m without one).
LEMMA FoldPrefixesFix ==
  ASSUME NEW s, NEW base, NEW Op(_, _), Len(s) \in Nat
  PROVE  FoldPrefixes(Op, base, s)
         = [j \in 0 .. Len(s) |->
              IF j = 0 THEN base ELSE Apply(Op, FoldPrefixes(Op, base, s)[j - 1], s[j])]
<1> DEFINE n == Len(s)
           Def(g, j) == IF j = 0 THEN base ELSE Op(g[j - 1], s[j])
           Fix == CHOOSE F : F = [j \in 0 .. n |-> Def(F, j)]
           IsPartial(g, m) == g = [j \in 0 .. m |-> Def(g, j)]
<1>0. n \in Nat
  OBVIOUS
<1>1. FoldPrefixes(Op, base, s) = Fix
  BY DEF FoldPrefixes, Fix, Def, n
<1>2. \A m \in 0 .. n : \E g : IsPartial(g, m)
  <2> SUFFICES ASSUME \E m \in 0 .. n : ~\E g : IsPartial(g, m) PROVE FALSE
    OBVIOUS
  <2> DEFINE Bad == {x \in 0 .. n : ~\E g : IsPartial(g, x)}
  <2>0. Bad \in SUBSET Nat /\ Bad # {}
    <3>1. PICK w \in 0 .. n : ~\E g : IsPartial(g, w)
      OBVIOUS
    <3>2. w \in Bad
      BY <3>1, Zenon DEF Bad
    <3>3. Bad \subseteq Nat
      BY <1>0 DEF Bad
    <3>4. QED
      BY <3>2, <3>3, Zenon
  <2>1. PICK m \in Bad : \A y \in Bad : m <= y
    BY <2>0, LeastNat
  <2>2. CASE m = 0
    <3>1. IsPartial([j \in 0 .. 0 |-> base], 0)
      BY DEF IsPartial, Def
    <3>2. QED
      BY <2>1, <2>2, <3>1 DEF Bad
  <2>3. CASE m # 0
    <3>0. m \in 1 .. n
      BY <2>1, <2>3 DEF Bad
    <3>1. m - 1 \in 0 .. n /\ \E g : IsPartial(g, m - 1)
      <4>1. m - 1 \in 0 .. n /\ ~(m <= m - 1)
        BY <3>0
      <4>2. m - 1 \notin Bad
        BY <2>1, <4>1
      <4>3. QED
        BY <4>1, <4>2 DEF Bad
    <3>2. PICK g : IsPartial(g, m - 1)
      BY <3>1
    <3>3. \A j \in 0 .. m - 1 : g[j] = Def(g, j)
      BY <3>2 DEF IsPartial
    <3> DEFINE h == [j \in 0 .. m |-> IF j < m THEN g[j] ELSE Def(g, m)]
    <3>4. \A j \in 0 .. m : h[j] = Def(h, j)
      <4> SUFFICES ASSUME NEW j \in 0 .. m PROVE h[j] = Def(h, j)
        OBVIOUS
      <4>1. j # 0 => h[j - 1] = g[j - 1]
        BY <3>0 DEF h
      <4>2. CASE j < m
        <5>0. j \in 0 .. m - 1
          BY <3>0, <4>2
        <5>1. h[j] = g[j] /\ g[j] = Def(g, j)
          BY <3>3, <4>2, <5>0 DEF h
        <5>2. Def(g, j) = Def(h, j)
          BY <4>1 DEF Def
        <5>3. QED
          BY <5>1, <5>2
      <4>3. CASE j = m
        <5>1. h[j] = Def(g, m)
          BY <3>0, <4>3 DEF h
        <5>2. Def(g, m) = Def(h, m)
          BY <2>3, <4>1, <4>3 DEF Def
        <5>3. QED
          BY <4>3, <5>1, <5>2
      <4>4. QED
        BY <3>0, <4>2, <4>3
    <3>5. IsPartial(h, m)
      BY <3>4 DEF IsPartial
    <3>6. QED
      BY <2>1, <3>5 DEF Bad
  <2>4. QED
    BY <2>2, <2>3
<1>3. \E F : F = [j \in 0 .. n |-> Def(F, j)]
  <2>0. n \in 0 .. n
    BY <1>0
  <2>1. PICK g : IsPartial(g, n)
    BY <2>0, <1>2
  <2>2. QED
    BY <2>1 DEF IsPartial
<1>4. Fix = [j \in 0 .. n |-> Def(Fix, j)]
  BY <1>3 DEF Fix
<1>5. QED
  BY <1>1, <1>4 DEF Def, Apply, n

\* The values of FoldPrefixes are accumulators: by the least index of a
\* counterexample.
LEMMA FoldPrefixesType ==
  ASSUME NEW S, NEW T, NEW s \in Seq(T), NEW base \in S, NEW Op(_, _),
         Closed(Op, S, T)
  PROVE  FoldPrefixes(Op, base, s) \in [0 .. Len(s) -> S]
<1> DEFINE n == Len(s)
           Fix == FoldPrefixes(Op, base, s)
<1>0. n \in Nat /\ \A acc \in S, x \in T : Op(acc, x) \in S
  BY DEF Closed
<1>1. Fix = [j \in 0 .. n |-> IF j = 0 THEN base ELSE Apply(Op, Fix[j - 1], s[j])]
  BY <1>0, FoldPrefixesFix DEF Fix, n
<1>2. \A j \in 0 .. n : Fix[j] \in S
  <2> SUFFICES ASSUME \E j \in 0 .. n : Fix[j] \notin S PROVE FALSE
    OBVIOUS
  <2> DEFINE Bad == {x \in 0 .. n : Fix[x] \notin S}
  <2>0. Bad \in SUBSET Nat /\ Bad # {}
    <3>1. PICK w \in 0 .. n : Fix[w] \notin S
      OBVIOUS
    <3>2. w \in Bad
      BY <3>1, Zenon DEF Bad
    <3>3. Bad \subseteq Nat
      BY <1>0 DEF Bad
    <3>4. QED
      BY <3>2, <3>3, Zenon
  <2>1. PICK m \in Bad : \A y \in Bad : m <= y
    BY <2>0, LeastNat
  <2>2. CASE m = 0
    <3>1. Fix[0] = base
      BY <1>0, <1>1
    <3>2. QED
      BY <2>1, <2>2, <3>1 DEF Bad
  <2>3. CASE m # 0
    <3>1. m \in 1 .. n /\ Fix[m] = Apply(Op, Fix[m - 1], s[m])
      BY <1>1, <2>1, <2>3 DEF Bad
    <3>2. Fix[m - 1] \in S /\ s[m] \in T
      BY <2>1, <3>1 DEF Bad
    <3>3. Apply(Op, Fix[m - 1], s[m]) \in S
      BY <1>0, <3>2 DEF Apply
    <3>4. QED
      BY <2>1, <3>1, <3>3 DEF Bad
  <2>4. QED
    BY <2>2, <2>3
<1>3. QED
  BY <1>1, <1>2

\* Each prefix value is the previous one combined with the next element.
LEMMA FoldPrefixesStep ==
  ASSUME NEW s, NEW base, NEW Op(_, _), Len(s) \in Nat
  PROVE  \A j \in 1 .. Len(s) :
           FoldPrefixes(Op, base, s)[j] = Apply(Op, FoldPrefixes(Op, base, s)[j - 1], s[j])
BY FoldPrefixesFix

\* The value of the empty prefix is the initial accumulator.
LEMMA FoldPrefixesBase ==
  ASSUME NEW s, NEW base, NEW Op(_, _), Len(s) \in Nat
  PROVE  FoldPrefixes(Op, base, s)[0] = base
BY FoldPrefixesFix

\* A fold of accumulators in S over elements of T is an accumulator in S.
LEMMA FoldSeqType ==
  ASSUME NEW S, NEW T, NEW s \in Seq(T), NEW base \in S, NEW Op(_, _),
         Closed(Op, S, T)
  PROVE  FoldSeq(Op, base, s) \in S
<1>1. FoldPrefixes(Op, base, s) \in [0 .. Len(s) -> S]
  BY FoldPrefixesType
<1>2. QED
  BY <1>1 DEF FoldSeq

\* A filtered list keeps elements of the list: FilterSeq of a sequence over
\* S is a sequence over S.
LEMMA FilterSeqType ==
  ASSUME NEW S, NEW s \in Seq(S), NEW Test(_)
  PROVE  FilterSeq(s, Test) \in Seq(S)
<1>1. Closed(LAMBDA acc, x : IF Test(x) THEN Append(acc, x) ELSE acc, Seq(S), S)
  BY DEF Closed
<1>2. << >> \in Seq(S)
  OBVIOUS
<1>3. FoldSeq(LAMBDA acc, x : IF Test(x) THEN Append(acc, x) ELSE acc, << >>, s)
      \in Seq(S)
  BY <1>1, <1>2, FoldSeqType
<1>4. QED
  BY <1>3 DEF FilterSeq

\* A sequence of lists that grows by one element at each index of G and
\* stays the same elsewhere ends non-empty once G has an index: by the
\* least index at which it is empty although G has an index up to it.
LEMMA AppendsNonEmpty ==
  ASSUME NEW S, NEW n \in Nat, NEW G \in SUBSET (1 .. n), NEW e,
         NEW P \in [0 .. n -> Seq(S)],
         \A j \in 1 .. n : P[j] = IF j \in G THEN Append(P[j - 1], e[j]) ELSE P[j - 1],
         G # {}
  PROVE  Len(P[n]) >= 1
<1>1. \A j \in 0 .. n : G \cap 1 .. j # {} => Len(P[j]) >= 1
  <2> SUFFICES ASSUME \E j \in 0 .. n : G \cap 1 .. j # {} /\ ~(Len(P[j]) >= 1)
               PROVE  FALSE
    OBVIOUS
  <2> DEFINE Bad == {j \in 0 .. n : G \cap 1 .. j # {} /\ ~(Len(P[j]) >= 1)}
  <2>0. Bad \in SUBSET Nat /\ Bad # {}
    <3>1. PICK w \in 0 .. n : G \cap 1 .. w # {} /\ ~(Len(P[w]) >= 1)
      OBVIOUS
    <3>2. w \in Bad
      BY <3>1 DEF Bad
    <3>3. Bad \subseteq Nat
      BY DEF Bad
    <3>4. QED
      BY <3>2, <3>3
  <2>1. PICK m \in Bad : \A z \in Bad : m <= z
    BY <2>0, LeastNat
  <2>2. m \in 1 .. n /\ G \cap 1 .. m # {} /\ ~(Len(P[m]) >= 1)
    BY <2>1 DEF Bad
  <2>3. P[m - 1] \in Seq(S) /\ P[m] = IF m \in G THEN Append(P[m - 1], e[m]) ELSE P[m - 1]
    <3>1. m - 1 \in 0 .. n /\ m \in 1 .. n
      BY <2>2
    <3>2. QED
      BY <3>1
  <2>4. CASE m \in G
    BY <2>2, <2>3, <2>4
  <2>5. CASE m \notin G
    <3>1. G \cap 1 .. (m - 1) # {}
      BY <2>2, <2>5
    <3>2. m - 1 \notin Bad
      BY <2>1, <2>2
    <3>3. Len(P[m - 1]) >= 1
      BY <2>2, <3>1, <3>2 DEF Bad
    <3>4. QED
      BY <2>2, <2>3, <2>5, <3>3
  <2>6. QED
    BY <2>4, <2>5
<1>2. n \in 0 .. n /\ G \cap 1 .. n # {}
  <2>1. n \in 0 .. n
    OBVIOUS
  <2>2. G \cap 1 .. n = G
    BY Zenon
  <2>3. QED
    BY <2>1, <2>2, Zenon
<1>3. QED
  BY <1>1, <1>2

\* A filtered list is not empty when an element of the list passes the
\* filter: FilterSeq appends every passing element.
LEMMA FilterSeqNonEmpty ==
  ASSUME NEW S, NEW s \in Seq(S), NEW Test(_), NEW x \in 1 .. Len(s),
         Passes(Test, s[x])
  PROVE  Len(FilterSeq(s, Test)) >= 1
<1>1. Closed(LAMBDA acc, y : IF Test(y) THEN Append(acc, y) ELSE acc, Seq(S), S)
  BY DEF Closed
<1>2. << >> \in Seq(S)
  OBVIOUS
<1>3a. FoldPrefixes(LAMBDA acc, y : IF Test(y) THEN Append(acc, y) ELSE acc, << >>, s)
         \in [0 .. Len(s) -> Seq(S)]
  BY <1>1, <1>2, FoldPrefixesType
<1>3b. \A j \in 1 .. Len(s) :
         FoldPrefixes(LAMBDA acc, y : IF Test(y) THEN Append(acc, y) ELSE acc, << >>, s)[j]
         = Apply(LAMBDA acc, y : IF Test(y) THEN Append(acc, y) ELSE acc,
                 FoldPrefixes(LAMBDA acc, y : IF Test(y) THEN Append(acc, y) ELSE acc, << >>, s)[j - 1], s[j])
  <2>1. Len(s) \in Nat
    OBVIOUS
  <2>2. QED
    BY <2>1, FoldPrefixesStep
<1> DEFINE P == FoldPrefixes(LAMBDA acc, y : IF Test(y) THEN Append(acc, y) ELSE acc, << >>, s)
           n == Len(s)
           G == {y \in 1 .. n : Test(s[y])}
<1>4. /\ P \in [0 .. n -> Seq(S)]
      /\ \A j \in 1 .. n : P[j] = IF j \in G THEN Append(P[j - 1], s[j]) ELSE P[j - 1]
  BY <1>3a, <1>3b, Zenon DEF P, Apply, n, G
<1>5. n \in Nat /\ G \in SUBSET (1 .. n)
  <2>1. n \in Nat
    BY LenProperties, Zenon DEF n
  <2>2. QED
    BY <2>1, Zenon DEF G
<1>6. G # {}
  BY Zenon DEF Passes, G, n
<1>7. Len(P[n]) >= 1
  BY <1>4, <1>5, <1>6, AppendsNonEmpty
<1>8. FilterSeq(s, Test) = P[n]
  BY DEF FilterSeq, FoldSeq, P, n
<1>9. QED
  BY <1>7, <1>8

=============================================================================

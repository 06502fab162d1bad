--------------------------- MODULE AggregatorProofs ---------------------------
(***************************************************************************)
(* Proof that generate_summary (Aggregator) implements its contract        *)
(* (SummaryReport) under the refinement mapping of Aggregator: for every  *)
(* set of variants, every all_results and every order list(set(...))     *)
(* gives the variants.                                                     *)
(***************************************************************************)
EXTENDS Aggregator, SeqFoldProofs, FiniteSetTheorems, TLAPS

-----------------------------------------------------------------------------
(* The variant list.                                                       *)

\* set(r['variant'] for r in results) is finite: it is the image of the
\* indices of all_results.
LEMMA VariantsFinite ==
  ASSUME NEW rs \in Seq(Abs!Record)
  PROVE  /\ IsFiniteSet(Abs!VariantsOf(rs))
         /\ Cardinality(Abs!VariantsOf(rs)) \in Nat
<1> DEFINE f == [x \in 1 .. Len(rs) |-> rs[x].variant]
<1>1. f \in Surjection(1 .. Len(rs), Abs!VariantsOf(rs))
  BY DEF f, Surjection, Abs!VariantsOf
<1>2. IsFiniteSet(1 .. Len(rs))
  BY FS_Interval
<1>3. IsFiniteSet(Abs!VariantsOf(rs))
  BY <1>1, <1>2, FS_Surjection
<1>4. QED
  BY <1>3, FS_CardinalityType

\* A list list(set(...)) holds exactly the elements of the set.
LEMMA SetOrdersProps ==
  ASSUME NEW S, IsFiniteSet(S), NEW o \in SetOrders(S)
  PROVE  /\ o \in Seq(S)
         /\ Len(o) = Cardinality(S)
         /\ \A x \in S : \E k \in 1 .. Len(o) : o[k] = x
<1>1. Cardinality(S) \in Nat
  BY FS_CardinalityType
<1>2. o \in [1 .. Cardinality(S) -> S] /\ \A x \in S : \E k \in 1 .. Cardinality(S) : o[k] = x
  BY DEF SetOrders
<1>3. o \in Seq(S) /\ Len(o) = Cardinality(S)
  BY <1>1, <1>2
<1>4. QED
  BY <1>2, <1>3

\* SummaryReport, instantiated as Abs, folds with the same SeqFold
\* operators as Aggregator.
LEMMA AbsFoldSeq ==
  ASSUME NEW s, NEW base, NEW Op(_, _)
  PROVE  Abs!FoldSeq(Op, base, s) = FoldSeq(Op, base, s)
BY DEF Abs!FoldSeq, FoldSeq, Abs!FoldPrefixes, FoldPrefixes

LEMMA AbsFilterSeq ==
  ASSUME NEW s, NEW Test(_)
  PROVE  Abs!FilterSeq(s, Test) = FilterSeq(s, Test)
BY DEF Abs!FilterSeq, FilterSeq, Abs!FoldSeq, FoldSeq, Abs!FoldPrefixes, FoldPrefixes

-----------------------------------------------------------------------------
(* The summary dict.                                                       *)

\* The statistics the loop of lines 266-280 stores for a variant.
Stats == [success : Nat, tokens : Nat, time : Nat, total : Nat \ {0}]

\* summary[variant] holds natural numbers, and total_tests is positive for
\* every variant of set(...): the division by len(variant_results) never
\* meets an empty list.
LEMMA StatsType ==
  ASSUME NEW rs \in Seq(Abs!Record), NEW v \in Abs!VariantsOf(rs)
  PROVE  Abs!VariantStats(rs, v) \in Stats
<1> DEFINE vr == FilterSeq(rs, LAMBDA r : r.variant = v)
<1>1. vr \in Seq(Abs!Record)
  BY FilterSeqType
<1>2. PICK x \in 1 .. Len(rs) : rs[x].variant = v
  BY DEF Abs!VariantsOf
<1>3. Passes(LAMBDA r : r.variant = v, rs[x])
  BY <1>2 DEF Passes
<1>4. Len(vr) >= 1
  BY <1>3, FilterSeqNonEmpty
<1>5. FilterSeq(vr, LAMBDA r : r.success) \in Seq(Abs!Record)
  BY <1>1, FilterSeqType
<1>6. Closed(LAMBDA acc, r : acc + r["tokens"], Nat, Abs!Record)
  BY DEF Closed, Abs!Record
<1>7. Closed(LAMBDA acc, r : acc + r["time"], Nat, Abs!Record)
  BY DEF Closed, Abs!Record
<1>8. FoldSeq(LAMBDA acc, r : acc + r["tokens"], 0, vr) \in Nat
  BY <1>1, <1>6, FoldSeqType
<1>9. FoldSeq(LAMBDA acc, r : acc + r["time"], 0, vr) \in Nat
  BY <1>1, <1>7, FoldSeqType
<1>10. Abs!VariantStats(rs, v)
       = [success |-> Len(FilterSeq(vr, LAMBDA r : r.success)),
          tokens  |-> FoldSeq(LAMBDA acc, r : acc + r["tokens"], 0, vr),
          time    |-> FoldSeq(LAMBDA acc, r : acc + r["time"], 0, vr),
          total   |-> Len(vr)]
  <2>1. Abs!FilterSeq(rs, LAMBDA r : r.variant = v) = vr
    BY AbsFilterSeq DEF vr
  <2>2. Abs!FilterSeq(vr, LAMBDA r : r.success) = FilterSeq(vr, LAMBDA r : r.success)
    BY AbsFilterSeq
  <2>3. Abs!FoldSeq(LAMBDA acc, r : acc + r["tokens"], 0, vr)
        = FoldSeq(LAMBDA acc, r : acc + r["tokens"], 0, vr)
    BY AbsFoldSeq
  <2>4. Abs!FoldSeq(LAMBDA acc, r : acc + r["time"], 0, vr)
        = FoldSeq(LAMBDA acc, r : acc + r["time"], 0, vr)
    BY AbsFoldSeq
  <2>5. QED
    BY <2>1, <2>2, <2>3, <2>4, Zenon DEF Abs!VariantStats, Abs!VariantResults, Abs!SumOf
<1>11. Len(FilterSeq(vr, LAMBDA r : r.success)) \in Nat /\ Len(vr) \in Nat \ {0}
  BY <1>1, <1>4, <1>5
<1> DEFINE a == Len(FilterSeq(vr, LAMBDA r : r.success))
           b == FoldSeq(LAMBDA acc, r : acc + r["tokens"], 0, vr)
           c == FoldSeq(LAMBDA acc, r : acc + r["time"], 0, vr)
           t == Len(vr)
<1>12. /\ Abs!VariantStats(rs, v) = [success |-> a, tokens |-> b, time |-> c, total |-> t]
       /\ a \in Nat /\ b \in Nat /\ c \in Nat /\ t \in Nat \ {0}
  BY <1>8, <1>9, <1>10, <1>11, Zenon DEF a, b, c, t
<1>13. [success |-> a, tokens |-> b, time |-> c, total |-> t] \in Stats
  BY <1>12 DEF Stats
<1>14. QED
  BY <1>12, <1>13, Zenon


-----------------------------------------------------------------------------
(* The comparison of max() and min().                                      *)

\* Cross-multiplied means compare transitively when the counts are
\* positive: a1/a2 < b1/b2 < c1/c2.
LEMMA CrossTrans ==
  ASSUME NEW a1 \in Nat, NEW a2 \in Nat \ {0}, NEW b1 \in Nat, NEW b2 \in Nat \ {0},
         NEW c1 \in Nat, NEW c2 \in Nat \ {0},
         a1 * b2 < b1 * a2, b1 * c2 < c1 * b2
  PROVE  a1 * c2 < c1 * a2
<1>1. a1 * b2 * c2 < b1 * a2 * c2
  OBVIOUS
<1>2. b1 * c2 * a2 < c1 * b2 * a2
  OBVIOUS
<1>3. (a1 * c2) * b2 < (c1 * a2) * b2
  BY <1>1, <1>2
<1>4. QED
  BY <1>3

\* The key comparison of max()/min() is a strict order on the entries of
\* the summary dict: no variant improves on itself, and improving is
\* transitive, so the variant a scan ends with is improved on by none.
LEMMA ImprovesIrrefl ==
  ASSUME NEW sm, NEW m \in Abs!Objectives, NEW v, sm[v] \in Stats
  PROVE  ~Abs!Improves(sm, m, v, v)
<1>1. /\ ~Abs!MeanBelow(sm[v], sm[v], "success")
      /\ ~Abs!MeanBelow(sm[v], sm[v], "tokens")
      /\ ~Abs!MeanBelow(sm[v], sm[v], "time")
  BY DEF Abs!MeanBelow, Stats
<1>2. QED
  BY <1>1 DEF Abs!Objectives, Abs!Improves

LEMMA ImprovesTrans ==
  ASSUME NEW sm, NEW m \in Abs!Objectives, NEW u, NEW v, NEW w,
         sm[u] \in Stats, sm[v] \in Stats, sm[w] \in Stats,
         Abs!Improves(sm, m, u, v), Abs!Improves(sm, m, v, w)
  PROVE  Abs!Improves(sm, m, u, w)
<1>1. CASE m = "quality"
  <2>1. sm[w].success * sm[v].total < sm[v].success * sm[w].total
    BY <1>1 DEF Abs!Improves, Abs!MeanBelow
  <2>2. sm[v].success * sm[u].total < sm[u].success * sm[v].total
    BY <1>1 DEF Abs!Improves, Abs!MeanBelow
  <2>3. sm[w].success * sm[u].total < sm[u].success * sm[w].total
    BY <2>1, <2>2, CrossTrans DEF Stats
  <2>4. QED
    BY <1>1, <2>3 DEF Abs!Improves, Abs!MeanBelow
<1>2. CASE m = "cost"
  BY <1>2, CrossTrans DEF Abs!Improves, Abs!MeanBelow, Stats
<1>3. CASE m = "speed"
  BY <1>3, CrossTrans DEF Abs!Improves, Abs!MeanBelow, Stats
<1>4. QED
  BY <1>1, <1>2, <1>3 DEF Abs!Objectives


\* The scan of max()/min() over o = << o[1] >> \o t: P[i] is the variant it
\* holds after t[1], ..., t[i].  After each prefix it holds a variant that
\* no variant of the prefix improves on: when a later variant replaces it,
\* the earlier ones do not improve on the newcomer, by transitivity.
LEMMA ScanOptimal ==
  ASSUME NEW sm, NEW m \in Abs!Objectives, NEW D, NEW n \in Nat,
         NEW o \in [1 .. n + 1 -> D], NEW t, NEW P \in [0 .. n -> D],
         \A v \in D : sm[v] \in Stats,
         \A i \in 1 .. n : t[i] = o[i + 1],
         P[0] = o[1],
         \A i \in 1 .. n : P[i] = IF Abs!Improves(sm, m, t[i], P[i - 1]) THEN t[i] ELSE P[i - 1]
  PROVE  \A k \in 1 .. n + 1 : ~Abs!Improves(sm, m, o[k], P[n])
<1>1. o[1] \in D
  OBVIOUS
<1>2. \A i \in 0 .. n : \A k \in 1 .. i + 1 : ~Abs!Improves(sm, m, o[k], P[i])
  <2> SUFFICES ASSUME \E i \in 0 .. n : \E k \in 1 .. i + 1 : Abs!Improves(sm, m, o[k], P[i])
               PROVE  FALSE
    OBVIOUS
  <2> DEFINE Bad == {i \in 0 .. n : \E k \in 1 .. i + 1 : Abs!Improves(sm, m, o[k], P[i])}
  <2>0. Bad \in SUBSET Nat /\ Bad # {}
    <3>1. PICK w \in 0 .. n : \E k \in 1 .. w + 1 : Abs!Improves(sm, m, o[k], P[w])
      OBVIOUS
    <3>2. w \in Bad
      BY <3>1 DEF Bad
    <3>3. Bad \subseteq Nat
      BY DEF Bad
    <3>4. QED
      BY <3>2, <3>3
  <2>1. PICK i \in Bad : \A z \in Bad : i <= z
    BY <2>0, LeastNat
  <2>2. PICK k \in 1 .. i + 1 : Abs!Improves(sm, m, o[k], P[i])
    BY <2>1 DEF Bad
  <2>3. i \in 0 .. n /\ o[k] \in D /\ P[i] \in D
    BY <2>1 DEF Bad
  <2>4. CASE i = 0
    <3>1. k = 1 /\ P[i] = o[1]
      BY <2>4
    <3>2. QED
      BY <1>1, <2>2, <3>1, ImprovesIrrefl
  <2>5. CASE i # 0
    <3>1. i \in 1 .. n /\ i - 1 \in 0 .. n /\ t[i] = o[i + 1] /\ P[i - 1] \in D
      BY <1>1, <2>3, <2>5
    <3>2. \A q \in 1 .. i : ~Abs!Improves(sm, m, o[q], P[i - 1])
      <4>1. i - 1 \notin Bad
        BY <2>1, <3>1
      <4>2. QED
        BY <3>1, <4>1 DEF Bad
    <3>3. CASE Abs!Improves(sm, m, o[i + 1], P[i - 1])
      <4>1. P[i] = o[i + 1]
        BY <3>1, <3>3
      <4>2. CASE k = i + 1
        BY <2>2, <2>3, <4>1, <4>2, ImprovesIrrefl
      <4>3. CASE k \in 1 .. i
        <5>1. Abs!Improves(sm, m, o[k], P[i - 1])
          BY <2>2, <2>3, <3>1, <3>3, <4>1, ImprovesTrans
        <5>2. QED
          BY <3>2, <4>3, <5>1
      <4>4. QED
        BY <4>2, <4>3
    <3>4. CASE ~Abs!Improves(sm, m, o[i + 1], P[i - 1])
      <4>1. P[i] = P[i - 1]
        BY <3>1, <3>4
      <4>2. QED
        BY <2>2, <3>2, <3>4, <4>1
    <3>5. QED
      BY <3>3, <3>4
  <2>6. QED
    BY <2>4, <2>5
<1>3. SUFFICES ASSUME NEW k \in 1 .. n + 1
               PROVE  ~Abs!Improves(sm, m, o[k], P[n])
  OBVIOUS
<1>4. n \in 0 .. n /\ k \in 1 .. n + 1
  BY <1>3
<1>5. QED
  BY <1>2, <1>4

\* max(variants, key=...) / min(...) returns a variant of the list that no
\* variant of the list improves on.
LEMMA FirstBestOptimal ==
  ASSUME NEW sm, NEW m \in Abs!Objectives, NEW o \in Seq(DOMAIN sm), o # << >>,
         \A v \in DOMAIN sm : sm[v] \in Stats
  PROVE  /\ FirstBest(sm, o, m) \in DOMAIN sm
         /\ \A k \in 1 .. Len(o) : ~Abs!Improves(sm, m, o[k], FirstBest(sm, o, m))
<1> DEFINE D == DOMAIN sm
           t == Tail(o)
           n == Len(t)
<1>1. /\ t \in Seq(D) /\ n = Len(o) - 1 /\ n \in Nat
      /\ \A i \in 1 .. n : t[i] = o[i + 1]
      /\ o[1] \in D
  BY HeadTailProperties
<1>2. Closed(LAMBDA b, v : IF Abs!Improves(sm, m, v, b) THEN v ELSE b, D, D)
  BY DEF Closed
<1>3. FoldPrefixes(LAMBDA b, v : IF Abs!Improves(sm, m, v, b) THEN v ELSE b, o[1], t)
      \in [0 .. Len(t) -> D]
  BY <1>1, <1>2, FoldPrefixesType
<1>4. \A i \in 1 .. Len(t) :
        FoldPrefixes(LAMBDA b, v : IF Abs!Improves(sm, m, v, b) THEN v ELSE b, o[1], t)[i]
        = Apply(LAMBDA b, v : IF Abs!Improves(sm, m, v, b) THEN v ELSE b,
                FoldPrefixes(LAMBDA b, v : IF Abs!Improves(sm, m, v, b) THEN v ELSE b, o[1], t)[i - 1],
                t[i])
  BY <1>1, FoldPrefixesStep
<1>5. FoldPrefixes(LAMBDA b, v : IF Abs!Improves(sm, m, v, b) THEN v ELSE b, o[1], t)[0] = o[1]
  BY <1>1, FoldPrefixesBase
<1> DEFINE P == FoldPrefixes(LAMBDA b, v : IF Abs!Improves(sm, m, v, b) THEN v ELSE b, o[1], t)
<1>6. /\ P \in [0 .. n -> D]
      /\ P[0] = o[1]
      /\ \A i \in 1 .. n : P[i] = IF Abs!Improves(sm, m, t[i], P[i - 1]) THEN t[i] ELSE P[i - 1]
  BY <1>3, <1>4, <1>5, Zenon DEF P, Apply, n
<1>7. FirstBest(sm, o, m) = P[n]
  BY DEF FirstBest, FoldSeq, P, n, t
<1>8. o \in [1 .. n + 1 -> D]
  BY <1>1
<1>9. \A k \in 1 .. n + 1 : ~Abs!Improves(sm, m, o[k], P[n])
  BY <1>1, <1>6, <1>8, ScanOptimal, Zenon
<1>10. n \in 0 .. n /\ Len(o) = n + 1
  BY <1>1
<1>11. QED
  BY <1>6, <1>7, <1>9, <1>10, Zenon


-----------------------------------------------------------------------------
(* The inductive invariant of the refinement.                              *)

\* The variants the loop has summarized so far.
Done == {order[k] : k \in 1 .. j - 1}

\* The state of generate_summary at each point of its code: the variant
\* list is a listing of set(...) from the moment it is built, the loop has
\* filled the summary dict with exactly the variants before index j, and
\* summary.json, once written, holds the dict of every variant.
IInv ==
    /\ results \in Inputs
    /\ metric \in Metrics
    /\ pc \in {"collect", "loop", "recommend", "done", "crashed"}
    /\ pc = "collect" => /\ order = << >> /\ j = 1
                         /\ summary = Abs!EmptySummary
    /\ pc \in {"collect", "loop"} => file = [written |-> FALSE]
    /\ pc # "collect" => order \in SetOrders(Abs!VariantsOf(results))
    /\ pc = "loop" => /\ j \in 1 .. Len(order) + 1
                      /\ summary = [v \in Done |-> Abs!VariantStats(results, v)]
    /\ pc = "recommend" => /\ summary = Abs!Summarize(results)
                           /\ file = [written |-> TRUE, stats |-> summary]
    /\ pc \in {"done", "crashed"} => file.written = TRUE


\* The variant list holds exactly the variants of set(...).
LEMMA OrderCovers ==
  ASSUME NEW rs \in Seq(Abs!Record), NEW o \in SetOrders(Abs!VariantsOf(rs))
  PROVE  /\ o \in Seq(Abs!VariantsOf(rs))
         /\ {o[k] : k \in 1 .. Len(o)} = Abs!VariantsOf(rs)
<1>1. IsFiniteSet(Abs!VariantsOf(rs))
  BY VariantsFinite
<1>2. /\ o \in Seq(Abs!VariantsOf(rs))
      /\ \A x \in Abs!VariantsOf(rs) : \E k \in 1 .. Len(o) : o[k] = x
  BY <1>1, SetOrdersProps
<1>3. \A k \in 1 .. Len(o) : o[k] \in Abs!VariantsOf(rs)
  BY <1>2, ElementOfSeq
<1>4. {o[k] : k \in 1 .. Len(o)} \subseteq Abs!VariantsOf(rs)
  BY <1>3
<1>5. Abs!VariantsOf(rs) \subseteq {o[k] : k \in 1 .. Len(o)}
  BY <1>2
<1>6. QED
  BY <1>2, <1>4, <1>5

LEMMA InitIInv == Init => IInv
<1> SUFFICES ASSUME Init PROVE IInv
  OBVIOUS
<1>1. QED
  BY DEF Init, IInv

LEMMA NextIInv == IInv /\ [Next]_vars => IInv'
<1> SUFFICES ASSUME IInv, [Next]_vars PROVE IInv'
  OBVIOUS
<1> DEFINE VO == Abs!VariantsOf(results)
<1>0. results \in Seq(Abs!Record)
  BY AggregatorAssumption DEF IInv
<1>1. CASE CollectVariants
  <2>1. order' \in SetOrders(VO) /\ pc' = "loop" /\ j' = 1
    BY <1>1 DEF CollectVariants, VO, IInv
  <2>2. order' \in Seq(VO)
    BY <1>0, <2>1, OrderCovers
  <2>3. j' \in 1 .. Len(order') + 1 /\ Done' = {}
    BY <2>1, <2>2 DEF Done
  <2>4. summary' = [v \in Done' |-> Abs!VariantStats(results', v)]
    BY <1>1, <2>3 DEF CollectVariants, IInv, Abs!EmptySummary
  <2>5. QED
    BY <1>1, <2>1, <2>3, <2>4 DEF CollectVariants, IInv, VO
<1>2. CASE SummarizeVariant
  <2>1. /\ pc = "loop" /\ j \in 1 .. Len(order) /\ j' = j + 1
        /\ order \in SetOrders(VO) /\ order' = order
    BY <1>2 DEF SummarizeVariant, IInv, VO
  <2>2. Done' = Done \cup {order[j]}
    BY <2>1 DEF Done
  <2>3. summary = [v \in Done |-> Abs!VariantStats(results, v)]
    BY <2>1 DEF IInv
  <2>4. summary' = [v \in Done' |-> Abs!VariantStats(results', v)]
    BY <1>2, <2>2, <2>3 DEF SummarizeVariant, Put
  <2>5. QED
    BY <1>2, <2>1, <2>4 DEF SummarizeVariant, IInv, VO
<1>3. CASE SaveSummary
  <2>1. /\ pc = "loop" /\ j \in 1 .. Len(order) + 1 /\ j > Len(order)
        /\ order \in SetOrders(VO)
        /\ summary = [v \in Done |-> Abs!VariantStats(results, v)]
    BY <1>3 DEF SaveSummary, IInv, VO
  <2>2. Done = VO
    <3>1. {order[k] : k \in 1 .. Len(order)} = VO
      BY <1>0, <2>1, OrderCovers DEF VO
    <3>2. j - 1 = Len(order)
      BY <1>0, <2>1, OrderCovers
    <3>3. QED
      BY <3>1, <3>2 DEF Done
  <2>3. summary = Abs!Summarize(results)
    BY <2>1, <2>2 DEF Abs!Summarize, VO
  <2>4. QED
    BY <1>3, <2>1, <2>3 DEF SaveSummary, IInv, VO
<1>4. CASE Recommend
  BY <1>4 DEF Recommend, IInv
<1>5. CASE EmptyMaxFails
  BY <1>5 DEF EmptyMaxFails, IInv
<1>6. CASE NoRecommendation
  BY <1>6 DEF NoRecommendation, IInv
<1>7. CASE UNCHANGED vars
  <2>1. Done' = Done
    BY <1>7 DEF vars, Done
  <2>2. QED
    BY <1>7, <2>1 DEF vars, IInv
<1>9. CASE Finished
  BY <1>9, <1>7 DEF Finished
<1>8. QED
  BY <1>1, <1>2, <1>3, <1>4, <1>5, <1>6, <1>7, <1>9 DEF Next


-----------------------------------------------------------------------------
(* The refinement.                                                         *)

LEMMA InitRefines == Init => Abs!Init
<1> SUFFICES ASSUME Init PROVE Abs!Init
  OBVIOUS
<1>1. AbsPhase = "start"
  BY DEF Init, AbsPhase
<1>2. QED
  BY <1>1 DEF Init, Abs!Init, Abs!EmptySummary

\* On a recommendation, the variant max()/min() returns is optimal in the
\* summary written to summary.json.
LEMMA RecommendOptimal ==
  ASSUME IInv, pc = "recommend", metric \in Abs!Objectives, order # << >>
  PROVE  FirstBest(summary, order, metric) \in Abs!Optimal(summary, metric)
<1> DEFINE VO == Abs!VariantsOf(results)
<1>1. results \in Seq(Abs!Record)
  BY AggregatorAssumption DEF IInv
<1>2. order \in Seq(VO) /\ {order[k] : k \in 1 .. Len(order)} = VO
  BY <1>1, OrderCovers DEF IInv, VO
<1>3. summary = [v \in VO |-> Abs!VariantStats(results, v)]
  BY DEF IInv, Abs!Summarize, VO
<1>4. \A v \in VO : summary[v] \in Stats
  BY <1>1, <1>3, StatsType DEF VO
<1>5. DOMAIN summary = VO
  BY <1>3
<1>6. order \in Seq(DOMAIN summary) /\ \A v \in DOMAIN summary : summary[v] \in Stats
  BY <1>2, <1>4, <1>5
<1>7. /\ FirstBest(summary, order, metric) \in DOMAIN summary
      /\ \A k \in 1 .. Len(order) : ~Abs!Improves(summary, metric, order[k], FirstBest(summary, order, metric))
  BY <1>6, FirstBestOptimal
<1>8. \A w \in DOMAIN summary : \E k \in 1 .. Len(order) : order[k] = w
  BY <1>2, <1>5
<1>9. QED
  BY <1>7, <1>8 DEF Abs!Optimal

\* Every step of generate_summary is a step of its contract or leaves the
\* contract's state unchanged.
LEMMA NextRefines == IInv /\ IInv' /\ [Next]_vars => [Abs!Next]_Abs!vars
<1> SUFFICES ASSUME IInv, IInv', [Next]_vars PROVE [Abs!Next]_Abs!vars
  OBVIOUS
<1>1. CASE CollectVariants \/ SummarizeVariant
  <2>1. pc \in {"collect", "loop"} /\ pc' \in {"collect", "loop"} /\ file' = file
        /\ UNCHANGED <<results, metric, best>>
    BY <1>1 DEF CollectVariants, SummarizeVariant
  <2>2. AbsPhase = "start" /\ AbsPhase' = "start"
    BY <2>1 DEF AbsPhase
  <2>3. QED
    BY <2>1, <2>2 DEF Abs!vars
<1>2. CASE SaveSummary
  <2>1. pc = "loop" /\ pc' = "recommend" /\ UNCHANGED <<results, metric, best>>
    BY <1>2 DEF SaveSummary
  <2>2. AbsPhase = "start" /\ AbsPhase' = "saved"
    BY <2>1 DEF AbsPhase
  <2>3. file = [written |-> FALSE] /\ file' = [written |-> TRUE, stats |-> summary']
        /\ summary' = Abs!Summarize(results')
    BY <2>1 DEF IInv
  <2>4. Abs!WriteSummary
    BY <2>1, <2>2, <2>3 DEF Abs!WriteSummary
  <2>5. QED
    BY <2>4 DEF Abs!Next
<1>3. CASE Recommend
  <2>1. /\ pc = "recommend" /\ pc' = "done" /\ metric \in Abs!Objectives /\ order # << >>
        /\ best' = FirstBest(summary, order, metric)
        /\ UNCHANGED <<results, metric, file>>
    BY <1>3 DEF Recommend
  <2>2. AbsPhase = "saved" /\ AbsPhase' = "done"
    BY <2>1 DEF AbsPhase
  <2>3. file = [written |-> TRUE, stats |-> summary]
    BY <2>1 DEF IInv
  <2>4. best' \in Abs!Optimal(summary, metric)
    BY <2>1, RecommendOptimal
  <2>5. Abs!Recommend
    BY <2>1, <2>2, <2>3, <2>4 DEF Abs!Recommend
  <2>6. QED
    BY <2>5 DEF Abs!Next
<1>4. CASE EmptyMaxFails
  <2>1. /\ pc = "recommend" /\ pc' = "crashed" /\ metric \in Abs!Objectives /\ order = << >>
        /\ UNCHANGED <<results, metric, file, best>>
    BY <1>4 DEF EmptyMaxFails
  <2>2. AbsPhase = "saved" /\ AbsPhase' = "crashed"
    BY <2>1 DEF AbsPhase
  <2>3. file = [written |-> TRUE, stats |-> summary] /\ summary = Abs!Summarize(results)
    BY <2>1 DEF IInv
  <2>4. DOMAIN summary = {}
    <3>1. results \in Seq(Abs!Record) /\ order \in SetOrders(Abs!VariantsOf(results))
      BY <2>1, AggregatorAssumption DEF IInv
    <3>2. Abs!VariantsOf(results) = {}
      BY <2>1, <3>1, OrderCovers
    <3>3. QED
      BY <2>3, <3>2 DEF Abs!Summarize
  <2>5. Abs!EmptyRunFails
    BY <2>1, <2>2, <2>3, <2>4 DEF Abs!EmptyRunFails
  <2>6. QED
    BY <2>5 DEF Abs!Next
<1>5. CASE NoRecommendation
  <2>1. /\ pc = "recommend" /\ pc' = "done" /\ metric \notin Abs!Objectives
        /\ UNCHANGED <<results, metric, file, best>>
    BY <1>5 DEF NoRecommendation
  <2>2. AbsPhase = "saved" /\ AbsPhase' = "done"
    BY <2>1 DEF AbsPhase
  <2>3. Abs!NoRecommendation
    BY <2>1, <2>2 DEF Abs!NoRecommendation
  <2>4. QED
    BY <2>3 DEF Abs!Next
<1>6. CASE Finished \/ UNCHANGED vars
  <2>1. UNCHANGED vars
    BY <1>6 DEF Finished
  <2>2. QED
    BY <2>1 DEF vars, Abs!vars, AbsPhase
<1>7. QED
  BY <1>1, <1>2, <1>3, <1>4, <1>5, <1>6 DEF Next

\* generate_summary implements its contract: summary.json holds every
\* variant's statistics over exactly its own records, whatever order the
\* set gives the variants, the recommendation is a variant no other one
\* beats on the primary metric, and an empty run fails only after the
\* file is written.
THEOREM Refinement == Spec => AbsSpec
<1>1. Spec => []IInv
  BY InitIInv, NextIInv, PTL DEF Spec
<1>2. QED
  BY <1>1, InitRefines, NextRefines, PTL DEF Spec, AbsSpec, Abs!Spec

=============================================================================

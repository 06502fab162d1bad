------------------------------ MODULE Aggregator ------------------------------
(***************************************************************************)
(* generate_summary of generic_benchmark.py (lines 254-305), step by step: *)
(* the variant list taken from a set, the loop that fills the summary     *)
(* dict, the write of summary.json, and the max()/min() that picks the    *)
(* recommended variant.  It implements SummaryReport.                     *)
(***************************************************************************)
EXTENDS Naturals, Sequences, FiniteSets, SeqFold

CONSTANTS Variants, Inputs, Metrics, NoVariant

VARIABLES
    results,   \* all_results
    metric,    \* primary_metric
    pc,        \* "collect", "loop", "recommend", "done" or "crashed"
    order,     \* variants = list(set(...)), in the order of the set
    j,         \* the next index of the loop over variants
    summary,   \* the summary dict
    file,      \* the content of summary.json, once written
    best       \* the recommended variant

vars == <<results, metric, pc, order, j, summary, file, best>>

\* The abstract phase and summary: the summary of the contract is the
\* content of summary.json, which exists once the loop is over.
AbsPhase ==
    CASE pc \in {"collect", "loop"} -> "start"
      [] pc = "recommend"           -> "saved"
      [] pc \in {"done", "crashed"} -> pc

Abs == INSTANCE SummaryReport
           WITH phase <- AbsPhase,
                summary <- IF file.written THEN file.stats ELSE [v \in {} |-> 0]

ASSUME AggregatorAssumption ==
    /\ Inputs \subseteq Seq(Abs!Record)
    /\ NoVariant \notin Variants

\* summary[variant] = {...}: insert a key into a dict.
Put(fn, k, v) == [x \in DOMAIN fn \cup {k} |-> IF x = k THEN v ELSE fn[x]]

\* list(set(...)): the elements of S, each once, in some order.
SetOrders(S) ==
    {o \in [1 .. Cardinality(S) -> S] :
        \A x \in S : \E k \in 1 .. Cardinality(S) : o[k] = x}

\* max(variants, key=...) and min(variants, key=...): the first element of
\* the list whose key no later element strictly improves on.
FirstBest(sm, o, m) ==
    FoldSeq(LAMBDA b, v : IF Abs!Improves(sm, m, v, b) THEN v ELSE b,
             o[1], Tail(o))

Init ==
    /\ results \in Inputs
    /\ metric \in Metrics
    /\ pc = "collect"
    /\ order = << >>
    /\ j = 1
    /\ summary = Abs!EmptySummary
    /\ file = [written |-> FALSE]
    /\ best = NoVariant

\* variants = list(set(...)) (line 260): the order of a set of strings is
\* the order of their hashes, which changes with the hash seed of a run.
CollectVariants ==
    /\ pc = "collect"
    /\ order' \in SetOrders(Abs!VariantsOf(results))
    /\ pc' = "loop"
    /\ UNCHANGED <<results, metric, j, summary, file, best>>

\* Mutant: variant_results without its filter on the variant.
SummarizeVariantUnfiltered ==
    /\ pc = "loop"
    /\ j <= Len(order)
    /\ summary' = Put(summary, order[j],
                      [success |-> Len(FilterSeq(results, LAMBDA r : r.success)),
                       tokens  |-> Abs!SumOf(results, "tokens"),
                       time    |-> Abs!SumOf(results, "time"),
                       total   |-> Len(results)])
    /\ j' = j + 1
    /\ UNCHANGED <<results, metric, pc, order, file, best>>

\* One iteration of the loop of lines 265-282.
SummarizeVariant ==
    /\ pc = "loop"
    /\ j <= Len(order)
    /\ summary' = Put(summary, order[j], Abs!VariantStats(results, order[j]))
    /\ j' = j + 1
    /\ UNCHANGED <<results, metric, pc, order, file, best>>

\* The loop is over: summary.json is written (lines 285-290).
SaveSummary ==
    /\ pc = "loop"
    /\ j > Len(order)
    /\ file' = [written |-> TRUE, stats |-> summary]
    /\ pc' = "recommend"
    /\ UNCHANGED <<results, metric, order, j, summary, best>>

\* Mutant: the scan stops one element short (an off-by-one on the list).
RecommendSkipLast ==
    /\ pc = "recommend"
    /\ metric \in Abs!Objectives
    /\ order # << >>
    /\ best' = IF Len(order) = 1 THEN order[1]
               ELSE FirstBest(summary, SubSeq(order, 1, Len(order) - 1), metric)
    /\ pc' = "done"
    /\ UNCHANGED <<results, metric, order, j, summary, file>>

\* Lines 295-305: max() for quality, min() for cost and speed.
Recommend ==
    /\ pc = "recommend"
    /\ metric \in Abs!Objectives
    /\ order # << >>
    /\ best' = FirstBest(summary, order, metric)
    /\ pc' = "done"
    /\ UNCHANGED <<results, metric, order, j, summary, file>>

\* max() or min() of an empty list raises ValueError.
EmptyMaxFails ==
    /\ pc = "recommend"
    /\ metric \in Abs!Objectives
    /\ order = << >>
    /\ pc' = "crashed"
    /\ UNCHANGED <<results, metric, order, j, summary, file, best>>

\* A primary metric other than the three: no recommendation is printed.
NoRecommendation ==
    /\ pc = "recommend"
    /\ metric \notin Abs!Objectives
    /\ pc' = "done"
    /\ UNCHANGED <<results, metric, order, j, summary, file, best>>

Finished ==
    /\ pc \in {"done", "crashed"}
    /\ UNCHANGED vars

Next ==
    \/ CollectVariants
    \/ SummarizeVariant
    \/ SaveSummary
    \/ Recommend
    \/ EmptyMaxFails
    \/ NoRecommendation
    \/ Finished

Spec == Init /\ [][Next]_vars

-----------------------------------------------------------------------------
(* Properties.                                                             *)

\* generate_summary implements its contract: summary.json holds every
\* variant's statistics over exactly its own records, whatever order the
\* set gives the variants, and the recommendation is a variant that no
\* other variant beats on the primary metric.
AbsSpec == Abs!Spec

\* The guards `if variant_results else 0` (lines 268-271) handle an empty
\* run: a run whose every unit was skipped still ends its summary without
\* an exception.
NoValueError ==
    pc # "crashed"
=============================================================================

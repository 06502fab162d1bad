---------------------------- MODULE SummaryReport ----------------------------
(***************************************************************************)
(* What generate_summary (generic_benchmark.py) promises, in one step per *)
(* outcome: summary.json holds the statistics of every variant over all   *)
(* of its records, and the recommendation names a variant that no other   *)
(* variant beats on the primary metric.  A run without records ends in an *)
(* error after summary.json is written.                                    *)
(*                                                                         *)
(* The operators that compute a variant's statistics and compare two      *)
(* variants are shared with the detailed module Aggregator.               *)
(***************************************************************************)
EXTENDS Naturals, Sequences, SeqFold

CONSTANTS
    Variants,    \* variant names
    Inputs,      \* the record sequences all_results may hold
    Metrics,     \* values of test_def['metrics']['primary']
    NoVariant    \* no recommendation made

\* The primary metrics generate_summary recommends on (lines 295-305).
Objectives == {"quality", "cost", "speed"}

\* An execution record as the summary reads it: r['variant'],
\* r.get('success'), r.get('tokens', 0), r.get('elapsed_time', 0).
Record == [variant : Variants, success : BOOLEAN, tokens : Nat, time : Nat]

\* set(r['variant'] for r in results)
VariantsOf(rs) == {rs[x].variant : x \in DOMAIN rs}

\* variant_results: the records of variant v, in record order.
VariantResults(rs, v) == FilterSeq(rs, LAMBDA r : r.variant = v)

\* sum(r.get(fld, 0) for r in s)
SumOf(s, fld) == FoldSeq(LAMBDA acc, r : acc + r[fld], 0, s)

\* The entry summary[v]: the three averages are kept as sums over the
\* count total, so that they compare exactly.
VariantStats(rs, v) ==
    LET vr == VariantResults(rs, v)
    IN  [success |-> Len(FilterSeq(vr, LAMBDA r : r.success)),
         tokens  |-> SumOf(vr, "tokens"),
         time    |-> SumOf(vr, "time"),
         total   |-> Len(vr)]

\* The summary dict of every variant of rs.
Summarize(rs) == [v \in VariantsOf(rs) |-> VariantStats(rs, v)]

EmptySummary == [v \in {} |-> 0]

\* x[fld] / x.total < y[fld] / y.total, with both totals positive.
MeanBelow(x, y, fld) == x[fld] * y.total < y[fld] * x.total

\* The key of variant v is strictly better than that of b: a higher
\* success_rate for max() under quality, a lower avg_tokens or avg_time
\* for min() under cost and speed.
Improves(sm, m, v, b) ==
    CASE m = "quality" -> MeanBelow(sm[b], sm[v], "success")
      [] m = "cost"    -> MeanBelow(sm[v], sm[b], "tokens")
      [] m = "speed"   -> MeanBelow(sm[v], sm[b], "time")

\* The variants no other variant improves on.
Optimal(sm, m) ==
    {v \in DOMAIN sm : \A w \in DOMAIN sm : ~Improves(sm, m, w, v)}

VARIABLES
    results,   \* all_results
    metric,    \* primary_metric
    phase,     \* "start", "saved", "done" or "crashed"
    summary,   \* the content of summary.json
    best       \* the recommended variant

vars == <<results, metric, phase, summary, best>>

Init ==
    /\ results \in Inputs
    /\ metric \in Metrics
    /\ phase = "start"
    /\ summary = EmptySummary
    /\ best = NoVariant

\* summary.json is written with the statistics of every variant.
WriteSummary ==
    /\ phase = "start"
    /\ phase' = "saved"
    /\ summary' = Summarize(results)
    /\ UNCHANGED <<results, metric, best>>

\* An optimal variant is recommended.
Recommend ==
    /\ phase = "saved"
    /\ metric \in Objectives
    /\ \E v \in Optimal(summary, metric) : best' = v
    /\ phase' = "done"
    /\ UNCHANGED <<results, metric, summary>>

\* No variant to choose from: the run ends in an error.
EmptyRunFails ==
    /\ phase = "saved"
    /\ metric \in Objectives
    /\ DOMAIN summary = {}
    /\ phase' = "crashed"
    /\ UNCHANGED <<results, metric, summary, best>>

\* A primary metric without a recommendation rule.
NoRecommendation ==
    /\ phase = "saved"
    /\ metric \notin Objectives
    /\ phase' = "done"
    /\ UNCHANGED <<results, metric, summary, best>>

Finished ==
    /\ phase \in {"done", "crashed"}
    /\ UNCHANGED vars

Next == WriteSummary \/ Recommend \/ EmptyRunFails \/ NoRecommendation \/ Finished

Spec == Init /\ [][Next]_vars
=============================================================================

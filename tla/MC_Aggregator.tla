--------------------------- MODULE MC_Aggregator ---------------------------
(* Model values for Aggregator.                                            *)
EXTENDS Aggregator

CONSTANTS v1, v2

\* Two variants: enough for a strict winner, a tie, and a variant that
\* has no record.
MC_Variants == {v1, v2}

\* Records with or without success, with zero or one token and an elapsed
\* time of one or two: every comparison of two means can come out either
\* way or equal.
MC_Records == [variant : MC_Variants, success : BOOLEAN, tokens : {0, 1},
               time : {1, 2}]

\* all_results of up to three records, the empty run included.
MC_Inputs == UNION {[1..n -> MC_Records] : n \in 0..3}

\* The three objectives and one without a rule.
MC_Metrics == {"quality", "cost", "speed", "accuracy"}
=============================================================================

------------------------- MODULE MC_BehavioralSuite -------------------------
(* Model values for BehavioralSuite.                                       *)
EXTENDS BehavioralSuite

\* Two configurations: 'Baseline' and 'Reflection Only', the first two of
\* main()'s list, enough for a second server to start after the first is
\* stopped and for the report's KeyError condition.
MC_NC == 2

\* Three tests: one with zero criteria, one with one criterion and one
\* without a 'success_criteria' key, so that every branch of
\* evaluate_test is taken.
MC_Criteria == <<0, 1, NoList>>

\* A pipe holds the output of two answers: with three tests a server can
\* fill it.
MC_PipeCap == 2
=============================================================================

------------------------ MODULE MC_GenericBenchmark ------------------------
(* Small instances of GenericBenchmark for TLC.                            *)
EXTENDS GenericBenchmark

\* Two variants and one provider: two pairs, so a skipped or failed pair
\* is followed by another one.
MC_NV == 2
MC_NP == 1
\* One scenario run for two iterations: two servers per prepared pair, so a
\* server can still be alive when the next one is started.
MC_NS == 1
MC_Iterations == 2
=============================================================================

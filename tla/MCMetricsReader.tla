----------------------------- MODULE MCMetricsReader -----------------------------
(* MetricsReader over the definitions of MCScheduler. *)
EXTENDS MCScheduler, MetricsReader

(* A chain without retries, which no number depends on. *)
MCPlainChain == {<<S(b, <<a>>, nan), S(a, <<>>, nan)>>}

(* Bound of the search: statements fail in one of the runs only.              *)
MCFaultsInOneRun == \A r, q \in Runs : dbErrors[r] > 0 /\ dbErrors[q] > 0 => r = q
==============================================================================

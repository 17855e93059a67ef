------------------------------ MODULE MCScheduler ------------------------------
(* Definitions and integers for the model-checking runs of Scheduler.         *)
EXTENDS SchedulerInvariant, TLC

CONSTANTS none, a, b, c, d, nan

S(k, deps, retry) == [key |-> k, dependsOn |-> deps, retryCount |-> retry]

(* Every dependency relation on three steps in a fixed order, the cyclic ones *)
(* included, without retries.                                                 *)
MCDepLists == {<<>>, <<a>>, <<b>>, <<c>>, <<a, b>>, <<c, a>>, <<b, c>>, <<a, b, c>>}

MCGraphs == {<<S(a, x, nan), S(b, y, nan), S(c, z, nan)>> :
               x \in MCDepLists, y \in MCDepLists, z \in MCDepLists}

(* No steps; a chain listed backwards whose steps are retried once and never; *)
(* two independent steps and one that needs both; a diamond with a shortcut.  *)
MCShapes == {<<>>,
             <<S(b, <<a>>, 1), S(a, <<>>, -1)>>,
             <<S(a, <<>>, 0), S(b, <<>>, 2), S(c, <<a, b>>, nan)>>,
             <<S(a, <<>>, nan), S(c, <<a>>, nan), S(d, <<b, c, a>>, nan), S(b, <<a>>, 1)>>}

MCDefinitions == MCShapes \cup MCGraphs

(* A chain with a dependency listed twice.                                    *)
MCChain == {<<S(b, <<a, a>>, nan), S(a, <<>>, 1)>>}

(* A retry_count beyond the range of int.                                     *)
MCHugeRetry == {<<S(a, <<>>, MaxInt + 1), S(b, <<a>>, 0)>>}

MCKeys == {none, a, b, c, d}

MCSymmetry == Permutations(Runs) \cup Permutations(Pipelines)
================================================================================

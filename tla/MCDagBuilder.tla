----------------------------- MODULE MCDagBuilder ------------------------------
(* Every list of at most two steps, legal or not, and every list of three     *)
(* steps with distinct keys, with at most two entries in each depends_on:     *)
(* repeated entries, self dependencies, unknown keys and cycles included.     *)
EXTENDS DagBuilder

CONSTANTS none, a, b, c, absent, nan

MCKeys == {none, a, b, c, absent}

Lists(S) == UNION {[1 .. n -> S] : n \in 0 .. 2}

StepsOver(keys, deps) ==
  {[key |-> k, dependsOn |-> l, retryCount |-> nan] : k \in keys, l \in Lists(deps)}

Short == UNION {[1 .. n -> StepsOver({none, a, b}, {a, b, absent})] : n \in 0 .. 2}

Triples ==
  {<<[key |-> a, dependsOn |-> x, retryCount |-> nan],
     [key |-> b, dependsOn |-> y, retryCount |-> nan],
     [key |-> c, dependsOn |-> z, retryCount |-> nan]>> :
     x \in Lists({a, b, c}), y \in Lists({a, b, c}), z \in Lists({a, b, c})}

MCInputs == Short \cup Triples
================================================================================

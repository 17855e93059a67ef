-------------------------------- MODULE MCSystem --------------------------------
(* Definitions, inputs and integers for the model-checking runs of System.    *)
EXTENDS SystemInvariant, TLC

CONSTANTS none, a, b, c, nan

S(k, deps, retry) == [key |-> k, dependsOn |-> deps, retryCount |-> retry]

MCKeys == {none, a, b, c}

(* A chain listed backwards whose steps are retried once; a join.             *)
MCShapes == {<<S(b, <<a>>, 1), S(a, <<>>, 1)>>,
             <<S(a, <<>>, nan), S(b, <<a>>, 1), S(c, <<a, b>>, nan)>>}

MCChain == {<<S(b, <<a>>, nan), S(a, <<>>, nan)>>}

Input(x, y, z) == [k \in Keys |-> CASE k = a -> x [] k = b -> y [] k = c -> z [] OTHER -> none]

(* Each step reads its dependency; two read the same one; a step without      *)
(* input_from; an input that is downstream.                                   *)
MCSources == {Input(NoSource, a, b), Input(NoSource, a, a), Input(NoSource, none, a),
              Input(b, NoSource, b)}
MCPlain == {Input(NoSource, a, b)}
================================================================================

------------------------------ MODULE MCInterpreter ------------------------------
(* Texts, drafts and confidences for the model-checking runs of Interpreter. *)
EXTENDS Interpreter

CONSTANTS nan

MCKeys == {"", " ", "a", " a", "b"} \cup FallbackKeys \cup {"slug", "generated-pipeline"}
MCTrim == [k \in MCKeys |-> CASE k = " " -> "" [] k = " a" -> "a" [] OTHER -> k]

(* Confidences in tenths: none at all, below, at and above the default of 7.  *)
MCConfidences == {0, 6, 7, 11}
MCThresholds == {-1, 0, 5, 10, 11, NaN}

(* One step of any kind, two supported ones, or any description.              *)
MCStep(keys, types) ==
  [key: keys, type: types, dependsOn: {Null, <<>>, <<"a">>, <<" a">>, <<"b">>}]
MCPairs == MCStep({"a", " a", "b"}, {"supported"})
MCDrafts ==
  [name: {"", " ", " a"}, description: {"blank"},
   steps: {<<>>} \cup {<<s>> : s \in MCStep({"", " ", "a", " a"}, Types)}]
    \cup [name: {"a"}, description: Descriptions, steps: {<<s>> : s \in MCStep({"a"}, {"supported"})}]
    \cup [name: {"a"}, description: {"text"}, steps: {<<s, t>> : s, t \in MCPairs}]

(* A draft in each of the three places, with a different one in the others.   *)
MCOther == [name |-> "b", description |-> "text",
            steps |-> <<[key |-> "b", type |-> "supported", dependsOn |-> <<>>]>>]
MCNone == [name |-> "", description |-> "blank", steps |-> <<>>]
MCEnvelope(p, q, i) == [pipeline: {p}, pipelineDraft: {q}, inline: {i}, confidence: MCConfidences]
MCEnvelopes ==
  UNION {MCEnvelope(d, Null, MCNone) \cup MCEnvelope(Null, Null, d) : d \in MCDrafts}
    \cup UNION {MCEnvelope(p, d, MCNone) : p \in {Null, MCOther}, d \in {MCOther, MCNone}}
================================================================================

------------------------------ MODULE Interpreter ------------------------------
(******************************************************************************)
(* POST /interpret: InterpretRequest turns a query into a pipeline draft with *)
(* the help of the NLP service, or falls back to a template, and the client   *)
(* creates a pipeline from the draft it was given.  Texts stand for keys and  *)
(* names; confidences are integers, One for 1.0.                              *)
(******************************************************************************)
EXTENDS Dag

CONSTANTS
  Trim,         \* strings.TrimSpace on Keys
  Null,         \* a depends_on that is null or absent, a draft that is not there
  NaN,          \* an NLP_MIN_CONFIDENCE of "NaN", which ParseFloat accepts
  One,          \* the confidence 1.0
  Default,      \* defaultNLPMinConfidence
  Thresholds,   \* the values of NLP_MIN_CONFIDENCE
  Envelopes,    \* the bodies that the NLP service may answer with
  Slug          \* the name that slugFromQuery makes of the words of a query

FallbackKeys == {"extract_source", "transform_data", "load_output"}

ASSUME TextAssumption ==
  /\ Trim \in [Keys -> Keys]
  /\ Trim[EmptyKey] = EmptyKey
  /\ \A k \in Keys : Trim[Trim[k]] = Trim[k]
  /\ FallbackKeys \cup {Slug, "generated-pipeline"} \subseteq Keys
  /\ EmptyKey \notin FallbackKeys \cup {Slug, "generated-pipeline"}

ASSUME NullAssumption == Null \notin Seq(Keys)

ASSUME ConfidenceAssumption ==
  /\ NaN \notin Int /\ One \in Int /\ Default \in 1 .. One
  /\ Thresholds \subseteq Int \cup {NaN}

VARIABLES
  threshold,    \* PipelineHandler.NLPMinConfidence
  query,        \* what the query has: "words", nothing but "symbols", or a "nul" among
                \* its words: U+0000, which JSON can spell and PostgreSQL cannot store
  stage,        \* "idle", "asking" the service, "answered", "posted"
  reply,        \* what the service has said
  answer,       \* interpretResponse: mode, fallback_reason, confidence and draft
  created       \* the status code of CreatePipeline for the draft, 0 before

vars == <<threshold, query, stage, reply, answer, created>>

\* A type has white space around it, or is a supported one, or neither.
Types == {"supported", "padded", "unsupported"}
DraftStep == [key: Keys, type: Types, dependsOn: Seq(Keys) \cup {Null}]
Queries == {"words", "symbols", "nul"}
Descriptions == {"blank", "text", "nul"}
Draft == [name: Keys, description: Descriptions, steps: Seq(DraftStep)]

Envelope == [pipeline: Draft \cup {Null}, pipelineDraft: Draft \cup {Null}, inline: Draft,
             confidence: Int]
ASSUME EnvelopesAssumption == Envelopes \subseteq Envelope

Faults == {"nlp_unavailable", "invalid_nlp_response"}
Reasons == Faults \cup {"interpreter_not_configured", "low_confidence", "invalid_pipeline"}
Response == [mode: {"none", "auto", "manual_fallback"}, reason: Reasons \cup {"none"},
             confidence: Int, draft: Draft]
NoResponse == [mode |-> "none", reason |-> "none", confidence |-> 0,
               draft |-> [name |-> EmptyKey, description |-> "blank", steps |-> <<>>]]

TypeOK ==
  /\ threshold \in Thresholds
  /\ query \in Queries
  /\ stage \in {"idle", "asking", "refused", "answered", "posted"}
  /\ reply \in Envelope \cup {Null}
  /\ answer \in Response
  /\ created \in {0, 201, 400, 500}

Init ==
  /\ threshold \in Thresholds
  /\ query \in Queries
  /\ stage = "idle" /\ reply = Null /\ answer = NoResponse /\ created = 0

--------------------------------------------------------------------------------
(* Drafts.                                                                    *)

\* To the graph builder, a nil depends_on is an empty one.
Dependencies(step) == IF step.dependsOn = Null THEN <<>> ELSE step.dependsOn
Graph(steps) ==
  [i \in DOMAIN steps |-> [key |-> steps[i].key, dependsOn |-> Dependencies(steps[i])]]

TrimType(type) == IF type = "padded" THEN "supported" ELSE type

\* The draft of the envelope that counts.
Pipeline(e) ==
  CASE e.pipeline # Null -> e.pipeline
    [] e.pipeline = Null /\ e.pipelineDraft # Null -> e.pipelineDraft
    [] OTHER -> e.inline

SlugFromQuery == IF query = "symbols" THEN "generated-pipeline" ELSE Slug

\* The query as the description of a pipeline.
QueryText == IF query = "nul" THEN "nul" ELSE "text"

\* Keys and types lose their white space, depends_on keeps it.
NormalizeDraft(draft) ==
  [name  |-> IF Trim[draft.name] = EmptyKey THEN SlugFromQuery ELSE Trim[draft.name],
   description |-> IF draft.description = "blank" THEN QueryText ELSE draft.description,
   steps |-> [i \in DOMAIN draft.steps |->
                [draft.steps[i] EXCEPT !.key = Trim[@], !.type = TrimType(@)]]]

\* Mutant: the draft is checked as the service has written it.
ValidBeforeTrimming(draft) ==
  LET raw == Pipeline(reply').steps IN
  /\ raw # <<>>
  /\ \A i \in DOMAIN raw : TrimType(raw[i].type) = "supported"
  /\ Accepts(Graph(raw))

ValidateDraft(draft) ==
  /\ Trim[draft.name] # EmptyKey
  /\ draft.steps # <<>>
  /\ \A i \in DOMAIN draft.steps :
       Trim[draft.steps[i].key] # EmptyKey /\ TrimType(draft.steps[i].type) = "supported"
  /\ Accepts(Graph(draft.steps))

FallbackStep(key, deps) == [key |-> key, type |-> "supported", dependsOn |-> deps]
FallbackDraft ==
  [name  |-> SlugFromQuery,
   description |-> QueryText,
   steps |-> <<FallbackStep("extract_source", <<>>),
               FallbackStep("transform_data", <<"extract_source">>),
               FallbackStep("load_output", <<"transform_data">>)>>]

--------------------------------------------------------------------------------
(* InterpretRequest.                                                          *)

\* Mutant: any threshold is taken as it is.
MinConfidenceUnchecked == threshold

\* A NaN fails both comparisons and is returned.
MinConfidence ==
  IF threshold # NaN /\ (threshold <= 0 \/ threshold > One) THEN Default ELSE threshold

\* result.Confidence < minConfidence: never true of a NaN.
LowConfidence(confidence) == MinConfidence # NaN /\ confidence < MinConfidence

InterpretRequest ==
  /\ stage = "idle"
  /\ stage' = "asking"
  /\ UNCHANGED <<threshold, query, reply, answer, created>>

\* The body cannot be decoded, or its query is blank.
RefuseRequest ==
  /\ stage = "idle"
  /\ stage' = "refused"
  /\ UNCHANGED <<threshold, query, reply, answer, created>>

\* Mutant: the draft of the service is returned for the user to repair.
RespondWithItsDraft(reason, confidence) ==
  /\ answer' = [mode |-> "manual_fallback", reason |-> reason, confidence |-> confidence,
                draft |-> IF reply' = Null THEN FallbackDraft ELSE NormalizeDraft(Pipeline(reply'))]
  /\ stage' = "answered"
  /\ UNCHANGED <<threshold, query, created>>

RespondManualFallback(reason, confidence) ==
  /\ answer' = [mode |-> "manual_fallback", reason |-> reason, confidence |-> confidence,
                draft |-> FallbackDraft]
  /\ stage' = "answered"
  /\ UNCHANGED <<threshold, query, created>>

\* The handler has no Interpreter; the one that the router makes always has.
InterpretUnconfigured ==
  /\ stage = "idle"
  /\ reply' = Null
  /\ RespondManualFallback("interpreter_not_configured", 0)

\* The service has no address, does not answer in time, or answers with an error
\* or with what is no envelope; or the Interpreter returns nil and no error, which
\* HTTPClient never does.
ServiceFails(reason) ==
  /\ stage = "asking"
  /\ reply' = Null
  /\ RespondManualFallback(reason, 0)

\* The service answers with e.
RejectUnsure(e) ==
  /\ LowConfidence(e.confidence)
  /\ RespondManualFallback("low_confidence", e.confidence)

RejectInvalid(e) ==
  /\ ~ LowConfidence(e.confidence)
  /\ ~ ValidateDraft(NormalizeDraft(Pipeline(e)))
  /\ RespondManualFallback("invalid_pipeline", e.confidence)

RespondAuto(e) ==
  /\ ~ LowConfidence(e.confidence)
  /\ ValidateDraft(NormalizeDraft(Pipeline(e)))
  /\ answer' = [mode |-> "auto", reason |-> "none", confidence |-> e.confidence,
                draft |-> NormalizeDraft(Pipeline(e))]
  /\ stage' = "answered"
  /\ UNCHANGED <<threshold, query, created>>

ServiceAnswers(e) ==
  /\ stage = "asking"
  /\ reply' = e
  /\ RejectUnsure(e) \/ RejectInvalid(e) \/ RespondAuto(e)

--------------------------------------------------------------------------------
(* The client posts the draft as it is: CreatePipeline and PipelineStore.     *)

NullDependencies(draft) == \E i \in DOMAIN draft.steps : draft.steps[i].dependsOn = Null

\* pq.Array writes a nil slice as NULL, into a column that is NOT NULL; a TEXT has
\* no U+0000.
StatusCode(draft) ==
  IF draft.name = EmptyKey \/ ~ Accepts(Graph(draft.steps)) THEN 400
  ELSE IF NullDependencies(draft) \/ draft.description = "nul" THEN 500
  ELSE 201

CreatePipeline ==
  /\ stage = "answered"
  /\ created' = StatusCode(answer.draft)
  /\ stage' = "posted"
  /\ UNCHANGED <<threshold, query, reply, answer>>

Next ==
  \/ InterpretRequest \/ RefuseRequest \/ InterpretUnconfigured
  \/ \E reason \in Faults : ServiceFails(reason)
  \/ \E e \in Envelopes : ServiceAnswers(e)
  \/ CreatePipeline

Spec == Init /\ [][Next]_vars

--------------------------------------------------------------------------------
(* Properties.                                                                *)

(* What a client is told to be a pipeline is one: it has a name and a graph   *)
(* that CreatePipeline does not refuse, steps to run, and types as the worker *)
(* spells them, whatever white space and nonsense the service has sent.       *)
AnswerIsSound ==
  /\ created # 400
  /\ stage \in {"answered", "posted"} =>
       /\ answer.draft.steps # <<>>
       /\ \A i \in DOMAIN answer.draft.steps : answer.draft.steps[i].type = "supported"

(* The fallback can be created whatever has gone wrong, unless the query that *)
(* describes it cannot be stored, and nothing of what the service said is in  *)
(* it.                                                                        *)
FallbackIsSafe ==
  answer.mode = "manual_fallback" =>
    /\ created \in {0, IF query = "nul" THEN 500 ELSE 201}
    /\ \A i \in DOMAIN answer.draft.steps : answer.draft.steps[i].key \in FallbackKeys

\* What the configuration asks for: its threshold if that is in (0, 1], else the
\* default.
Required == IF threshold \in 1 .. One THEN threshold ELSE Default
Unsure == answer.confidence < Required /\ threshold # NaN

(* The gate of auto mode is exact.  A draft is returned as auto, or examined  *)
(* and found invalid, only if the service was as confident as required, and   *)
(* low_confidence is only said of one that was not; the threshold NaN, and it *)
(* alone, has no gate at all.                                                 *)
AutoIsGated ==
  /\ answer.mode = "auto" \/ answer.reason = "invalid_pipeline" => ~ Unsure
  /\ answer.reason = "low_confidence" => Unsure

(* Auto mode is gated by confidence: no draft that the service has none in is *)
(* returned as auto, whatever is configured.                                  *)
AutoTakesConfidence == answer.mode = "auto" => answer.confidence > 0

(* The validated draft of an auto answer can be created, if its description   *)
(* can be stored.                                                             *)
AutoDraftIsCreatable ==
  answer.mode = "auto" /\ answer.draft.description # "nul" => created \in {0, 201}
================================================================================

--------------------------- MODULE InterpreterProofs ---------------------------
(******************************************************************************)
(* Proofs about Interpreter: what POST /interpret answers, whatever the NLP   *)
(* service says and whatever the threshold is configured to be.               *)
(******************************************************************************)
EXTENDS Interpreter, TLAPS

(* What has been checked of a draft by the time it is returned.               *)
DraftFits(draft) ==
  /\ draft \in Draft
  /\ draft.name # EmptyKey
  /\ draft.steps # <<>>
  /\ Accepts(Graph(draft.steps))
  /\ \A i \in DOMAIN draft.steps : draft.steps[i].type = "supported"

(* The answer by its mode.                                                    *)
AnswerFits ==
  /\ DraftFits(answer.draft)
  /\ answer.mode = "manual_fallback" => answer.draft = FallbackDraft
  /\ answer.mode = "auto" => answer.reason = "none"
  /\ answer.reason \in {"none", "invalid_pipeline"} => ~ LowConfidence(answer.confidence)
  /\ answer.reason = "low_confidence" => LowConfidence(answer.confidence)

(* There is an answer once the service has replied or failed, and what has    *)
(* been created is what CreatePipeline makes of its draft.                    *)
InterpreterInv ==
  /\ TypeOK
  /\ stage \in {"idle", "asking", "refused"} => answer = NoResponse /\ created = 0
  /\ stage \in {"answered", "posted"} => AnswerFits /\ created \in {0, StatusCode(answer.draft)}

--------------------------------------------------------------------------------
(* Drafts.                                                                    *)

LEMMA SlugIsAName == SlugFromQuery \in Keys /\ SlugFromQuery # EmptyKey
BY TextAssumption DEF SlugFromQuery

LEMMA FallbackSteps ==
  LET st == FallbackDraft.steps IN
  /\ FallbackDraft.name = SlugFromQuery
  /\ DOMAIN st = 1 .. 3
  /\ st[1] = FallbackStep("extract_source", <<>>)
  /\ st[2] = FallbackStep("transform_data", <<"extract_source">>)
  /\ st[3] = FallbackStep("load_output", <<"transform_data">>)
BY DEF FallbackDraft

LEMMA QueryIsText == QueryText \in Descriptions /\ QueryText # "blank"
BY DEF QueryText, Descriptions

LEMMA FallbackIsADraft == FallbackDraft \in Draft /\ FallbackDraft.steps # <<>>
<1>1. \A k \in FallbackKeys : k \in Keys
  BY TextAssumption
<1>2. /\ FallbackStep("extract_source", <<>>) \in DraftStep
      /\ FallbackStep("transform_data", <<"extract_source">>) \in DraftStep
      /\ FallbackStep("load_output", <<"transform_data">>) \in DraftStep
  BY <1>1 DEF FallbackStep, DraftStep, Types, FallbackKeys
<1> QED BY <1>2, SlugIsAName, QueryIsText DEF FallbackDraft, Draft

LEMMA OneDependency == ASSUME NEW k \in FallbackKeys PROVE <<k>> # Null
<1>1. k \in Keys
  BY TextAssumption
<1>2. <<k>> \in Seq(Keys)
  BY <1>1
<1> QED BY <1>2, NullAssumption

LEMMA NoDependency == <<>> # Null
<1>1. <<>> \in Seq(Keys)
  OBVIOUS
<1> QED BY <1>1, NullAssumption

(* The keys and the dependencies of the fallback, as the graph builder sees   *)
(* them.                                                                      *)
LEMMA FallbackGraph ==
  LET g == Graph(FallbackDraft.steps) IN
  /\ KeysOf(g) = FallbackKeys
  /\ UniqueKeys(g)
  /\ DependsOn(g, "extract_source") = {}
  /\ DependsOn(g, "transform_data") = {"extract_source"}
  /\ DependsOn(g, "load_output") = {"transform_data"}
<1> DEFINE g == Graph(FallbackDraft.steps)
<1>1. Null \notin {<<"extract_source">>, <<"transform_data">>}
  <2>1. "extract_source" \in FallbackKeys /\ "transform_data" \in FallbackKeys
    BY DEF FallbackKeys
  <2>2. <<"extract_source">> # Null /\ <<"transform_data">> # Null
    BY <2>1, OneDependency
  <2> QED BY <2>2
<1>2. /\ DOMAIN g = 1 .. 3
      /\ g[1] = [key |-> "extract_source", dependsOn |-> <<>>]
      /\ g[2] = [key |-> "transform_data", dependsOn |-> <<"extract_source">>]
      /\ g[3] = [key |-> "load_output", dependsOn |-> <<"transform_data">>]
  BY <1>1, FallbackSteps DEF Graph, Dependencies, FallbackStep
<1> HIDE DEF g
<1>3. KeysOf(g) = FallbackKeys
  BY <1>2 DEF KeysOf, FallbackKeys
<1>4. UniqueKeys(g)
  BY <1>2 DEF UniqueKeys
<1>5. "extract_source" \in Keys /\ "transform_data" \in Keys
  BY TextAssumption DEF FallbackKeys
<1>6. DependsOn(g, "extract_source") = {}
  BY <1>2 DEF DependsOn
<1>7. DependsOn(g, "transform_data") = {"extract_source"}
  BY <1>2, <1>5 DEF DependsOn
<1>8. DependsOn(g, "load_output") = {"transform_data"}
  BY <1>2, <1>5 DEF DependsOn
<1> QED BY <1>3, <1>4, <1>6, <1>7, <1>8 DEF g

LEMMA FallbackIsAccepted == Accepts(Graph(FallbackDraft.steps))
<1> DEFINE g == Graph(FallbackDraft.steps)
<1>1. /\ KeysOf(g) = FallbackKeys
      /\ UniqueKeys(g)
      /\ DependsOn(g, "extract_source") = {}
      /\ DependsOn(g, "transform_data") = {"extract_source"}
      /\ DependsOn(g, "load_output") = {"transform_data"}
  BY FallbackGraph
<1> HIDE DEF g
<1>2. EmptyKey \notin KeysOf(g)
  BY <1>1, TextAssumption
<1>3. KnownDependencies(g)
  BY <1>1 DEF KnownDependencies, FallbackKeys
<1>4. ASSUME NEW S \in SUBSET KeysOf(g), S # {}
      PROVE  \E k \in S : DependsOn(g, k) \cap S = {}
  <2>1. CASE "extract_source" \in S
    BY <2>1, <1>1
  <2>2. CASE "extract_source" \notin S /\ "transform_data" \in S
    BY <2>2, <1>1
  <2>3. CASE "extract_source" \notin S /\ "transform_data" \notin S
    <3>1. "load_output" \in S
      BY <2>3, <1>1, <1>4 DEF FallbackKeys
    <3> QED BY <3>1, <2>3, <1>1
  <2> QED BY <2>1, <2>2, <2>3
<1> QED BY <1>1, <1>2, <1>3, <1>4 DEF Accepts, Acyclic, g

LEMMA FallbackFits == DraftFits(FallbackDraft)
<1>1. \A i \in DOMAIN FallbackDraft.steps : FallbackDraft.steps[i].type = "supported"
  BY FallbackSteps DEF FallbackStep
<1>2. FallbackDraft.name # EmptyKey
  BY FallbackSteps, SlugIsAName
<1> QED BY <1>1, <1>2, FallbackIsADraft, FallbackIsAccepted DEF DraftFits

LEMMA FallbackIsCreated ==
  StatusCode(FallbackDraft) = IF query = "nul" THEN 500 ELSE 201
<1>1. "extract_source" \in FallbackKeys /\ "transform_data" \in FallbackKeys
  BY DEF FallbackKeys
<1>2. <<>> # Null /\ <<"extract_source">> # Null /\ <<"transform_data">> # Null
  BY <1>1, NoDependency, OneDependency
<1>3. ~ NullDependencies(FallbackDraft)
  BY <1>2, FallbackSteps DEF NullDependencies, FallbackStep
<1>4. FallbackDraft.description = IF query = "nul" THEN "nul" ELSE "text"
  BY DEF FallbackDraft, QueryText
<1> QED BY <1>3, <1>4, FallbackFits DEF DraftFits, StatusCode

(* Of the three places of an envelope, one has the draft.                     *)
LEMMA PipelineIsADraft ==
  ASSUME NEW e \in Envelopes
  PROVE  Pipeline(e) \in Draft
BY EnvelopesAssumption DEF Envelope, Pipeline

LEMMA NormalizedIsADraft ==
  ASSUME NEW draft \in Draft
  PROVE  /\ NormalizeDraft(draft) \in Draft
         /\ NormalizeDraft(draft).name # EmptyKey
         /\ \A i \in DOMAIN NormalizeDraft(draft).steps :
              NormalizeDraft(draft).steps[i].type # "padded"
<1> DEFINE norm == [i \in DOMAIN draft.steps |->
                      [draft.steps[i] EXCEPT !.key = Trim[@], !.type = TrimType(@)]]
<1>1. draft.steps \in Seq(DraftStep) /\ draft.name \in Keys
  BY DEF Draft
<1>2. ASSUME NEW i \in DOMAIN draft.steps
      PROVE  norm[i] \in DraftStep /\ norm[i].type # "padded"
  <2>1. draft.steps[i] \in DraftStep
    BY <1>1
  <2> QED BY <2>1, TextAssumption DEF DraftStep, TrimType, Types
<1>3. norm \in Seq(DraftStep)
  <2>1. PICK n \in Nat : DOMAIN draft.steps = 1 .. n
    BY <1>1
  <2>2. norm \in [1 .. n -> DraftStep]
    BY <1>2, <2>1
  <2> HIDE DEF norm
  <2> QED BY <2>2
<1>4. NormalizeDraft(draft).steps = norm
  BY DEF NormalizeDraft
<1>5. NormalizeDraft(draft).name \in Keys /\ NormalizeDraft(draft).name # EmptyKey
  BY <1>1, SlugIsAName, TextAssumption DEF NormalizeDraft
<1>6. /\ NormalizeDraft(draft) = [name |-> NormalizeDraft(draft).name,
                                 description |-> NormalizeDraft(draft).description,
                                 steps |-> norm]
      /\ NormalizeDraft(draft).description \in Descriptions
  <2>1. draft.description \in Descriptions
    BY DEF Draft
  <2> QED BY <2>1, QueryIsText DEF NormalizeDraft
<1> HIDE DEF norm
<1>7. NormalizeDraft(draft) \in Draft
  BY <1>3, <1>5, <1>6 DEF Draft
<1> QED
  BY <1>2, <1>3, <1>4, <1>5, <1>7 DEF norm

(* A draft that passes validation after it was normalized is as good as the   *)
(* fallback, except for its null dependencies.                                *)
LEMMA ValidatedFits ==
  ASSUME NEW draft \in Draft, ValidateDraft(NormalizeDraft(draft))
  PROVE  DraftFits(NormalizeDraft(draft))
<1> DEFINE norm == NormalizeDraft(draft)
<1>1. /\ norm \in Draft /\ norm.name # EmptyKey
      /\ \A i \in DOMAIN norm.steps : norm.steps[i].type # "padded"
  BY NormalizedIsADraft
<1>2. /\ norm.steps # <<>>
      /\ \A i \in DOMAIN norm.steps : TrimType(norm.steps[i].type) = "supported"
      /\ Accepts(Graph(norm.steps))
  BY DEF ValidateDraft
<1> HIDE DEF norm
<1>3. \A i \in DOMAIN norm.steps : norm.steps[i].type = "supported"
  BY <1>1, <1>2 DEF TrimType
<1> QED BY <1>1, <1>2, <1>3 DEF DraftFits, norm

--------------------------------------------------------------------------------
(* The invariant.                                                             *)

LEMMA InterpreterInit == Init => InterpreterInv
<1> SUFFICES ASSUME Init PROVE InterpreterInv
  OBVIOUS
<1>1. NoResponse \in Response
  BY KeysAssumption DEF NoResponse, Response, Draft, Descriptions
<1> QED BY <1>1 DEF Init, InterpreterInv, TypeOK

\* The fallback, whatever its reason.
LEMMA FallbackKeeps ==
  ASSUME InterpreterInv, stage \in {"idle", "asking"}, reply' \in Envelope \cup {Null},
         NEW reason \in Reasons, NEW confidence \in Int,
         RespondManualFallback(reason, confidence),
         reason = "invalid_pipeline" => ~ LowConfidence(confidence),
         reason = "low_confidence" => LowConfidence(confidence)
  PROVE  InterpreterInv'
<1>1. /\ answer' = [mode |-> "manual_fallback", reason |-> reason, confidence |-> confidence,
                    draft |-> FallbackDraft]
      /\ stage' = "answered" /\ UNCHANGED <<threshold, query, created>>
  BY DEF RespondManualFallback
<1>2. FallbackDraft' = FallbackDraft
  BY <1>1 DEF FallbackDraft, SlugFromQuery, QueryText
<1>3. answer' \in Response
  BY <1>1, FallbackIsADraft DEF Response
<1>4. DraftFits(answer.draft)'
  BY <1>1, FallbackFits DEF DraftFits
<1>8. LowConfidence(answer.confidence)' = LowConfidence(confidence)
  BY <1>1 DEF LowConfidence, MinConfidence
<1>9. reason # "none"
  BY DEF Reasons, Faults
<1>5. AnswerFits'
  BY <1>1, <1>2, <1>4, <1>8, <1>9 DEF AnswerFits
<1>6. TypeOK'
  BY <1>1, <1>3 DEF InterpreterInv, TypeOK
<1> QED BY <1>1, <1>5, <1>6 DEF InterpreterInv

LEMMA AutoKeeps ==
  ASSUME InterpreterInv, stage = "asking", NEW e \in Envelopes, reply' = e, RespondAuto(e)
  PROVE  InterpreterInv'
<1> DEFINE draft == NormalizeDraft(Pipeline(e))
<1>1. /\ answer' = [mode |-> "auto", reason |-> "none", confidence |-> e.confidence,
                    draft |-> draft]
      /\ stage' = "answered" /\ UNCHANGED <<threshold, query, created>>
      /\ ~ LowConfidence(e.confidence)
  BY DEF RespondAuto
<1>2. DraftFits(draft)
  BY PipelineIsADraft, ValidatedFits DEF RespondAuto
<1> HIDE DEF draft
<1>3. e \in Envelope /\ e.confidence \in Int
  BY EnvelopesAssumption DEF Envelope
<1>4. answer' \in Response
  BY <1>1, <1>2, <1>3 DEF Response, DraftFits
<1>5. DraftFits(answer.draft)'
  BY <1>1, <1>2 DEF DraftFits
<1>6. ~ LowConfidence(answer.confidence)'
  BY <1>1 DEF LowConfidence, MinConfidence
<1>7. AnswerFits'
  BY <1>1, <1>5, <1>6 DEF AnswerFits
<1>8. TypeOK'
  BY <1>1, <1>3, <1>4 DEF InterpreterInv, TypeOK
<1> QED BY <1>1, <1>7, <1>8 DEF InterpreterInv

LEMMA AnswerKeeps ==
  ASSUME InterpreterInv, NEW e \in Envelopes, ServiceAnswers(e)
  PROVE  InterpreterInv'
<1>1. stage = "asking" /\ reply' = e /\ e \in Envelope /\ e.confidence \in Int
  BY EnvelopesAssumption DEF ServiceAnswers, Envelope
<1>2. CASE RejectUnsure(e)
  BY <1>1, <1>2, FallbackKeeps DEF RejectUnsure, Reasons, Faults
<1>3. CASE RejectInvalid(e)
  BY <1>1, <1>3, FallbackKeeps DEF RejectInvalid, Reasons, Faults
<1>4. CASE RespondAuto(e)
  BY <1>1, <1>4, AutoKeeps
<1> QED BY <1>2, <1>3, <1>4 DEF ServiceAnswers

LEMMA PostKeeps ==
  ASSUME InterpreterInv, CreatePipeline
  PROVE  InterpreterInv'
<1>1. /\ stage = "answered" /\ stage' = "posted" /\ created' = StatusCode(answer.draft)
      /\ UNCHANGED <<threshold, query, reply, answer>>
  BY DEF CreatePipeline
<1>2. StatusCode(answer.draft) \in {201, 400, 500}
  BY DEF StatusCode
<1>3. AnswerFits'
  BY <1>1 DEF InterpreterInv, AnswerFits, DraftFits, FallbackDraft, SlugFromQuery, QueryText,
              LowConfidence, MinConfidence
<1>4. StatusCode(answer.draft)' = StatusCode(answer.draft)
  BY <1>1
<1> QED BY <1>1, <1>2, <1>3, <1>4 DEF InterpreterInv, TypeOK

LEMMA InterpreterStep == InterpreterInv /\ [Next]_vars => InterpreterInv'
<1> SUFFICES ASSUME InterpreterInv, [Next]_vars PROVE InterpreterInv'
  OBVIOUS
<1>1. CASE InterpretRequest \/ RefuseRequest
  BY <1>1 DEF InterpretRequest, RefuseRequest, InterpreterInv, TypeOK
<1>6. CASE InterpretUnconfigured
  BY <1>6, FallbackKeeps DEF InterpretUnconfigured, Reasons, Faults
<1>2. CASE \E reason \in Faults : ServiceFails(reason)
  <2>1. PICK reason \in Faults : ServiceFails(reason)
    BY <1>2
  <2>2. reason \in Reasons /\ reason \notin {"low_confidence", "invalid_pipeline"}
    BY DEF Reasons, Faults
  <2> QED BY <2>1, <2>2, FallbackKeeps DEF ServiceFails
<1>3. CASE \E e \in Envelopes : ServiceAnswers(e)
  BY <1>3, AnswerKeeps
<1>4. CASE CreatePipeline
  BY <1>4, PostKeeps
<1>5. CASE UNCHANGED vars
  BY <1>5 DEF vars, InterpreterInv, TypeOK, AnswerFits, DraftFits, FallbackDraft, SlugFromQuery,
              QueryText, LowConfidence, MinConfidence, StatusCode, NullDependencies
<1> QED BY <1>1, <1>2, <1>3, <1>4, <1>5, <1>6 DEF Next

(* What is answered has been checked, for any replies, thresholds and texts.  *)
THEOREM InterpreterConsistency == Spec => []InterpreterInv
BY InterpreterInit, InterpreterStep, PTL DEF Spec

(* The draft that a client is given is a pipeline: CreatePipeline never       *)
(* refuses it as malformed, and it has steps of supported types.              *)
THEOREM AnswersAreSound == Spec => []AnswerIsSound
<1>1. ASSUME InterpreterInv
      PROVE  AnswerIsSound
  <2>1. stage \in {"answered", "posted"} => StatusCode(answer.draft) # 400
    BY <1>1 DEF InterpreterInv, AnswerFits, DraftFits, StatusCode
  <2>2. created # 400
    BY <1>1, <2>1 DEF InterpreterInv, TypeOK
  <2> QED BY <1>1, <2>2 DEF AnswerIsSound, InterpreterInv, AnswerFits, DraftFits
<1> QED BY <1>1, InterpreterConsistency, PTL

(* Whatever the service did, the fallback can be created unless the query     *)
(* itself cannot be stored, and it has nothing of the reply.                  *)
THEOREM FallbacksAreSafe == Spec => []FallbackIsSafe
<1>1. ASSUME InterpreterInv
      PROVE  FallbackIsSafe
  <2> SUFFICES ASSUME answer.mode = "manual_fallback"
               PROVE  /\ created \in {0, IF query = "nul" THEN 500 ELSE 201}
                      /\ \A i \in DOMAIN answer.draft.steps :
                           answer.draft.steps[i].key \in FallbackKeys
    BY DEF FallbackIsSafe
  <2>1. stage \in {"answered", "posted"}
    BY <1>1 DEF InterpreterInv, TypeOK, NoResponse
  <2>2. answer.draft = FallbackDraft /\ created \in {0, StatusCode(answer.draft)}
    BY <1>1, <2>1 DEF InterpreterInv, AnswerFits
  <2>3. created \in {0, IF query = "nul" THEN 500 ELSE 201}
    BY <2>2, FallbackIsCreated
  <2>4. \A i \in DOMAIN FallbackDraft.steps : FallbackDraft.steps[i].key \in FallbackKeys
    BY FallbackSteps DEF FallbackStep, FallbackKeys
  <2> QED BY <2>2, <2>3, <2>4
<1> QED BY <1>1, InterpreterConsistency, PTL

(* The gate is exact for every threshold that can be configured: what is      *)
(* taken has the confidence required, what is called unsure has not, and only *)
(* NaN takes everything.                                                      *)
THEOREM AutoModeIsGated == Spec => []AutoIsGated
<1>1. ASSUME InterpreterInv, stage \in {"answered", "posted"}
      PROVE  LowConfidence(answer.confidence) <=> Unsure
  <2>1. answer.confidence \in Int /\ threshold \in Int \cup {NaN}
    BY <1>1, ConfidenceAssumption DEF InterpreterInv, TypeOK, Response
  <2>2. CASE threshold = NaN
    BY <2>2, ConfidenceAssumption DEF LowConfidence, MinConfidence, Unsure
  <2>3. CASE threshold # NaN
    <3>1. threshold \in Int /\ Required = MinConfidence
      BY <2>1, <2>3, ConfidenceAssumption DEF Required, MinConfidence
    <3>2. MinConfidence # NaN
      BY <2>3, ConfidenceAssumption DEF MinConfidence
    <3> QED BY <2>3, <3>1, <3>2 DEF LowConfidence, Unsure
  <2> QED BY <2>2, <2>3
<1>2. ASSUME InterpreterInv
      PROVE  AutoIsGated
  <2>1. CASE stage \in {"answered", "posted"}
    BY <1>1, <1>2, <2>1 DEF InterpreterInv, AnswerFits, AutoIsGated
  <2>2. CASE stage \notin {"answered", "posted"}
    <3>1. answer = NoResponse
      BY <1>2, <2>2 DEF InterpreterInv, TypeOK
    <3> QED BY <3>1 DEF NoResponse, AutoIsGated
  <2> QED BY <2>1, <2>2
<1> QED BY <1>2, InterpreterConsistency, PTL
================================================================================

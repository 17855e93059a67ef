--------------------------- MODULE LifecycleProofs ----------------------------
(******************************************************************************)
(* How the rows of a run evolve: that final statuses are final, that a step   *)
(* is only recorded as completed when it was executed, and that Scheduler     *)
(* implements RunLifecycle.  The last two need what the run retry_overflow    *)
(* shows to be necessary: no retry_count is beyond the range of int.          *)
(******************************************************************************)
EXTENDS SchedulerProofs

--------------------------------------------------------------------------------
(* What a step of a run does to the statuses.                                 *)

SameRows == UNCHANGED <<pipelines, steps, target, runStatus, stepStatus>>

RunMoves(r, from, to) ==
  /\ runStatus[r] = from
  /\ runStatus' = [runStatus EXCEPT ![r] = to]
  /\ UNCHANGED <<pipelines, steps, target, stepStatus>>

StepMoves(r, from, to) ==
  /\ Present(r)
  /\ stepStatus[r][job[r].step] = from
  /\ stepStatus' = [stepStatus EXCEPT ![r][job[r].step] = to]
  /\ UNCHANGED <<pipelines, steps, target, runStatus>>

\* Every change of a status, with the place of the goroutine that makes it.
Effect(r) ==
  \/ SameRows
  \/ At(r, "insert") /\ ~ Present(r) /\ InsertRun(r, job[r].plan)
  \/ At(r, "start") /\ RunMoves(r, "pending", "running")
  \/ At(r, "attempt") /\ StepMoves(r, "pending", "running")
  \/ At(r, "complete") /\ StepMoves(r, "pending", "completed")
  \/ At(r, "complete") /\ StepMoves(r, "running", "completed")
  \/ At(r, "finish") /\ RunMoves(r, "running", "completed")
  \/ /\ pc[r] = "failing" /\ out[r] # <<>> /\ Head(out[r]).table = "pipeline_runs"
     /\ RunMoves(r, "running", "failed")
  \/ /\ pc[r] = "failing" /\ out[r] # <<>> /\ Head(out[r]).table = "step_runs"
     /\ StepMoves(r, "running", "failed")

\* An UPDATE changes nothing, or the status it finds to the one it sets.
LEMMA RunUpdateMoves ==
  ASSUME TypeOK, NEW r \in Runs, NEW status, UpdatePipelineRunStatus(r, status)
  PROVE  SameRows \/ (Present(r) /\ RunMoves(r, runStatus[r], status))
<1>1. runStatus \in [Runs -> RunStatuses \cup {"absent"}]
  BY DEF TypeOK, StoreTypeOK
<1>2. CASE runStatus[r] = "absent"
  BY <1>1, <1>2 DEF UpdatePipelineRunStatus, SameRows
<1>3. CASE runStatus[r] # "absent"
  BY <1>3 DEF UpdatePipelineRunStatus, RunMoves, Present
<1> QED BY <1>2, <1>3

LEMMA StepUpdateMoves ==
  ASSUME Inv, NEW r \in Runs, NEW status, UpdateStepRunStatus(r, job[r].step, status)
  PROVE  SameRows \/ StepMoves(r, stepStatus[r][job[r].step], status)
<1>1. /\ stepStatus \in [Runs -> [Keys -> RunStatuses \cup {"absent"}]]
      /\ job[r].step \in Keys /\ RowsExist(r)
  BY DEF Inv, TypeOK, StoreTypeOK, Job, RunInv
<1>2. CASE stepStatus[r][job[r].step] = "absent"
  <2>1. stepStatus' = [stepStatus EXCEPT ![r][job[r].step] = @]
    BY <1>1, <1>2 DEF UpdateStepRunStatus
  <2>2. stepStatus' = stepStatus
    BY <1>1, <2>1
  <2> QED BY <2>2 DEF UpdateStepRunStatus, SameRows
<1>3. CASE stepStatus[r][job[r].step] # "absent"
  <2>1. Present(r)
    BY <1>1, <1>3 DEF RowsExist, NoStepRuns
  <2> QED BY <1>1, <1>3, <2>1 DEF UpdateStepRunStatus, StepMoves
<1> QED BY <1>2, <1>3

\* A queued statement changes a status only to failed, and only of a run or a
\* step that has not ended.
LEMMA WriteEffect ==
  ASSUME Inv, NEW r \in Runs, Write(r)
  PROVE  Effect(r)
<1>0. TypeOK /\ RunInv(r) /\ out[r] # <<>> /\ job[r].step \in Keys
  BY DEF Inv, Write, TypeOK, Job
<1>1. Head(out[r]) \in EventInserts \cup Failures(r)
  <2>1. /\ out \in [Runs -> Seq(EventInserts \cup FailureUpdates)]
        /\ out[r] \in Seq(EventInserts \cup Failures(r))
    BY <1>0 DEF RunInv, WritesFit, TypeOK
  <2> QED BY <2>1, QueuedStatements
<1>2. Failures(r) \subseteq FailureUpdates
  BY <1>0 DEF Failures, FailureUpdates
<1>3. CASE UNCHANGED tables
  BY <1>3 DEF Effect, SameRows, tables
<1>4. CASE \E type \in EventTypes, k \in Keys : CreateRunEvent(r, type, k)
  BY <1>4 DEF Effect, SameRows, CreateRunEvent
<1>5. CASE /\ Head(out[r]) = RunUpdate("failed") /\ Head(out[r]) \in Failures(r)
           /\ UpdatePipelineRunStatus(r, "failed")
  <2>0. Head(out[r]).table = "pipeline_runs"
    BY <1>5 DEF RunUpdate
  <2>1. pc[r] = "failing" /\ runStatus[r] \in {"absent", "running", "failed"}
    BY <1>0, <1>5 DEF Failures, RunInv, StatusFits, Executing
  <2>2. SameRows \/ (Present(r) /\ RunMoves(r, runStatus[r], "failed"))
    BY <1>0, <1>5, RunUpdateMoves
  <2>3. RunMoves(r, "failed", "failed") => SameRows
    BY <1>0 DEF RunMoves, SameRows, TypeOK, StoreTypeOK
  <2> QED BY <1>0, <2>0, <2>1, <2>2, <2>3 DEF Effect, Present
<1>6. ASSUME NEW k \in Keys, Head(out[r]) = StepUpdate(k, "failed"), Head(out[r]) \in Failures(r),
             UpdateStepRunStatus(r, k, "failed")
      PROVE  Effect(r)
  <2>1. /\ pc[r] = "failing" /\ k = job[r].step /\ Head(out[r]).table = "step_runs"
        /\ stepStatus[r][job[r].step] \in {"absent", "running", "failed"}
    BY <1>6 DEF Failures, RunUpdate, StepUpdate
  <2>2. SameRows \/ StepMoves(r, stepStatus[r][job[r].step], "failed")
    BY <1>6, <2>1, StepUpdateMoves
  <2>3. StepMoves(r, "failed", "failed") => SameRows
    BY <1>0 DEF StepMoves, SameRows, TypeOK, StoreTypeOK
  <2>4. ~ StepMoves(r, "absent", "failed")
    BY <1>0, <2>1 DEF StepMoves, RunInv, StepRowsFit
  <2> QED BY <1>0, <2>1, <2>2, <2>3, <2>4 DEF Effect
<1>7. \/ UNCHANGED tables
      \/ \E type \in EventTypes, k \in Keys : CreateRunEvent(r, type, k)
      \/ Head(out[r]) = RunUpdate("failed") /\ UpdatePipelineRunStatus(r, "failed")
      \/ \E k \in Keys : /\ Head(out[r]) = StepUpdate(k, "failed")
                          /\ UpdateStepRunStatus(r, k, "failed")
  BY <1>1, <1>2, ExecuteCases DEF Write
<1>8. /\ RunUpdate("failed") \notin EventInserts
      /\ \A k \in Keys : StepUpdate(k, "failed") \notin EventInserts
  <2>1. \A e \in EventInserts : e.table = "pipeline_run_events"
    BY DEF EventInserts, EventInsert
  <2>2. /\ RunUpdate("failed").table = "pipeline_runs"
        /\ \A k \in Keys : StepUpdate(k, "failed").table = "step_runs"
    BY DEF RunUpdate, StepUpdate
  <2> QED BY <2>1, <2>2
<1> QED BY <1>1, <1>3, <1>4, <1>5, <1>6, <1>7, <1>8

\* The steps of RunPipeline and ExecuteRun change a status only as Effect says.
LEMMA RunStepEffect ==
  ASSUME Inv, NEW r \in Runs, FindPipeline(r) \/ RunStep(r)
  PROVE  Effect(r)
<1>0. TypeOK /\ RunInv(r)
  BY DEF Inv
<1>1. CASE UNCHANGED tables
  BY <1>1 DEF Effect, SameRows, tables
<1>2. CASE CreateRun(r) /\ InsertRun(r, job[r].plan)
  BY <1>0, <1>2 DEF CreateRun, At, RunInv, StatusFits, Effect
<1>3. CASE StartRun(r) /\ UpdatePipelineRunStatus(r, "running")
  <2>1. At(r, "start") /\ runStatus[r] \in {"absent", "pending"}
    BY <1>0, <1>3 DEF StartRun, At, RunInv, StatusFits
  <2> QED BY <1>0, <1>3, <2>1, RunUpdateMoves DEF Effect, Present
<1>4. CASE BeginAttempt(r) /\ UpdateStepRunStatus(r, job[r].step, "running")
  <2>1. At(r, "attempt") /\ (Present(r) => stepStatus[r][job[r].step] \in {"pending", "running"})
    BY <1>0, <1>4 DEF BeginAttempt, At, RunInv, StepRowsFit
  <2>2. SameRows \/ StepMoves(r, stepStatus[r][job[r].step], "running")
    BY <1>4, StepUpdateMoves
  <2>3. StepMoves(r, "running", "running") => SameRows
    BY <1>0 DEF StepMoves, SameRows, TypeOK, StoreTypeOK
  <2> QED BY <2>1, <2>2, <2>3 DEF Effect, StepMoves
<1>5. CASE CompleteStep(r) /\ UpdateStepRunStatus(r, job[r].step, "completed")
  <2>1. At(r, "complete") /\ (Present(r) => stepStatus[r][job[r].step] \in {"pending", "running"})
    BY <1>0, <1>5 DEF CompleteStep, At, RunInv, StepRowsFit
  <2>2. SameRows \/ StepMoves(r, stepStatus[r][job[r].step], "completed")
    BY <1>5, StepUpdateMoves
  <2> QED BY <2>1, <2>2 DEF Effect, StepMoves
<1>6. CASE FinishRun(r) /\ UpdatePipelineRunStatus(r, "completed")
  <2>1. At(r, "finish") /\ runStatus[r] \in {"absent", "running"}
    BY <1>0, <1>6 DEF FinishRun, At, RunInv, StatusFits, Executing
  <2> QED BY <1>0, <1>6, <2>1, RunUpdateMoves DEF Effect, Present
<1>7. CASE Write(r)
  BY <1>7, WriteEffect
<1> QED
  BY <1>1, <1>2, <1>3, <1>4, <1>5, <1>6, <1>7
  DEF RunStep, FindPipeline, ReadSteps, CreateRun, Spawn, Load, LoadSteps, StartRun, Schedule,
      Pick, BeginAttempt, ExecuteSucceeds, ExecuteFails, CompleteStep, FinishRun, ErrorOf

\* The steps that are not a run's: a creation and a crash change no status, a
\* deletion removes rows.
LEMMA CreatePipelineEffect ==
  ASSUME NEW p \in Pipelines, CreatePipeline(p)
  PROVE  UNCHANGED <<target, runStatus, stepStatus>>
BY DEF CreatePipeline, InsertPipeline

LEMMA DeletePipelineEffect ==
  ASSUME NEW p \in Pipelines, NEW r \in Runs, DeletePipeline(p)
  PROVE  /\ runStatus'[r] = IF target[r] = p THEN "absent" ELSE runStatus[r]
         /\ stepStatus'[r] = IF target[r] = p THEN NoStepRuns ELSE stepStatus[r]
BY DEF DeletePipeline, RemovePipeline

--------------------------------------------------------------------------------
(* Finality.                                                                  *)

\* TerminalIsFinal, for one step and one run.
FinalFor(r) ==
  /\ runStatus[r] \in Terminal => runStatus'[r] \in {runStatus[r], "absent"}
  /\ \A k \in Keys : stepStatus[r][k] \in Terminal =>
       stepStatus'[r][k] \in {stepStatus[r][k], "absent"}

LEMMA UnchangedIsFinal ==
  ASSUME NEW r \in Runs, runStatus'[r] = runStatus[r], stepStatus'[r] = stepStatus[r]
  PROVE  FinalFor(r)
BY DEF FinalFor

LEMMA EffectIsFinal ==
  ASSUME Inv, NEW r \in Runs, Effect(r)
  PROVE  FinalFor(r)
<1>0. /\ runStatus \in [Runs -> RunStatuses \cup {"absent"}]
      /\ stepStatus \in [Runs -> [Keys -> RunStatuses \cup {"absent"}]]
      /\ job[r].step \in Keys /\ RowsExist(r)
  BY DEF Inv, TypeOK, StoreTypeOK, Job, RunInv
<1>1. CASE SameRows
  BY <1>1, UnchangedIsFinal DEF SameRows
<1>2. CASE ~ Present(r) /\ InsertRun(r, job[r].plan)
  <2>1. runStatus[r] \notin Terminal /\ \A k \in Keys : stepStatus[r][k] \notin Terminal
    BY <1>0, <1>2 DEF Present, RowsExist, NoStepRuns, Terminal
  <2> QED BY <2>1 DEF FinalFor
<1>3. ASSUME NEW from \in {"pending", "running"}, NEW to, RunMoves(r, from, to)
      PROVE  FinalFor(r)
  BY <1>3 DEF RunMoves, FinalFor, Terminal
<1>4. ASSUME NEW from \in {"pending", "running"}, NEW to, StepMoves(r, from, to)
      PROVE  FinalFor(r)
  <2>1. \A k \in Keys : k # job[r].step => stepStatus'[r][k] = stepStatus[r][k]
    BY <1>0, <1>4 DEF StepMoves
  <2> QED BY <1>4, <2>1 DEF StepMoves, FinalFor, Terminal
<1> QED BY <1>1, <1>2, <1>3, <1>4 DEF Effect

LEMMA StepIsFinal ==
  ASSUME Inv, [Next]_vars, NEW r \in Runs
  PROVE  FinalFor(r)
<1>1. ASSUME NEW p \in Pipelines, CreatePipeline(p)
      PROVE  FinalFor(r)
  BY <1>1, CreatePipelineEffect, UnchangedIsFinal
<1>2. ASSUME NEW p \in Pipelines, DeletePipeline(p)
      PROVE  FinalFor(r)
  BY <1>2, DeletePipelineEffect DEF FinalFor, NoStepRuns
<1>3. ASSUME NEW s \in Runs, FindPipeline(s) \/ RunStep(s)
      PROVE  FinalFor(r)
  <2>1. CASE s = r
    BY <1>3, <2>1, RunStepEffect, EffectIsFinal
  <2>2. CASE s # r
    <3>1. Untouched(r)
      BY <1>3, <2>2, RunStepIsLocal, LocalFrame DEF Inv
    <3> QED BY <3>1, UnchangedIsFinal DEF Untouched
  <2> QED BY <2>1, <2>2
<1>4. CASE Crash
  BY <1>4, UnchangedIsFinal DEF Crash, tables
<1>5. CASE UNCHANGED vars
  BY <1>5, UnchangedIsFinal DEF vars, tables
<1> QED BY <1>1, <1>2, <1>3, <1>4, <1>5 DEF Next

(* A completed or failed run, and a completed or failed step, stays what it   *)
(* is until its pipeline is deleted: no late write of a failure path and no   *)
(* other run undoes what UpdatePipelineRunStatus has recorded.                *)
THEOREM FinalityHolds == Spec => TerminalIsFinal
<1>1. Inv /\ [Next]_vars => [\A r \in Runs : FinalFor(r)]_vars
  BY StepIsFinal
<1>2. Spec => [][\A r \in Runs : FinalFor(r)]_vars
  BY <1>1, Consistency, PTL DEF Spec
<1> QED BY <1>2 DEF TerminalIsFinal, FinalFor

--------------------------------------------------------------------------------
(* The preservation of ProgressInv.                                           *)

\* A retry_count within the range of int is a natural number of retries.
LEMMA RetriesAreNatural ==
  ASSUME CountsWithinInt, NEW sq \in Definitions, NEW k \in KeysOf(sq)
  PROVE  MaxRetriesForStep(RetryCount(sq, k)) \subseteq Nat
<1>1. sq \in Seq(Step)
  BY DefinitionsAssumption
<1>2. StepOrder(sq, k) \in DOMAIN sq
  BY DEF KeysOf, StepOrder
<1>3. /\ RetryCount(sq, k) \in Int \cup {NotANumber}
      /\ RetryCount(sq, k) \in Int => RetryCount(sq, k) <= MaxInt
  <2>1. sq[StepOrder(sq, k)] \in Step
    BY <1>1, <1>2
  <2>2. RetryCount(sq, k) \in Int \cup {NotANumber}
    BY <2>1 DEF RetryCount, Step
  <2> QED BY <1>2, <2>2 DEF RetryCount, CountsWithinInt
<1> QED BY <1>3, MaxIntAssumption DEF MaxRetriesForStep

LEMMA ExecutedGrows ==
  ASSUME TypeOK, NEW r \in Runs, RunStep(r) \/ FindPipeline(r)
  PROVE  executed[r] \subseteq executed'[r]
<1>1. CASE UNCHANGED executed
  BY <1>1
<1>2. CASE ExecuteSucceeds(r)
  BY <1>2 DEF ExecuteSucceeds, TypeOK
<1> QED
  BY <1>1, <1>2
  DEF RunStep, FindPipeline, ReadSteps, CreateRun, Spawn, Load, LoadSteps, StartRun, Schedule,
      Pick, BeginAttempt, ExecuteFails, CompleteStep, FinishRun, Write

\* A run that is there executes one of the definitions.
LEMMA PlanIsDefinition ==
  ASSUME Inv, ProgressInv, NEW r \in Runs, Present(r), pc[r] \in Executing,
         KeysOf(job[r].plan) # {}
  PROVE  job[r].plan \in Definitions
<1>1. job[r].plan = steps[target[r]] /\ target[r] \in Pipelines
  BY DEF Inv, TypeOK, StoreTypeOK, RunInv, RowsExist, PlanFits
<1>2. job[r].plan # <<>>
  BY DEF KeysOf
<1> QED BY <1>1, <1>2 DEF ProgressInv

\* Where ExecuteRun records a completion the step was executed.
LEMMA CompletionPlace ==
  ASSUME Inv, ProgressInv, CountsWithinInt, NEW r \in Runs, FindPipeline(r) \/ RunStep(r),
         pc'[r] = "complete", Present(r)'
  PROVE  stepStatus'[r][job'[r].step] = "running" /\ job'[r].step \in executed'[r]
<1>0. TypeOK /\ RunInv(r) /\ ExecutionFits(r)
  BY DEF Inv, ProgressInv
<1>1. CASE Pick(r)
  <2>1. Present(r) /\ pc[r] = "pick" /\ pc[r] \in Executing
    BY <1>1 DEF Pick, At, Present, tables, Executing
  <2>2. PICK k \in job[r].batch :
          \E retries \in MaxRetriesForStep(RetryCount(job[r].plan, k)) :
            Goto(r, IF 0 <= retries THEN "attempt" ELSE "complete")
    BY <1>1 DEF Pick
  <2>3. k \in KeysOf(job[r].plan)
    BY <1>0, <2>1 DEF RunInv, LoopsFit
  <2>4. job[r].plan \in Definitions
    BY <2>1, <2>3, PlanIsDefinition
  <2>5. \A retries \in MaxRetriesForStep(RetryCount(job[r].plan, k)) : 0 <= retries
    BY <2>3, <2>4, RetriesAreNatural
  <2>6. pc'[r] = "attempt"
    BY <1>0, <2>2, <2>5 DEF TypeOK, Goto
  <2> QED BY <2>6
<1>2. CASE ExecuteSucceeds(r)
  <2>1. pc[r] = "execute" /\ UNCHANGED <<tables, job>> /\ job[r].step \in executed'[r]
    BY <1>0, <1>2 DEF ExecuteSucceeds, At, TypeOK
  <2> QED BY <1>0, <2>1 DEF RunInv, StepRowsFit, Present, tables
<1>3. CASE Write(r)
  <2>1. pc[r] = "complete" /\ UNCHANGED <<job, executed>> /\ out[r] # <<>>
    BY <1>3 DEF Write
  <2>2. SameRows
    BY <1>3, <2>1, WriteEffect DEF Effect, At
  <2> QED BY <1>0, <2>1, <2>2 DEF ExecutionFits, SameRows, Present
<1>4. CASE ~ Pick(r) /\ ~ ExecuteSucceeds(r) /\ ~ Write(r)
  BY <1>0, <1>4
  DEF RunStep, FindPipeline, ReadSteps, CreateRun, Spawn, Load, LoadSteps, StartRun, Schedule,
      BeginAttempt, ExecuteFails, CompleteStep, FinishRun, Goto, TypeOK
<1> QED BY <1>1, <1>2, <1>3, <1>4

LEMMA ExecutionKeeps ==
  ASSUME Inv, ProgressInv, CountsWithinInt, NEW r \in Runs, FindPipeline(r) \/ RunStep(r)
  PROVE  ExecutionFits(r)'
<1>0. TypeOK /\ RunInv(r) /\ ExecutionFits(r) /\ Effect(r)
  BY RunStepEffect DEF Inv, ProgressInv
<1>1. /\ stepStatus \in [Runs -> [Keys -> RunStatuses \cup {"absent"}]]
      /\ job[r].step \in Keys
  BY <1>0 DEF TypeOK, StoreTypeOK, Job
<1>2. ASSUME pc'[r] = "insert"
      PROVE  job'[r].plan # <<>>
  <2>1. CASE ReadSteps(r)
    BY <1>0, <1>2, <2>1 DEF ReadSteps, Goto, TypeOK, Job
  <2>2. CASE Write(r)
    BY <1>0, <1>2, <2>2 DEF Write, ExecutionFits
  <2>3. CASE ~ ReadSteps(r) /\ ~ Write(r)
    BY <1>0, <1>2, <2>3
    DEF RunStep, FindPipeline, CreateRun, Spawn, Load, LoadSteps, StartRun, Schedule, Pick,
        BeginAttempt, ExecuteSucceeds, ExecuteFails, CompleteStep, FinishRun, Goto, TypeOK
  <2> QED BY <2>1, <2>2, <2>3
<1>3. ASSUME NEW k \in Keys, stepStatus'[r][k] = "completed"
      PROVE  k \in executed'[r]
  <2>1. executed[r] \subseteq executed'[r]
    BY <1>0, ExecutedGrows
  <2>2. CASE stepStatus[r][k] = "completed"
    BY <1>0, <2>1, <2>2 DEF ExecutionFits
  <2>3. CASE stepStatus[r][k] # "completed"
    <3>1. ~ SameRows
      BY <1>3, <2>3 DEF SameRows
    <3>2. ASSUME NEW from, NEW to, RunMoves(r, from, to)
          PROVE  FALSE
      BY <1>3, <2>3, <3>2 DEF RunMoves
    <3>3. ASSUME NEW from, NEW to, StepMoves(r, from, to)
          PROVE  k = job[r].step /\ to = "completed" /\ Present(r)
      BY <1>1, <1>3, <2>3, <3>3 DEF StepMoves
    <3>4. ASSUME InsertRun(r, job[r].plan)
          PROVE  FALSE
      BY <1>1, <1>3, <3>4 DEF InsertRun
    <3>5. k = job[r].step /\ pc[r] = "complete" /\ Present(r)
      BY <1>0, <3>1, <3>2, <3>3, <3>4 DEF Effect, At
    <3> QED BY <1>0, <2>1, <3>5 DEF ExecutionFits
  <2> QED BY <2>2, <2>3
<1> QED BY <1>2, <1>3, CompletionPlace DEF ExecutionFits

\* Where no update of a step is queued, there is nothing to order.
LEMMA NoStepQueued ==
  ASSUME NEW r \in Runs,
         \A m \in DOMAIN out'[r] : out'[r][m].table # "step_runs"
  PROVE  FailureOrderFits(r)'
BY DEF FailureOrderFits

LEMMA EventHasTable ==
  ASSUME NEW type, NEW k
  PROVE  /\ EventInsert(type, k).table = "pipeline_run_events"
         /\ StepUpdate(k, type).table = "step_runs"
         /\ RunUpdate(type).table = "pipeline_runs"
BY DEF EventInsert, StepUpdate, RunUpdate

LEMMA WriteKeepsOrder ==
  ASSUME Inv, ProgressInv, NEW r \in Runs, Write(r)
  PROVE  FailureOrderFits(r)'
<1>0. TypeOK /\ FailureOrderFits(r) /\ Effect(r)
  BY WriteEffect DEF Inv, ProgressInv
<1>1. out[r] \in Seq(EventInserts \cup FailureUpdates) /\ out[r] # <<>> /\ out'[r] = Tail(out[r])
  BY <1>0 DEF TypeOK, Write
<1>2. /\ Len(Tail(out[r])) = Len(out[r]) - 1 /\ Len(out[r]) \in Nat
      /\ \A m \in 1 .. Len(out[r]) - 1 : Tail(out[r])[m] = out[r][m + 1]
      /\ DOMAIN out[r] = 1 .. Len(out[r]) /\ DOMAIN Tail(out[r]) = 1 .. Len(out[r]) - 1
      /\ Head(out[r]) = out[r][1]
  BY <1>1
<1>3. SUFFICES ASSUME NEW m \in DOMAIN out'[r], out'[r][m].table = "step_runs"
               PROVE  /\ runStatus'[r] # "failed"
                      /\ \A n \in 1 .. m - 1 : out'[r][n].table # "pipeline_runs"
  BY DEF FailureOrderFits
<1>4. m + 1 \in DOMAIN out[r] /\ out[r][m + 1].table = "step_runs" /\ m \in Int /\ 1 <= m
  BY <1>1, <1>2, <1>3
<1>5. /\ runStatus[r] # "failed"
      /\ \A n \in 1 .. (m + 1) - 1 : out[r][n].table # "pipeline_runs"
  BY <1>0, <1>4 DEF FailureOrderFits
<1>6. \A n \in 1 .. m - 1 : out'[r][n].table # "pipeline_runs"
  BY <1>1, <1>2, <1>4, <1>5
<1>7. Head(out[r]).table # "pipeline_runs"
  BY <1>2, <1>4, <1>5
<1>8. runStatus'[r] # "failed"
  <2>1. runStatus'[r] = runStatus[r]
    BY <1>0, <1>1, <1>7 DEF Effect, At, SameRows, StepMoves
  <2> QED BY <1>5, <2>1
<1> QED BY <1>6, <1>8

LEMMA ExecuteFailsKeepsOrder ==
  ASSUME Inv, NEW r \in Runs, ExecuteFails(r)
  PROVE  FailureOrderFits(r)'
<1> DEFINE k == job[r].step
           retry == EventInsert("step_retry", k)
           first == StepUpdate(k, "failed")
           second == RunUpdate("failed")
           third == EventInsert("step_failed", k)
           fourth == EventInsert("run_failed", EmptyKey)
<1>1. /\ first.table = "step_runs" /\ second.table = "pipeline_runs"
      /\ retry.table = "pipeline_run_events" /\ third.table = "pipeline_run_events"
      /\ fourth.table = "pipeline_run_events"
  BY EventHasTable
<1>2. runStatus'[r] # "failed"
  BY DEF Inv, RunInv, StatusFits, Executing, ExecuteFails, At, tables
<1>3. out \in [Runs -> Seq(EventInserts \cup FailureUpdates)]
  BY DEF Inv, TypeOK
<1>4. \/ out'[r] = <<>> \/ out'[r] = <<retry>>
      \/ out'[r] = <<>> \o <<first, second, third, fourth>>
      \/ out'[r] = <<retry>> \o <<first, second, third, fourth>>
  BY <1>3 DEF ExecuteFails, Emit
<1> HIDE DEF retry, first, second, third, fourth
<1>5. \/ out'[r] = <<>> \/ out'[r] = <<retry>>
      \/ out'[r] = <<first, second, third, fourth>>
      \/ out'[r] = <<retry, first, second, third, fourth>>
  BY <1>4
<1>6. CASE out'[r] = <<>>
  BY <1>6, NoStepQueued
<1>7. CASE out'[r] = <<retry>>
  BY <1>1, <1>7, NoStepQueued
<1>8. CASE out'[r] = <<first, second, third, fourth>>
  BY <1>1, <1>2, <1>8 DEF FailureOrderFits
<1>9. CASE out'[r] = <<retry, first, second, third, fourth>>
  BY <1>1, <1>2, <1>9 DEF FailureOrderFits
<1> QED BY <1>5, <1>6, <1>7, <1>8, <1>9

LEMMA OrderKeeps ==
  ASSUME Inv, ProgressInv, NEW r \in Runs, FindPipeline(r) \/ RunStep(r)
  PROVE  FailureOrderFits(r)'
<1>0. out \in [Runs -> Seq(EventInserts \cup FailureUpdates)]
  BY DEF Inv, TypeOK
<1>1. CASE At(r, pc[r]) /\ UNCHANGED out
  BY <1>1, NoStepQueued DEF At
<1>2. ASSUME NEW type, NEW k, Emit(r, <<EventInsert(type, k)>>)
      PROVE  FailureOrderFits(r)'
  <2>1. out'[r] = <<EventInsert(type, k)>>
    BY <1>0, <1>2 DEF Emit
  <2> QED BY <2>1, EventHasTable, NoStepQueued
<1>3. ASSUME NEW k, Emit(r, <<RunUpdate("failed"), EventInsert("run_failed", k)>>)
      PROVE  FailureOrderFits(r)'
  <2>1. out'[r] = <<RunUpdate("failed"), EventInsert("run_failed", k)>>
    BY <1>0, <1>3 DEF Emit
  <2>2. /\ RunUpdate("failed").table # "step_runs"
        /\ EventInsert("run_failed", k).table # "step_runs"
    BY EventHasTable
  <2> QED BY <2>1, <2>2, NoStepQueued
<1>4. CASE Write(r)
  BY <1>4, WriteKeepsOrder
<1>5. CASE ExecuteFails(r)
  BY <1>5, ExecuteFailsKeepsOrder
<1> QED
  BY <1>1, <1>2, <1>3, <1>4, <1>5
  DEF RunStep, FindPipeline, ReadSteps, CreateRun, Spawn, Load, LoadSteps, StartRun, Schedule,
      Pick, BeginAttempt, ExecuteSucceeds, CompleteStep, FinishRun, At

\* What ProgressInv says of a run whose rows, locals and writes stay, or go.
LEMMA UntouchedProgress ==
  ASSUME NEW r \in Runs, ExecutionFits(r), FailureOrderFits(r), Untouched(r),
         executed'[r] = executed[r]
  PROVE  ExecutionFits(r)' /\ FailureOrderFits(r)'
BY DEF ExecutionFits, FailureOrderFits, Untouched, Present

LEMMA ProgressStep ==
  ASSUME Inv, ProgressInv, CountsWithinInt, [Next]_vars
  PROVE  ProgressInv'
<1>0. TypeOK /\ \A r \in Runs : RunInv(r) /\ ExecutionFits(r) /\ FailureOrderFits(r)
  BY DEF Inv, ProgressInv
<1>1. ASSUME NEW p \in Pipelines, CreatePipeline(p)
      PROVE  ProgressInv'
  <2>1. \A q \in Pipelines : steps'[q] \in Definitions \cup {<<>>}
    BY <1>0, <1>1 DEF CreatePipeline, InsertPipeline, ProgressInv, TypeOK, StoreTypeOK
  <2>2. UNCHANGED <<pc, out, job, executed, runStatus, stepStatus>>
    BY <1>1 DEF CreatePipeline, InsertPipeline, control
  <2> QED BY <1>0, <2>1, <2>2 DEF ProgressInv, ExecutionFits, FailureOrderFits, Present
<1>2. ASSUME NEW p \in Pipelines, DeletePipeline(p)
      PROVE  ProgressInv'
  <2>1. \A q \in Pipelines : steps'[q] \in Definitions \cup {<<>>}
    BY <1>0, <1>2 DEF DeletePipeline, RemovePipeline, ProgressInv, TypeOK, StoreTypeOK
  <2>2. UNCHANGED <<pc, out, job, executed>>
    BY <1>2 DEF DeletePipeline, control
  <2>3. ASSUME NEW r \in Runs
        PROVE  ExecutionFits(r)' /\ FailureOrderFits(r)'
    BY <1>0, <1>2, <2>2, DeletePipelineEffect
    DEF ExecutionFits, FailureOrderFits, Present, NoStepRuns
  <2> QED BY <2>1, <2>3 DEF ProgressInv
<1>3. ASSUME NEW s \in Runs, FindPipeline(s) \/ RunStep(s)
      PROVE  ProgressInv'
  <2>1. Local(s) /\ Effect(s)
    BY <1>3, RunStepIsLocal, RunStepEffect
  <2>2. UNCHANGED steps
    BY <2>1 DEF Effect, SameRows, InsertRun, RunMoves, StepMoves
  <2>3. ASSUME NEW r \in Runs \ {s}
        PROVE  ExecutionFits(r)' /\ FailureOrderFits(r)'
    <3>1. Untouched(r) /\ executed'[r] = executed[r]
      BY <1>0, <2>1, LocalFrame DEF Local, TypeOK
    <3> QED BY <1>0, <3>1, UntouchedProgress
  <2>4. ExecutionFits(s)' /\ FailureOrderFits(s)'
    BY <1>3, ExecutionKeeps, OrderKeeps
  <2> QED BY <2>2, <2>3, <2>4 DEF ProgressInv
<1>4. CASE Crash
  <2>1. /\ UNCHANGED <<tables, executed>> /\ out' = [r \in Runs |-> <<>>]
        /\ \A r \in Runs : pc'[r] = "lost" \/ pc'[r] = pc[r]
        /\ UNCHANGED job
    BY <1>4 DEF Crash
  <2>2. ASSUME NEW r \in Runs
        PROVE  ExecutionFits(r)' /\ FailureOrderFits(r)'
    BY <1>0, <2>1 DEF ExecutionFits, FailureOrderFits, Present, tables
  <2> QED BY <2>1, <2>2 DEF ProgressInv, tables
<1>5. CASE UNCHANGED vars
  BY <1>0, <1>5
  DEF ProgressInv, ExecutionFits, FailureOrderFits, Present, vars, tables, control
<1> QED BY <1>1, <1>2, <1>3, <1>4, <1>5 DEF Next

LEMMA ProgressInit ==
  ASSUME Init
  PROVE  ProgressInv
BY DEF Init, StoreInit, ProgressInv, ExecutionFits, FailureOrderFits, Present, NoStepRuns

(* Steps are executed in order and before they are completed, as long as no   *)
(* retry_count is beyond the range of int.                                    *)
THEOREM ProgressHolds == ASSUME CountsWithinInt PROVE Spec => []ProgressInv
<1>1. Init => ProgressInv
  BY ProgressInit
<1>2. Inv /\ ProgressInv /\ [Next]_vars => ProgressInv'
  BY ProgressStep
<1> QED BY <1>1, <1>2, Consistency, PTL DEF Spec

(* What ExecuteRun records as completed has been executed by the dispatcher:  *)
(* an overflowing retry_count is the only way around the attempt loop.        *)
THEOREM CompletionIsEarned == ASSUME CountsWithinInt PROVE Spec => []CompletedStepsWereExecuted
<1>1. ProgressInv => CompletedStepsWereExecuted
  BY DEF ProgressInv, ExecutionFits, CompletedStepsWereExecuted
<1> QED BY <1>1, ProgressHolds, PTL

--------------------------------------------------------------------------------
(* Scheduler implements RunLifecycle.                                         *)

\* RunLifecycle means the same by a definition.
LEMMA SameGraphs ==
  ASSUME NEW sq, NEW k
  PROVE  /\ Lifecycle!KeysOf(sq) = KeysOf(sq)
         /\ Lifecycle!DependsOn(sq, k) = DependsOn(sq, k)
         /\ Lifecycle!Accepts(sq) = Accepts(sq)
         /\ Lifecycle!NoProgress = NoStepRuns
<1>1. Lifecycle!KeysOf(sq) = KeysOf(sq)
  BY DEF Lifecycle!KeysOf, KeysOf
<1>2. \A l : Lifecycle!DependsOn(sq, l) = DependsOn(sq, l)
  BY DEF Lifecycle!DependsOn, DependsOn
<1>3. Lifecycle!Accepts(sq) = Accepts(sq)
  BY <1>1, <1>2
  DEF Lifecycle!Accepts, Lifecycle!UniqueKeys, Lifecycle!KnownDependencies, Lifecycle!Acyclic,
      Accepts, UniqueKeys, KnownDependencies, Acyclic
<1>4. Lifecycle!NoProgress = NoStepRuns
  BY DEF Lifecycle!NoProgress, NoStepRuns
<1> QED BY <1>1, <1>2, <1>3, <1>4

\* What plan of RunLifecycle is.
Plans == [r \in Runs |-> IF runStatus[r] = "absent" THEN <<>> ELSE steps[target[r]]]

LEMMA SameRowsStutter ==
  ASSUME SameRows
  PROVE  UNCHANGED Lifecycle!vars
BY DEF SameRows, Lifecycle!vars

LEMMA RunMovesSimulates ==
  ASSUME TypeOK, NEW r \in Runs, NEW from \in RunStatuses, NEW to \in RunStatuses,
         RunMoves(r, from, to)
  PROVE  Lifecycle!SetStatus(r, from, to)
<1>1. runStatus \in [Runs -> RunStatuses \cup {"absent"}]
  BY DEF TypeOK, StoreTypeOK
<1>2. \A s \in Runs : runStatus'[s] = "absent" <=> runStatus[s] = "absent"
  BY <1>1 DEF RunMoves, RunStatuses
<1>3. Plans' = Plans
  BY <1>2 DEF Plans, RunMoves
<1> QED BY <1>3 DEF Lifecycle!SetStatus, RunMoves, Plans

LEMMA StepMovesSimulates ==
  ASSUME NEW r \in Runs, NEW from, NEW to, runStatus[r] = "running", StepMoves(r, from, to)
  PROVE  Lifecycle!SetProgress(r, job[r].step, from, to)
BY DEF Lifecycle!SetProgress, StepMoves

LEMMA InsertSimulates ==
  ASSUME Inv, ProgressInv, NEW r \in Runs, At(r, "insert"), ~ Present(r), InsertRun(r, job[r].plan)
  PROVE  Lifecycle!Accept(r)
<1> DEFINE plan == job[r].plan
<1>1. TypeOK /\ RunInv(r) /\ ExecutionFits(r) /\ target[r] \in Pipelines
  BY DEF Inv, ProgressInv, TypeOK, StoreTypeOK
<1>2. plan = steps[target[r]] /\ Accepts(plan) /\ plan # <<>>
  BY <1>1 DEF InsertRun, RunInv, PlanFits, ExecutionFits, At
<1>3. plan \in Definitions
  BY <1>1, <1>2 DEF ProgressInv
<1>4. runStatus' = [runStatus EXCEPT ![r] = "pending"] /\ UNCHANGED <<steps, target>>
  BY DEF InsertRun
<1>5. Plans' = [Plans EXCEPT ![r] = plan]
  <2>1. \A s \in Runs : runStatus'[s] = IF s = r THEN "pending" ELSE runStatus[s]
    BY <1>1, <1>4 DEF TypeOK, StoreTypeOK
  <2>2. \A s \in Runs : Plans'[s] = [Plans EXCEPT ![r] = plan][s]
    BY <1>2, <1>4, <2>1 DEF Plans
  <2> QED BY <2>2 DEF Plans
<1>6. stepStatus' = [stepStatus EXCEPT ![r] =
                      [k \in Keys |-> IF k \in Lifecycle!KeysOf(plan) THEN "pending" ELSE "absent"]]
  BY SameGraphs DEF InsertRun
<1>7. Lifecycle!Accepts(plan)
  BY <1>2, SameGraphs
<1> HIDE DEF plan
<1> QED BY <1>2, <1>3, <1>4, <1>5, <1>6, <1>7 DEF Lifecycle!Accept, Plans, Present

\* The status of a run whose goroutine executes.
LEMMA ExecutingStatus ==
  ASSUME Inv, NEW r \in Runs, Present(r), pc[r] \in Executing \ {"failing"}
  PROVE  runStatus[r] = "running"
BY DEF Inv, RunInv, StatusFits, Present

LEMMA StartStepSimulates ==
  ASSUME Inv, NEW r \in Runs, At(r, "attempt"), StepMoves(r, "pending", "running")
  PROVE  Lifecycle!StartStep(r, job[r].step)
<1>1. runStatus[r] = "running" /\ Plans[r] = steps[target[r]]
  BY ExecutingStatus DEF At, StepMoves, Executing, Plans, Present
<1>2. Lifecycle!SetProgress(r, job[r].step, "pending", "running")
  BY <1>1, StepMovesSimulates
<1>3. pc[r] \in InHand /\ Present(r)
  BY DEF At, InHand, StepMoves
<1>4. \A d \in DependsOn(Plans[r], job[r].step) : stepStatus[r][d] = "completed"
  BY <1>1, <1>3, RowsInHand
<1>5. \A l \in KeysOf(Plans[r]) : l \in Keys
  BY <1>1, KeysOfSteps DEF Inv, TypeOK, StoreTypeOK
<1>6. \A l \in KeysOf(Plans[r]) : stepStatus[r][l] \in {"pending", "completed"}
  BY <1>1, <1>3, <1>5, RowsInHand DEF StepMoves
<1> QED BY <1>2, <1>4, <1>6, SameGraphs DEF Lifecycle!StartStep, Plans

LEMMA FinishSimulates ==
  ASSUME Inv, NEW r \in Runs, At(r, "finish"), RunMoves(r, "running", "completed")
  PROVE  Lifecycle!Complete(r)
<1>1. TypeOK /\ RunInv(r) /\ Present(r) /\ Plans[r] = steps[target[r]]
  BY DEF Inv, RunMoves, Present, Plans
<1>2. Lifecycle!SetStatus(r, "running", "completed")
  BY <1>1, RunMovesSimulates DEF RunStatuses
<1>3. job[r].plan = steps[target[r]] /\ job[r].completed = KeysOf(steps[target[r]])
  BY <1>1 DEF RunInv, RowsExist, PlanFits, LoopsFit, At, Executing
<1>4. \A k \in KeysOf(Plans[r]) : stepStatus[r][k] = "completed"
  <2>1. \A k \in KeysOf(Plans[r]) : k \in Keys
    BY <1>1, KeysOfSteps DEF TypeOK, StoreTypeOK
  <2> QED BY <1>1, <1>3, <2>1 DEF RunInv, StepRowsFit, At, Executing
<1> QED BY <1>2, <1>4, SameGraphs DEF Lifecycle!Complete, Plans

LEMMA FailStepSimulates ==
  ASSUME Inv, ProgressInv, NEW r \in Runs, pc[r] = "failing", out[r] # <<>>,
         Head(out[r]).table = "step_runs", StepMoves(r, "running", "failed")
  PROVE  Lifecycle!FailStep(r, job[r].step)
<1>1. 1 \in DOMAIN out[r] /\ Head(out[r]) = out[r][1]
  BY DEF Inv, TypeOK
<1>2. runStatus[r] = "running"
  BY <1>1 DEF ProgressInv, FailureOrderFits, Inv, RunInv, StatusFits, Executing, StepMoves, Present
<1> QED BY <1>2, StepMovesSimulates DEF Lifecycle!FailStep

LEMMA CompleteStepSimulates ==
  ASSUME Inv, NEW r \in Runs, At(r, "complete"), StepMoves(r, "running", "completed")
  PROVE  Lifecycle!CompleteStep(r, job[r].step)
<1>1. runStatus[r] = "running"
  BY ExecutingStatus DEF At, StepMoves, Executing
<1> QED BY <1>1, StepMovesSimulates DEF Lifecycle!CompleteStep

\* Every step of a run is a step of its life cycle, or none.
LEMMA RunStepSimulates ==
  ASSUME Inv, ProgressInv, NEW r \in Runs, FindPipeline(r) \/ RunStep(r)
  PROVE  [Lifecycle!Next]_Lifecycle!vars
<1>0. TypeOK /\ Effect(r) /\ ExecutionFits(r)
  BY RunStepEffect DEF Inv, ProgressInv
<1>1. CASE SameRows
  BY <1>1, SameRowsStutter
<1>2. CASE At(r, "insert") /\ ~ Present(r) /\ InsertRun(r, job[r].plan)
  BY <1>2, InsertSimulates DEF Lifecycle!Next
<1>3. CASE At(r, "start") /\ RunMoves(r, "pending", "running")
  <2>1. Lifecycle!Start(r)
    BY <1>0, <1>3, RunMovesSimulates DEF Lifecycle!Start, RunStatuses
  <2> QED BY <2>1 DEF Lifecycle!Next
<1>4. CASE At(r, "finish") /\ RunMoves(r, "running", "completed")
  BY <1>4, FinishSimulates DEF Lifecycle!Next
<1>5. CASE RunMoves(r, "running", "failed")
  <2>1. Lifecycle!Fail(r)
    BY <1>0, <1>5, RunMovesSimulates DEF Lifecycle!Fail, RunStatuses
  <2> QED BY <2>1 DEF Lifecycle!Next
<1>6. PICK k \in Keys : k = job[r].step
  BY <1>0 DEF TypeOK, Job
<1>7. CASE At(r, "attempt") /\ StepMoves(r, "pending", "running")
  <2>1. Lifecycle!StartStep(r, k)
    BY <1>6, <1>7, StartStepSimulates DEF Lifecycle!StartStep, Lifecycle!SetProgress
  <2> QED BY <2>1 DEF Lifecycle!Next
<1>8. CASE At(r, "complete") /\ StepMoves(r, "running", "completed")
  <2>1. Lifecycle!CompleteStep(r, k)
    BY <1>6, <1>8, CompleteStepSimulates DEF Lifecycle!CompleteStep, Lifecycle!SetProgress
  <2> QED BY <2>1 DEF Lifecycle!Next
<1>9. CASE /\ pc[r] = "failing" /\ out[r] # <<>> /\ Head(out[r]).table = "step_runs"
           /\ StepMoves(r, "running", "failed")
  <2>1. Lifecycle!FailStep(r, k)
    BY <1>6, <1>9, FailStepSimulates DEF Lifecycle!FailStep, Lifecycle!SetProgress
  <2> QED BY <2>1 DEF Lifecycle!Next
<1>10. ~ (At(r, "complete") /\ StepMoves(r, "pending", "completed"))
  BY <1>0 DEF ExecutionFits, StepMoves, At
<1> QED BY <1>0, <1>1, <1>2, <1>3, <1>4, <1>5, <1>7, <1>8, <1>9, <1>10 DEF Effect

LEMMA DeletePipelineSimulates ==
  ASSUME Inv, NEW p \in Pipelines, DeletePipeline(p)
  PROVE  Lifecycle!Next
<1>1. PICK S \in SUBSET Runs : S = {r \in Runs : target[r] = p}
  OBVIOUS
<1>2. /\ runStatus' = [r \in Runs |-> IF r \in S THEN "absent" ELSE runStatus[r]]
      /\ stepStatus' = [r \in Runs |-> IF r \in S THEN NoStepRuns ELSE stepStatus[r]]
      /\ steps' = [steps EXCEPT ![p] = <<>>] /\ UNCHANGED target
  BY <1>1 DEF DeletePipeline, RemovePipeline
<1>3. Plans' = [r \in Runs |-> IF r \in S THEN <<>> ELSE Plans[r]]
  BY <1>1, <1>2 DEF Plans, Inv, TypeOK, StoreTypeOK
<1>4. Lifecycle!Forget(S)
  BY <1>2, <1>3, SameGraphs DEF Lifecycle!Forget, Plans
<1> QED BY <1>4 DEF Lifecycle!Next

LEMMA CreatePipelineSimulates ==
  ASSUME Inv, NEW p \in Pipelines, CreatePipeline(p)
  PROVE  UNCHANGED Lifecycle!vars
<1>1. PICK definition \in Definitions : steps' = [steps EXCEPT ![p] = definition]
  BY DEF CreatePipeline, InsertPipeline
<1>2. pipelines[p] = "unused" /\ UNCHANGED <<target, runStatus, stepStatus>>
  BY DEF CreatePipeline, InsertPipeline
<1>3. \A r \in Runs : Present(r) => target[r] # p
  BY <1>2 DEF Inv, RunInv, RowsExist, Stored
<1>4. Plans' = Plans
  BY <1>1, <1>2, <1>3 DEF Plans, Present, Inv, TypeOK, StoreTypeOK
<1> QED BY <1>2, <1>4 DEF Lifecycle!vars, Plans

LEMMA StepSimulates ==
  ASSUME Inv, ProgressInv, [Next]_vars
  PROVE  [Lifecycle!Next]_Lifecycle!vars
<1>1. CASE UNCHANGED tables
  BY <1>1, SameRowsStutter DEF tables, SameRows
<1>2. CASE Crash \/ UNCHANGED vars
  BY <1>1, <1>2 DEF Crash, vars, tables
<1> QED
  BY <1>2, CreatePipelineSimulates, DeletePipelineSimulates, RunStepSimulates DEF Next

(* The statuses that the tables show of a run and of its steps evolve as      *)
(* RunLifecycle promises: retries, dropped errors, crashes, deletions and     *)
(* other runs are invisible, except that a run may stay where it is.          *)
THEOREM SchedulerImplementsLifecycle ==
  ASSUME CountsWithinInt PROVE Spec => ImplementsLifecycle
<1>1. Init => Lifecycle!Init
  BY SameGraphs DEF Init, StoreInit, Lifecycle!Init
<1>2. Inv /\ ProgressInv /\ [Next]_vars => [Lifecycle!Next]_Lifecycle!vars
  BY StepSimulates
<1> QED BY <1>1, <1>2, Consistency, ProgressHolds, PTL DEF Spec, ImplementsLifecycle, Lifecycle!Spec
================================================================================

----------------------------- MODULE TimelineProofs -----------------------------
(******************************************************************************)
(* What the timeline and the end of a run can be relied on to say, in four    *)
(* parts.  Each is about an invariant that is inductive together with Inv and *)
(* with those of the parts before it:                                         *)
(*   - TimelineInv: what is recorded has happened, and what is announced will;*)
(*   - OrderInv: the events are in order.  What an action of ExecuteRun       *)
(*     announces is chosen by its locals, which know all that has been        *)
(*     announced before;                                                      *)
(*   - ExhaustionInv: a run fails by exhaustion only.  As long as no          *)
(*     statement fails, the step_running events of the step in hand count its *)
(*     attempts;                                                              *)
(*   - RowsInv, and how the rows of a run move under any step: what those who *)
(*     read them beside the scheduler need.                                   *)
(******************************************************************************)
EXTENDS LifecycleProofs, FiniteSetTheorems

--------------------------------------------------------------------------------
(* What a step of a run does to its rows and to its queue.                    *)

LEMMA SameInsert ==
  ASSUME NEW t, NEW k, NEW u, NEW l, EventInsert(t, k) = EventInsert(u, l)
  PROVE  t = u /\ k = l
<1>1. /\ EventInsert(t, k).value = t /\ EventInsert(t, k).step = k
      /\ EventInsert(u, l).value = u /\ EventInsert(u, l).step = l
  BY DEF EventInsert
<1> QED BY <1>1

LEMMA StatementFields ==
  ASSUME NEW t, NEW k
  PROVE  /\ EventInsert(t, k).table = "pipeline_run_events" /\ EventInsert(t, k).value = t
         /\ StepUpdate(k, t).table = "step_runs" /\ StepUpdate(k, t).value = t
         /\ RunUpdate(t).table = "pipeline_runs" /\ RunUpdate(t).value = t
BY DEF EventInsert, StepUpdate, RunUpdate

\* The errors of a run are counted, and none is forgotten.
LEMMA NoError ==
  ASSUME TypeOK, NEW r \in Runs, dbErrors'[r] = 0
  PROVE  ~ DbError(r)
<1>1. dbErrors \in [Runs -> 0 .. MaxDbErrors] /\ dbErrors[r] \in 0 .. MaxDbErrors
  BY DEF TypeOK
<1>2. DbError(r) => dbErrors'[r] = dbErrors[r] + 1
  BY <1>1 DEF DbError
<1> QED BY <1>1, <1>2, BoundsAssumption

LEMMA ErrorsStay ==
  ASSUME Inv, [Next]_vars, NEW r \in Runs, dbErrors'[r] = 0
  PROVE  dbErrors[r] = 0
<1>1. TypeOK /\ dbErrors \in [Runs -> 0 .. MaxDbErrors] /\ dbErrors[r] \in 0 .. MaxDbErrors
  BY DEF Inv, TypeOK
<1>2. ASSUME NEW s \in Runs, FindPipeline(s) \/ RunStep(s)
      PROVE  dbErrors[r] = 0
  <2>1. dbErrors' = dbErrors \/ dbErrors' = [dbErrors EXCEPT ![s] = @ + 1]
    BY <1>2, RunStepIsLocal DEF Local, CountsErrors
  <2> QED BY <1>1, <2>1, BoundsAssumption
<1>3. ~ (\E s \in Runs : FindPipeline(s) \/ RunStep(s)) => UNCHANGED dbErrors
  BY DEF Next, CreatePipeline, DeletePipeline, Crash, vars, faults
<1> QED BY <1>2, <1>3

\* A final status is kept, and so is the row.
LEMMA FinalStays ==
  ASSUME Inv, NEW r \in Runs, Effect(r), Present(r)
  PROVE  /\ Present(r)'
         /\ runStatus[r] \in Terminal => runStatus'[r] = runStatus[r]
         /\ \A k \in Keys : stepStatus[r][k] \in Terminal => stepStatus'[r][k] = stepStatus[r][k]
<1>0. /\ runStatus \in [Runs -> RunStatuses \cup {"absent"}]
      /\ stepStatus \in [Runs -> [Keys -> RunStatuses \cup {"absent"}]]
      /\ job[r].step \in Keys
  BY DEF Inv, TypeOK, StoreTypeOK, Job
<1>1. CASE SameRows
  BY <1>1 DEF SameRows, Present
<1>2. ASSUME NEW from \in {"pending", "running"}, NEW to \in RunStatuses, RunMoves(r, from, to)
      PROVE  /\ Present(r)'
             /\ runStatus[r] \in Terminal => runStatus'[r] = runStatus[r]
             /\ \A k \in Keys : stepStatus[r][k] \in Terminal => stepStatus'[r][k] = stepStatus[r][k]
  BY <1>0, <1>2 DEF RunMoves, Present, Terminal, RunStatuses
<1>3. ASSUME NEW from \in {"pending", "running"}, NEW to, StepMoves(r, from, to)
      PROVE  /\ Present(r)'
             /\ runStatus[r] \in Terminal => runStatus'[r] = runStatus[r]
             /\ \A k \in Keys : stepStatus[r][k] \in Terminal => stepStatus'[r][k] = stepStatus[r][k]
  BY <1>0, <1>3 DEF StepMoves, Present, Terminal
<1> QED BY <1>1, <1>2, <1>3 DEF Effect, RunStatuses

\* A row that is not there comes with its creation only.
LEMMA AbsentStays ==
  ASSUME Inv, NEW r \in Runs, Effect(r), ~ Present(r), Present(r)'
  PROVE  At(r, "insert") /\ UNCHANGED events
<1>0. /\ runStatus \in [Runs -> RunStatuses \cup {"absent"}] /\ runStatus[r] = "absent"
  BY DEF Inv, TypeOK, StoreTypeOK, Present
<1> QED BY <1>0 DEF Effect, SameRows, RunMoves, StepMoves, InsertRun, Present

\* Only Write records an event: the one at the head of the queue.
LEMMA NewEvent ==
  ASSUME Inv, NEW r \in Runs, FindPipeline(r) \/ RunStep(r), NEW t, NEW k, Recorded(r, t, k)'
  PROVE  \/ Recorded(r, t, k)
         \/ Write(r) /\ Present(r) /\ Head(out[r]) = EventInsert(t, k)
<1>0. events \in [Runs -> Seq(Event)]
  BY DEF Inv, TypeOK, StoreTypeOK
<1>1. CASE UNCHANGED events
  BY <1>1 DEF Recorded
<1>2. CASE Write(r) /\ Execute(r, Head(out[r])) /\ ~ UNCHANGED events
  <2>1. /\ Head(out[r]).table = "pipeline_run_events"
        /\ CreateRunEvent(r, Head(out[r]).value, Head(out[r]).step)
    BY <1>2 DEF Execute, UpdatePipelineRunStatus, UpdateStepRunStatus
  <2>2. Head(out[r]) \in EventInserts \cup FailureUpdates
    BY <1>2, QueuedStatements DEF Inv, TypeOK
  <2>3. PICK u \in EventTypes, l \in Keys : Head(out[r]) = EventInsert(u, l)
    BY <2>1, <2>2 DEF EventInserts, FailureUpdates, RunUpdate, StepUpdate
  <2>4. CreateRunEvent(r, u, l)
    BY <2>1, <2>3 DEF EventInsert
  <2>5. /\ runStatus[r] # "absent"
        /\ events'[r] = Append(events[r], [type |-> u, step |-> l])
    BY <1>0, <1>2, <2>4 DEF CreateRunEvent
  <2>6. PICK n \in DOMAIN events'[r] : events'[r][n] = [type |-> t, step |-> k]
    BY DEF Recorded
  <2>7. events[r] \in Seq(Event)
    BY <1>0
  <2>8. \/ n \in DOMAIN events[r] /\ events[r][n] = [type |-> t, step |-> k]
        \/ [type |-> u, step |-> l] = [type |-> t, step |-> k]
    BY <2>5, <2>6, <2>7
  <2>9. [type |-> u, step |-> l] = [type |-> t, step |-> k] => u = t /\ l = k
    OBVIOUS
  <2> QED BY <1>2, <2>3, <2>5, <2>8, <2>9 DEF Recorded, Present
<1> QED
  BY <1>1, <1>2
  DEF RunStep, FindPipeline, ReadSteps, CreateRun, Spawn, Load, LoadSteps, StartRun, Schedule,
      Pick, BeginAttempt, ExecuteSucceeds, ExecuteFails, CompleteStep, FinishRun, Write, ErrorOf,
      InsertRun, UpdatePipelineRunStatus, UpdateStepRunStatus, tables

LEMMA TablesFrame ==
  ASSUME Inv, NEW r \in Runs, FindPipeline(r) \/ RunStep(r)
  PROVE  /\ UNCHANGED <<steps, target>>
         /\ out[r] = <<>> => UNCHANGED events
<1> QED
  BY DEF RunStep, FindPipeline, ReadSteps, CreateRun, Spawn, Load, LoadSteps, StartRun, Schedule,
         Pick, BeginAttempt, ExecuteSucceeds, ExecuteFails, CompleteStep, FinishRun, Write,
         ErrorOf, Execute, InsertRun, UpdatePipelineRunStatus, UpdateStepRunStatus,
         CreateRunEvent, tables

\* What Write leaves in the queue was there, one place further back.
LEMMA QueueMoves ==
  ASSUME Inv, NEW r \in Runs, Write(r)
  PROVE  /\ out[r] # <<>> /\ 1 \in DOMAIN out[r] /\ Head(out[r]) = out[r][1]
         /\ \A n \in DOMAIN out'[r] :
              n \in Nat \ {0} /\ n + 1 \in DOMAIN out[r] /\ out'[r][n] = out[r][n + 1]
         /\ \A n \in DOMAIN out[r] :
              n \in Nat \ {0} /\ (n # 1 => n - 1 \in DOMAIN out'[r] /\ out'[r][n - 1] = out[r][n])
<1>1. out \in [Runs -> Seq(EventInserts \cup FailureUpdates)]
  BY DEF Inv, TypeOK
<1>2. /\ out[r] \in Seq(EventInserts \cup FailureUpdates) /\ out[r] # <<>>
      /\ out'[r] = Tail(out[r])
  BY <1>1 DEF Write
<1>3. /\ Len(Tail(out[r])) = Len(out[r]) - 1 /\ Len(out[r]) \in Nat
      /\ \A m \in 1 .. Len(out[r]) - 1 : Tail(out[r])[m] = out[r][m + 1]
      /\ DOMAIN out[r] = 1 .. Len(out[r]) /\ DOMAIN Tail(out[r]) = 1 .. Len(out[r]) - 1
      /\ Head(out[r]) = out[r][1] /\ Len(out[r]) # 0
  BY <1>2
<1>4. \A n \in DOMAIN out[r] : n # 1 => n - 1 \in 1 .. Len(out[r]) - 1 /\ (n - 1) + 1 = n
  BY <1>3
<1> QED BY <1>2, <1>3, <1>4

\* What Write does to the statuses.
LEMMA WriteDoes ==
  ASSUME Inv, NEW r \in Runs, Write(r), dbErrors'[r] = 0
  PROVE  /\ Head(out[r]) = RunUpdate("failed") =>
              runStatus'[r] = IF Present(r) THEN "failed" ELSE "absent"
         /\ \A k \in Keys : Head(out[r]) = StepUpdate(k, "failed") /\ Present(r) =>
              stepStatus'[r][k] = "failed"
<1>0. TypeOK /\ RunInv(r)
  BY DEF Inv
<1>1. Execute(r, Head(out[r]))
  BY <1>0, NoError DEF Write
<1>2. ASSUME Head(out[r]) = RunUpdate("failed")
      PROVE  runStatus'[r] = IF Present(r) THEN "failed" ELSE "absent"
  <2>1. UpdatePipelineRunStatus(r, "failed")
    BY <1>1, <1>2 DEF Execute, RunUpdate
  <2> QED BY <1>0, <2>1, RunUpdateEffect DEF Present
<1>3. ASSUME NEW k \in Keys, Head(out[r]) = StepUpdate(k, "failed"), Present(r)
      PROVE  stepStatus'[r][k] = "failed"
  <2>1. UpdateStepRunStatus(r, k, "failed")
    BY <1>1, <1>3 DEF Execute, StepUpdate
  <2>2. Head(out[r]) \in EventInserts \cup Failures(r)
    <3>1. /\ out \in [Runs -> Seq(EventInserts \cup FailureUpdates)]
          /\ out[r] \in Seq(EventInserts \cup Failures(r))
      BY <1>0 DEF RunInv, WritesFit, TypeOK
    <3> QED BY <3>1, QueuedStatements
  <2>3. pc[r] = "failing" /\ k = job[r].step
    BY <1>3, <2>2 DEF Failures, EventInserts, EventInsert, StepUpdate, RunUpdate
  <2>4. stepStatus[r][k] # "absent"
    BY <1>0, <1>3, <2>3 DEF RunInv, StepRowsFit
  <2> QED BY <1>0, <2>1, <2>4, StepUpdateEffect
<1> QED BY <1>2, <1>3

\* What ExecuteFails queues: nothing or a retry before the next attempt, otherwise
\* the failures, each status before its event.
LEMMA ExecuteFailsQueues ==
  ASSUME TypeOK, NEW r \in Runs, NEW k, k = job[r].step, ExecuteFails(r)
  PROVE  \/ /\ pc'[r] = "attempt"
            /\ out'[r] = <<>> \/ out'[r] = <<EventInsert("step_retry", k)>>
         \/ /\ pc'[r] = "failing"
            /\ \/ out'[r] = <<StepUpdate(k, "failed"), RunUpdate("failed"),
                              EventInsert("step_failed", k), EventInsert("run_failed", EmptyKey)>>
               \/ out'[r] = <<EventInsert("step_retry", k),
                              StepUpdate(k, "failed"), RunUpdate("failed"),
                              EventInsert("step_failed", k), EventInsert("run_failed", EmptyKey)>>
<1> DEFINE retry == EventInsert("step_retry", k)
           first == StepUpdate(k, "failed")
           second == RunUpdate("failed")
           third == EventInsert("step_failed", k)
           fourth == EventInsert("run_failed", EmptyKey)
<1>1. /\ out \in [Runs -> Seq(EventInserts \cup FailureUpdates)]
      /\ pc \in [Runs -> Pcs]
  BY DEF TypeOK
<1>2. \/ pc'[r] = "attempt" /\ (out'[r] = <<>> \/ out'[r] = <<retry>>)
      \/ /\ pc'[r] = "failing"
         /\ \/ out'[r] = <<>> \o <<first, second, third, fourth>>
            \/ out'[r] = <<retry>> \o <<first, second, third, fourth>>
  BY <1>1 DEF ExecuteFails, Emit, Goto
<1> HIDE DEF retry, first, second, third, fourth
<1>3. \/ pc'[r] = "attempt" /\ (out'[r] = <<>> \/ out'[r] = <<retry>>)
      \/ /\ pc'[r] = "failing"
         /\ \/ out'[r] = <<first, second, third, fourth>>
            \/ out'[r] = <<retry, first, second, third, fourth>>
  BY <1>2
<1> QED BY <1>3 DEF retry, first, second, third, fourth

LEMMA ExecuteFailsValues ==
  ASSUME TypeOK, NEW r \in Runs, ExecuteFails(r)
  PROVE  \A n \in DOMAIN out'[r] :
           out'[r][n].value \in {"step_retry", "failed", "step_failed", "run_failed"}
<1> DEFINE k == job[r].step
           retry == EventInsert("step_retry", k)
           first == StepUpdate(k, "failed")
           second == RunUpdate("failed")
           third == EventInsert("step_failed", k)
           fourth == EventInsert("run_failed", EmptyKey)
<1>1. \/ out'[r] = <<>> \/ out'[r] = <<retry>>
      \/ out'[r] = <<first, second, third, fourth>>
      \/ out'[r] = <<retry, first, second, third, fourth>>
  BY ExecuteFailsQueues
<1>2. /\ retry.value = "step_retry" /\ first.value = "failed" /\ second.value = "failed"
      /\ third.value = "step_failed" /\ fourth.value = "run_failed"
  BY StatementFields
<1> HIDE DEF retry, first, second, third, fourth
<1> QED BY <1>1, <1>2

--------------------------------------------------------------------------------
(* Completions.                                                               *)

\* Nothing new is announced as completed.
LEMMA CompletionStays ==
  ASSUME Inv, NEW r \in Runs, FindPipeline(r) \/ RunStep(r), CompletionFits(r),
         \A n \in DOMAIN out'[r], k \in Keys :
           out'[r][n] \in {EventInsert("run_completed", EmptyKey), EventInsert("step_completed", k)}
             => Queued(r, out'[r][n])
  PROVE  CompletionFits(r)'
<1> SUFFICES ASSUME Present(r)'
             PROVE  /\ Announced(r, "run_completed", EmptyKey)' => runStatus'[r] = "completed"
                    /\ \A k \in Keys :
                         Announced(r, "step_completed", k)' => stepStatus'[r][k] = "completed"
  BY DEF CompletionFits
<1>0. Effect(r) /\ RowsExist(r)
  BY RunStepEffect DEF Inv, RunInv
<1>1. ASSUME NEW k \in Keys, NEW t \in {"run_completed", "step_completed"},
             t = "run_completed" => k = EmptyKey, Announced(r, t, k)'
      PROVE  Announced(r, t, k)
  <2>1. CASE Recorded(r, t, k)'
    <3>1. Write(r) => 1 \in DOMAIN out[r] /\ Head(out[r]) = out[r][1]
      BY QueueMoves
    <3> QED BY <2>1, <3>1, NewEvent DEF Announced, Queued
  <2>2. CASE Queued(r, EventInsert(t, k))'
    BY <1>1, <2>2, KeysAssumption DEF Queued, Announced
  <2> QED BY <1>1, <2>1, <2>2 DEF Announced
<1>2. CASE Present(r)
  BY <1>0, <1>1, <1>2, FinalStays, KeysAssumption DEF CompletionFits, Terminal
<1>3. CASE ~ Present(r)
  <2>1. events[r] = <<>> /\ out[r] = <<>>
    BY <1>0, <1>3, AbsentStays DEF RowsExist, At
  <2>2. \A t, k : ~ Announced(r, t, k)
    BY <2>1 DEF Announced, Recorded, Queued
  <2> QED BY <1>1, <2>2, KeysAssumption
<1> QED BY <1>2, <1>3

\* What is queued is no completion.
LEMMA NoCompletion ==
  ASSUME Inv, NEW r \in Runs, FindPipeline(r) \/ RunStep(r), CompletionFits(r),
         \A n \in DOMAIN out'[r] : out'[r][n].value \notin {"run_completed", "step_completed"}
  PROVE  CompletionFits(r)'
BY CompletionStays, StatementFields

LEMMA CompletionKeeps ==
  ASSUME Inv, NEW r \in Runs, FindPipeline(r) \/ RunStep(r), CompletionFits(r)
  PROVE  CompletionFits(r)'
<1>0. /\ TypeOK /\ RunInv(r) /\ out \in [Runs -> Seq(EventInserts \cup FailureUpdates)]
      /\ job[r].step \in Keys
  BY DEF Inv, TypeOK, Job
<1>1. CASE UNCHANGED out
  BY <1>1, CompletionStays DEF Queued
<1>2. CASE Write(r)
  BY <1>2, QueueMoves, CompletionStays DEF Queued
<1>3. ASSUME NEW t \in EventTypes \ {"run_completed", "step_completed"}, NEW k,
             Emit(r, <<EventInsert(t, k)>>)
      PROVE  CompletionFits(r)'
  <2>1. out'[r] = <<EventInsert(t, k)>>
    BY <1>0, <1>3 DEF Emit
  <2>2. \A n \in DOMAIN out'[r] : out'[r][n].value = t
    BY <2>1, StatementFields
  <2> QED BY <2>2, NoCompletion
<1>4. ASSUME NEW k, Emit(r, <<RunUpdate("failed"), EventInsert("run_failed", k)>>)
      PROVE  CompletionFits(r)'
  <2>1. out'[r] = <<RunUpdate("failed"), EventInsert("run_failed", k)>>
    BY <1>0, <1>4 DEF Emit
  <2>2. \A n \in DOMAIN out'[r] : out'[r][n].value \in {"failed", "run_failed"}
    BY <2>1, StatementFields
  <2> QED BY <2>2, NoCompletion
<1>5. CASE Emit(r, <<RunUpdate("failed")>>)
  <2>1. out'[r] = <<RunUpdate("failed")>>
    BY <1>0, <1>5 DEF Emit
  <2>2. \A n \in DOMAIN out'[r] : out'[r][n].value = "failed"
    BY <2>1, StatementFields
  <2> QED BY <2>2, NoCompletion
<1>6. CASE ExecuteFails(r)
  BY <1>0, <1>6, ExecuteFailsValues, NoCompletion
<1>7. CASE CompleteStep(r) /\ UpdateStepRunStatus(r, job[r].step, "completed") /\ NoDbError
           /\ Emit(r, <<EventInsert("step_completed", job[r].step)>>)
  <2> DEFINE k == job[r].step
  <2>1. out'[r] = <<EventInsert("step_completed", k)>>
    BY <1>0, <1>7 DEF Emit
  <2>2. \A n \in DOMAIN out'[r] : out'[r][n] = EventInsert("step_completed", k)
    BY <2>1
  <2>3. Present(r)' => Present(r) /\ stepStatus'[r][k] = "completed"
    <3>1. runStatus' = runStatus /\ At(r, "complete")
      BY <1>7 DEF UpdateStepRunStatus, CompleteStep
    <3>2. Present(r) => stepStatus[r][k] # "absent"
      BY <1>0, <3>1 DEF RunInv, StepRowsFit, At
    <3> QED BY <1>0, <1>7, <3>1, <3>2, StepUpdateEffect DEF Present
  <2>4. Effect(r) /\ UNCHANGED events
    BY <1>7, RunStepEffect DEF UpdateStepRunStatus
  <2> SUFFICES ASSUME Present(r)'
               PROVE  /\ Announced(r, "run_completed", EmptyKey)' => runStatus'[r] = "completed"
                      /\ \A l \in Keys :
                           Announced(r, "step_completed", l)' => stepStatus'[r][l] = "completed"
    BY DEF CompletionFits
  <2>5. Announced(r, "run_completed", EmptyKey)' => Announced(r, "run_completed", EmptyKey)
    BY <2>2, <2>4, StatementFields DEF Announced, Queued, Recorded
  <2>6. ASSUME NEW l \in Keys, l # k, Announced(r, "step_completed", l)'
        PROVE  Announced(r, "step_completed", l)
    BY <2>2, <2>4, <2>6, SameInsert DEF Announced, Queued, Recorded
  <2> QED BY <2>3, <2>4, <2>5, <2>6, FinalStays DEF CompletionFits, Terminal
<1>8. CASE FinishRun(r) /\ UpdatePipelineRunStatus(r, "completed") /\ NoDbError
           /\ Emit(r, <<EventInsert("run_completed", EmptyKey)>>)
  <2>1. out'[r] = <<EventInsert("run_completed", EmptyKey)>>
    BY <1>0, <1>8 DEF Emit
  <2>2. \A n \in DOMAIN out'[r] : out'[r][n] = EventInsert("run_completed", EmptyKey)
    BY <2>1
  <2>3. /\ UNCHANGED <<events, stepStatus>>
        /\ Present(r)' => Present(r) /\ runStatus'[r] = "completed"
    BY <1>0, <1>8, RunUpdateEffect DEF Present
  <2>4. ASSUME NEW l \in Keys, Announced(r, "step_completed", l)'
        PROVE  Announced(r, "step_completed", l)
    BY <2>2, <2>3, <2>4, StatementFields DEF Announced, Queued, Recorded
  <2> QED BY <2>3, <2>4 DEF CompletionFits
<1> QED
  BY <1>1, <1>2, <1>3, <1>4, <1>5, <1>6, <1>7, <1>8
  DEF RunStep, FindPipeline, ReadSteps, CreateRun, Spawn, Load, LoadSteps, StartRun, Schedule,
      Pick, BeginAttempt, ExecuteSucceeds, CompleteStep, FinishRun, EventTypes

--------------------------------------------------------------------------------
(* Failures, as long as no statement fails.                                   *)

\* FailureFits, for one event of the queue.
RunFailureFits(r, n, k) ==
  out[r][n] = EventInsert("run_failed", k) =>
    runStatus[r] = "failed" \/ \E m \in 1 .. n - 1 : out[r][m] = RunUpdate("failed")
StepFailureFits(r, n, k) ==
  out[r][n] = EventInsert("step_failed", k) =>
    stepStatus[r][k] = "failed" \/ \E m \in 1 .. n - 1 : out[r][m] = StepUpdate(k, "failed")

\* Events of a run that is not there are none.
LEMMA AbsentFits ==
  ASSUME Inv, NEW r \in Runs, Effect(r), ~ Present(r), Present(r)'
  PROVE  \A t, k : ~ Recorded(r, t, k)'
<1>1. events'[r] = <<>>
  BY AbsentStays DEF Inv, RunInv, RowsExist
<1> QED BY <1>1 DEF Recorded

\* What is queued is no failure.
LEMMA NoFailure ==
  ASSUME Inv, NEW r \in Runs, FindPipeline(r) \/ RunStep(r), ~ Write(r), FailureFits(r),
         \A n \in DOMAIN out'[r], k \in Keys :
           RunFailureFits(r, n, k)' /\ StepFailureFits(r, n, k)'
  PROVE  FailureFits(r)'
<1> SUFFICES ASSUME Present(r)', NEW k \in Keys
             PROVE  /\ Recorded(r, "run_failed", k)' => runStatus'[r] = "failed"
                    /\ Recorded(r, "step_failed", k)' => stepStatus'[r][k] = "failed"
  BY DEF FailureFits, RunFailureFits, StepFailureFits
<1>0. Effect(r)
  BY RunStepEffect
<1>1. CASE Present(r)
  BY <1>0, <1>1, NewEvent, FinalStays DEF FailureFits, Terminal
<1>2. CASE ~ Present(r)
  BY <1>0, <1>2, AbsentFits
<1> QED BY <1>1, <1>2

LEMMA WriteKeepsFailures ==
  ASSUME Inv, NEW r \in Runs, Write(r), FailureFits(r), dbErrors'[r] = 0
  PROVE  FailureFits(r)'
<1>0. Effect(r) /\ RunStep(r)
  BY WriteEffect DEF RunStep
<1> SUFFICES ASSUME Present(r)', NEW k \in Keys
             PROVE  /\ Recorded(r, "run_failed", k)' => runStatus'[r] = "failed"
                    /\ Recorded(r, "step_failed", k)' => stepStatus'[r][k] = "failed"
                    /\ \A n \in DOMAIN out'[r] : RunFailureFits(r, n, k)' /\ StepFailureFits(r, n, k)'
  BY DEF FailureFits, RunFailureFits, StepFailureFits
<1>1. Present(r)
  <2>1. out[r] # <<>>
    BY DEF Write
  <2> QED BY <1>0, <2>1, AbsentStays DEF At
<1>2. /\ out[r] # <<>> /\ 1 \in DOMAIN out[r] /\ Head(out[r]) = out[r][1]
      /\ \A n \in DOMAIN out'[r] :
           n \in Nat \ {0} /\ n + 1 \in DOMAIN out[r] /\ out'[r][n] = out[r][n + 1]
      /\ \A n \in DOMAIN out[r] :
           n \in Nat \ {0} /\ (n # 1 => n - 1 \in DOMAIN out'[r] /\ out'[r][n - 1] = out[r][n])
  BY QueueMoves
<1>3. /\ runStatus[r] = "failed" => runStatus'[r] = "failed"
      /\ stepStatus[r][k] = "failed" => stepStatus'[r][k] = "failed"
  BY <1>0, <1>1, FinalStays DEF Terminal
<1>4. /\ out[r][1] = RunUpdate("failed") => runStatus'[r] = "failed"
      /\ out[r][1] = StepUpdate(k, "failed") => stepStatus'[r][k] = "failed"
  BY <1>1, <1>2, WriteDoes
<1>5. \A n \in DOMAIN out[r] : RunFailureFits(r, n, k) /\ StepFailureFits(r, n, k)
  BY <1>1 DEF FailureFits, RunFailureFits, StepFailureFits
<1>6. /\ out[r][1] = EventInsert("run_failed", k) => runStatus[r] = "failed"
      /\ out[r][1] = EventInsert("step_failed", k) => stepStatus[r][k] = "failed"
  BY <1>2, <1>5 DEF RunFailureFits, StepFailureFits
<1>7. Recorded(r, "run_failed", k)' => runStatus'[r] = "failed"
  BY <1>0, <1>1, <1>2, <1>3, <1>6, NewEvent DEF FailureFits
<1>8. Recorded(r, "step_failed", k)' => stepStatus'[r][k] = "failed"
  BY <1>0, <1>1, <1>2, <1>3, <1>6, NewEvent DEF FailureFits
<1>9. ASSUME NEW n \in DOMAIN out'[r]
      PROVE  RunFailureFits(r, n, k)' /\ StepFailureFits(r, n, k)'
  <2>1. n \in Nat \ {0} /\ n + 1 \in DOMAIN out[r] /\ out'[r][n] = out[r][n + 1]
    BY <1>2
  <2>2. ASSUME NEW m \in 1 .. (n + 1) - 1, m # 1
        PROVE  m - 1 \in 1 .. n - 1 /\ out'[r][m - 1] = out[r][m]
    <3>1. m \in DOMAIN out[r]
      <4>1. out[r] \in Seq(EventInserts \cup FailureUpdates)
        BY DEF Inv, TypeOK
      <4> QED BY <2>1, <4>1
    <3> QED BY <1>2, <2>1, <2>2, <3>1
  <2>3. RunFailureFits(r, n, k)'
    <3> SUFFICES ASSUME out'[r][n] = EventInsert("run_failed", k), runStatus'[r] # "failed"
                 PROVE  \E m \in 1 .. n - 1 : out'[r][m] = RunUpdate("failed")
      BY DEF RunFailureFits, EventInsert, RunUpdate
    <3>1. PICK m \in 1 .. (n + 1) - 1 : out[r][m] = RunUpdate("failed")
      BY <1>3, <1>5, <2>1 DEF RunFailureFits
    <3> QED BY <1>4, <2>2, <3>1
  <2>4. StepFailureFits(r, n, k)'
    <3> SUFFICES ASSUME out'[r][n] = EventInsert("step_failed", k), stepStatus'[r][k] # "failed"
                 PROVE  \E m \in 1 .. n - 1 : out'[r][m] = StepUpdate(k, "failed")
      BY DEF StepFailureFits, EventInsert, StepUpdate
    <3>1. PICK m \in 1 .. (n + 1) - 1 : out[r][m] = StepUpdate(k, "failed")
      BY <1>3, <1>5, <2>1 DEF StepFailureFits
    <3> QED BY <1>4, <2>2, <3>1
  <2> QED BY <2>3, <2>4
<1> QED BY <1>7, <1>8, <1>9

LEMMA ExecuteFailsKeepsFailures ==
  ASSUME Inv, NEW r \in Runs, ExecuteFails(r), FailureFits(r)
  PROVE  FailureFits(r)'
<1> DEFINE k == job[r].step
           retry == EventInsert("step_retry", k)
           first == StepUpdate(k, "failed")
           second == RunUpdate("failed")
           third == EventInsert("step_failed", k)
           fourth == EventInsert("run_failed", EmptyKey)
<1>1. \/ out'[r] = <<>> \/ out'[r] = <<retry>>
      \/ out'[r] = <<first, second, third, fourth>>
      \/ out'[r] = <<retry, first, second, third, fourth>>
  BY ExecuteFailsQueues DEF Inv
<1>2. ASSUME NEW l
      PROVE  /\ retry # EventInsert("run_failed", l) /\ retry # EventInsert("step_failed", l)
             /\ first # EventInsert("run_failed", l) /\ first # EventInsert("step_failed", l)
             /\ second # EventInsert("run_failed", l) /\ second # EventInsert("step_failed", l)
             /\ third # EventInsert("run_failed", l)
             /\ fourth # EventInsert("step_failed", l)
             /\ third = EventInsert("step_failed", l) => l = k
  <2>1. third = EventInsert("step_failed", l) => l = k
    BY SameInsert
  <2> QED BY <2>1, StatementFields
<1>3. ASSUME NEW n \in DOMAIN out'[r], NEW l \in Keys
      PROVE  RunFailureFits(r, n, l)' /\ StepFailureFits(r, n, l)'
  <2> HIDE DEF retry, third, fourth, k
  <2>1. \/ out'[r][n] \in {retry, first, second}
        \/ out'[r][n] = third /\ out'[r][n - 2] = first /\ n - 2 \in 1 .. n - 1
        \/ out'[r][n] = fourth /\ out'[r][n - 2] = second /\ n - 2 \in 1 .. n - 1
    <3> HIDE DEF first, second
    <3>1. CASE out'[r] = <<>>
      BY <3>1
    <3>2. CASE out'[r] = <<retry>>
      BY <3>2
    <3>3. CASE out'[r] = <<first, second, third, fourth>>
      BY <3>3
    <3>4. CASE out'[r] = <<retry, first, second, third, fourth>>
      BY <3>4
    <3> QED BY <1>1, <3>1, <3>2, <3>3, <3>4
  <2>2. CASE out'[r][n] \in {retry, first, second}
    BY <1>2, <2>2 DEF RunFailureFits, StepFailureFits
  <2>3. CASE out'[r][n] = third /\ out'[r][n - 2] = first /\ n - 2 \in 1 .. n - 1
    BY <1>2, <2>3 DEF RunFailureFits, StepFailureFits
  <2>4. CASE out'[r][n] = fourth /\ out'[r][n - 2] = second /\ n - 2 \in 1 .. n - 1
    BY <1>2, <2>4 DEF RunFailureFits, StepFailureFits
  <2> QED BY <2>1, <2>2, <2>3, <2>4
<1>4. ~ Write(r) /\ RunStep(r)
  BY DEF ExecuteFails, At, Write, RunStep
<1> QED BY <1>3, <1>4, NoFailure

LEMMA FailureKeeps ==
  ASSUME Inv, NEW r \in Runs, FindPipeline(r) \/ RunStep(r), FailureFits(r), dbErrors'[r] = 0
  PROVE  FailureFits(r)'
<1>0. /\ TypeOK /\ out \in [Runs -> Seq(EventInserts \cup FailureUpdates)] /\ ~ DbError(r)
  BY NoError DEF Inv, TypeOK
<1>1. CASE Write(r)
  BY <1>1, WriteKeepsFailures
<1>2. CASE ~ Write(r) /\ out'[r] = <<>>
  BY <1>2, NoFailure
<1>3. ASSUME NEW t \in EventTypes \ {"run_failed", "step_failed"}, NEW k, ~ Write(r),
             Emit(r, <<EventInsert(t, k)>>)
      PROVE  FailureFits(r)'
  <2>1. out'[r] = <<EventInsert(t, k)>>
    BY <1>0, <1>3 DEF Emit
  <2>2. \A n \in DOMAIN out'[r] : out'[r][n].value = t
    BY <2>1, StatementFields
  <2>3. \A n \in DOMAIN out'[r], l \in Keys : RunFailureFits(r, n, l)' /\ StepFailureFits(r, n, l)'
    BY <2>2, StatementFields DEF RunFailureFits, StepFailureFits
  <2> QED BY <1>3, <2>3, NoFailure
<1>4. ASSUME NEW k, ~ Write(r), Emit(r, <<RunUpdate("failed"), EventInsert("run_failed", k)>>)
      PROVE  FailureFits(r)'
  <2>1. out'[r] = <<RunUpdate("failed"), EventInsert("run_failed", k)>>
    BY <1>0, <1>4 DEF Emit
  <2>2. ASSUME NEW n \in DOMAIN out'[r], NEW l \in Keys
        PROVE  RunFailureFits(r, n, l)' /\ StepFailureFits(r, n, l)'
    <3>1. \/ n = 1 /\ out'[r][n] = RunUpdate("failed")
          \/ n = 2 /\ out'[r][n] = EventInsert("run_failed", k) /\ out'[r][1] = RunUpdate("failed")
      BY <2>1
    <3>2. /\ RunUpdate("failed") # EventInsert("run_failed", l)
          /\ RunUpdate("failed") # EventInsert("step_failed", l)
          /\ EventInsert("run_failed", k) # EventInsert("step_failed", l)
      BY StatementFields
    <3> QED BY <3>1, <3>2 DEF RunFailureFits, StepFailureFits
  <2> QED BY <1>4, <2>2, NoFailure
<1>5. CASE ExecuteFails(r)
  BY <1>5, ExecuteFailsKeepsFailures
<1>6. CASE At(r, pc[r]) /\ UNCHANGED out
  <2>1. ~ Write(r) /\ out'[r] = <<>>
    BY <1>6 DEF At, Write
  <2> QED BY <2>1, <1>2
<1>7. At(r, pc[r]) => ~ Write(r)
  BY DEF At, Write
<1> QED
  BY <1>0, <1>1, <1>3, <1>4, <1>5, <1>6, <1>7
  DEF RunStep, FindPipeline, ReadSteps, CreateRun, Spawn, Load, LoadSteps, StartRun, Schedule,
      Pick, BeginAttempt, ExecuteSucceeds, CompleteStep, FinishRun, EventTypes, At, ErrorOf

--------------------------------------------------------------------------------
(* The ends of a run.                                                         *)

LEMMA WriteKeepsEnd ==
  ASSUME Inv, NEW r \in Runs, Write(r), EndFits(r), dbErrors'[r] = 0
  PROVE  EndFits(r)'
<1>1. Effect(r) /\ pc' = pc /\ out[r] # <<>>
  BY WriteEffect DEF Write
<1>2. ~ Present(r) => ~ Present(r)'
  BY <1>1, AbsentStays DEF At
<1>3. runStatus[r] \in Terminal => runStatus'[r] = runStatus[r]
  BY <1>1, FinalStays DEF Present, Terminal
<1>4. ASSUME pc[r] = "failing"
      PROVE  runStatus'[r] \in {"failed", "absent"} \/ Queued(r, RunUpdate("failed"))'
  <2>1. CASE runStatus[r] \in {"failed", "absent"}
    BY <1>2, <1>3, <2>1 DEF Present, Terminal
  <2>2. CASE Queued(r, RunUpdate("failed"))
    <3>1. PICK n \in DOMAIN out[r] : out[r][n] = RunUpdate("failed")
      BY <2>2 DEF Queued
    <3>2. CASE n = 1
      BY <3>1, <3>2, QueueMoves, WriteDoes
    <3>3. CASE n # 1
      <4>1. n - 1 \in DOMAIN out'[r] /\ out'[r][n - 1] = RunUpdate("failed")
        BY <3>1, <3>3, QueueMoves
      <4> QED BY <4>1 DEF Queued, RunUpdate
    <3> QED BY <3>2, <3>3
  <2> QED BY <1>4, <2>1, <2>2 DEF EndFits
<1> QED BY <1>1, <1>2, <1>3, <1>4 DEF EndFits, Present, Terminal

LEMMA EndKeeps ==
  ASSUME Inv, NEW r \in Runs, FindPipeline(r) \/ RunStep(r), EndFits(r), dbErrors'[r] = 0
  PROVE  EndFits(r)'
<1>0. /\ TypeOK /\ RunInv(r) /\ ~ DbError(r)
      /\ pc \in [Runs -> Pcs] /\ out \in [Runs -> Seq(EventInserts \cup FailureUpdates)]
      /\ target[r] \in Pipelines /\ Accepts(steps[target[r]])
  BY NoError DEF Inv, TypeOK, StoreTypeOK
<1>1. ASSUME pc'[r] \notin {"rejected", "returned", "failing"}
      PROVE  EndFits(r)'
  BY <1>1 DEF EndFits
<1>2. CASE Write(r)
  BY <1>2, WriteKeepsEnd
<1>3. CASE FindPipeline(r)
  BY <1>0, <1>3 DEF FindPipeline, Goto, EndFits, RunInv, RowsExist, Present, tables
<1>4. CASE ReadSteps(r)
  BY <1>0, <1>4 DEF ReadSteps, Goto, At, EndFits, RunInv, StatusFits, Present, tables
<1>5. CASE CreateRun(r)
  BY <1>0, <1>5 DEF CreateRun, Goto, At, ErrorOf, EndFits, RunInv, StatusFits, Present, tables
<1>6. CASE Load(r)
  BY <1>0, <1>6 DEF Load, Goto, At, EndFits, RunInv, RowsExist, Present, tables
<1>7. CASE LoadSteps(r)
  BY <1>0, <1>7 DEF LoadSteps, Goto, EndFits
<1>8. CASE Schedule(r)
  <2>1. CASE pc'[r] = "failing"
    <3>1. out'[r] = <<RunUpdate("failed"), EventInsert("run_failed", EmptyKey)>>
      BY <1>0, <1>8, <2>1 DEF Schedule, Goto, Emit
    <3>2. 1 \in DOMAIN out'[r] /\ out'[r][1] = RunUpdate("failed")
      BY <3>1
    <3> QED BY <2>1, <3>2 DEF EndFits, Queued, RunUpdate
  <2>2. CASE pc'[r] # "failing"
    BY <1>0, <1>8, <2>2 DEF Schedule, Goto, EndFits
  <2> QED BY <2>1, <2>2
<1>9. CASE ExecuteFails(r)
  <2> DEFINE k == job[r].step
             retry == EventInsert("step_retry", k)
             first == StepUpdate(k, "failed")
             second == RunUpdate("failed")
             third == EventInsert("step_failed", k)
             fourth == EventInsert("run_failed", EmptyKey)
  <2>1. \/ pc'[r] = "attempt"
        \/ /\ pc'[r] = "failing"
           /\ \/ out'[r] = <<first, second, third, fourth>>
              \/ out'[r] = <<retry, first, second, third, fourth>>
    BY <1>0, <1>9, ExecuteFailsQueues
  <2> HIDE DEF retry, first, second, third, fourth
  <2>2. pc'[r] = "failing" => \E n \in DOMAIN out'[r] : out'[r][n] = second
    <3>1. CASE out'[r] = <<first, second, third, fourth>>
      <4>1. 2 \in DOMAIN out'[r] /\ out'[r][2] = second
        BY <3>1
      <4> QED BY <4>1
    <3>2. CASE out'[r] = <<retry, first, second, third, fourth>>
      <4>1. 3 \in DOMAIN out'[r] /\ out'[r][3] = second
        BY <3>2
      <4> QED BY <4>1
    <3> QED BY <2>1, <3>1, <3>2
  <2> QED BY <2>1, <2>2 DEF EndFits, Queued, second, RunUpdate
<1>10. CASE FinishRun(r)
  <2>1. UpdatePipelineRunStatus(r, "completed") /\ pc'[r] = "returned"
    BY <1>0, <1>10 DEF FinishRun, Goto, ErrorOf
  <2>2. runStatus'[r] \in {"completed", "absent"}
    BY <1>0, <2>1, RunUpdateEffect
  <2> QED BY <2>1, <2>2 DEF EndFits
<1>11. CASE Spawn(r) \/ StartRun(r) \/ BeginAttempt(r) \/ ExecuteSucceeds(r) \/ CompleteStep(r)
  <2>1. pc'[r] \in {"load", "loop", "execute", "complete", "pick"}
    BY <1>0, <1>11
    DEF Spawn, StartRun, BeginAttempt, ExecuteSucceeds, CompleteStep, ErrorOf, Goto
  <2> QED BY <1>1, <2>1
<1>12. CASE Pick(r)
  <2>1. pc'[r] \in {"attempt", "complete"}
    BY <1>0, <1>12 DEF Pick, Goto
  <2> QED BY <1>1, <2>1
<1> QED
  BY <1>2, <1>3, <1>4, <1>5, <1>6, <1>7, <1>8, <1>9, <1>10, <1>11, <1>12 DEF RunStep

\* A run that ends without a final status has no step begun, or all completed.
LEMMA ReturnKeeps ==
  ASSUME Inv, NEW r \in Runs, FindPipeline(r) \/ RunStep(r), ReturnFits(r)
  PROVE  ReturnFits(r)'
<1> DEFINE planned == KeysOf(steps[target[r]])
<1>0. /\ TypeOK /\ RunInv(r) /\ pc \in [Runs -> Pcs] /\ planned \subseteq Keys
      /\ stepStatus \in [Runs -> [Keys -> RunStatuses \cup {"absent"}]]
      /\ UNCHANGED <<steps, target>>
  BY KeysOfSteps, TablesFrame DEF Inv, TypeOK, StoreTypeOK
<1>1. ASSUME pc'[r] \notin {"rejected", "returned"}
      PROVE  ReturnFits(r)'
  BY <1>1 DEF ReturnFits
<1>2. CASE Write(r)
  <2>1. CASE pc[r] \in {"rejected", "returned"}
    <3>1. out[r] \in Seq(EventInserts \cup {}) /\ out \in [Runs -> Seq(EventInserts \cup FailureUpdates)]
      BY <1>0, <2>1 DEF RunInv, WritesFit, Failures, TypeOK
    <3>2. Head(out[r]) \in EventInserts
      BY <1>2, <3>1, QueuedStatements
    <3>3. UNCHANGED <<pc, runStatus, stepStatus>>
      BY <1>2, <3>2 DEF Write, Execute, EventInserts, EventInsert, CreateRunEvent, tables
    <3> QED BY <1>0, <3>3 DEF ReturnFits, Present
  <2>2. CASE pc[r] \notin {"rejected", "returned"}
    BY <1>1, <1>2, <2>2 DEF Write
  <2> QED BY <2>1, <2>2
<1>3. CASE FindPipeline(r) \/ ReadSteps(r)
  <2>1. UNCHANGED tables /\ pc[r] \in {"idle", "read"}
    BY <1>3 DEF FindPipeline, ReadSteps, At
  <2> QED BY <1>0, <2>1 DEF RunInv, StatusFits, ReturnFits, Present, tables
<1>4. CASE CreateRun(r) /\ UNCHANGED tables
  BY <1>0, <1>4 DEF CreateRun, At, RunInv, StatusFits, ReturnFits, Present, tables
<1>5. CASE CreateRun(r) /\ InsertRun(r, job[r].plan)
  <2>1. job[r].plan = steps[target[r]]
    BY <1>0, <1>5 DEF CreateRun, At, InsertRun, RunInv, PlanFits
  <2>2. \A k \in planned : stepStatus'[r][k] = "pending"
    BY <1>0, <1>5, <2>1 DEF InsertRun
  <2> QED BY <1>0, <2>2 DEF ReturnFits
<1>6. CASE Load(r) \/ LoadSteps(r) \/ StartRun(r)
  <2>1. pc[r] \in {"load", "loadSteps", "start"}
    BY <1>6 DEF Load, LoadSteps, StartRun, At
  <2>2. UNCHANGED stepStatus /\ (Present(r)' => Present(r))
    BY <1>0, <1>6
    DEF Load, LoadSteps, StartRun, ErrorOf, UpdatePipelineRunStatus, Present, tables, TypeOK,
        StoreTypeOK
  <2> QED BY <1>0, <2>1, <2>2 DEF RunInv, StepRowsFit, ReturnFits
<1>7. CASE FinishRun(r)
  <2>1. pc[r] = "finish" /\ UNCHANGED stepStatus
    BY <1>7 DEF FinishRun, ErrorOf, UpdatePipelineRunStatus, At, tables
  <2>2. /\ Present(r)' => Present(r)
        /\ runStatus[r] = "running" => runStatus'[r] # "pending"
    BY <1>0, <1>7
    DEF FinishRun, ErrorOf, UpdatePipelineRunStatus, Present, tables, TypeOK, StoreTypeOK
  <2>3. ASSUME Present(r)
        PROVE  /\ runStatus[r] = "running"
               /\ \A k \in planned : stepStatus[r][k] = "completed"
    BY <1>0, <2>1, <2>3
    DEF RunInv, RowsExist, StatusFits, PlanFits, LoopsFit, StepRowsFit, Executing, Present
  <2> QED BY <1>0, <2>1, <2>2, <2>3 DEF ReturnFits
<1>8. CASE Spawn(r) \/ Schedule(r) \/ BeginAttempt(r) \/ ExecuteSucceeds(r)
           \/ ExecuteFails(r) \/ CompleteStep(r)
  <2>1. pc'[r] \notin {"rejected", "returned"}
    BY <1>0, <1>8
    DEF Spawn, Schedule, BeginAttempt, ExecuteSucceeds, ExecuteFails, CompleteStep, Goto
  <2> QED BY <1>1, <2>1
<1>9. CASE Pick(r)
  <2>1. pc'[r] \notin {"rejected", "returned"}
    BY <1>0, <1>9 DEF Pick, Goto
  <2> QED BY <1>1, <2>1
<1>10. CreateRun(r) => UNCHANGED tables \/ InsertRun(r, job[r].plan)
  BY DEF CreateRun, ErrorOf
<1> QED
  BY <1>2, <1>3, <1>4, <1>5, <1>6, <1>7, <1>8, <1>9, <1>10 DEF RunStep

--------------------------------------------------------------------------------
(* The invariant.                                                             *)

LEMMA TimelineInit == Init => TimelineInv
BY DEF Init, StoreInit, TimelineInv, CompletionFits, FailureFits, EndFits, ReturnFits, Present

\* What TimelineInv says of a run whose rows, place and writes stay, or go.
LEMMA UntouchedTimeline ==
  ASSUME NEW r \in Runs, Untouched(r)
  PROVE  /\ CompletionFits(r) => CompletionFits(r)'
         /\ ReturnFits(r) => ReturnFits(r)'
         /\ FailureFits(r) => FailureFits(r)'
         /\ EndFits(r) => EndFits(r)'
<1>1. CompletionFits(r) => CompletionFits(r)'
  BY DEF Untouched, CompletionFits, Present, Announced, Recorded, Queued
<1>2. FailureFits(r) => FailureFits(r)'
  BY DEF Untouched, FailureFits, Present, Recorded
<1>3. EndFits(r) => EndFits(r)'
  BY DEF Untouched, EndFits, Present, Queued
<1>4. ReturnFits(r) => ReturnFits(r)'
  BY DEF Untouched, ReturnFits, Present
<1> QED BY <1>1, <1>2, <1>3, <1>4

LEMMA AbsentTimeline ==
  ASSUME NEW r \in Runs, ~ Present(r)'
  PROVE  CompletionFits(r)' /\ ReturnFits(r)' /\ FailureFits(r)' /\ EndFits(r)'
BY DEF CompletionFits, ReturnFits, FailureFits, EndFits, Present

LEMMA CrashedTimeline ==
  ASSUME NEW r \in Runs, UNCHANGED tables, out'[r] = <<>>,
         \/ pc'[r] = "lost"
         \/ pc'[r] = pc[r] /\ (pc[r] \in {"returned", "failing"} => out[r] = <<>>)
  PROVE  /\ CompletionFits(r) => CompletionFits(r)'
         /\ ReturnFits(r) => ReturnFits(r)'
         /\ FailureFits(r) => FailureFits(r)'
         /\ EndFits(r) => EndFits(r)'
<1>1. CompletionFits(r) => CompletionFits(r)'
  BY DEF tables, CompletionFits, Present, Announced, Recorded, Queued
<1>2. FailureFits(r) => FailureFits(r)'
  BY DEF tables, FailureFits, Present, Recorded
<1>3. EndFits(r) => EndFits(r)'
  BY DEF tables, EndFits, Present, Queued
<1>4. ReturnFits(r) => ReturnFits(r)'
  BY DEF tables, ReturnFits, Present
<1> QED BY <1>1, <1>2, <1>3, <1>4

LEMMA TimelineStep ==
  ASSUME Inv, TimelineInv, [Next]_vars
  PROVE  TimelineInv'
<1>0. TypeOK
  BY DEF Inv
<1> DEFINE Fits(r) == /\ CompletionFits(r) /\ ReturnFits(r)
                      /\ dbErrors[r] = 0 => FailureFits(r) /\ EndFits(r)
<1> SUFFICES ASSUME NEW r \in Runs
             PROVE  Fits(r)'
  BY DEF TimelineInv
<1>1. Fits(r)
  BY DEF TimelineInv
<1>2. ASSUME NEW p \in Pipelines, CreatePipeline(p)
      PROVE  Fits(r)'
  <2>1. /\ UNCHANGED <<pc, out, job, dbErrors, target, runStatus, stepStatus, events>>
        /\ Present(r) => steps'[target[r]] = steps[target[r]]
    BY <1>0, <1>2
    DEF CreatePipeline, InsertPipeline, control, faults, Inv, RunInv, RowsExist, Stored,
        StoreTypeOK, TypeOK
  <2> QED BY <1>1, <2>1
          DEF CompletionFits, ReturnFits, FailureFits, EndFits, Present, Announced, Recorded, Queued
<1>3. ASSUME NEW p \in Pipelines, DeletePipeline(p)
      PROVE  Fits(r)'
  <2>1. CASE target[r] = p
    <3>1. ~ Present(r)'
      BY <1>3, <2>1, DeletePipelineEffect DEF Present
    <3> QED BY <3>1, AbsentTimeline
  <2>2. CASE target[r] # p
    <3>1. /\ UNCHANGED <<pc, out, dbErrors, target>>
          /\ runStatus'[r] = runStatus[r] /\ stepStatus'[r] = stepStatus[r]
          /\ events'[r] = events[r] /\ steps'[target[r]] = steps[target[r]]
      BY <1>0, <1>3, <2>2
      DEF DeletePipeline, RemovePipeline, control, faults, TypeOK, StoreTypeOK
    <3> QED BY <1>1, <3>1
            DEF CompletionFits, ReturnFits, FailureFits, EndFits, Present, Announced, Recorded,
                Queued
  <2> QED BY <2>1, <2>2
<1>4. ASSUME NEW s \in Runs, FindPipeline(s) \/ RunStep(s)
      PROVE  Fits(r)'
  <2>1. dbErrors'[r] = 0 => dbErrors[r] = 0
    BY ErrorsStay
  <2>2. CASE s = r
    BY <1>1, <1>4, <2>1, <2>2, CompletionKeeps, ReturnKeeps, FailureKeeps, EndKeeps
  <2>3. CASE s # r
    <3>1. Untouched(r)
      BY <1>0, <1>4, <2>3, RunStepIsLocal, LocalFrame
    <3> QED BY <1>1, <2>1, <3>1, UntouchedTimeline
  <2> QED BY <2>2, <2>3
<1>5. CASE Crash
  <2>1. /\ UNCHANGED tables /\ UNCHANGED dbErrors /\ out'[r] = <<>>
        /\ pc'[r] = IF UnderWay(r) THEN "lost" ELSE pc[r]
    BY <1>5 DEF Crash
  <2>2. ~ UnderWay(r) /\ pc[r] \in {"returned", "failing"} => out[r] = <<>>
    BY DEF UnderWay
  <2> QED BY <1>1, <2>1, <2>2, CrashedTimeline
<1>6. CASE UNCHANGED vars
  BY <1>1, <1>6, UntouchedTimeline DEF vars, tables, control, faults, Untouched
<1> QED BY <1>2, <1>3, <1>4, <1>5, <1>6 DEF Next

(* What is said of a run, or about to be said, agrees with its rows, for any  *)
(* pipelines, requests, failing statements and crashes.                       *)
THEOREM TimelineConsistency == Spec => [](Inv /\ TimelineInv)
<1>1. Inv /\ TimelineInv /\ [Next]_vars => TimelineInv'
  BY TimelineStep
<1> QED BY <1>1, TimelineInit, Consistency, PTL DEF Spec

(* The events that ExecuteRun records never contradict the statuses it has    *)
(* recorded before them.                                                      *)
THEOREM TimelineTellsTheTruth == Spec => []TimelineIsTrue
<1>1. ASSUME Inv, TimelineInv
      PROVE  TimelineIsTrue
  <2> SUFFICES ASSUME NEW r \in Runs
               PROVE  /\ Recorded(r, "run_completed", EmptyKey) => runStatus[r] = "completed"
                      /\ (\E k \in Keys : Recorded(r, "run_failed", k)) /\ dbErrors[r] = 0 =>
                            runStatus[r] = "failed"
                      /\ \A k \in Keys :
                           /\ Recorded(r, "step_completed", k) => stepStatus[r][k] = "completed"
                           /\ Recorded(r, "step_failed", k) /\ dbErrors[r] = 0 =>
                                stepStatus[r][k] = "failed"
    BY DEF TimelineIsTrue
  <2>1. ASSUME NEW t, NEW k, Recorded(r, t, k)
        PROVE  Present(r) /\ Announced(r, t, k)
    BY <1>1, <2>1 DEF Inv, RunInv, RowsExist, Recorded, Announced
  <2>2. CompletionFits(r) /\ (dbErrors[r] = 0 => FailureFits(r))
    BY <1>1 DEF TimelineInv
  <2> QED BY <2>1, <2>2 DEF CompletionFits, FailureFits
<1> QED BY <1>1, TimelineConsistency, PTL

(* ExecuteRun and RunPipeline leave a run pending or running only if one of   *)
(* its own statements failed or the process died under it, and where the      *)
(* update to failed was not lost, with no step begun or with all completed.   *)
THEOREM OnlyFaultsStrand == Spec => []StrandedOnlyByFault
<1>1. ASSUME Inv, TimelineInv
      PROVE  StrandedOnlyByFault
  <2> SUFFICES ASSUME NEW r \in Runs, pc[r] \in EndPcs \ {"lost"}, out[r] = <<>>,
                      runStatus[r] \in {"pending", "running"}
               PROVE  /\ dbErrors[r] > 0
                      /\ \/ pc[r] = "failing"
                         \/ \A k \in KeysOf(steps[target[r]]) : stepStatus[r][k] = "pending"
                         \/ /\ runStatus[r] = "running"
                            /\ \A k \in KeysOf(steps[target[r]]) : stepStatus[r][k] = "completed"
    BY DEF StrandedOnlyByFault
  <2>1. dbErrors[r] # 0
    <3>1. ~ Queued(r, RunUpdate("failed"))
      BY DEF Queued
    <3>2. ~ EndFits(r)
      BY <3>1 DEF EndFits, EndPcs, Present
    <3> QED BY <1>1, <3>2 DEF TimelineInv
  <2>2. dbErrors[r] > 0
    <3>1. dbErrors[r] \in 0 .. MaxDbErrors
      BY <1>1 DEF Inv, TypeOK
    <3> QED BY <2>1, <3>1, BoundsAssumption
  <2>3. ReturnFits(r)
    BY <1>1 DEF TimelineInv
  <2> QED BY <2>2, <2>3 DEF ReturnFits, EndPcs, Present
<1> QED BY <1>1, TimelineConsistency, PTL

--------------------------------------------------------------------------------
(* What an action of a run announces.                                         *)

Ends == {"run_completed", "run_failed"}
Last == Ends \cup {"step_failed"}
Closing == Ends \cup {"step_completed"}

EventFits(r, w) ==
  /\ w.step # EmptyKey =>
       /\ pc[r] \in {"pick", "attempt", "execute", "complete"}
       /\ w.step \in job'[r].queued /\ w.step \notin job[r].completed
       /\ DependsOn(job[r].plan, w.step) \subseteq job[r].completed
  /\ w.value = "step_completed" => w.step \in job'[r].completed
  /\ w.value \in Last => pc'[r] \in EndPcs

EmissionFits(r) ==
  \A m \in DOMAIN out'[r] :
    /\ IsEvent(out'[r][m]) => EventFits(r, out'[r][m])
    /\ \A n \in 1 .. m - 1 :
         /\ out'[r][n].value \notin Closing
         /\ out'[r][n].value = "step_failed" => out'[r][m].step # out'[r][n].step

LEMMA NoEmission ==
  ASSUME NEW r \in Runs, out'[r] = <<>>
  PROVE  EmissionFits(r)
BY DEF EmissionFits

LEMMA OneEmission ==
  ASSUME TypeOK, NEW r \in Runs, NEW t, NEW k, Emit(r, <<EventInsert(t, k)>>),
         EventFits(r, EventInsert(t, k))
  PROVE  EmissionFits(r)
<1>1. out'[r] = <<EventInsert(t, k)>>
  BY DEF TypeOK, Emit
<1>2. \A m \in DOMAIN out'[r] : m = 1 /\ out'[r][m] = EventInsert(t, k)
  BY <1>1
<1> QED BY <1>2 DEF EmissionFits

LEMMA FailureEmission ==
  ASSUME TypeOK, NEW r \in Runs, NEW k,
         Emit(r, <<RunUpdate("failed"), EventInsert("run_failed", k)>>),
         EventFits(r, EventInsert("run_failed", k))
  PROVE  EmissionFits(r)
<1> DEFINE first == RunUpdate("failed")
           second == EventInsert("run_failed", k)
<1>1. out'[r] = <<first, second>>
  BY DEF TypeOK, Emit
<1>2. first.value = "failed" /\ ~ IsEvent(first)
  BY DEF IsEvent, RunUpdate
<1> HIDE DEF first, second
<1>3. /\ DOMAIN out'[r] = {1, 2} /\ out'[r][1] = first /\ out'[r][2] = second
  BY <1>1
<1>4. \A m \in DOMAIN out'[r] : \A n \in 1 .. m - 1 : n = 1
  BY <1>3
<1> QED BY <1>2, <1>3, <1>4 DEF EmissionFits, Closing, Ends, second

LEMMA ExecuteFailsEmits ==
  ASSUME Inv, NEW r \in Runs, ExecuteFails(r)
  PROVE  EmissionFits(r)
<1> DEFINE k == job[r].step
           retry == EventInsert("step_retry", k)
           first == StepUpdate(k, "failed")
           second == RunUpdate("failed")
           third == EventInsert("step_failed", k)
           fourth == EventInsert("run_failed", EmptyKey)
<1>0. TypeOK /\ LoopsFit(r) /\ At(r, "execute")
  BY DEF Inv, RunInv, ExecuteFails
<1>1. \/ out'[r] = <<>> \/ out'[r] = <<retry>>
      \/ out'[r] = <<first, second, third, fourth>> /\ pc'[r] = "failing"
      \/ out'[r] = <<retry, first, second, third, fourth>> /\ pc'[r] = "failing"
  BY <1>0, ExecuteFailsQueues
<1>2. /\ pc[r] = "execute" /\ k \in job'[r].queued /\ k \notin job[r].completed
      /\ DependsOn(job[r].plan, k) \subseteq job[r].completed
  <2>1. job'[r].queued = job[r].queued
    BY <1>0 DEF ExecuteFails, TypeOK, Job
  <2> QED BY <1>0, <2>1 DEF LoopsFit, At, InHand
<1>3. /\ EventFits(r, retry)
      /\ pc'[r] = "failing" => EventFits(r, third) /\ EventFits(r, fourth)
  <2>1. /\ retry.step = k /\ retry.value = "step_retry"
        /\ third.step = k /\ third.value = "step_failed"
        /\ fourth.step = EmptyKey /\ fourth.value = "run_failed"
    BY DEF EventInsert
  <2> HIDE DEF retry, third, fourth, k
  <2> QED BY <1>2, <2>1 DEF EventFits, Last, Ends, EndPcs
<1>4. /\ ~ IsEvent(first) /\ ~ IsEvent(second)
      /\ {retry.value, first.value, second.value, third.value} \cap Closing = {}
      /\ "step_failed" \notin {retry.value, first.value, second.value}
  BY DEF IsEvent, RunUpdate, StepUpdate, EventInsert, Closing, Ends
<1>a. fourth.step # third.step
  <2>1. k \in KeysOf(job[r].plan) /\ Accepts(job[r].plan)
    BY <1>0 DEF Inv, RunInv, PlanFits, LoopsFit, At, InHand, Executing
  <2> QED BY <2>1 DEF Accepts, EventInsert
<1> HIDE DEF k, retry, first, second, third, fourth
<1>5. CASE out'[r] = <<>>
  BY <1>5, NoEmission
<1>6. CASE out'[r] = <<retry>>
  <2>1. \A m \in DOMAIN out'[r] : m = 1 /\ out'[r][m] = retry
    BY <1>6
  <2> QED BY <1>3, <2>1 DEF EmissionFits
<1>7. CASE out'[r] = <<first, second, third, fourth>> /\ pc'[r] = "failing"
  <2>1. /\ \A m \in DOMAIN out'[r] : m \in 1 .. 4
        /\ out'[r][1] = first /\ out'[r][2] = second /\ out'[r][3] = third
        /\ out'[r][4] = fourth
    BY <1>7
  <2>2. \A m \in 1 .. 4 : \A n \in 1 .. m - 1 : n \in 1 .. 3
    OBVIOUS
  <2>3. /\ \A n \in 1 .. 3 : out'[r][n].value \notin Closing
        /\ \A n \in 1 .. 3 : out'[r][n].value = "step_failed" => n = 3
    BY <1>4, <2>1
  <2>5. \A m \in 1 .. 4 : 3 \in 1 .. m - 1 => m = 4
    OBVIOUS
  <2>4. \A m \in 1 .. 4 : IsEvent(out'[r][m]) => EventFits(r, out'[r][m])
    BY <1>3, <1>4, <1>7, <2>1
  <2> QED BY <1>a, <2>1, <2>2, <2>3, <2>4, <2>5 DEF EmissionFits
<1>8. CASE out'[r] = <<retry, first, second, third, fourth>> /\ pc'[r] = "failing"
  <2>1. /\ \A m \in DOMAIN out'[r] : m \in 1 .. 5
        /\ out'[r][1] = retry /\ out'[r][2] = first /\ out'[r][3] = second
        /\ out'[r][4] = third /\ out'[r][5] = fourth
    BY <1>8
  <2>2. \A m \in 1 .. 5 : \A n \in 1 .. m - 1 : n \in 1 .. 4
    OBVIOUS
  <2>3. /\ \A n \in 1 .. 4 : out'[r][n].value \notin Closing
        /\ \A n \in 1 .. 4 : out'[r][n].value = "step_failed" => n = 4
    BY <1>4, <2>1
  <2>5. \A m \in 1 .. 5 : 4 \in 1 .. m - 1 => m = 5
    OBVIOUS
  <2>4. \A m \in 1 .. 5 : IsEvent(out'[r][m]) => EventFits(r, out'[r][m])
    BY <1>3, <1>4, <1>8, <2>1
  <2> QED BY <1>a, <2>1, <2>2, <2>3, <2>4, <2>5 DEF EmissionFits
<1> QED BY <1>1, <1>5, <1>6, <1>7, <1>8

LEMMA Emission ==
  ASSUME Inv, NEW r \in Runs, FindPipeline(r) \/ RunStep(r), out[r] = <<>>
  PROVE  EmissionFits(r)
<1>0. TypeOK /\ LoopsFit(r) /\ job[r] \in Job
  BY DEF Inv, RunInv, TypeOK
<1>1. CASE UNCHANGED out
  BY <1>1, NoEmission
<1>2. CASE CreateRun(r) /\ Emit(r, <<EventInsert("run_queued", EmptyKey)>>)
  <2>1. EventFits(r, EventInsert("run_queued", EmptyKey))
    BY DEF EventFits, EventInsert, Last, Ends
  <2> QED BY <1>0, <1>2, <2>1, OneEmission
<1>3. CASE StartRun(r) /\ Emit(r, <<EventInsert("run_started", EmptyKey)>>)
  <2>1. EventFits(r, EventInsert("run_started", EmptyKey))
    BY DEF EventFits, EventInsert, Last, Ends
  <2> QED BY <1>0, <1>3, <2>1, OneEmission
<1>4. CASE Schedule(r) /\ Emit(r, <<RunUpdate("failed"), EventInsert("run_failed", EmptyKey)>>)
                      /\ Goto(r, "failing")
  <2>1. pc'[r] = "failing"
    BY <1>0, <1>4 DEF Goto, TypeOK
  <2>2. EventFits(r, EventInsert("run_failed", EmptyKey))
    BY <2>1 DEF EventFits, EventInsert, Last, Ends, EndPcs
  <2> QED BY <1>0, <1>4, <2>2, FailureEmission
<1>5. CASE Pick(r)
  <2>1. PICK k \in job[r].batch : \E retries \in MaxRetriesForStep(RetryCount(job[r].plan, k)) :
          /\ job' = [job EXCEPT ![r] = TakeInHand(@, k, retries)]
          /\ Emit(r, <<EventInsert("step_queued", k)>>)
    BY <1>5 DEF Pick
  <2>2. job'[r].queued = job[r].queued \cup {k}
    BY <1>0, <2>1 DEF TakeInHand, TypeOK, Job
  <2>3. /\ pc[r] = "pick" /\ k \notin job[r].completed
        /\ DependsOn(job[r].plan, k) \subseteq job[r].completed
    BY <1>0, <1>5 DEF LoopsFit, Pick, At
  <2>4. EventFits(r, EventInsert("step_queued", k))
    BY <2>2, <2>3 DEF EventFits, EventInsert, Last, Ends
  <2> QED BY <1>0, <2>1, <2>4, OneEmission
<1>6. CASE BeginAttempt(r)
  <2>1. /\ pc[r] = "attempt" /\ job'[r] = job[r]
        /\ job[r].step \in job[r].queued /\ job[r].step \notin job[r].completed
        /\ DependsOn(job[r].plan, job[r].step) \subseteq job[r].completed
    BY <1>0, <1>6 DEF LoopsFit, BeginAttempt, At, InHand
  <2>2. CASE Emit(r, <<EventInsert("step_running", job[r].step)>>)
    <3>1. EventFits(r, EventInsert("step_running", job[r].step))
      BY <2>1 DEF EventFits, EventInsert, Last, Ends
    <3> QED BY <1>0, <2>2, <3>1, OneEmission
  <2>3. CASE /\ Emit(r, <<RunUpdate("failed"), EventInsert("run_failed", job[r].step)>>)
             /\ Goto(r, "failing")
    <3>1. pc'[r] = "failing"
      BY <1>0, <2>3 DEF Goto, TypeOK
    <3>2. EventFits(r, EventInsert("run_failed", job[r].step))
      BY <2>1, <3>1 DEF EventFits, EventInsert, Last, Ends, EndPcs
    <3> QED BY <1>0, <2>3, <3>2, FailureEmission
  <2> QED BY <1>6, <2>2, <2>3 DEF BeginAttempt
<1>7. CASE ExecuteFails(r)
  BY <1>7, ExecuteFailsEmits
<1>8. CASE CompleteStep(r)
  <2> DEFINE k == job[r].step
  <2>1. /\ pc[r] = "complete"
        /\ k \in job[r].queued /\ k \notin job[r].completed
        /\ DependsOn(job[r].plan, k) \subseteq job[r].completed
    BY <1>0, <1>8 DEF LoopsFit, CompleteStep, At, InHand
  <2>2. CASE /\ job' = [job EXCEPT ![r].completed = @ \cup {k}]
             /\ Emit(r, <<EventInsert("step_completed", k)>>)
    <3>1. job'[r].queued = job[r].queued /\ k \in job'[r].completed
      BY <1>0, <2>2 DEF TypeOK, Job
    <3>2. EventFits(r, EventInsert("step_completed", k))
      BY <2>1, <3>1 DEF EventFits, EventInsert, Last, Ends
    <3> QED BY <1>0, <2>2, <3>2, OneEmission
  <2>3. CASE /\ Emit(r, <<RunUpdate("failed"), EventInsert("run_failed", k)>>)
             /\ Goto(r, "failing") /\ UNCHANGED job
    <3>1. pc'[r] = "failing"
      BY <1>0, <2>3 DEF Goto, TypeOK
    <3>2. EventFits(r, EventInsert("run_failed", k))
      BY <2>1, <2>3, <3>1 DEF EventFits, EventInsert, Last, Ends, EndPcs
    <3> QED BY <1>0, <2>3, <3>2, FailureEmission
  <2> QED BY <1>8, <2>2, <2>3 DEF CompleteStep
<1>9. CASE FinishRun(r) /\ Emit(r, <<EventInsert("run_completed", EmptyKey)>>)
  <2>1. pc'[r] = "returned"
    BY <1>0, <1>9 DEF FinishRun, Goto, TypeOK
  <2>2. EventFits(r, EventInsert("run_completed", EmptyKey))
    BY <2>1 DEF EventFits, EventInsert, Last, Ends, EndPcs
  <2> QED BY <1>0, <1>9, <2>2, OneEmission
<1> QED
  BY <1>1, <1>2, <1>3, <1>4, <1>5, <1>6, <1>7, <1>8, <1>9
  DEF RunStep, FindPipeline, ReadSteps, CreateRun, Spawn, Load, LoadSteps, StartRun, Schedule,
      ExecuteSucceeds, FinishRun, Write

\* A run that announces something has not ended, and forgets nothing.
LEMMA LocalsGrow ==
  ASSUME Inv, NEW r \in Runs, FindPipeline(r) \/ RunStep(r), out[r] = <<>>, KnownFits(r)
  PROVE  /\ pc[r] \notin EndPcs
         /\ job[r].queued \subseteq job'[r].queued
         /\ job[r].completed \subseteq job'[r].completed
         /\ pc'[r] \in HandlerPcs => job'[r].queued = {} /\ job'[r].completed = {}
<1>0. TypeOK /\ job[r] \in Job /\ job \in [Runs -> Job] /\ pc \in [Runs -> Pcs]
  BY DEF Inv, TypeOK
<1>1. pc[r] \in HandlerPcs => job[r].queued = {} /\ job[r].completed = {}
  BY DEF KnownFits
<1>2. CASE FindPipeline(r) \/ CreateRun(r)
  BY <1>0, <1>1, <1>2
  DEF FindPipeline, CreateRun, At, Goto, HandlerPcs, EndPcs
<1>3. CASE ReadSteps(r)
  <2>1. job'[r].queued = job[r].queued /\ job'[r].completed = job[r].completed
    BY <1>0, <1>3 DEF ReadSteps, Job
  <2> QED BY <1>1, <1>3, <2>1 DEF ReadSteps, At, HandlerPcs, EndPcs
<1>4. CASE Spawn(r)
  <2>1. pc[r] = "spawn" /\ pc'[r] = "load"
    BY <1>0, <1>4 DEF Spawn, At, Goto
  <2> QED BY <1>1, <2>1 DEF HandlerPcs, EndPcs
<1>5. CASE Load(r) \/ StartRun(r) \/ BeginAttempt(r) \/ ExecuteSucceeds(r) \/ FinishRun(r)
  BY <1>0, <1>5
  DEF Load, StartRun, BeginAttempt, ExecuteSucceeds, FinishRun, ErrorOf, At, Goto, HandlerPcs,
      EndPcs
<1>6. CASE LoadSteps(r) \/ Schedule(r) \/ ExecuteFails(r)
  <2>1. job'[r].queued = job[r].queued /\ job'[r].completed = job[r].completed
    BY <1>0, <1>6 DEF LoadSteps, Schedule, ExecuteFails, Job
  <2>2. pc[r] \notin EndPcs /\ pc'[r] \notin HandlerPcs
    BY <1>0, <1>6 DEF LoadSteps, Schedule, ExecuteFails, At, Goto, HandlerPcs, EndPcs
  <2> QED BY <2>1, <2>2
<1>7. CASE Pick(r)
  <2>1. PICK k \in job[r].batch : \E retries \in MaxRetriesForStep(RetryCount(job[r].plan, k)) :
          /\ job' = [job EXCEPT ![r] = TakeInHand(@, k, retries)]
          /\ Goto(r, IF 0 <= retries THEN "attempt" ELSE "complete")
    BY <1>7 DEF Pick
  <2>2. job'[r].queued = job[r].queued \cup {k} /\ job'[r].completed = job[r].completed
    BY <1>0, <2>1 DEF TakeInHand, Job
  <2>3. pc[r] \notin EndPcs /\ pc'[r] \notin HandlerPcs
    BY <1>0, <1>7, <2>1 DEF Pick, At, Goto, HandlerPcs, EndPcs
  <2> QED BY <2>2, <2>3
<1>8. CASE CompleteStep(r)
  <2>1. job'[r].queued = job[r].queued /\ job[r].completed \subseteq job'[r].completed
    BY <1>0, <1>8 DEF CompleteStep, Job
  <2>2. pc[r] \notin EndPcs /\ pc'[r] \notin HandlerPcs
    BY <1>0, <1>8 DEF CompleteStep, At, Goto, HandlerPcs, EndPcs
  <2> QED BY <2>1, <2>2
<1> QED
  BY <1>2, <1>3, <1>4, <1>5, <1>6, <1>7, <1>8 DEF RunStep, Write

--------------------------------------------------------------------------------
(* KnownFits.                                                                 *)

LEMMA KnownWrite ==
  ASSUME Inv, NEW r \in Runs, Write(r), KnownFits(r)
  PROVE  KnownFits(r)'
<1>1. /\ UNCHANGED <<pc, job>>
      /\ Present(r)' => Present(r)
  <2>1. Effect(r) /\ out[r] # <<>>
    BY WriteEffect DEF Write
  <2> QED BY <2>1, AbsentStays DEF Write, At
<1>2. ASSUME NEW t, NEW k, Announced(r, t, k)'
      PROVE  Announced(r, t, k)
  <2>1. 1 \in DOMAIN out[r] /\ Head(out[r]) = out[r][1]
    BY QueueMoves
  <2>2. Recorded(r, t, k)' => Announced(r, t, k)
    BY <2>1, NewEvent DEF RunStep, Announced, Queued
  <2>3. Queued(r, EventInsert(t, k))' => Queued(r, EventInsert(t, k))
    BY QueueMoves DEF Queued
  <2> QED BY <1>2, <2>2, <2>3 DEF Announced
<1> QED BY <1>1, <1>2 DEF KnownFits

LEMMA KnownEmission ==
  ASSUME Inv, NEW r \in Runs, FindPipeline(r) \/ RunStep(r), out[r] = <<>>, KnownFits(r)
  PROVE  KnownFits(r)'
<1>1. EmissionFits(r) /\ UNCHANGED events
  BY Emission, TablesFrame
<1>2. /\ pc[r] \notin EndPcs
      /\ job[r].queued \subseteq job'[r].queued
      /\ job[r].completed \subseteq job'[r].completed
      /\ pc'[r] \in HandlerPcs => job'[r].queued = {} /\ job'[r].completed = {}
  BY LocalsGrow
<1> SUFFICES ASSUME Present(r)', NEW t \in EventTypes, NEW k \in Keys, Announced(r, t, k)'
             PROVE  /\ k # EmptyKey => k \in job'[r].queued
                    /\ t = "step_completed" => k \in job'[r].completed
                    /\ t \in Last => pc'[r] \in EndPcs
  BY <1>2 DEF KnownFits, Last, Ends
<1>3. CASE Recorded(r, t, k)'
  <2>1. Recorded(r, t, k)
    BY <1>1, <1>3 DEF Recorded
  <2>2. Present(r)
    BY <2>1 DEF Inv, RunInv, RowsExist, Recorded
  <2> QED BY <1>2, <2>1, <2>2 DEF KnownFits, Announced, Last, Ends
<1>4. CASE Queued(r, EventInsert(t, k))'
  <2>1. PICK m \in DOMAIN out'[r] : out'[r][m] = EventInsert(t, k)
    BY <1>4 DEF Queued
  <2>2. EventFits(r, EventInsert(t, k))
    BY <1>1, <2>1, StatementFields DEF EmissionFits, IsEvent
  <2>3. EventInsert(t, k).step = k /\ EventInsert(t, k).value = t
    BY DEF EventInsert
  <2> QED BY <2>2, <2>3 DEF EventFits
<1> QED BY <1>3, <1>4 DEF Announced

LEMMA KnownKeeps ==
  ASSUME Inv, NEW r \in Runs, FindPipeline(r) \/ RunStep(r), KnownFits(r)
  PROVE  KnownFits(r)'
<1>1. out[r] # <<>> => Write(r)
  BY DEF RunStep, FindPipeline, ReadSteps, CreateRun, Spawn, Load, LoadSteps, StartRun, Schedule,
         Pick, BeginAttempt, ExecuteSucceeds, ExecuteFails, CompleteStep, FinishRun, At
<1> QED BY <1>1, KnownWrite, KnownEmission

--------------------------------------------------------------------------------
(* PairsFit.                                                                  *)

\* What Write does to the timeline.
LEMMA WriteRecords ==
  ASSUME Inv, NEW r \in Runs, Write(r)
  PROVE  \/ events'[r] = events[r]
         \/ /\ IsEvent(out[r][1])
            /\ events'[r] = Append(events[r], [type |-> out[r][1].value, step |-> out[r][1].step])
<1>1. events \in [Runs -> Seq(Event)] /\ Head(out[r]) = out[r][1]
  BY QueueMoves DEF Inv, TypeOK, StoreTypeOK
<1> QED
  BY <1>1 DEF Write, Execute, UpdatePipelineRunStatus, UpdateStepRunStatus, CreateRunEvent,
              IsEvent, tables

LEMMA PairsWrite ==
  ASSUME Inv, NEW r \in Runs, Write(r), RecordedInOrder(r), QueuedAfterRecorded(r), QueuedInOrder(r)
  PROVE  RecordedInOrder(r)' /\ QueuedAfterRecorded(r)' /\ QueuedInOrder(r)'
<1>0. events[r] \in Seq(Event)
  BY DEF Inv, TypeOK, StoreTypeOK
<1>1. UNCHANGED <<steps, target>>
  BY TablesFrame DEF RunStep
<1>2. /\ 1 \in DOMAIN out[r]
      /\ \A m \in DOMAIN out'[r] :
           m \in Nat \ {0} /\ m + 1 \in DOMAIN out[r] /\ out'[r][m] = out[r][m + 1]
  BY QueueMoves
<1>3. ASSUME NEW m \in DOMAIN out'[r], NEW n \in 1 .. m - 1,
             IsEvent(out'[r][m]), IsEvent(out'[r][n])
      PROVE  MayFollow(r, out'[r][n].value, out'[r][n].step, out'[r][m].step)
  <2>1. n \in DOMAIN out'[r]
    <3>1. out' = [out EXCEPT ![r] = Tail(out[r])] /\ out[r] # <<>>
          /\ out \in [Runs -> Seq(EventInserts \cup FailureUpdates)]
      BY DEF Write, Inv, TypeOK
    <3>2. out'[r] \in Seq(EventInserts \cup FailureUpdates)
      BY <3>1
    <3> QED BY <3>2
  <2>2. n + 1 \in 1 .. (m + 1) - 1 /\ m + 1 \in DOMAIN out[r]
    BY <1>2
  <2>3. out'[r][m] = out[r][m + 1] /\ out'[r][n] = out[r][n + 1]
    BY <1>2, <2>1
  <2> QED BY <1>3, <2>2, <2>3 DEF QueuedInOrder
<1>4. QueuedInOrder(r)'
  BY <1>1, <1>3 DEF QueuedInOrder, IsEvent, MayFollow
<1>5. CASE events'[r] = events[r]
  <2>1. RecordedInOrder(r)'
    BY <1>1, <1>5 DEF RecordedInOrder, MayFollow
  <2>2. QueuedAfterRecorded(r)'
    BY <1>1, <1>2, <1>5 DEF QueuedAfterRecorded, IsEvent, MayFollow
  <2> QED BY <1>4, <2>1, <2>2
<1>6. CASE /\ IsEvent(out[r][1])
           /\ events'[r] = Append(events[r], [type |-> out[r][1].value, step |-> out[r][1].step])
  <2> DEFINE last == Len(events[r]) + 1
  <2>1. /\ DOMAIN events'[r] = 1 .. last /\ DOMAIN events[r] = 1 .. last - 1 /\ last \in Nat
        /\ \A n \in 1 .. last - 1 : events'[r][n] = events[r][n]
        /\ events'[r][last].type = out[r][1].value /\ events'[r][last].step = out[r][1].step
    BY <1>0, <1>6
  <2> HIDE DEF last
  <2>2. RecordedInOrder(r)'
    <3> SUFFICES ASSUME NEW m \in DOMAIN events'[r], NEW n \in 1 .. m - 1
                 PROVE  MayFollow(r, events[r][n].type, events[r][n].step, events[r][m].step)'
      BY DEF RecordedInOrder
    <3>1. MayFollow(r, events'[r][n].type, events'[r][n].step, events'[r][m].step)
      <4>1. n \in 1 .. last - 1 /\ n \in DOMAIN events[r] /\ events'[r][n] = events[r][n]
        BY <2>1
      <4>2. CASE m = last
        BY <1>2, <1>6, <2>1, <4>1, <4>2 DEF QueuedAfterRecorded
      <4>3. CASE m # last
        <5>1. m \in DOMAIN events[r] /\ events'[r][m] = events[r][m]
          BY <2>1, <4>3
        <5> QED BY <4>1, <5>1 DEF RecordedInOrder
      <4> QED BY <4>2, <4>3
    <3> QED BY <1>1, <3>1 DEF MayFollow
  <2>3. QueuedAfterRecorded(r)'
    <3> SUFFICES ASSUME NEW n \in DOMAIN events'[r], NEW m \in DOMAIN out'[r], IsEvent(out'[r][m])
                 PROVE  MayFollow(r, events[r][n].type, events[r][n].step, out[r][m].step)'
      BY DEF QueuedAfterRecorded, IsEvent
    <3>1. MayFollow(r, events'[r][n].type, events'[r][n].step, out'[r][m].step)
      <4>1. m + 1 \in DOMAIN out[r] /\ out'[r][m] = out[r][m + 1] /\ 1 \in 1 .. (m + 1) - 1
        BY <1>2
      <4>2. CASE n = last
        BY <1>6, <2>1, <4>1, <4>2 DEF QueuedInOrder
      <4>3. CASE n # last
        <5>1. n \in DOMAIN events[r] /\ events'[r][n] = events[r][n]
          BY <2>1, <4>3
        <5> QED BY <4>1, <5>1 DEF QueuedAfterRecorded
      <4> QED BY <4>2, <4>3
    <3> QED BY <1>1, <3>1 DEF MayFollow
  <2> QED BY <1>4, <2>2, <2>3
<1> QED BY <1>5, <1>6, WriteRecords

\* No step of the graph, and none that has been announced, waits for one that is
\* announced now.
LEMMA NothingWaits ==
  ASSUME Inv, NEW r \in Runs, Stored(r), KnownFits(r), pc[r] \in {"start"} \cup Executing,
         NEW k \in Keys, k # EmptyKey => k \in job[r].queued,
         NEW l, l = EmptyKey \/ l \notin job[r].completed
  PROVE  l \notin DependsOn(steps[target[r]], k)
<1>1. /\ job[r].plan = steps[target[r]] /\ Accepts(job[r].plan) /\ LoopsFit(r)
  BY DEF Inv, RunInv, PlanFits
<1>2. CASE k = EmptyKey
  <2>1. k \notin KeysOf(job[r].plan)
    BY <1>1, <1>2 DEF Accepts
  <2> QED BY <1>1, <2>1 DEF DependsOn, KeysOf
<1>3. CASE k # EmptyKey
  <2>1. /\ pc[r] \in Executing
        /\ DependsOn(job[r].plan, k) \subseteq job[r].completed
        /\ job[r].completed \subseteq KeysOf(job[r].plan)
    BY <1>1, <1>3 DEF LoopsFit, Executing, InHand
  <2> QED BY <1>1, <2>1 DEF Accepts
<1> QED BY <1>2, <1>3

LEMMA PairsEmission ==
  ASSUME Inv, NEW r \in Runs, FindPipeline(r) \/ RunStep(r), out[r] = <<>>,
         KnownFits(r), Present(r), RecordedInOrder(r)
  PROVE  RecordedInOrder(r)' /\ QueuedAfterRecorded(r)' /\ QueuedInOrder(r)'
<1>0. /\ events[r] \in Seq(Event) /\ Stored(r)
      /\ out'[r] \in Seq(EventInserts \cup FailureUpdates)
  <2>1. Inv'
    BY RunStepKeepsInv
  <2> QED BY <2>1 DEF Inv, TypeOK, StoreTypeOK, RunInv, RowsExist
<1>1. EmissionFits(r) /\ UNCHANGED <<steps, target, events>> /\ pc[r] \notin EndPcs
  BY Emission, TablesFrame, LocalsGrow
<1>2. RecordedInOrder(r)'
  BY <1>1 DEF RecordedInOrder, MayFollow
<1>3. out'[r] # <<>> => pc[r] \in {"start"} \cup Executing
  <2>1. pc[r] \notin {"idle", "read", "insert"}
    BY DEF Inv, RunInv, StatusFits
  <2>2. pc[r] \in {"spawn", "load", "loadSteps"} => UNCHANGED out
    BY <1>1
    DEF RunStep, FindPipeline, ReadSteps, CreateRun, Spawn, Load, LoadSteps, StartRun, Schedule,
        Pick, BeginAttempt, ExecuteSucceeds, ExecuteFails, CompleteStep, FinishRun, Write, At
  <2>3. pc[r] \in Pcs
    BY DEF Inv, TypeOK
  <2> QED BY <1>1, <2>1, <2>2, <2>3 DEF Pcs, HandlerPcs, ExecutePcs, Executing
<1>4. ASSUME NEW m \in DOMAIN out'[r], IsEvent(out'[r][m])
      PROVE  /\ pc[r] \in {"start"} \cup Executing
             /\ EventFits(r, out'[r][m])
             /\ out'[r][m].step = EmptyKey \/ out'[r][m].step \notin job[r].completed
             /\ out'[r][m].step \in Keys
  <2>1. out'[r] # <<>> /\ out'[r][m] \in EventInserts \cup FailureUpdates
    BY <1>0
  <2>2. out'[r][m].step \in Keys
    BY <2>1, KeysAssumption DEF EventInserts, FailureUpdates, EventInsert, RunUpdate, StepUpdate
  <2> QED BY <1>1, <1>3, <1>4, <2>1, <2>2 DEF EmissionFits, EventFits
<1>5. QueuedAfterRecorded(r)'
  <2> SUFFICES ASSUME NEW n \in DOMAIN events[r], NEW m \in DOMAIN out'[r], IsEvent(out'[r][m])
               PROVE  MayFollow(r, events[r][n].type, events[r][n].step, out[r][m].step)'
    BY <1>1 DEF QueuedAfterRecorded, IsEvent
  <2> DEFINE t == events[r][n].type
             k == events[r][n].step
             l == out'[r][m].step
  <2>1. t \in EventTypes /\ k \in Keys /\ Announced(r, t, k)
    <3>1. events[r][n] \in Event
      BY <1>0
    <3>2. events[r][n] = [type |-> t, step |-> k]
      BY <3>1 DEF Event
    <3> QED BY <3>1, <3>2 DEF Event, Announced, Recorded
  <2> HIDE DEF t, k
  <2>2. /\ k # EmptyKey => k \in job[r].queued
        /\ t = "step_completed" => k \in job[r].completed
        /\ t \notin Last
    BY <1>1, <2>1 DEF KnownFits, Last, Ends
  <2>3. l \notin DependsOn(steps[target[r]], k)
    BY <1>0, <1>4, <2>1, <2>2, NothingWaits
  <2>4. t = "step_completed" => l # k
    <3>1. EmptyKey \notin job[r].completed
      BY <1>0, <1>4, <2>1 DEF Inv, RunInv, PlanFits, LoopsFit, Accepts
    <3> QED BY <1>4, <2>2, <3>1
  <2>5. MayFollow(r, t, k, l)
    BY <2>2, <2>3, <2>4 DEF MayFollow, Last, Ends
  <2>6. MayFollow(r, events[r][n].type, events[r][n].step, out'[r][m].step)
    BY <2>5 DEF t, k
  <2> QED BY <1>1, <2>6 DEF MayFollow
<1>6. QueuedInOrder(r)'
  <2> SUFFICES ASSUME NEW m \in DOMAIN out'[r], NEW n \in 1 .. m - 1,
                      IsEvent(out'[r][m]), IsEvent(out'[r][n])
               PROVE  MayFollow(r, out[r][n].value, out[r][n].step, out[r][m].step)'
    BY DEF QueuedInOrder, IsEvent
  <2> DEFINE t == out'[r][n].value
             k == out'[r][n].step
             l == out'[r][m].step
  <2>1. n \in DOMAIN out'[r] /\ t \notin Closing /\ (t = "step_failed" => l # k)
    BY <1>0, <1>1 DEF EmissionFits
  <2>2. /\ k # EmptyKey => DependsOn(job[r].plan, k) \subseteq job[r].completed
        /\ l = EmptyKey \/ l \notin job[r].completed
        /\ pc[r] \in {"start"} \cup Executing /\ k \in Keys
    BY <1>4, <2>1 DEF EventFits
  <2> HIDE DEF t, k, l
  <2>3. /\ job[r].plan = steps[target[r]] /\ Accepts(job[r].plan)
        /\ job[r].completed \subseteq KeysOf(job[r].plan)
    BY <1>0, <2>2 DEF Inv, RunInv, PlanFits, LoopsFit
  <2>4. l \notin DependsOn(steps[target[r]], k)
    <3>1. EmptyKey \notin KeysOf(job[r].plan)
      BY <2>3 DEF Accepts
    <3>2. DependsOn(job[r].plan, EmptyKey) = {}
      BY <3>1 DEF DependsOn, KeysOf
    <3> QED BY <2>2, <2>3, <3>1, <3>2
  <2>5. MayFollow(r, t, k, l)
    BY <2>1, <2>4 DEF MayFollow, Closing, Ends
  <2>6. MayFollow(r, out'[r][n].value, out'[r][n].step, out'[r][m].step)
    BY <2>5 DEF t, k, l
  <2> QED BY <1>1, <2>6 DEF MayFollow
<1> QED BY <1>2, <1>5, <1>6

\* The row that CreateRun inserts has no events yet.
LEMMA PairsOfNewRun ==
  ASSUME Inv, NEW r \in Runs, FindPipeline(r) \/ RunStep(r), ~ Present(r), Present(r)'
  PROVE  RecordedInOrder(r)' /\ QueuedAfterRecorded(r)' /\ QueuedInOrder(r)'
<1>1. Effect(r) /\ RowsExist(r)
  BY RunStepEffect DEF Inv, RunInv
<1>2. At(r, "insert") /\ UNCHANGED events /\ events[r] = <<>>
  BY <1>1, AbsentStays DEF RowsExist
<1>3. out'[r] = <<>> \/ out'[r] = <<EventInsert("run_queued", EmptyKey)>>
  BY <1>2
  DEF Inv, TypeOK, RunStep, FindPipeline, ReadSteps, CreateRun, Spawn, Load, LoadSteps, StartRun,
      Schedule, Pick, BeginAttempt, ExecuteSucceeds, ExecuteFails, CompleteStep, FinishRun, Write,
      At, Emit
<1>4. \A m \in DOMAIN out'[r] : m = 1
  BY <1>3
<1> QED BY <1>2, <1>4 DEF RecordedInOrder, QueuedAfterRecorded, QueuedInOrder

LEMMA PairsKeep ==
  ASSUME Inv, NEW r \in Runs, FindPipeline(r) \/ RunStep(r), KnownFits(r), PairsFit(r)
  PROVE  PairsFit(r)'
<1> SUFFICES ASSUME Present(r)'
             PROVE  RecordedInOrder(r)' /\ QueuedAfterRecorded(r)' /\ QueuedInOrder(r)'
  BY DEF PairsFit
<1>1. CASE ~ Present(r)
  BY <1>1, PairsOfNewRun
<1>2. CASE Present(r) /\ Write(r)
  BY <1>2, PairsWrite DEF PairsFit
<1>3. CASE Present(r) /\ ~ Write(r)
  <2>1. out[r] = <<>>
    BY <1>3
    DEF RunStep, FindPipeline, ReadSteps, CreateRun, Spawn, Load, LoadSteps, StartRun, Schedule,
        Pick, BeginAttempt, ExecuteSucceeds, ExecuteFails, CompleteStep, FinishRun, At
  <2> QED BY <1>3, <2>1, PairsEmission DEF PairsFit
<1> QED BY <1>1, <1>2, <1>3

--------------------------------------------------------------------------------
(* The invariant.                                                             *)

LEMMA OrderInit == Init => OrderInv
BY DEF Init, StoreInit, NoJob, OrderInv, KnownFits, PairsFit, Present

\* What OrderInv says of a run whose rows, place, locals and writes stay.
LEMMA UntouchedOrder ==
  ASSUME NEW r \in Runs, KnownFits(r), PairsFit(r), steps'[target'[r]] = steps[target[r]],
         pc'[r] = pc[r], out'[r] = out[r], job'[r] = job[r],
         runStatus'[r] = runStatus[r], events'[r] = events[r]
  PROVE  KnownFits(r)' /\ PairsFit(r)'
<1>1. KnownFits(r)'
  BY DEF KnownFits, Present, Announced, Recorded, Queued
<1>2. PairsFit(r)'
  BY DEF PairsFit, Present, RecordedInOrder, QueuedAfterRecorded, QueuedInOrder, IsEvent, MayFollow
<1> QED BY <1>1, <1>2

LEMMA AbsentOrder ==
  ASSUME NEW r \in Runs, KnownFits(r), ~ Present(r)', UNCHANGED <<pc, job>>
  PROVE  KnownFits(r)' /\ PairsFit(r)'
BY DEF KnownFits, PairsFit

LEMMA CrashedOrder ==
  ASSUME NEW r \in Runs, KnownFits(r), PairsFit(r), UNCHANGED <<tables, job>>, out'[r] = <<>>,
         pc'[r] \in {"lost", pc[r]}
  PROVE  KnownFits(r)' /\ PairsFit(r)'
<1>1. KnownFits(r)'
  BY DEF tables, KnownFits, Present, Announced, Recorded, Queued, HandlerPcs, EndPcs
<1>2. PairsFit(r)'
  BY DEF tables, PairsFit, Present, RecordedInOrder, QueuedAfterRecorded, QueuedInOrder, MayFollow
<1> QED BY <1>1, <1>2

LEMMA OrderStep ==
  ASSUME Inv, OrderInv, [Next]_vars
  PROVE  OrderInv'
<1>0. TypeOK
  BY DEF Inv
<1> SUFFICES ASSUME NEW r \in Runs
             PROVE  KnownFits(r)' /\ PairsFit(r)'
  BY DEF OrderInv
<1>1. KnownFits(r) /\ PairsFit(r)
  BY DEF OrderInv
<1>2. ASSUME NEW p \in Pipelines, CreatePipeline(p)
      PROVE  KnownFits(r)' /\ PairsFit(r)'
  <2>1. /\ UNCHANGED <<pc, out, job, target, runStatus, events>>
        /\ pipelines[p] = "unused" /\ \A q \in Pipelines \ {p} : steps'[q] = steps[q]
        /\ target[r] \in Pipelines
    BY <1>0, <1>2 DEF CreatePipeline, InsertPipeline, control, TypeOK, StoreTypeOK
  <2>2. CASE Present(r)
    <3>1. target[r] # p
      BY <2>1, <2>2 DEF Inv, RunInv, RowsExist, Stored
    <3> QED BY <1>1, <2>1, <3>1, UntouchedOrder
  <2>3. CASE ~ Present(r)
    <3>1. ~ Present(r)'
      BY <2>1, <2>3 DEF Present
    <3> QED BY <1>1, <2>1, <3>1, AbsentOrder
  <2> QED BY <2>2, <2>3
<1>3. ASSUME NEW p \in Pipelines, DeletePipeline(p)
      PROVE  KnownFits(r)' /\ PairsFit(r)'
  <2>1. UNCHANGED <<pc, out, job, target>>
    BY <1>3 DEF DeletePipeline, RemovePipeline, control
  <2>2. CASE target[r] = p
    <3>1. ~ Present(r)'
      BY <1>3, <2>2, DeletePipelineEffect DEF Present
    <3> QED BY <1>1, <2>1, <3>1, AbsentOrder
  <2>3. CASE target[r] # p
    <3>1. /\ steps'[target[r]] = steps[target[r]]
          /\ runStatus'[r] = runStatus[r] /\ events'[r] = events[r]
      BY <1>0, <1>3, <2>3 DEF DeletePipeline, RemovePipeline, TypeOK, StoreTypeOK
    <3> QED BY <1>1, <2>1, <3>1, UntouchedOrder
  <2> QED BY <2>2, <2>3
<1>4. ASSUME NEW s \in Runs, FindPipeline(s) \/ RunStep(s)
      PROVE  KnownFits(r)' /\ PairsFit(r)'
  <2>1. CASE s = r
    BY <1>1, <1>4, <2>1, KnownKeeps, PairsKeep
  <2>2. CASE s # r
    <3>1. Untouched(r)
      BY <1>0, <1>4, <2>2, RunStepIsLocal, LocalFrame
    <3> QED BY <1>1, <3>1, UntouchedOrder DEF Untouched
  <2> QED BY <2>1, <2>2
<1>5. CASE Crash
  BY <1>1, <1>5, CrashedOrder DEF Crash
<1>6. CASE UNCHANGED vars
  BY <1>1, <1>6, UntouchedOrder DEF vars, tables, control
<1> QED BY <1>2, <1>3, <1>4, <1>5, <1>6 DEF Next

(* What is announced is known to the locals of ExecuteRun, and nothing comes  *)
(* after what it must not come after, recorded or not, for any pipelines,     *)
(* requests, failing statements and crashes.                                  *)
THEOREM OrderConsistency == Spec => [](Inv /\ OrderInv)
<1>1. Inv /\ OrderInv /\ [Next]_vars => OrderInv'
  BY OrderStep
<1> QED BY <1>1, OrderInit, Consistency, PTL DEF Spec

(* The events that ExecuteRun records are in the order of the graph, and none *)
(* follows the end of its step or of the run, whatever events are lost.       *)
THEOREM TimelinesAreOrdered == Spec => []TimelineIsOrdered
<1>1. ASSUME Inv, OrderInv
      PROVE  TimelineIsOrdered
  <2> SUFFICES ASSUME NEW r \in Runs, NEW m \in DOMAIN events[r], NEW n \in 1 .. m - 1
               PROVE  MayFollow(r, events[r][n].type, events[r][n].step, events[r][m].step)
    BY DEF TimelineIsOrdered, MayFollow
  <2>1. Present(r)
    BY <1>1 DEF Inv, RunInv, RowsExist
  <2> QED BY <1>1, <2>1 DEF OrderInv, PairsFit, RecordedInOrder
<1> QED BY <1>1, OrderConsistency, PTL

--------------------------------------------------------------------------------
(* Retries and attempts, as integers.                                         *)

LEMMA RetriesAreWithinInt ==
  ASSUME NEW raw \in Int \cup {NotANumber}, NEW n \in MaxRetriesForStep(raw)
  PROVE  n \in Int /\ n <= MaxInt
BY RetryAssumption, MaxIntAssumption DEF MaxRetriesForStep

LEMMA IncrementIsWithinInt ==
  ASSUME NEW n \in Int, n <= MaxInt
  PROVE  /\ Increment(n) \in Int /\ Increment(n) <= MaxInt
         /\ n < MaxInt => Increment(n) = n + 1
BY MaxIntAssumption DEF Increment

LEMMA RetryCountType ==
  ASSUME NEW sq \in Seq(Step), NEW k \in KeysOf(sq)
  PROVE  RetryCount(sq, k) \in Int \cup {NotANumber}
<1>1. \E i \in DOMAIN sq : sq[i].key = k
  BY DEF KeysOf
<1>2. StepOrder(sq, k) \in DOMAIN sq
  BY <1>1 DEF StepOrder
<1>3. sq[StepOrder(sq, k)] \in Step
  BY <1>2
<1> QED BY <1>3 DEF RetryCount, Step

\* Only ExecuteFails changes the counter, and Pick resets it.
LEMMA CounterKeeps ==
  ASSUME Inv, NEW r \in Runs, FindPipeline(r) \/ RunStep(r), CounterFits(r)
  PROVE  CounterFits(r)'
<1>0. TypeOK /\ job \in [Runs -> Job] /\ pc \in [Runs -> Pcs] /\ job[r] \in Job
  BY DEF Inv, TypeOK
<1>1. CASE Pick(r)
  <2>1. PICK k \in job[r].batch : \E retries \in MaxRetriesForStep(RetryCount(job[r].plan, k)) :
          /\ job' = [job EXCEPT ![r] = TakeInHand(@, k, retries)]
          /\ Goto(r, IF 0 <= retries THEN "attempt" ELSE "complete")
    BY <1>1 DEF Pick
  <2>p. PICK retries \in MaxRetriesForStep(RetryCount(job[r].plan, k)) :
          /\ job' = [job EXCEPT ![r] = TakeInHand(@, k, retries)]
          /\ Goto(r, IF 0 <= retries THEN "attempt" ELSE "complete")
    BY <2>1
  <2>2. /\ job'[r].plan = job[r].plan /\ job'[r].step = k
        /\ job'[r].attempt = 0 /\ job'[r].retries = retries
    BY <1>0, <2>p DEF TakeInHand, Job
  <2>3. k \in KeysOf(job[r].plan)
    BY <1>1 DEF Inv, RunInv, LoopsFit, Pick, At
  <2>4. retries \in Int /\ retries <= MaxInt
    BY <1>0, <2>3, RetryCountType, RetriesAreWithinInt DEF Job
  <2>5. pc'[r] = IF 0 <= retries THEN "attempt" ELSE "complete"
    BY <1>0, <2>p DEF Goto
  <2> QED BY <2>2, <2>4, <2>5, MaxIntAssumption DEF CounterFits
<1>2. CASE ExecuteFails(r)
  <2> DEFINE jb == job[r]
  <2>1. /\ job'[r].plan = jb.plan /\ job'[r].step = jb.step
        /\ job'[r].attempt = Increment(jb.attempt) /\ job'[r].retries = jb.retries
    BY <1>0, <1>2 DEF ExecuteFails, Job
  <2>2. pc'[r] = IF Increment(jb.attempt) <= jb.retries THEN "attempt" ELSE "failing"
    BY <1>0, <1>2 DEF ExecuteFails, Goto
  <2>3. /\ jb.retries \in MaxRetriesForStep(RetryCount(jb.plan, jb.step))
        /\ jb.retries \in 0 .. MaxInt /\ jb.attempt <= jb.retries
        /\ jb.retries < MaxInt => jb.attempt >= 0
    BY <1>2 DEF CounterFits, ExecuteFails, At
  <2>4. jb.attempt \in Int
    BY <1>0 DEF Job
  <2>5. jb.retries < MaxInt => Increment(jb.attempt) >= 0
    BY <2>3, <2>4, IncrementIsWithinInt, MaxIntAssumption
  <2> HIDE DEF jb
  <2> QED BY <2>1, <2>2, <2>3, <2>5 DEF CounterFits
<1>3. CASE BeginAttempt(r) \/ Write(r)
  BY <1>0, <1>3 DEF CounterFits, BeginAttempt, Write, At, Goto
<1>4. CASE pc'[r] \notin {"attempt", "execute"}
  BY <1>4 DEF CounterFits
<1>5. \/ FindPipeline(r) \/ ReadSteps(r) \/ CreateRun(r) \/ Spawn(r) \/ Load(r) \/ LoadSteps(r)
      \/ StartRun(r) \/ Schedule(r) \/ ExecuteSucceeds(r) \/ CompleteStep(r) \/ FinishRun(r)
      => pc'[r] \notin {"attempt", "execute"}
  BY <1>0
  DEF FindPipeline, ReadSteps, CreateRun, Spawn, Load, LoadSteps, StartRun, Schedule,
      ExecuteSucceeds, CompleteStep, FinishRun, Goto
<1> QED BY <1>1, <1>2, <1>3, <1>4, <1>5 DEF RunStep

--------------------------------------------------------------------------------
(* Counting the attempts in the timeline.                                     *)

LEMMA CountAppended ==
  ASSUME NEW r \in Runs, NEW k, NEW e, events[r] \in Seq(Event), events'[r] = Append(events[r], e)
  PROVE  Attempts(r, k)' = IF e = [type |-> "step_running", step |-> k]
                           THEN Attempts(r, k) + 1 ELSE Attempts(r, k)
<1> DEFINE last == Len(events[r]) + 1
           tried == [type |-> "step_running", step |-> k]
           S == {n \in DOMAIN events[r] : events[r][n] = tried}
           T == {n \in DOMAIN events'[r] : events'[r][n] = tried}
<1>1. /\ Len(events[r]) \in Nat
      /\ DOMAIN events[r] = 1 .. Len(events[r]) /\ DOMAIN events'[r] = 1 .. last
      /\ \A n \in DOMAIN events[r] : events'[r][n] = events[r][n]
      /\ events'[r][last] = e
  OBVIOUS
<1>2. IsFiniteSet(S) /\ last \notin S
  <2>1. IsFiniteSet(1 .. Len(events[r]))
    <3>1. 1 \in Int /\ Len(events[r]) \in Int
      BY <1>1
    <3> QED BY <3>1, FS_Interval
  <2>2. S \in SUBSET (1 .. Len(events[r]))
    BY <1>1
  <2>3. IsFiniteSet(S)
    BY <2>1, <2>2, FS_Subset
  <2> QED BY <1>1, <2>3
<1>3. T = IF e = tried THEN S \cup {last} ELSE S
  <2>1. \A n \in 1 .. last : n = last \/ n \in 1 .. Len(events[r])
    BY <1>1
  <2>2. last \in 1 .. last /\ \A n \in 1 .. Len(events[r]) : n \in 1 .. last
    BY <1>1
  <2> HIDE DEF last, tried
  <2> QED BY <1>1, <2>1, <2>2
<1>4. Attempts(r, k) = Cardinality(S) /\ Attempts(r, k)' = Cardinality(T)
  BY DEF Attempts
<1> HIDE DEF S, T, last
<1>5. Cardinality(S \cup {last}) = Cardinality(S) + 1
  BY <1>2, FS_AddElement
<1> QED BY <1>3, <1>4, <1>5

LEMMA NoAttempts ==
  ASSUME NEW r \in Runs, NEW k, ~ Recorded(r, "step_running", k)
  PROVE  Attempts(r, k) = 0
<1>1. {n \in DOMAIN events[r] : events[r][n] = [type |-> "step_running", step |-> k]} = {}
  BY DEF Recorded
<1> QED BY <1>1, FS_EmptySet DEF Attempts

LEMMA WriteCounts ==
  ASSUME Inv, NEW r \in Runs, Write(r), dbErrors'[r] = 0, Present(r), NEW k
  PROVE  Attempts(r, k)' = IF out[r][1] = EventInsert("step_running", k)
                           THEN Attempts(r, k) + 1 ELSE Attempts(r, k)
<1>0. /\ TypeOK /\ events \in [Runs -> Seq(Event)]
      /\ Head(out[r]) = out[r][1]
  BY QueueMoves DEF Inv, TypeOK, StoreTypeOK
<1>1. Execute(r, out[r][1])
  BY <1>0, NoError DEF Write
<1>2. CASE IsEvent(out[r][1])
  <2>1. CreateRunEvent(r, out[r][1].value, out[r][1].step)
    BY <1>1, <1>2 DEF Execute, IsEvent
  <2>2. out[r][1] \in EventInserts \cup FailureUpdates
    <3>1. /\ out \in [Runs -> Seq(EventInserts \cup FailureUpdates)]
          /\ out[r] \in Seq(EventInserts \cup FailureUpdates)
      BY <1>0 DEF TypeOK
    <3>2. Head(out[r]) \in EventInserts \cup FailureUpdates
      BY <3>1, QueuedStatements
    <3> QED BY <1>0, <3>2
  <2>3. PICK t \in EventTypes, l \in Keys : out[r][1] = EventInsert(t, l)
    BY <1>2, <2>2 DEF IsEvent, EventInserts, FailureUpdates, RunUpdate, StepUpdate
  <2>4. out[r][1].value = t /\ out[r][1].step = l
    BY <2>3 DEF EventInsert
  <2>5. events'[r] = Append(events[r], [type |-> t, step |-> l])
    BY <1>0, <2>1, <2>4 DEF CreateRunEvent, Present
  <2>6. Attempts(r, k)' = IF [type |-> t, step |-> l] = [type |-> "step_running", step |-> k]
                          THEN Attempts(r, k) + 1 ELSE Attempts(r, k)
    BY <1>0, <2>5, CountAppended
  <2>7. [type |-> t, step |-> l] = [type |-> "step_running", step |-> k]
          <=> t = "step_running" /\ l = k
    OBVIOUS
  <2>8. EventInsert(t, l) = EventInsert("step_running", k) <=> t = "step_running" /\ l = k
    BY SameInsert
  <2> QED BY <2>3, <2>6, <2>7, <2>8
<1>3. CASE ~ IsEvent(out[r][1])
  <2>1. events' = events
    BY <1>1, <1>3 DEF Execute, IsEvent, UpdatePipelineRunStatus, UpdateStepRunStatus
  <2>2. out[r][1] # EventInsert("step_running", k)
    BY <1>3, StatementFields DEF IsEvent
  <2> QED BY <2>1, <2>2 DEF Attempts
<1> QED BY <1>2, <1>3

--------------------------------------------------------------------------------
(* AttemptsFit.                                                               *)

\* AttemptsFit and ExhaustionFits, spelt out for the step k in hand.
AttemptsOf(r, k) ==
  LET jb == job[r] IN
  /\ pc[r] = "attempt" /\ jb.retries < MaxInt =>
       ~ Queued(r, EventInsert("step_running", k)) /\ Attempts(r, k) = jb.attempt
  /\ pc[r] = "execute" /\ jb.retries < MaxInt =>
       \/ out[r] = <<>> /\ Attempts(r, k) = jb.attempt + 1
       \/ out[r] = <<EventInsert("step_running", k)>> /\ Attempts(r, k) = jb.attempt

ExhaustionOf(r, k) ==
  pc[r] = "failing" \/ runStatus[r] = "failed" =>
    /\ k \in KeysOf(steps[target[r]])
    /\ ~ Queued(r, EventInsert("step_running", k))
    /\ Attempts(r, k) - 1 \in MaxRetriesForStep(RetryCount(steps[target[r]], k))
    /\ runStatus[r] = "failed" => stepStatus[r][k] = "failed"
    /\ \A n \in DOMAIN out[r] : out[r][n] = RunUpdate("failed") =>
         \/ stepStatus[r][k] = "failed"
         \/ \E m \in 1 .. n - 1 : out[r][m] = StepUpdate(k, "failed")

LEMMA StepInHand ==
  ASSUME NEW r \in Runs, NEW k
  PROVE  /\ k = job[r].step =>
              (AttemptsFit(r) <=> AttemptsOf(r, k)) /\ (ExhaustionFits(r) <=> ExhaustionOf(r, k))
         /\ k = job'[r].step =>
              (AttemptsFit(r)' <=> AttemptsOf(r, k)') /\ (ExhaustionFits(r)' <=> ExhaustionOf(r, k)')
BY DEF AttemptsFit, AttemptsOf, ExhaustionFits, ExhaustionOf, Running

\* No error path is taken while no statement of the run fails.
LEMMA NoErrorPath ==
  ASSUME Inv, NEW r \in Runs, FindPipeline(r) \/ RunStep(r), dbErrors'[r] = 0
  PROVE  pc'[r] = "failing" => (pc[r] = "failing" /\ Write(r)) \/ ExecuteFails(r)
<1>0. TypeOK /\ pc \in [Runs -> Pcs]
  BY DEF Inv, TypeOK
<1>1. ~ DbError(r)
  BY <1>0, NoError
<1>3. Schedule(r) => pc'[r] # "failing"
  <2>1. pc[r] = "loop" /\ job[r].completed # KeysOf(job[r].plan) => Ready(job[r]) # {}
    BY ReadyIsNotEmpty
  <2> QED BY <1>0, <2>1 DEF Schedule, At, Goto
<1>4. \/ FindPipeline(r) \/ ReadSteps(r) \/ CreateRun(r) \/ Spawn(r) \/ Load(r) \/ LoadSteps(r)
      \/ StartRun(r) \/ Pick(r) \/ BeginAttempt(r) \/ ExecuteSucceeds(r) \/ CompleteStep(r)
      \/ FinishRun(r)
      => pc'[r] # "failing"
  BY <1>0, <1>1
  DEF FindPipeline, ReadSteps, CreateRun, Spawn, Load, LoadSteps, StartRun, Pick, BeginAttempt,
      ExecuteSucceeds, CompleteStep, FinishRun, ErrorOf, Goto
<1>5. Write(r) => pc'[r] = pc[r]
  BY DEF Write
<1> QED BY <1>3, <1>4, <1>5 DEF RunStep

LEMMA AttemptsKeep ==
  ASSUME Inv, NEW r \in Runs, FindPipeline(r) \/ RunStep(r), dbErrors'[r] = 0, Present(r), Present(r)',
         KnownFits(r), CounterFits(r), AttemptsFit(r)
  PROVE  AttemptsFit(r)'
<1>0. /\ TypeOK /\ job \in [Runs -> Job] /\ pc \in [Runs -> Pcs] /\ job[r] \in Job
      /\ out \in [Runs -> Seq(EventInserts \cup FailureUpdates)]
  BY DEF Inv, TypeOK
<1>1. CASE Pick(r)
  <2>1. PICK k \in job[r].batch : \E retries \in MaxRetriesForStep(RetryCount(job[r].plan, k)) :
          /\ job' = [job EXCEPT ![r] = TakeInHand(@, k, retries)]
          /\ Goto(r, IF 0 <= retries THEN "attempt" ELSE "complete")
          /\ Emit(r, <<EventInsert("step_queued", k)>>)
    BY <1>1 DEF Pick
  <2>2. job'[r].step = k /\ job'[r].attempt = 0
    BY <1>0, <2>1 DEF TakeInHand, Job
  <2>3. k \in KeysOf(job[r].plan) \ job[r].queued /\ Accepts(job[r].plan)
    BY <1>1 DEF Inv, RunInv, LoopsFit, PlanFits, Executing, Pick, At
  <2>4. k \in Keys /\ k # EmptyKey
    BY <1>0, <2>3 DEF Accepts, Job, KeysOf, Step
  <2>5. ~ Recorded(r, "step_running", k)
    BY <2>3, <2>4 DEF KnownFits, Announced, EventTypes
  <2>6. Attempts(r, k)' = 0
    <3>1. Attempts(r, k) = 0
      BY <2>5, NoAttempts
    <3> QED BY <1>1, <3>1 DEF Pick, tables, Attempts
  <2>7. ~ Queued(r, EventInsert("step_running", k))'
    <3>1. out'[r] = <<EventInsert("step_queued", k)>>
      BY <1>0, <2>1 DEF Emit
    <3>2. EventInsert("step_queued", k) # EventInsert("step_running", k)
      BY SameInsert
    <3>3. \A n \in DOMAIN out'[r] : out'[r][n] = EventInsert("step_queued", k)
      BY <3>1
    <3> QED BY <3>2, <3>3 DEF Queued
  <2>8. pc'[r] # "execute"
    BY <1>0, <2>1 DEF Goto
  <2>9. AttemptsOf(r, k)'
    BY <2>2, <2>6, <2>7, <2>8 DEF AttemptsOf
  <2> QED BY <2>2, <2>9, StepInHand
<1>2. CASE BeginAttempt(r)
  <2> DEFINE jb == job[r]
  <2>1. PICK k \in Keys : k = jb.step
    BY <1>0 DEF Job
  <2>2. /\ out'[r] = <<EventInsert("step_running", k)>> \/ pc'[r] # "execute"
        /\ pc'[r] # "attempt" /\ job' = job /\ pc[r] = "attempt"
        /\ UNCHANGED events
    BY <1>0, <1>2, <2>1 DEF BeginAttempt, At, Emit, Goto, ErrorOf, UpdateStepRunStatus, tables
  <2>3. AttemptsOf(r, k)
    BY <2>1, StepInHand
  <2>4. Attempts(r, k)' = Attempts(r, k)
    BY <2>2 DEF Attempts
  <2>5. AttemptsOf(r, k)'
    BY <2>2, <2>3, <2>4 DEF AttemptsOf
  <2> QED BY <2>1, <2>2, <2>5, StepInHand
<1>3. CASE ExecuteFails(r)
  <2>1. PICK k \in Keys : k = job[r].step
    BY <1>0 DEF Job
  <2>2. /\ job'[r].step = k /\ job'[r].retries = job[r].retries
        /\ job'[r].attempt = Increment(job[r].attempt) /\ UNCHANGED events
    BY <1>0, <1>3, <2>1 DEF ExecuteFails, Job, tables
  <2>3. /\ pc[r] = "execute" /\ out[r] = <<>>
        /\ job[r].attempt \in Int /\ job[r].retries \in Int /\ job[r].retries <= MaxInt
        /\ job[r].attempt <= job[r].retries
    BY <1>0, <1>3, MaxIntAssumption DEF ExecuteFails, At, CounterFits, Job
  <2>4. job[r].retries < MaxInt => Attempts(r, k) = job[r].attempt + 1
    <3>1. AttemptsOf(r, k) /\ out[r] # <<EventInsert("step_running", k)>>
      BY <2>1, <2>3, StepInHand
    <3> QED BY <2>3, <3>1 DEF AttemptsOf
  <2>5. job[r].retries < MaxInt => Increment(job[r].attempt) = job[r].attempt + 1
    BY <2>3, MaxIntAssumption, IncrementIsWithinInt
  <2>6. Attempts(r, k)' = Attempts(r, k)
    BY <2>2 DEF Attempts
  <2>7. \/ pc'[r] = "failing"
        \/ pc'[r] = "attempt" /\ ~ Queued(r, EventInsert("step_running", k))'
    <3>1. \/ pc'[r] = "failing"
          \/ pc'[r] = "attempt" /\ (out'[r] = <<>> \/ out'[r] = <<EventInsert("step_retry", k)>>)
      BY <1>0, <1>3, <2>1, ExecuteFailsQueues
    <3>2. EventInsert("step_retry", k) # EventInsert("step_running", k)
      BY SameInsert
    <3>3. \A n \in DOMAIN out'[r] : pc'[r] = "attempt" => out'[r][n] = EventInsert("step_retry", k)
      BY <3>1
    <3> QED BY <3>1, <3>2, <3>3 DEF Queued
  <2>8. AttemptsOf(r, k)'
    BY <2>2, <2>4, <2>5, <2>6, <2>7 DEF AttemptsOf
  <2> QED BY <2>2, <2>8, StepInHand
<1>4. CASE Write(r)
  <2>1. PICK k \in Keys : k = job[r].step
    BY <1>0 DEF Job
  <2>2. UNCHANGED <<pc, job>>
    BY <1>4 DEF Write
  <2>3. Attempts(r, k)' = IF out[r][1] = EventInsert("step_running", k)
                          THEN Attempts(r, k) + 1 ELSE Attempts(r, k)
    BY <1>4, WriteCounts
  <2>4. AttemptsOf(r, k)
    BY <2>1, StepInHand
  <2>5. ASSUME pc[r] = "attempt", job[r].retries < MaxInt
        PROVE  ~ Queued(r, EventInsert("step_running", k))' /\ Attempts(r, k)' = job[r].attempt
    <3>1. ~ Queued(r, EventInsert("step_running", k)) /\ Attempts(r, k) = job[r].attempt
      BY <2>4, <2>5 DEF AttemptsOf
    <3>2. out[r][1] # EventInsert("step_running", k)
      BY <1>4, <3>1, QueueMoves DEF Queued
    <3>3. ~ Queued(r, EventInsert("step_running", k))'
      BY <1>4, <3>1, QueueMoves DEF Queued
    <3> QED BY <2>3, <3>1, <3>2, <3>3
  <2>6. ASSUME pc[r] = "execute", job[r].retries < MaxInt
        PROVE  out'[r] = <<>> /\ Attempts(r, k)' = job[r].attempt + 1
    <3> DEFINE running == EventInsert("step_running", k)
    <3>1. out[r] = <<running>> /\ Attempts(r, k) = job[r].attempt
      BY <1>4, <2>4, <2>6 DEF AttemptsOf, Write
    <3>2. out'[r] = Tail(out[r])
      BY <1>0, <1>4 DEF Write
    <3> HIDE DEF running
    <3>3. out[r][1] = running /\ out'[r] = <<>>
      BY <3>1, <3>2
    <3> QED BY <2>3, <3>1, <3>3 DEF running
  <2>7. AttemptsOf(r, k)'
    BY <2>2, <2>5, <2>6 DEF AttemptsOf
  <2> QED BY <2>1, <2>2, <2>7, StepInHand
<1>5. CASE pc'[r] \notin {"attempt", "execute"}
  BY <1>5 DEF AttemptsFit
<1>6. \/ FindPipeline(r) \/ ReadSteps(r) \/ CreateRun(r) \/ Spawn(r) \/ Load(r) \/ LoadSteps(r)
      \/ StartRun(r) \/ Schedule(r) \/ ExecuteSucceeds(r) \/ CompleteStep(r) \/ FinishRun(r)
      => pc'[r] \notin {"attempt", "execute"}
  BY <1>0
  DEF FindPipeline, ReadSteps, CreateRun, Spawn, Load, LoadSteps, StartRun, Schedule,
      ExecuteSucceeds, CompleteStep, FinishRun, Goto
<1> QED BY <1>1, <1>2, <1>3, <1>4, <1>5, <1>6 DEF RunStep

--------------------------------------------------------------------------------
(* ExhaustionFits.                                                            *)

\* The attempts of a step that is given up are all it had.
LEMMA ExecuteFailsExhausts ==
  ASSUME Inv, NEW r \in Runs, ExecuteFails(r), pc'[r] = "failing", Present(r),
         CounterFits(r), AttemptsFit(r), NEW k, k = job[r].step
  PROVE  /\ k \in KeysOf(steps[target[r]])
         /\ Attempts(r, k) - 1 \in MaxRetriesForStep(RetryCount(steps[target[r]], k))
<1> DEFINE jb == job[r]
<1>0. TypeOK /\ pc \in [Runs -> Pcs] /\ jb \in Job /\ RunInv(r)
  BY DEF Inv, TypeOK
<1>1. pc[r] = "execute" /\ out[r] = <<>> /\ ~ (Increment(jb.attempt) <= jb.retries)
  BY <1>0 DEF ExecuteFails, At, Goto
<1>2. /\ jb.retries \in MaxRetriesForStep(RetryCount(jb.plan, k))
      /\ jb.retries \in 0 .. MaxInt /\ jb.attempt <= jb.retries
      /\ jb.attempt \in Int
  BY <1>0, <1>1 DEF CounterFits, Job
<1>3. jb.retries < MaxInt /\ jb.attempt = jb.retries
  <2> HIDE DEF jb
  <2> QED BY <1>1, <1>2, MaxIntAssumption, IncrementIsWithinInt
<1>4. Attempts(r, k) = jb.attempt + 1
  <2>1. AttemptsOf(r, k) /\ out[r] # <<EventInsert("step_running", k)>>
    BY <1>1, StepInHand
  <2> QED BY <1>1, <1>3, <2>1 DEF AttemptsOf
<1>5. jb.plan = steps[target[r]] /\ k \in KeysOf(jb.plan)
  BY <1>0, <1>1 DEF RunInv, PlanFits, LoopsFit, RowsExist, Executing, InHand
<1>6. Attempts(r, k) - 1 = jb.retries
  <2> HIDE DEF jb
  <2> QED BY <1>2, <1>3, <1>4
<1> QED BY <1>2, <1>5, <1>6

LEMMA ExecuteFailsKeepsExhaustion ==
  ASSUME Inv, NEW r \in Runs, ExecuteFails(r), Present(r), CounterFits(r), AttemptsFit(r)
  PROVE  ExhaustionFits(r)'
<1>0. /\ TypeOK /\ RunInv(r) /\ job \in [Runs -> Job] /\ job[r] \in Job
  BY DEF Inv, TypeOK
<1>1. PICK k \in Keys : k = job[r].step
  BY <1>0 DEF Job
<1>2. /\ job'[r].step = k /\ UNCHANGED tables /\ pc[r] = "execute"
  BY <1>0, <1>1 DEF ExecuteFails, Job, At
<1>3. runStatus'[r] # "failed"
  BY <1>0, <1>2 DEF RunInv, StatusFits, Executing, tables
<1>4. CASE pc'[r] # "failing"
  BY <1>3, <1>4 DEF ExhaustionFits
<1>5. CASE pc'[r] = "failing"
  <2> DEFINE retry == EventInsert("step_retry", k)
             first == StepUpdate(k, "failed")
             second == RunUpdate("failed")
             third == EventInsert("step_failed", k)
             fourth == EventInsert("run_failed", EmptyKey)
             running == EventInsert("step_running", k)
  <2>1. \/ out'[r] = <<first, second, third, fourth>>
        \/ out'[r] = <<retry, first, second, third, fourth>>
    BY <1>0, <1>1, <1>5, ExecuteFailsQueues
  <2>2. /\ retry.value = "step_retry" /\ first.value = "failed" /\ second.value = "failed"
        /\ third.value = "step_failed" /\ fourth.value = "run_failed"
        /\ running.value = "step_running"
        /\ second.table = "pipeline_runs" /\ first.table = "step_runs"
    BY StatementFields
  <2>3. /\ k \in KeysOf(steps[target[r]])
        /\ Attempts(r, k) - 1 \in MaxRetriesForStep(RetryCount(steps[target[r]], k))
    BY <1>1, <1>5, ExecuteFailsExhausts
  <2>4. Attempts(r, k)' = Attempts(r, k)
    BY <1>2 DEF Attempts, tables
  <2> HIDE DEF retry, first, second, third, fourth, running
  <2>5. /\ \A n \in DOMAIN out'[r] : out'[r][n] # running
        /\ \A n \in DOMAIN out'[r] : out'[r][n] = second =>
             \E m \in 1 .. n - 1 : out'[r][m] = first
    <3>1. CASE out'[r] = <<first, second, third, fourth>>
      <4>1. /\ \A n \in DOMAIN out'[r] : n \in 1 .. 4
            /\ out'[r][1] = first /\ out'[r][2] = second /\ out'[r][3] = third
            /\ out'[r][4] = fourth
        BY <3>1
      <4>2. \A n \in DOMAIN out'[r] : out'[r][n] # running
        BY <2>2, <4>1
      <4>3. \A n \in DOMAIN out'[r] : out'[r][n] = second => n = 2
        BY <2>2, <4>1
      <4>4. 1 \in 1 .. 2 - 1
        OBVIOUS
      <4> QED BY <4>1, <4>2, <4>3, <4>4
    <3>2. CASE out'[r] = <<retry, first, second, third, fourth>>
      <4>1. /\ \A n \in DOMAIN out'[r] : n \in 1 .. 5
            /\ out'[r][1] = retry /\ out'[r][2] = first /\ out'[r][3] = second
            /\ out'[r][4] = third /\ out'[r][5] = fourth
        BY <3>2
      <4>2. \A n \in DOMAIN out'[r] : out'[r][n] # running
        BY <2>2, <4>1
      <4>3. \A n \in DOMAIN out'[r] : out'[r][n] = second => n = 3
        BY <2>2, <4>1
      <4>4. 2 \in 1 .. 3 - 1
        OBVIOUS
      <4> QED BY <4>1, <4>2, <4>3, <4>4
    <3> QED BY <2>1, <3>1, <3>2
  <2>6. ~ Queued(r, EventInsert("step_running", k))'
    BY <2>5 DEF Queued, running
  <2>7. \A n \in DOMAIN out'[r] : out'[r][n] = RunUpdate("failed") =>
          \E m \in 1 .. n - 1 : out'[r][m] = StepUpdate(k, "failed")
    BY <2>5 DEF first, second
  <2>8. ExhaustionOf(r, k)'
    BY <1>2, <1>3, <2>3, <2>4, <2>6, <2>7 DEF ExhaustionOf, tables
  <2> QED BY <1>2, <2>8, StepInHand
<1> QED BY <1>4, <1>5

LEMMA WriteKeepsExhaustion ==
  ASSUME Inv, NEW r \in Runs, Write(r), dbErrors'[r] = 0, Present(r), Present(r)', ExhaustionFits(r)
  PROVE  ExhaustionFits(r)'
<1>0. /\ TypeOK /\ RunInv(r) /\ job[r] \in Job
      /\ out \in [Runs -> Seq(EventInserts \cup FailureUpdates)]
  BY DEF Inv, TypeOK
<1>1. PICK k \in Keys : k = job[r].step
  BY <1>0 DEF Job
<1>2. UNCHANGED <<pc, job, steps, target>>
  BY <1>0, TablesFrame DEF Write, RunStep
<1>3. Effect(r)
  BY WriteEffect
<1>4. ExhaustionOf(r, k)
  BY <1>1, StepInHand
<1>5. 1 \in DOMAIN out[r] /\ Head(out[r]) = out[r][1]
  BY QueueMoves
<1>6. ASSUME runStatus'[r] = "failed", runStatus[r] # "failed"
      PROVE  pc[r] = "failing" /\ out[r][1] = RunUpdate("failed")
  <2>1. Head(out[r]) \in EventInserts \cup Failures(r)
    <3>1. out[r] \in Seq(EventInserts \cup Failures(r))
      BY <1>0 DEF RunInv, WritesFit
    <3> QED BY <1>0, <3>1, QueuedStatements
  <2>2. /\ out[r][1].table = "pipeline_runs"
    BY <1>5, <1>6
    DEF Write, Execute, UpdateStepRunStatus, CreateRunEvent, tables
  <2>3. out[r][1] \notin EventInserts /\ \A l : out[r][1] # StepUpdate(l, "failed")
    BY <2>2, StatementFields DEF EventInserts
  <2> QED BY <1>5, <2>1, <2>3 DEF Failures
<1> SUFFICES ASSUME pc[r] = "failing" \/ runStatus[r] = "failed"
             PROVE  ExhaustionOf(r, k)'
  BY <1>1, <1>2, <1>6, StepInHand DEF ExhaustionOf
<1>7. /\ k \in KeysOf(steps[target[r]])
      /\ ~ Queued(r, EventInsert("step_running", k))
      /\ Attempts(r, k) - 1 \in MaxRetriesForStep(RetryCount(steps[target[r]], k))
      /\ runStatus[r] = "failed" => stepStatus[r][k] = "failed"
      /\ \A n \in DOMAIN out[r] : out[r][n] = RunUpdate("failed") =>
           \/ stepStatus[r][k] = "failed"
           \/ \E m \in 1 .. n - 1 : out[r][m] = StepUpdate(k, "failed")
  BY <1>4 DEF ExhaustionOf
<1>8. ~ Queued(r, EventInsert("step_running", k))'
  BY <1>7, QueueMoves DEF Queued
<1>9. Attempts(r, k)' = Attempts(r, k)
  <2>1. out[r][1] # EventInsert("step_running", k)
    BY <1>5, <1>7 DEF Queued
  <2> QED BY <2>1, WriteCounts
<1>10. stepStatus[r][k] = "failed" => stepStatus'[r][k] = "failed"
  BY <1>3, FinalStays DEF Terminal
<1>11. runStatus'[r] = "failed" => stepStatus'[r][k] = "failed"
  <2>1. CASE runStatus[r] = "failed"
    BY <1>7, <1>10, <2>1
  <2>2. CASE runStatus'[r] = "failed" /\ runStatus[r] # "failed"
    <3>1. ~ \E m \in 1 .. 1 - 1 : out[r][m] = StepUpdate(k, "failed")
      OBVIOUS
    <3> QED BY <1>5, <1>6, <1>7, <1>10, <2>2, <3>1
  <2> QED BY <2>1, <2>2
<1>12. ASSUME NEW n \in DOMAIN out'[r], out'[r][n] = RunUpdate("failed"),
              stepStatus'[r][k] # "failed"
       PROVE  \E m \in 1 .. n - 1 : out'[r][m] = StepUpdate(k, "failed")
  <2>1. n \in Nat \ {0} /\ n + 1 \in DOMAIN out[r] /\ out'[r][n] = out[r][n + 1]
    BY QueueMoves
  <2>2. PICK m \in 1 .. (n + 1) - 1 : out[r][m] = StepUpdate(k, "failed")
    BY <1>7, <1>10, <1>12, <2>1
  <2>3. m # 1
    BY <1>5, <1>12, <2>2, WriteDoes
  <2>4. m \in DOMAIN out[r]
    <3>1. DOMAIN out[r] = 1 .. Len(out[r]) /\ Len(out[r]) \in Nat
      BY <1>0
    <3> QED BY <2>1, <3>1
  <2>5. m - 1 \in DOMAIN out'[r] /\ out'[r][m - 1] = out[r][m]
    BY <2>3, <2>4, QueueMoves
  <2>6. m - 1 \in 1 .. n - 1
    BY <2>1, <2>3
  <2> QED BY <2>2, <2>5, <2>6
<1> QED BY <1>2, <1>7, <1>8, <1>9, <1>11, <1>12 DEF ExhaustionOf

\* The other actions neither fail the run nor happen after its failure.
LEMMA OthersKeepExhaustion ==
  ASSUME Inv, NEW r \in Runs, FindPipeline(r) \/ RunStep(r), ~ Write(r), ~ ExecuteFails(r),
         dbErrors'[r] = 0
  PROVE  ExhaustionFits(r)'
<1>0. /\ TypeOK /\ RunInv(r) /\ pc \in [Runs -> Pcs]
      /\ runStatus \in [Runs -> RunStatuses \cup {"absent"}]
  BY DEF Inv, TypeOK, StoreTypeOK
<1>1. pc'[r] # "failing"
  BY NoErrorPath
<1>2. pc[r] \in HandlerPcs \cup ExecutePcs
  BY DEF RunStep, FindPipeline, ReadSteps, CreateRun, Spawn, Load, LoadSteps, StartRun, Schedule,
         Pick, BeginAttempt, ExecuteSucceeds, CompleteStep, FinishRun, At, HandlerPcs, ExecutePcs
<1>3. runStatus[r] # "failed"
  BY <1>0, <1>2
  DEF RunInv, StatusFits, Executing, HandlerPcs, ExecutePcs, Present
<1>4. runStatus'[r] # "failed"
  BY <1>0, <1>3
  DEF RunStep, FindPipeline, ReadSteps, CreateRun, Spawn, Load, LoadSteps, StartRun, Schedule,
      Pick, BeginAttempt, ExecuteSucceeds, CompleteStep, FinishRun, ErrorOf, InsertRun,
      UpdatePipelineRunStatus, UpdateStepRunStatus, tables
<1> QED BY <1>1, <1>4 DEF ExhaustionFits

LEMMA ExhaustionKeeps ==
  ASSUME Inv, NEW r \in Runs, FindPipeline(r) \/ RunStep(r), dbErrors'[r] = 0, Present(r)',
         KnownFits(r), CounterFits(r), Present(r) => AttemptsFit(r) /\ ExhaustionFits(r)
  PROVE  AttemptsFit(r)' /\ ExhaustionFits(r)'
<1>1. CASE Present(r)
  <2>1. AttemptsFit(r)'
    BY <1>1, AttemptsKeep
  <2>2. ExhaustionFits(r)'
    BY <1>1, WriteKeepsExhaustion, ExecuteFailsKeepsExhaustion, OthersKeepExhaustion
  <2> QED BY <2>1, <2>2
<1>2. CASE ~ Present(r)
  <2>1. At(r, "insert") /\ pc \in [Runs -> Pcs]
    BY <1>2, RunStepEffect, AbsentStays DEF Inv, TypeOK
  <2>2. pc'[r] \in {"spawn", "rejected"} /\ ~ Write(r) /\ ~ ExecuteFails(r)
    BY <2>1
    DEF RunStep, FindPipeline, ReadSteps, CreateRun, Spawn, Load, LoadSteps, StartRun, Schedule,
        Pick, BeginAttempt, ExecuteSucceeds, ExecuteFails, CompleteStep, FinishRun, Write, At, Goto
  <2>3. AttemptsFit(r)'
    BY <2>2 DEF AttemptsFit
  <2>4. ExhaustionFits(r)'
    BY <2>2, OthersKeepExhaustion
  <2> QED BY <2>3, <2>4
<1> QED BY <1>1, <1>2

--------------------------------------------------------------------------------
(* The invariant.                                                             *)

LEMMA ExhaustionInit == Init => ExhaustionInv
BY DEF Init, StoreInit, ExhaustionInv, CounterFits, Present

\* What ExhaustionInv says of a run whose rows, place, locals and writes stay.
LEMMA UntouchedExhaustion ==
  ASSUME NEW r \in Runs, steps'[target'[r]] = steps[target[r]], pc'[r] = pc[r], out'[r] = out[r],
         job'[r] = job[r], runStatus'[r] = runStatus[r], stepStatus'[r] = stepStatus[r],
         events'[r] = events[r]
  PROVE  /\ AttemptsFit(r) => AttemptsFit(r)'
         /\ ExhaustionFits(r) => ExhaustionFits(r)'
<1>1. AttemptsFit(r) => AttemptsFit(r)'
  BY DEF AttemptsFit, Running, Queued, Attempts
<1>2. ExhaustionFits(r) => ExhaustionFits(r)'
  BY DEF ExhaustionFits, Running, Queued, Attempts
<1> QED BY <1>1, <1>2

LEMMA CrashedExhaustion ==
  ASSUME Inv, NEW r \in Runs, Crash
  PROVE  /\ CounterFits(r) => CounterFits(r)'
         /\ AttemptsFit(r)'
         /\ ExhaustionFits(r) => ExhaustionFits(r)'
<1>1. /\ UNCHANGED <<tables, job>> /\ out'[r] = <<>>
      /\ pc'[r] = IF UnderWay(r) THEN "lost" ELSE pc[r]
  BY DEF Crash
<1>2. CounterFits(r) => CounterFits(r)'
  BY <1>1 DEF CounterFits
<1>3. AttemptsFit(r)'
  <2>1. pc'[r] \notin {"attempt", "execute"}
    BY <1>1 DEF UnderWay, EndPcs
  <2> QED BY <2>1 DEF AttemptsFit
<1>4. ExhaustionFits(r) => ExhaustionFits(r)'
  BY <1>1 DEF ExhaustionFits, Running, Queued, Attempts, tables
<1> QED BY <1>2, <1>3, <1>4

LEMMA ExhaustionStep ==
  ASSUME Inv, OrderInv, ExhaustionInv, [Next]_vars
  PROVE  ExhaustionInv'
<1>0. TypeOK
  BY DEF Inv
<1> DEFINE Fits(r) == AttemptsFit(r) /\ ExhaustionFits(r)
<1> SUFFICES ASSUME NEW r \in Runs
             PROVE  CounterFits(r)' /\ (dbErrors'[r] = 0 /\ Present(r)' => Fits(r)')
  BY DEF ExhaustionInv
<1>1. CounterFits(r) /\ KnownFits(r) /\ (dbErrors[r] = 0 /\ Present(r) => Fits(r))
  BY DEF ExhaustionInv, OrderInv
<1>2. ASSUME NEW p \in Pipelines, CreatePipeline(p)
      PROVE  CounterFits(r)' /\ (dbErrors'[r] = 0 /\ Present(r)' => Fits(r)')
  <2>1. /\ UNCHANGED <<pc, out, job, dbErrors, target, runStatus, stepStatus, events>>
        /\ pipelines[p] = "unused" /\ \A q \in Pipelines \ {p} : steps'[q] = steps[q]
        /\ target[r] \in Pipelines
    BY <1>0, <1>2 DEF CreatePipeline, InsertPipeline, control, faults, TypeOK, StoreTypeOK
  <2>2. CounterFits(r)'
    BY <1>1, <2>1 DEF CounterFits
  <2>3. Present(r)' => Present(r) /\ target[r] # p
    BY <2>1 DEF Inv, RunInv, RowsExist, Stored, Present
  <2> QED BY <1>1, <2>1, <2>2, <2>3, UntouchedExhaustion
<1>3. ASSUME NEW p \in Pipelines, DeletePipeline(p)
      PROVE  CounterFits(r)' /\ (dbErrors'[r] = 0 /\ Present(r)' => Fits(r)')
  <2>1. UNCHANGED <<pc, out, job, dbErrors, target>>
    BY <1>3 DEF DeletePipeline, RemovePipeline, control, faults
  <2>2. CounterFits(r)'
    BY <1>1, <2>1 DEF CounterFits
  <2>3. Present(r)' => Present(r) /\ target[r] # p
    BY <1>3, DeletePipelineEffect DEF Present
  <2>4. target[r] # p => /\ steps'[target[r]] = steps[target[r]]
                         /\ runStatus'[r] = runStatus[r] /\ stepStatus'[r] = stepStatus[r]
                         /\ events'[r] = events[r]
    BY <1>0, <1>3 DEF DeletePipeline, RemovePipeline, TypeOK, StoreTypeOK
  <2> QED BY <1>1, <2>1, <2>2, <2>3, <2>4, UntouchedExhaustion
<1>4. ASSUME NEW s \in Runs, FindPipeline(s) \/ RunStep(s)
      PROVE  CounterFits(r)' /\ (dbErrors'[r] = 0 /\ Present(r)' => Fits(r)')
  <2>1. dbErrors'[r] = 0 => dbErrors[r] = 0
    BY ErrorsStay
  <2>2. CASE s = r
    BY <1>1, <1>4, <2>1, <2>2, CounterKeeps, ExhaustionKeeps
  <2>3. CASE s # r
    <3>1. Untouched(r)
      BY <1>0, <1>4, <2>3, RunStepIsLocal, LocalFrame
    <3>2. CounterFits(r)'
      BY <1>1, <3>1 DEF CounterFits, Untouched
    <3> QED BY <1>1, <2>1, <3>1, <3>2, UntouchedExhaustion DEF Untouched, Present
  <2> QED BY <2>2, <2>3
<1>5. CASE Crash
  <2>1. UNCHANGED <<dbErrors, runStatus>>
    BY <1>5 DEF Crash, tables
  <2> QED BY <1>1, <1>5, <2>1, CrashedExhaustion DEF Present
<1>6. CASE UNCHANGED vars
  <2>1. UNCHANGED <<steps, target, pc, out, job, runStatus, stepStatus, events, dbErrors>>
    BY <1>6 DEF vars, tables, control, faults
  <2>2. CounterFits(r)'
    BY <1>1, <2>1 DEF CounterFits
  <2> QED BY <1>1, <2>1, <2>2, UntouchedExhaustion DEF Present
<1> QED BY <1>2, <1>3, <1>4, <1>5, <1>6 DEF Next

(* As long as no statement fails, the step_running events of the step in hand *)
(* are the attempts ExecuteRun has counted, and a run only fails with a step  *)
(* that has had all of them; for any retry counts, any that wrap the counter  *)
(* included.                                                                  *)
THEOREM ExhaustionConsistency == Spec => []ExhaustionInv
<1>1. Inv /\ OrderInv /\ ExhaustionInv /\ [Next]_vars => ExhaustionInv'
  BY ExhaustionStep
<1> QED BY <1>1, ExhaustionInit, OrderConsistency, PTL DEF Spec

(* While no statement has failed, ExecuteRun marks a run as failed only after *)
(* a step that it has tried as often as its retry_count asks for.             *)
THEOREM FailuresAreExhaustion == Spec => []FailureIsExhaustion
<1>1. ASSUME Inv, ExhaustionInv
      PROVE  FailureIsExhaustion
  <2> SUFFICES ASSUME NEW r \in Runs, runStatus[r] = "failed", dbErrors[r] = 0
               PROVE  \E k \in KeysOf(steps[target[r]]) :
                        /\ stepStatus[r][k] = "failed"
                        /\ Attempts(r, k) - 1 \in MaxRetriesForStep(RetryCount(steps[target[r]], k))
    BY DEF FailureIsExhaustion
  <2>1. ExhaustionFits(r)
    BY <1>1 DEF ExhaustionInv, Present
  <2> QED BY <2>1 DEF ExhaustionFits
<1> QED BY <1>1, Consistency, ExhaustionConsistency, PTL

--------------------------------------------------------------------------------
(* How the rows and the timeline of a run move under any step, as those who   *)
(* read them need it.                                                         *)

RunMovesOn(s, t) ==
  s = t \/ (s = "pending" /\ t = "running") \/ (s = "running" /\ t \in Terminal)

StepMovesOn(s, t) == RunMovesOn(s, t) \/ (s = "pending" /\ t = "completed")

\* The request of the run has got as far as its row.
Inserted(r) == pc[r] \notin {"idle", "read", "insert"}

Deleted(r) ==
  /\ runStatus'[r] = "absent" /\ stepStatus'[r] = NoStepRuns /\ events'[r] = <<>>
  /\ pipelines'[target[r]] = "deleted"

Created(r) == ~ Present(r) /\ At(r, "insert") /\ InsertRun(r, job[r].plan)

Kept(r) ==
  /\ RunMovesOn(runStatus[r], runStatus'[r])
  /\ \A k \in Keys : StepMovesOn(stepStatus[r][k], stepStatus'[r][k])
  /\ runStatus[r] = "pending" => stepStatus'[r] = stepStatus[r]

LEMMA EffectIsMove ==
  ASSUME Inv, NEW r \in Runs, Effect(r)
  PROVE  Created(r) \/ Kept(r)
<1>0. /\ runStatus \in [Runs -> RunStatuses \cup {"absent"}]
      /\ stepStatus \in [Runs -> [Keys -> RunStatuses \cup {"absent"}]]
      /\ job[r].step \in Keys /\ StatusFits(r)
  BY DEF Inv, TypeOK, StoreTypeOK, Job, RunInv
<1>1. CASE SameRows
  BY <1>1 DEF SameRows, Kept, RunMovesOn, StepMovesOn
<1>2. CASE At(r, "insert") /\ ~ Present(r) /\ InsertRun(r, job[r].plan)
  BY <1>2 DEF Created
<1>3. ASSUME NEW from, NEW to, RunMoves(r, from, to), RunMovesOn(from, to)
      PROVE  Kept(r)
  BY <1>0, <1>3 DEF RunMoves, Kept, RunMovesOn, StepMovesOn
<1>4. ASSUME NEW from, NEW to, StepMoves(r, from, to), StepMovesOn(from, to),
             pc[r] \in {"attempt", "complete", "failing"}
      PROVE  Kept(r)
  <2>1. runStatus'[r] = runStatus[r] /\ runStatus[r] # "pending"
    BY <1>0, <1>4 DEF StepMoves, StatusFits, Executing, Present
  <2>2. \A k \in Keys : StepMovesOn(stepStatus[r][k], stepStatus'[r][k])
    BY <1>0, <1>4 DEF StepMoves, StepMovesOn, RunMovesOn
  <2> QED BY <2>1, <2>2 DEF Kept, RunMovesOn
<1>5. /\ RunMovesOn("pending", "running") /\ RunMovesOn("running", "completed")
      /\ RunMovesOn("running", "failed") /\ StepMovesOn("pending", "running")
      /\ StepMovesOn("pending", "completed") /\ StepMovesOn("running", "completed")
      /\ StepMovesOn("running", "failed")
  BY DEF RunMovesOn, StepMovesOn, Terminal
<1> QED BY <1>1, <1>2, <1>3, <1>4, <1>5 DEF Effect, At

\* What Write adds to the timeline, and what the other actions of a run do not.
LEMMA EventAppended ==
  ASSUME Inv, NEW r \in Runs, FindPipeline(r) \/ RunStep(r)
  PROVE  events'[r] = events[r] \/ \E e \in Event : events'[r] = Append(events[r], e)
<1>0. events \in [Runs -> Seq(Event)]
  BY DEF Inv, TypeOK, StoreTypeOK
<1>1. CASE UNCHANGED events
  BY <1>1
<1>2. CASE Write(r) /\ Execute(r, Head(out[r])) /\ ~ UNCHANGED events
  <2>1. /\ Head(out[r]).table = "pipeline_run_events"
        /\ CreateRunEvent(r, Head(out[r]).value, Head(out[r]).step)
    BY <1>2 DEF Execute, UpdatePipelineRunStatus, UpdateStepRunStatus
  <2>2. Head(out[r]) \in EventInserts \cup FailureUpdates
    BY <1>2, QueuedStatements DEF Inv, TypeOK
  <2>3. PICK u \in EventTypes, l \in Keys : Head(out[r]) = EventInsert(u, l)
    BY <2>1, <2>2 DEF EventInserts, FailureUpdates, RunUpdate, StepUpdate
  <2>4. CreateRunEvent(r, u, l)
    BY <2>1, <2>3 DEF EventInsert
  <2>5. [type |-> u, step |-> l] \in Event
    BY DEF Event
  <2> QED BY <1>0, <2>4, <2>5 DEF CreateRunEvent
<1> QED
  BY <1>1, <1>2
  DEF RunStep, FindPipeline, ReadSteps, CreateRun, Spawn, Load, LoadSteps, StartRun, Schedule,
      Pick, BeginAttempt, ExecuteSucceeds, ExecuteFails, CompleteStep, FinishRun, Write, ErrorOf,
      InsertRun, UpdatePipelineRunStatus, UpdateStepRunStatus, tables

\* A step of the system deletes the rows of a run, creates them or moves them on.
LEMMA RowsMove ==
  ASSUME Inv, [Next]_vars, NEW r \in Runs
  PROVE  /\ target' = target
         /\ Deleted(r) \/ Created(r) \/ Kept(r)
         /\ Deleted(r) \/ events'[r] = events[r] \/ \E e \in Event : events'[r] = Append(events[r], e)
         /\ Inserted(r) => Inserted(r)'
<1>0. TypeOK /\ UnderWay(r) => Inserted(r) \/ pc[r] \in {"idle", "read", "insert"}
  BY DEF Inv, Inserted
<1> DEFINE Goal == /\ target' = target
                   /\ Deleted(r) \/ Created(r) \/ Kept(r)
                   /\ \/ Deleted(r) \/ events'[r] = events[r]
                      \/ \E e \in Event : events'[r] = Append(events[r], e)
                   /\ Inserted(r) => Inserted(r)'
<1>1. ASSUME target' = target, runStatus'[r] = runStatus[r], stepStatus'[r] = stepStatus[r],
             events'[r] = events[r], Inserted(r) => Inserted(r)'
      PROVE  Goal
  BY <1>1 DEF Kept, RunMovesOn, StepMovesOn
<1>2. ASSUME NEW p \in Pipelines, CreatePipeline(p)
      PROVE  Goal
  BY <1>1, <1>2 DEF CreatePipeline, InsertPipeline, control, Inserted
<1>3. ASSUME NEW p \in Pipelines, DeletePipeline(p)
      PROVE  Goal
  <2>1. UNCHANGED <<target, pc>>
    BY <1>3 DEF DeletePipeline, RemovePipeline, control
  <2>2. CASE target[r] = p
    <3>1. pipelines'[p] = "deleted"
      BY <1>3 DEF DeletePipeline, RemovePipeline, Inv, TypeOK, StoreTypeOK
    <3>2. runStatus'[r] = "absent" /\ stepStatus'[r] = NoStepRuns /\ events'[r] = <<>>
      BY <1>3, <2>2 DEF DeletePipeline, RemovePipeline
    <3> QED BY <2>1, <2>2, <3>1, <3>2 DEF Deleted, Inserted
  <2>3. CASE target[r] # p
    <3>1. runStatus'[r] = runStatus[r] /\ stepStatus'[r] = stepStatus[r] /\ events'[r] = events[r]
      BY <1>3, <2>3 DEF DeletePipeline, RemovePipeline
    <3> QED BY <1>1, <2>1, <3>1 DEF Inserted
  <2> QED BY <2>2, <2>3
<1>4. ASSUME NEW s \in Runs, FindPipeline(s) \/ RunStep(s)
      PROVE  Goal
  <2>1. CASE s = r
    <3>1. target' = target
      BY <1>4, RunStepIsLocal DEF Local, Statement, InsertRun, UpdatePipelineRunStatus,
         UpdateStepRunStatus, CreateRunEvent, tables
    <3>2. Inserted(r) => Inserted(r)'
      BY <1>4, <2>1 DEF Inv, TypeOK, Inserted, At, Goto, RunStep, FindPipeline, ReadSteps, CreateRun,
         Spawn, Load, LoadSteps, StartRun, Schedule, Pick, BeginAttempt, ExecuteSucceeds,
         ExecuteFails, CompleteStep, FinishRun, Write
    <3> QED BY <1>4, <2>1, <3>1, <3>2, RunStepEffect, EffectIsMove, EventAppended
  <2>2. CASE s # r
    <3>1. Untouched(r)
      BY <1>0, <1>4, <2>2, RunStepIsLocal, LocalFrame DEF Inv
    <3> QED BY <1>1, <3>1 DEF Untouched, Inserted
  <2> QED BY <2>1, <2>2
<1>5. CASE Crash
  <2>1. UNCHANGED tables /\ pc'[r] \in {"lost", pc[r]}
    BY <1>5 DEF Crash
  <2> QED BY <1>1, <2>1 DEF tables, Inserted
<1>6. CASE UNCHANGED vars
  BY <1>1, <1>6 DEF vars, tables, control, Inserted
<1> QED BY <1>2, <1>3, <1>4, <1>5, <1>6 DEF Next

\* Pipelines and their definitions, too, only move one way.
LEMMA DefinitionStays ==
  ASSUME Inv, [Next]_vars, NEW p \in Pipelines
  PROVE  /\ pipelines[p] = "stored" => pipelines'[p] \in {"stored", "deleted"}
         /\ pipelines[p] = "deleted" => pipelines'[p] = "deleted"
         /\ pipelines[p] = "stored" /\ pipelines'[p] = "stored" => steps'[p] = steps[p]
<1>0. TypeOK
  BY DEF Inv
<1>1. ASSUME NEW q \in Pipelines, CreatePipeline(q)
      PROVE  pipelines[p] # "unused" => pipelines'[p] = pipelines[p] /\ steps'[p] = steps[p]
  BY <1>0, <1>1 DEF CreatePipeline, InsertPipeline, TypeOK, StoreTypeOK
<1>2. ASSUME NEW q \in Pipelines, DeletePipeline(q)
      PROVE  \/ pipelines[p] = "stored" /\ pipelines'[p] = "deleted"
             \/ pipelines'[p] = pipelines[p] /\ steps'[p] = steps[p]
  BY <1>0, <1>2 DEF DeletePipeline, RemovePipeline, TypeOK, StoreTypeOK
<1>3. ASSUME NEW s \in Runs, FindPipeline(s) \/ RunStep(s)
      PROVE  UNCHANGED <<pipelines, steps>>
  BY <1>3, RunStepIsLocal DEF Local, Statement, InsertRun, UpdatePipelineRunStatus,
     UpdateStepRunStatus, CreateRunEvent, tables
<1>4. CASE Crash \/ UNCHANGED vars
  BY <1>4 DEF Crash, vars, tables
<1> QED BY <1>1, <1>2, <1>3, <1>4 DEF Next

LEMMA RowsInit == Init => RowsInv
BY DEF Init, StoreInit, RowsInv, OnlyPlanned, PendingFits, NoStepRuns

LEMMA RowsStep ==
  ASSUME Inv, RowsInv, [Next]_vars
  PROVE  RowsInv'
<1> SUFFICES ASSUME NEW r \in Runs
             PROVE  OnlyPlanned(r)' /\ PendingFits(r)'
  BY DEF RowsInv
<1>1. /\ TypeOK /\ RowsExist(r) /\ PlanFits(r) /\ OnlyPlanned(r) /\ PendingFits(r)
      /\ RowsExist(r)' /\ target[r] \in Pipelines /\ target' = target
  BY InvStep, RowsMove DEF Inv, RunInv, RowsInv, TypeOK, StoreTypeOK
<1>2. CASE ~ Present(r)'
  BY <1>1, <1>2 DEF RowsExist, Present, NoStepRuns, OnlyPlanned, PendingFits
<1>3. CASE Present(r)' /\ Created(r)
  <2>1. steps' = steps /\ job[r].plan = steps[target[r]]
    BY <1>1, <1>3 DEF Created, InsertRun, PlanFits, At
  <2>2. stepStatus'[r] = [k \in Keys |-> IF k \in KeysOf(job[r].plan) THEN "pending" ELSE "absent"]
    BY <1>1, <1>3 DEF Created, InsertRun, TypeOK, StoreTypeOK
  <2> QED BY <1>1, <2>1, <2>2 DEF OnlyPlanned, PendingFits
<1>4. CASE Present(r)' /\ Kept(r)
  <2>1. Present(r)
    BY <1>4 DEF Kept, RunMovesOn, Present, Terminal
  <2>2. steps'[target[r]] = steps[target[r]]
    BY <1>1, <1>4, <2>1, DefinitionStays DEF RowsExist, Stored
  <2>3. \A k \in Keys : stepStatus'[r][k] # "absent" => stepStatus[r][k] # "absent"
    BY <1>4 DEF Kept, StepMovesOn, RunMovesOn
  <2>4. runStatus'[r] = "pending" => runStatus[r] = "pending"
    BY <1>4 DEF Kept, RunMovesOn, Terminal
  <2> QED BY <1>1, <1>4, <2>2, <2>3, <2>4 DEF Kept, OnlyPlanned, PendingFits
<1> QED BY <1>2, <1>3, <1>4, RowsMove DEF Deleted, Present
================================================================================

------------------------------- MODULE Scheduler -------------------------------
(******************************************************************************)
(* Runs of pipelines: the request handlers PipelineHandler.RunPipeline,       *)
(* CreatePipeline and DeletePipeline, and Scheduler.ExecuteRun, which a       *)
(* goroutine of its own executes for each accepted run.  Each r \in Runs is   *)
(* one POST /pipelines/{id}/run request and the goroutine it starts.          *)
(*                                                                            *)
(* Every database statement is a step, so the runs, the deletions and the     *)
(* crashes interleave between any two statements.  A statement whose error is *)
(* examined is a step of its run that succeeds or fails; the statements whose *)
(* error is dropped (CreateRunEvent in emitEvent and RunPipeline, and the     *)
(* "_ =" updates of the failure paths) wait in out[r], and the run does       *)
(* nothing else before they have been attempted in order.                     *)
(******************************************************************************)
EXTENDS PipelineStore, FiniteSets

CONSTANTS
  MaxInt,       \* the largest Go int
  MaxDbErrors,  \* bound of the search: statements of a run that fail
  MaxCrashes    \* bound of the search: crashes of the server process

ASSUME MaxIntAssumption == MaxInt \in Nat \ {0}
ASSUME BoundsAssumption == MaxDbErrors \in Nat /\ MaxCrashes \in Nat

VARIABLES
  pc,           \* the next statement of each request or run
  out,          \* the statements with a dropped error to execute before it
  job,          \* the locals of ExecuteRun
  executed,     \* the steps whose ExecuteStep call has returned nil (history)
  dbErrors,     \* statements of each run that have failed so far
  crashes       \* crashes so far

control == <<pc, out, job>>
faults == <<dbErrors, crashes>>
vars == <<tables, control, executed, faults>>

Job == [plan: Seq(Step),             \* pipeline.Steps
        completed: SUBSET Keys,
        queued: SUBSET Keys,
        batch: SUBSET Keys,          \* what is left of ready in the inner loop
        step: Keys,                  \* the step of the iteration
        attempt: Int, retries: Int]

NoJob == [plan |-> <<>>, completed |-> {}, queued |-> {}, batch |-> {},
          step |-> EmptyKey, attempt |-> 0, retries |-> 0]

\* Where RunPipeline is, then where ExecuteRun is.
HandlerPcs == {"idle", "read", "insert", "spawn"}
ExecutePcs == {"load", "loadSteps", "start", "loop", "pick", "attempt", "execute",
               "complete", "finish"}
\* rejected: a 404 or 500 answer; failing: ExecuteRun has taken a path that marks
\* the run as failed; returned: it is over otherwise; lost: the process died.
EndPcs == {"rejected", "returned", "failing", "lost"}
Pcs == HandlerPcs \cup ExecutePcs \cup EndPcs

\* The statements whose error is dropped.
EventInserts == {EventInsert(type, k) : type \in EventTypes, k \in Keys}
FailureUpdates == {RunUpdate("failed")} \cup {StepUpdate(k, "failed") : k \in Keys}

TypeOK ==
  /\ StoreTypeOK
  /\ pc \in [Runs -> Pcs]
  /\ job \in [Runs -> Job]
  /\ out \in [Runs -> Seq(EventInserts \cup FailureUpdates)]
  /\ executed \in [Runs -> SUBSET Keys]
  /\ dbErrors \in [Runs -> 0 .. MaxDbErrors]
  /\ crashes \in 0 .. MaxCrashes

Init ==
  /\ StoreInit
  /\ pc = [r \in Runs |-> "idle"]
  /\ out = [r \in Runs |-> <<>>]
  /\ job = [r \in Runs |-> NoJob]
  /\ executed = [r \in Runs |-> {}]
  /\ dbErrors = [r \in Runs |-> 0]
  /\ crashes = 0

Goto(r, to) == pc' = [pc EXCEPT ![r] = to]
Emit(r, statements) == out' = [out EXCEPT ![r] = statements]

At(r, from) == pc[r] = from /\ out[r] = <<>>

DbError(r) == dbErrors[r] < MaxDbErrors /\ dbErrors' = [dbErrors EXCEPT ![r] = @ + 1]
NoDbError == UNCHANGED dbErrors

\* A statement that reports an error has been executed or not: the connection can
\* be lost after the server has executed it.
ErrorOf(r, statement) == DbError(r) /\ (statement \/ UNCHANGED tables)

--------------------------------------------------------------------------------
(* CreatePipeline and DeletePipeline.  Their requests are independent of any  *)
(* run; the error of the statement changes the answer and no state.           *)

CreatePipeline(p) ==
  /\ \E definition \in Definitions : InsertPipeline(p, definition)
  /\ UNCHANGED <<control, executed, faults>>

DeletePipeline(p) ==
  /\ RemovePipeline(p)
  /\ UNCHANGED <<control, executed, faults>>

--------------------------------------------------------------------------------
(* RunPipeline.                                                               *)

\* A request arrives; GetByID finds the pipeline, or does not and it is a 404.
\* What the second SELECT of GetByID reads is not used.
FindPipeline(r) ==
  /\ At(r, "idle")
  /\ \/ Stored(r) /\ Goto(r, "read") /\ NoDbError
     \/ ~ Stored(r) /\ Goto(r, "rejected") /\ NoDbError
     \/ DbError(r) /\ Goto(r, "rejected")
  /\ UNCHANGED <<tables, out, job, executed, crashes>>

\* CreateRun reads the steps: none are left after a deletion, and a pipeline may
\* have been created without any.
ReadSteps(r) ==
  /\ At(r, "read")
  /\ \/ /\ steps[target[r]] # <<>>
        /\ job' = [job EXCEPT ![r].plan = steps[target[r]]]
        /\ Goto(r, "insert") /\ NoDbError
     \/ /\ steps[target[r]] = <<>>
        /\ Goto(r, "rejected") /\ NoDbError /\ UNCHANGED job
     \/ DbError(r) /\ Goto(r, "rejected") /\ UNCHANGED job
  /\ UNCHANGED <<tables, out, executed, crashes>>

\* CreateRun inserts the run and its step runs; RunPipeline records run_queued.
CreateRun(r) ==
  /\ At(r, "insert")
  /\ \/ /\ InsertRun(r, job[r].plan) /\ NoDbError
        /\ Goto(r, "spawn")
        /\ Emit(r, <<EventInsert("run_queued", EmptyKey)>>)
     \/ /\ ~ Stored(r) /\ NoDbError
        /\ Goto(r, "rejected") /\ UNCHANGED <<tables, out>>
     \/ /\ ErrorOf(r, InsertRun(r, job[r].plan))
        /\ Goto(r, "rejected") /\ UNCHANGED out
  /\ UNCHANGED <<job, executed, crashes>>

\* Mutant: the handler answers 202 and starts nothing.
SpawnNothing(r) ==
  /\ At(r, "spawn")
  /\ Goto(r, "returned")
  /\ UNCHANGED <<tables, out, job, executed, faults>>

\* The handler starts the goroutine and answers 202.
Spawn(r) ==
  /\ At(r, "spawn")
  /\ Goto(r, "load")
  /\ job' = [job EXCEPT ![r] = NoJob]
  /\ UNCHANGED <<tables, out, executed, faults>>

--------------------------------------------------------------------------------
(* ExecuteRun: loading the pipeline.                                          *)

\* The first SELECT of GetByID.
Load(r) ==
  /\ At(r, "load")
  /\ \/ Stored(r) /\ Goto(r, "loadSteps") /\ NoDbError
     \/ ~ Stored(r) /\ Goto(r, "returned") /\ NoDbError
     \/ DbError(r) /\ Goto(r, "returned")
  /\ UNCHANGED <<tables, out, job, executed, crashes>>

\* The second SELECT of GetByID, which finds no steps if the pipeline has just
\* been deleted, and BuildFromStoredSteps.
LoadSteps(r) ==
  /\ At(r, "loadSteps")
  /\ \/ /\ job' = [job EXCEPT ![r].plan = steps[target[r]]]
        /\ Goto(r, IF Accepts(steps[target[r]]) THEN "start" ELSE "returned")
        /\ NoDbError
     \/ DbError(r) /\ Goto(r, "returned") /\ UNCHANGED job
  /\ UNCHANGED <<tables, out, executed, crashes>>

\* Mutant: the error of the update is dropped.
StartRunRegardless(r) ==
  /\ At(r, "start")
  /\ \/ UpdatePipelineRunStatus(r, "running") /\ NoDbError
     \/ ErrorOf(r, UpdatePipelineRunStatus(r, "running"))
  /\ Goto(r, "loop")
  /\ Emit(r, <<EventInsert("run_started", EmptyKey)>>)
  /\ UNCHANGED <<job, executed, crashes>>

\* ExecuteRun returns on an error without marking the run as failed.
StartRun(r) ==
  /\ At(r, "start")
  /\ \/ /\ UpdatePipelineRunStatus(r, "running") /\ NoDbError
        /\ Goto(r, "loop")
        /\ Emit(r, <<EventInsert("run_started", EmptyKey)>>)
     \/ /\ ErrorOf(r, UpdatePipelineRunStatus(r, "running"))
        /\ Goto(r, "returned") /\ UNCHANGED out
  /\ UNCHANGED <<job, executed, crashes>>

--------------------------------------------------------------------------------
(* ExecuteRun: the loops.                                                     *)

\* Mutant: a step is ready when one of its dependencies is completed.
ReadyOnAnyDependency(jb) ==
  {k \in KeysOf(jb.plan) : /\ k \notin jb.completed \cup jb.queued
                           /\ \/ DependsOn(jb.plan, k) = {}
                              \/ DependsOn(jb.plan, k) \cap jb.completed # {}}

\* readyStepKeys
Ready(jb) ==
  {k \in KeysOf(jb.plan) : /\ k \notin jb.completed \cup jb.queued
                           /\ DependsOn(jb.plan, k) \subseteq jb.completed}

\* Mutant: a negative retry_count is taken as it is.
MaxRetriesWithoutFloor(raw) ==
  IF raw = NotANumber THEN {0} ELSE {raw}

\* maxRetriesForStep: what int(v) is for a float64 beyond the range of int is
\* implementation-dependent; the compilers saturate, or produce the smallest int.
MaxRetriesForStep(raw) ==
  IF raw = NotANumber THEN {0}
  ELSE IF raw < 0 THEN {0}
  ELSE IF raw <= MaxInt THEN {raw}
  ELSE {MaxInt, -MaxInt - 1}

Increment(n) == IF n = MaxInt THEN -MaxInt - 1 ELSE n + 1

\* The head of the outer loop.
Schedule(r) ==
  /\ At(r, "loop")
  /\ LET jb == job[r] IN
     \/ /\ jb.completed = KeysOf(jb.plan)
        /\ Goto(r, "finish")
        /\ UNCHANGED <<out, job>>
     \/ /\ jb.completed # KeysOf(jb.plan)
        /\ IF Ready(jb) = {}
           THEN /\ Goto(r, "failing")
                /\ Emit(r, <<RunUpdate("failed"), EventInsert("run_failed", EmptyKey)>>)
                /\ UNCHANGED job
           ELSE /\ Goto(r, "pick")
                /\ job' = [job EXCEPT ![r].batch = Ready(jb)]
                /\ UNCHANGED out
  /\ UNCHANGED <<tables, executed, faults>>

\* Nodes() lists the steps in the order of the definition, and so does ready.
IsFirstOf(k, batch, plan) == \A l \in batch : StepOrder(plan, k) <= StepOrder(plan, l)

\* Mutant: a step that is taken in hand is not marked as queued.
TakeInHandUnqueued(jb, k, retries) ==
  [jb EXCEPT !.batch = @ \ {k}, !.step = k, !.attempt = 0, !.retries = retries]

TakeInHand(jb, k, retries) ==
  [jb EXCEPT !.queued = @ \cup {k}, !.batch = @ \ {k}, !.step = k,
             !.attempt = 0, !.retries = retries]

\* The head of the inner loop: without retries >= 0 its body is not executed and
\* execErr stays nil.
Pick(r) ==
  /\ At(r, "pick")
  /\ \E k \in job[r].batch :
       /\ IsFirstOf(k, job[r].batch, job[r].plan)
       /\ \E retries \in MaxRetriesForStep(RetryCount(job[r].plan, k)) :
            /\ job' = [job EXCEPT ![r] = TakeInHand(@, k, retries)]
            /\ Goto(r, IF 0 <= retries THEN "attempt" ELSE "complete")
       /\ Emit(r, <<EventInsert("step_queued", k)>>)
  /\ UNCHANGED <<tables, executed, faults>>

BeginAttempt(r) ==
  LET k == job[r].step IN
  /\ At(r, "attempt")
  /\ \/ /\ UpdateStepRunStatus(r, k, "running") /\ NoDbError
        /\ Goto(r, "execute")
        /\ Emit(r, <<EventInsert("step_running", k)>>)
     \/ /\ ErrorOf(r, UpdateStepRunStatus(r, k, "running"))
        /\ Goto(r, "failing")
        /\ Emit(r, <<RunUpdate("failed"), EventInsert("run_failed", k)>>)
  /\ UNCHANGED <<job, executed, crashes>>

\* The dispatcher returns nil: the worker has answered that it executed the step.
ExecuteSucceeds(r) ==
  /\ At(r, "execute")
  /\ executed' = [executed EXCEPT ![r] = @ \cup {job[r].step}]
  /\ Goto(r, "complete")
  /\ UNCHANGED <<tables, out, job, faults>>

\* Mutant: one attempt too few.
ExecuteFailsEarly(r) ==
  LET jb == job[r] IN
  /\ At(r, "execute")
  /\ job' = [job EXCEPT ![r].attempt = Increment(@)]
  /\ IF Increment(jb.attempt) < jb.retries
     THEN Goto(r, "attempt") /\ UNCHANGED out
     ELSE /\ Goto(r, "failing")
          /\ Emit(r, <<StepUpdate(jb.step, "failed"), RunUpdate("failed")>>)
  /\ UNCHANGED <<tables, executed, faults>>

\* Mutant: the other steps of the batch are executed after a failure.
ExecuteFailsAndGoesOn(r) ==
  LET jb == job[r] IN
  /\ At(r, "execute")
  /\ job' = [job EXCEPT ![r].attempt = Increment(@)]
  /\ IF Increment(jb.attempt) <= jb.retries
     THEN Goto(r, "attempt") /\ UNCHANGED out
     ELSE /\ Goto(r, IF jb.batch = {} THEN "failing" ELSE "pick")
          /\ Emit(r, <<StepUpdate(jb.step, "failed")>>)
  /\ UNCHANGED <<tables, executed, faults>>

\* Mutant: the events are recorded before the statuses, the run's before the step's.
ExecuteFailsEventsFirst(r) ==
  LET jb == job[r] IN
  /\ At(r, "execute")
  /\ job' = [job EXCEPT ![r].attempt = Increment(@)]
  /\ IF Increment(jb.attempt) <= jb.retries
     THEN Goto(r, "attempt") /\ UNCHANGED out
     ELSE /\ Goto(r, "failing")
          /\ Emit(r, <<EventInsert("run_failed", EmptyKey), EventInsert("step_failed", jb.step),
                       StepUpdate(jb.step, "failed"), RunUpdate("failed")>>)
  /\ UNCHANGED <<tables, executed, faults>>

\* Mutant: the run is marked as failed before the step.
ExecuteFailsRunFirst(r) ==
  LET jb == job[r] IN
  /\ At(r, "execute")
  /\ job' = [job EXCEPT ![r].attempt = Increment(@)]
  /\ IF Increment(jb.attempt) <= jb.retries
     THEN Goto(r, "attempt") /\ UNCHANGED out
     ELSE /\ Goto(r, "failing")
          /\ Emit(r, <<RunUpdate("failed"), StepUpdate(jb.step, "failed"),
                       EventInsert("step_failed", jb.step), EventInsert("run_failed", EmptyKey)>>)
  /\ UNCHANGED <<tables, executed, faults>>

\* The dispatcher returns an error: the worker refused or failed, could not be
\* reached, or did not answer in time.
ExecuteFails(r) ==
  LET jb    == job[r]
      retry == IF jb.attempt < jb.retries THEN <<EventInsert("step_retry", jb.step)>> ELSE <<>>
  IN
  /\ At(r, "execute")
  /\ job' = [job EXCEPT ![r].attempt = Increment(@)]
  /\ IF Increment(jb.attempt) <= jb.retries
     THEN /\ Goto(r, "attempt")
          /\ Emit(r, retry)
     ELSE /\ Goto(r, "failing")
          /\ Emit(r, retry \o <<StepUpdate(jb.step, "failed"), RunUpdate("failed"),
                                EventInsert("step_failed", jb.step),
                                EventInsert("run_failed", EmptyKey)>>)
  /\ UNCHANGED <<tables, executed, faults>>

\* Mutant: ExecuteRun returns on an error without marking the run as failed.
CompleteStepOrReturn(r) ==
  LET jb == job[r] IN
  /\ At(r, "complete")
  /\ \/ /\ UpdateStepRunStatus(r, jb.step, "completed") /\ NoDbError
        /\ job' = [job EXCEPT ![r].completed = @ \cup {jb.step}]
        /\ Goto(r, IF jb.batch = {} THEN "loop" ELSE "pick")
        /\ Emit(r, <<EventInsert("step_completed", jb.step)>>)
     \/ /\ ErrorOf(r, UpdateStepRunStatus(r, jb.step, "completed"))
        /\ Goto(r, "returned") /\ UNCHANGED <<out, job>>
  /\ UNCHANGED <<executed, crashes>>

\* Mutant: the error of the update is dropped.
CompleteStepRegardless(r) ==
  LET jb == job[r] IN
  /\ At(r, "complete")
  /\ \/ UpdateStepRunStatus(r, jb.step, "completed") /\ NoDbError
     \/ ErrorOf(r, UpdateStepRunStatus(r, jb.step, "completed"))
  /\ job' = [job EXCEPT ![r].completed = @ \cup {jb.step}]
  /\ Goto(r, IF jb.batch = {} THEN "loop" ELSE "pick")
  /\ Emit(r, <<EventInsert("step_completed", jb.step)>>)
  /\ UNCHANGED <<executed, crashes>>

\* After the last step of the batch the outer loop is entered again.
CompleteStep(r) ==
  LET jb == job[r] IN
  /\ At(r, "complete")
  /\ \/ /\ UpdateStepRunStatus(r, jb.step, "completed") /\ NoDbError
        /\ job' = [job EXCEPT ![r].completed = @ \cup {jb.step}]
        /\ Goto(r, IF jb.batch = {} THEN "loop" ELSE "pick")
        /\ Emit(r, <<EventInsert("step_completed", jb.step)>>)
     \/ /\ ErrorOf(r, UpdateStepRunStatus(r, jb.step, "completed"))
        /\ Goto(r, "failing")
        /\ Emit(r, <<RunUpdate("failed"), EventInsert("run_failed", jb.step)>>)
        /\ UNCHANGED job
  /\ UNCHANGED <<executed, crashes>>

\* Mutant: the run is marked as failed when the update reports an error.
FinishRunOrFail(r) ==
  /\ At(r, "finish")
  /\ \/ /\ UpdatePipelineRunStatus(r, "completed") /\ NoDbError
        /\ Goto(r, "returned") /\ UNCHANGED out
     \/ /\ ErrorOf(r, UpdatePipelineRunStatus(r, "completed"))
        /\ Goto(r, "failing") /\ Emit(r, <<RunUpdate("failed")>>)
  /\ UNCHANGED <<job, executed, crashes>>

\* ExecuteRun returns on an error without marking the run as failed.
FinishRun(r) ==
  /\ At(r, "finish")
  /\ \/ /\ UpdatePipelineRunStatus(r, "completed") /\ NoDbError
        /\ Goto(r, "returned")
        /\ Emit(r, <<EventInsert("run_completed", EmptyKey)>>)
     \/ /\ ErrorOf(r, UpdatePipelineRunStatus(r, "completed"))
        /\ Goto(r, "returned") /\ UNCHANGED out
  /\ UNCHANGED <<job, executed, crashes>>

\* The next statement with a dropped error: it is executed, or fails unnoticed.
Write(r) ==
  /\ out[r] # <<>>
  /\ out' = [out EXCEPT ![r] = Tail(@)]
  /\ \/ Execute(r, Head(out[r])) /\ NoDbError
     \/ DbError(r) /\ UNCHANGED tables
  /\ UNCHANGED <<pc, job, executed, crashes>>

--------------------------------------------------------------------------------
(* The server process dies, or is shut down: srv.Shutdown waits for handlers, *)
(* not for the goroutines they started.  Nothing resumes a run afterwards; a  *)
(* request that has not arrived yet is served by the next process.            *)

UnderWay(r) == pc[r] \notin {"idle", "rejected"} /\ ~ (pc[r] \in EndPcs /\ out[r] = <<>>)

Crash ==
  /\ crashes < MaxCrashes
  /\ crashes' = crashes + 1
  /\ pc' = [r \in Runs |-> IF UnderWay(r) THEN "lost" ELSE pc[r]]
  /\ out' = [r \in Runs |-> <<>>]
  /\ UNCHANGED <<tables, job, executed, dbErrors>>

RunStep(r) ==
  \/ ReadSteps(r) \/ CreateRun(r) \/ Spawn(r)
  \/ Load(r) \/ LoadSteps(r) \/ StartRun(r) \/ Schedule(r) \/ Pick(r)
  \/ BeginAttempt(r) \/ ExecuteSucceeds(r) \/ ExecuteFails(r)
  \/ CompleteStep(r) \/ FinishRun(r) \/ Write(r)

Next ==
  \/ \E p \in Pipelines : CreatePipeline(p) \/ DeletePipeline(p)
  \/ \E r \in Runs : FindPipeline(r) \/ RunStep(r)
  \/ Crash

\* A handler or goroutine that has begun goes on: the Go runtime schedules it, the
\* database driver returns, and the dispatcher returns within its timeout.  No
\* request has to arrive.
Fairness == \A r \in Runs : WF_vars(RunStep(r))

Spec == Init /\ [][Next]_vars /\ Fairness

--------------------------------------------------------------------------------
(* What the steps of a run may do.                                            *)

(* A step is touched only after all of its dependencies are completed: what   *)
(* step_runs shows of a run is never ahead of the graph, whatever fails and   *)
(* whenever the process dies.                                                 *)
DependencyOrder ==
  \A r \in Runs, k \in Keys :
    stepStatus[r][k] \in {"running", "completed", "failed"} =>
      \A d \in DependsOn(steps[target[r]], k) : stepStatus[r][d] = "completed"

(* At most one step of a run is running or has failed: ready steps are        *)
(* executed one after the other, and none is executed after a failure, the    *)
(* steps that were ready together with the failed one included.               *)
OneStepAtATime ==
  \A r \in Runs, k, l \in Keys :
    stepStatus[r][k] \in {"running", "failed"} /\ stepStatus[r][l] \in {"running", "failed"} =>
      k = l

(* A step is only recorded as completed if the dispatcher has executed it.    *)
CompletedStepsWereExecuted ==
  \A r \in Runs, k \in Keys : stepStatus[r][k] = "completed" => k \in executed[r]

(* The "no schedulable steps remaining" path of ExecuteRun is never taken: an *)
(* unfinished run of an accepted definition always has a ready step.          *)
NeverStuck ==
  \A r \in Runs : pc[r] = "loop" /\ job[r].completed # KeysOf(job[r].plan) => Ready(job[r]) # {}

--------------------------------------------------------------------------------
(* What the status of a run says.                                             *)

(* The steps of a completed run are all completed.                            *)
CompletedRunIsWhole ==
  \A r \in Runs : runStatus[r] = "completed" =>
    \A k \in KeysOf(steps[target[r]]) : stepStatus[r][k] = "completed"

Attempts(r, k) ==
  Cardinality({n \in DOMAIN events[r] : events[r][n] = [type |-> "step_running", step |-> k]})

(* A run none of whose statements has failed is only marked as failed after a *)
(* step was marked as failed, and that step was tried as often as its         *)
(* retry_count asks for, neither more nor less.                               *)
FailureIsExhaustion ==
  \A r \in Runs : runStatus[r] = "failed" /\ dbErrors[r] = 0 =>
    \E k \in KeysOf(steps[target[r]]) :
      /\ stepStatus[r][k] = "failed"
      /\ Attempts(r, k) - 1 \in MaxRetriesForStep(RetryCount(steps[target[r]], k))

(* A run that nobody executes any more is pending or running for ever only if *)
(* the process died under it or one of its own statements failed: errors of   *)
(* other runs do it no harm.  Unless the update to failed is itself the       *)
(* statement that was lost, such a run has not begun, or it has completed all *)
(* of its steps and is not pending.                                           *)
StrandedOnlyByFault ==
  \A r \in Runs :
    pc[r] \in EndPcs \ {"lost"} /\ out[r] = <<>> /\ runStatus[r] \in {"pending", "running"} =>
      /\ dbErrors[r] > 0
      /\ \/ pc[r] = "failing"
         \/ \A k \in KeysOf(steps[target[r]]) : stepStatus[r][k] = "pending"
         \/ /\ runStatus[r] = "running"
            /\ \A k \in KeysOf(steps[target[r]]) : stepStatus[r][k] = "completed"

(* The status of a run or a step that is completed or failed never changes    *)
(* again, except that the rows go away with the pipeline.                     *)
TerminalIsFinal ==
  [][\A r \in Runs :
       /\ runStatus[r] \in Terminal => runStatus'[r] \in {runStatus[r], "absent"}
       /\ \A k \in Keys : stepStatus[r][k] \in Terminal =>
            stepStatus'[r][k] \in {stepStatus[r][k], "absent"}]_vars

(* Nothing is left of the runs of a deleted pipeline, even if they go on      *)
(* executing, and nothing is recorded for one that does not exist.            *)
DeletedLeavesNothing ==
  \A r \in Runs : ~ Stored(r) =>
    runStatus[r] = "absent" /\ stepStatus[r] = NoStepRuns /\ events[r] = <<>>

(* An accepted run ends unless one of its statements fails or the process     *)
(* dies under it; one that is accepted after a restart ends too, and so does  *)
(* one beside a run that fails.                                               *)
AcceptedRunEnds ==
  \A r \in Runs : (runStatus[r] = "pending") ~>
    (runStatus[r] \in Terminal \cup {"absent"} \/ dbErrors[r] > 0 \/ pc[r] = "lost")

(* The tables show runs that live as RunLifecycle promises.                   *)
Lifecycle ==
  INSTANCE RunLifecycle WITH
    plan <- [r \in Runs |-> IF runStatus[r] = "absent" THEN <<>> ELSE steps[target[r]]],
    status <- runStatus,
    progress <- stepStatus

ImplementsLifecycle == Lifecycle!Spec

--------------------------------------------------------------------------------
(* What the timeline of a run says.                                           *)

Recorded(r, type, k) == \E n \in DOMAIN events[r] : events[r][n] = [type |-> type, step |-> k]

(* The timeline never contradicts the statuses: what it says has completed    *)
(* has; what it says has failed has, unless a statement of the run failed.    *)
TimelineIsTrue ==
  \A r \in Runs :
    /\ Recorded(r, "run_completed", EmptyKey) => runStatus[r] = "completed"
    /\ (\E k \in Keys : Recorded(r, "run_failed", k)) /\ dbErrors[r] = 0 => runStatus[r] = "failed"
    /\ \A k \in Keys :
         /\ Recorded(r, "step_completed", k) => stepStatus[r][k] = "completed"
         /\ Recorded(r, "step_failed", k) /\ dbErrors[r] = 0 => stepStatus[r][k] = "failed"

(* The timeline is in order, also when events are missing from it: the events *)
(* of a step come after those of its dependencies, and none comes after the   *)
(* end of its step, completed or failed, or of the run.                       *)
TimelineIsOrdered ==
  \A r \in Runs : \A m \in DOMAIN events[r] : \A n \in 1 .. m - 1 :
    LET earlier == events[r][n]
        later   == events[r][m]
    IN /\ later.step \notin DependsOn(steps[target[r]], earlier.step)
       /\ earlier.type \notin {"run_completed", "run_failed"}
       /\ earlier.type \in {"step_completed", "step_failed"} => later.step # earlier.step
================================================================================

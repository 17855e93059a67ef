--------------------------- MODULE SchedulerInvariant --------------------------
(******************************************************************************)
(* The inductive invariant of Scheduler: what the locals of a run, the rows   *)
(* it owns and the statements it still has to write have to do with each      *)
(* other, at every point of RunPipeline and ExecuteRun.  It is what the       *)
(* theorems of SchedulerProofs rest on, and the runs of MCScheduler check it. *)
(******************************************************************************)
EXTENDS Scheduler

\* Where ExecuteRun has marked the run as running.
Executing == {"loop", "pick", "attempt", "execute", "complete", "finish", "failing"}
\* Where it has a step in hand.
InHand == {"attempt", "execute", "complete", "failing"}

Present(r) == runStatus[r] # "absent"

(* Rows exist only under a stored pipeline, and go away together.             *)
RowsExist(r) ==
  /\ Present(r) => Stored(r)
  /\ ~ Present(r) => stepStatus[r] = NoStepRuns /\ events[r] = <<>>

(* The status of the run is known from where its goroutine is.                *)
StatusFits(r) ==
  /\ pc[r] \in {"idle", "read", "insert"} => ~ Present(r)
  /\ pc[r] \in {"spawn", "load", "loadSteps", "start", "rejected"} =>
       runStatus[r] \in {"absent", "pending"}
  /\ pc[r] \in Executing =>
       \/ runStatus[r] \in {"absent", "running"}
       \/ pc[r] = "failing" /\ runStatus[r] = "failed"

(* The plan that is executed is the stored definition, as long as there is    *)
(* one: definitions never change.                                             *)
PlanFits(r) ==
  pc[r] \in {"insert", "start"} \cup Executing =>
    /\ Stored(r) => job[r].plan = steps[target[r]]
    /\ Accepts(job[r].plan)

(* The bookkeeping of the loops.                                              *)
LoopsFit(r) ==
  LET jb == job[r] IN
  /\ pc[r] \in {"load", "loadSteps", "start"} => jb.completed = {} /\ jb.queued = {}
  /\ pc[r] \in Executing =>
       /\ jb.completed \subseteq jb.queued
       /\ jb.queued \subseteq KeysOf(jb.plan)
       /\ \A k \in jb.completed : DependsOn(jb.plan, k) \subseteq jb.completed
  /\ pc[r] \in {"loop", "pick", "finish"} => jb.queued = jb.completed
  /\ pc[r] \in {"pick", "attempt", "execute", "complete"} =>
       /\ jb.batch \subseteq KeysOf(jb.plan) \ jb.queued
       /\ \A k \in jb.batch : DependsOn(jb.plan, k) \subseteq jb.completed
  /\ pc[r] \in InHand =>
       /\ jb.step \in KeysOf(jb.plan) \ jb.completed
       /\ jb.queued = jb.completed \cup {jb.step}
       /\ DependsOn(jb.plan, jb.step) \subseteq jb.completed
  /\ pc[r] = "finish" => jb.completed = KeysOf(jb.plan)

(* The step rows agree with the bookkeeping.                                  *)
StepRowsFit(r) ==
  LET jb == job[r] IN
  /\ Present(r) /\ pc[r] \in {"spawn", "load", "loadSteps", "start"} =>
       \A k \in Keys : stepStatus[r][k] =
         IF k \in KeysOf(steps[target[r]]) THEN "pending" ELSE "absent"
  /\ Present(r) /\ pc[r] \in Executing =>
       \A k \in Keys :
         /\ k \in jb.completed => stepStatus[r][k] = "completed"
         /\ k \in KeysOf(jb.plan) \ jb.queued => stepStatus[r][k] = "pending"
         /\ k \notin KeysOf(jb.plan) => stepStatus[r][k] = "absent"
  /\ Present(r) /\ pc[r] \in {"attempt", "complete"} =>
       stepStatus[r][jb.step] \in {"pending", "running"}
  /\ Present(r) /\ pc[r] = "execute" => stepStatus[r][jb.step] = "running"
  /\ Present(r) /\ pc[r] = "failing" => stepStatus[r][jb.step] # "absent"

\* The updates of the failure paths that may still have to be written.
Failures(r) ==
  IF pc[r] # "failing" THEN {}
  ELSE {RunUpdate("failed")} \cup
       (IF stepStatus[r][job[r].step] \in {"absent", "running", "failed"}
        THEN {StepUpdate(job[r].step, "failed")} ELSE {})

(* A status is only written late when nothing but a failure can come of it.   *)
WritesFit(r) == out[r] \in Seq(EventInserts \cup Failures(r))

(* DependencyOrder, OneStepAtATime and CompletedRunIsWhole, for one run.      *)
OrderFits(r) ==
  \A k \in Keys : stepStatus[r][k] \in {"running", "completed", "failed"} =>
    \A d \in DependsOn(steps[target[r]], k) : stepStatus[r][d] = "completed"

OneFits(r) ==
  \A k, l \in Keys :
    stepStatus[r][k] \in {"running", "failed"} /\ stepStatus[r][l] \in {"running", "failed"} =>
      k = l

WholeFits(r) ==
  runStatus[r] = "completed" =>
    \A k \in KeysOf(steps[target[r]]) : stepStatus[r][k] = "completed"

RunInv(r) ==
  /\ RowsExist(r) /\ StatusFits(r) /\ PlanFits(r) /\ LoopsFit(r)
  /\ StepRowsFit(r) /\ WritesFit(r)
  /\ OrderFits(r) /\ OneFits(r) /\ WholeFits(r)

(* A request that has not been rejected has found its pipeline.               *)
PipelineFound(r) ==
  pc[r] \notin {"idle", "rejected"} => pipelines[target[r]] # "unused"

(* Only accepted definitions are stored, and every run is as it should be.    *)
Inv ==
  /\ TypeOK
  /\ \A p \in Pipelines : Accepts(steps[p])
  /\ \A r \in Runs : PipelineFound(r) /\ RunInv(r)

--------------------------------------------------------------------------------
(* What is needed beyond Inv to see that only executed steps are completed    *)
(* and that runs live as RunLifecycle promises.  It holds as long as no       *)
(* retry_count is beyond the range of int.                                    *)

CountsWithinInt ==
  \A sq \in Definitions : \A n \in DOMAIN sq :
    sq[n].retryCount \in Int => sq[n].retryCount <= MaxInt

(* A step is completed after its execution only, and it was running.          *)
ExecutionFits(r) ==
  /\ pc[r] = "insert" => job[r].plan # <<>>
  /\ pc[r] = "complete" /\ Present(r) =>
       stepStatus[r][job[r].step] = "running" /\ job[r].step \in executed[r]
  /\ \A k \in Keys : stepStatus[r][k] = "completed" => k \in executed[r]

(* The failure of a step is written before that of its run.                   *)
FailureOrderFits(r) ==
  \A m \in DOMAIN out[r] :
    out[r][m].table = "step_runs" =>
      /\ runStatus[r] # "failed"
      /\ \A n \in 1 .. m - 1 : out[r][n].table # "pipeline_runs"

(* Only offered definitions are stored, and every run executes them in order. *)
ProgressInv ==
  /\ \A p \in Pipelines : steps[p] \in Definitions \cup {<<>>}
  /\ \A r \in Runs : ExecutionFits(r) /\ FailureOrderFits(r)

--------------------------------------------------------------------------------
(* What is needed beyond Inv to see that the timeline is true and that no run *)
(* is stranded without a fault: what events say, or are about to say.         *)

Queued(r, statement) == \E n \in DOMAIN out[r] : out[r][n] = statement

Announced(r, type, k) == Recorded(r, type, k) \/ Queued(r, EventInsert(type, k))

(* A completion is recorded before it is announced.                           *)
CompletionFits(r) ==
  Present(r) =>
    /\ Announced(r, "run_completed", EmptyKey) => runStatus[r] = "completed"
    /\ \A k \in Keys : Announced(r, "step_completed", k) => stepStatus[r][k] = "completed"

(* So is a failure, unless a statement of the run fails: its update is ahead  *)
(* of it.                                                                     *)
FailureFits(r) ==
  Present(r) => \A k \in Keys :
    /\ Recorded(r, "run_failed", k) => runStatus[r] = "failed"
    /\ Recorded(r, "step_failed", k) => stepStatus[r][k] = "failed"
    /\ \A n \in DOMAIN out[r] :
         /\ out[r][n] = EventInsert("run_failed", k) =>
              runStatus[r] = "failed" \/ \E m \in 1 .. n - 1 : out[r][m] = RunUpdate("failed")
         /\ out[r][n] = EventInsert("step_failed", k) =>
              stepStatus[r][k] = "failed"
                \/ \E m \in 1 .. n - 1 : out[r][m] = StepUpdate(k, "failed")

(* And every end but a crash leaves a final status, or is about to.           *)
EndFits(r) ==
  /\ pc[r] = "rejected" => ~ Present(r)
  /\ pc[r] = "returned" => runStatus[r] \in {"completed", "absent"}
  /\ pc[r] = "failing" =>
       runStatus[r] \in {"failed", "absent"} \/ Queued(r, RunUpdate("failed"))

\* The steps of a run that has ended without a final status.
ReturnFits(r) ==
  LET planned == KeysOf(steps[target[r]]) IN
  pc[r] \in {"rejected", "returned"} /\ Present(r) =>
    \/ \A k \in planned : stepStatus[r][k] = "pending"
    \/ runStatus[r] # "pending" /\ \A k \in planned : stepStatus[r][k] = "completed"

TimelineInv ==
  \A r \in Runs :
    /\ CompletionFits(r) /\ ReturnFits(r)
    /\ dbErrors[r] = 0 => FailureFits(r) /\ EndFits(r)

--------------------------------------------------------------------------------
(* What is needed beyond Inv to see that the timeline is in order: what is    *)
(* announced is known to the locals, which choose what is announced next.     *)

KnownFits(r) ==
  /\ pc[r] \in HandlerPcs => job[r].queued = {} /\ job[r].completed = {}
  /\ Present(r) => \A t \in EventTypes, k \in Keys : Announced(r, t, k) =>
       /\ k # EmptyKey => k \in job[r].queued
       /\ t = "step_completed" => k \in job[r].completed
       /\ t \in {"run_completed", "run_failed", "step_failed"} => pc[r] \in EndPcs

\* An event of step l may come after one of type t and step k.
MayFollow(r, t, k, l) ==
  /\ l \notin DependsOn(steps[target[r]], k)
  /\ t \notin {"run_completed", "run_failed"}
  /\ t \in {"step_completed", "step_failed"} => l # k

IsEvent(statement) == statement.table = "pipeline_run_events"

RecordedInOrder(r) ==
  \A m \in DOMAIN events[r] : \A n \in 1 .. m - 1 :
    MayFollow(r, events[r][n].type, events[r][n].step, events[r][m].step)

QueuedAfterRecorded(r) ==
  \A n \in DOMAIN events[r], m \in DOMAIN out[r] : IsEvent(out[r][m]) =>
    MayFollow(r, events[r][n].type, events[r][n].step, out[r][m].step)

QueuedInOrder(r) ==
  \A m \in DOMAIN out[r] : \A n \in 1 .. m - 1 :
    IsEvent(out[r][m]) /\ IsEvent(out[r][n]) =>
      MayFollow(r, out[r][n].value, out[r][n].step, out[r][m].step)

PairsFit(r) ==
  Present(r) => RecordedInOrder(r) /\ QueuedAfterRecorded(r) /\ QueuedInOrder(r)

OrderInv == \A r \in Runs : KnownFits(r) /\ PairsFit(r)

--------------------------------------------------------------------------------
(* What is needed beyond these to see that a run fails by exhaustion only:    *)
(* the events count the attempts, as long as no statement fails.  A counter   *)
(* that reaches MaxInt wraps, but never exceeds its retries.                  *)

CounterFits(r) ==
  LET jb == job[r] IN
  pc[r] \in {"attempt", "execute"} =>
    /\ jb.retries \in MaxRetriesForStep(RetryCount(jb.plan, jb.step))
    /\ jb.retries \in 0 .. MaxInt /\ jb.attempt <= jb.retries
    /\ jb.retries < MaxInt => jb.attempt >= 0

Running(r) == EventInsert("step_running", job[r].step)

AttemptsFit(r) ==
  LET jb == job[r] IN
  /\ pc[r] = "attempt" /\ jb.retries < MaxInt =>
       ~ Queued(r, Running(r)) /\ Attempts(r, jb.step) = jb.attempt
  /\ pc[r] = "execute" /\ jb.retries < MaxInt =>
       \/ out[r] = <<>> /\ Attempts(r, jb.step) = jb.attempt + 1
       \/ out[r] = <<Running(r)>> /\ Attempts(r, jb.step) = jb.attempt

ExhaustionFits(r) ==
  LET k == job[r].step IN
  pc[r] = "failing" \/ runStatus[r] = "failed" =>
    /\ k \in KeysOf(steps[target[r]])
    /\ ~ Queued(r, Running(r))
    /\ Attempts(r, k) - 1 \in MaxRetriesForStep(RetryCount(steps[target[r]], k))
    /\ runStatus[r] = "failed" => stepStatus[r][k] = "failed"
    /\ \A n \in DOMAIN out[r] : out[r][n] = RunUpdate("failed") =>
         \/ stepStatus[r][k] = "failed"
         \/ \E m \in 1 .. n - 1 : out[r][m] = StepUpdate(k, "failed")

ExhaustionInv ==
  \A r \in Runs :
    CounterFits(r) /\ (dbErrors[r] = 0 /\ Present(r) => AttemptsFit(r) /\ ExhaustionFits(r))
--------------------------------------------------------------------------------
(* What is needed beyond Inv by those who count the rows of a run: there are  *)
(* none for other steps than those of its definition, and none has moved      *)
(* before the run has been marked as running.                                 *)

OnlyPlanned(r) ==
  \A k \in Keys : stepStatus[r][k] # "absent" => k \in KeysOf(steps[target[r]])

PendingFits(r) ==
  runStatus[r] = "pending" => \A k \in Keys : stepStatus[r][k] \in {"pending", "absent"}

RowsInv == \A r \in Runs : OnlyPlanned(r) /\ PendingFits(r)
================================================================================

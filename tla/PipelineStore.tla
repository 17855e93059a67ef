----------------------------- MODULE PipelineStore -----------------------------
(******************************************************************************)
(* The tables the orchestrator keeps in PostgreSQL, as internal/store writes  *)
(* them and as the schema in internal/database constrains them.  A statement  *)
(* of the store is atomic; what is not atomic is a sequence of statements,    *)
(* and the modules that use these operators take one step per statement.      *)
(*                                                                            *)
(* A run identifier is used by at most one request, and a pipeline identifier *)
(* is never used again after a deletion: both are fresh UUIDs.                *)
(******************************************************************************)
EXTENDS Dag

CONSTANTS
  Pipelines,    \* pipeline identifiers
  Runs,         \* run identifiers: one per POST /pipelines/{id}/run request
  Definitions   \* the lists of steps that create requests carry

ASSUME DefinitionsAssumption == Definitions \subseteq Seq(Step)

VARIABLES
  pipelines,    \* pipelines: "unused" before its creation, then "stored", then "deleted"
  steps,        \* pipeline_steps: the steps of each pipeline in step_order
  target,       \* pipeline_runs.pipeline_id, the {id} of the request
  runStatus,    \* pipeline_runs.status, "absent" when there is no row
  stepStatus,   \* step_runs.status, by run and step key
  events        \* pipeline_run_events: the rows of each run, in insertion order

tables == <<pipelines, steps, target, runStatus, stepStatus, events>>

RunStatuses == {"pending", "running", "completed", "failed"}
Terminal == {"completed", "failed"}

EventTypes == {"run_queued", "run_started", "run_completed", "run_failed",
               "step_queued", "step_running", "step_retry", "step_completed", "step_failed"}

\* step is EmptyKey in the events of the run itself.
Event == [type: EventTypes, step: Keys]

NoStepRuns == [k \in Keys |-> "absent"]

StoreTypeOK ==
  /\ pipelines \in [Pipelines -> {"unused", "stored", "deleted"}]
  /\ steps \in [Pipelines -> Seq(Step)]
  /\ target \in [Runs -> Pipelines]
  /\ runStatus \in [Runs -> RunStatuses \cup {"absent"}]
  /\ stepStatus \in [Runs -> [Keys -> RunStatuses \cup {"absent"}]]
  /\ events \in [Runs -> Seq(Event)]

StoreInit ==
  /\ pipelines = [p \in Pipelines |-> "unused"]
  /\ steps = [p \in Pipelines |-> <<>>]
  /\ target \in [Runs -> Pipelines]
  /\ runStatus = [r \in Runs |-> "absent"]
  /\ stepStatus = [r \in Runs |-> NoStepRuns]
  /\ events = [r \in Runs |-> <<>>]

Stored(r) == pipelines[target[r]] = "stored"

--------------------------------------------------------------------------------
(* Pipelines.                                                                 *)

\* Create: one transaction, after the builder has accepted the steps.
InsertPipeline(p, definition) ==
  /\ pipelines[p] = "unused"
  /\ Accepts(definition)
  /\ pipelines' = [pipelines EXCEPT ![p] = "stored"]
  /\ steps' = [steps EXCEPT ![p] = definition]
  /\ UNCHANGED <<target, runStatus, stepStatus, events>>

\* Mutant: the runs of a deleted pipeline are not deleted with it.
RemovePipelineOnly(p) ==
  /\ pipelines[p] = "stored"
  /\ pipelines' = [pipelines EXCEPT ![p] = "deleted"]
  /\ steps' = [steps EXCEPT ![p] = <<>>]
  /\ UNCHANGED <<target, runStatus, stepStatus, events>>

\* Delete: the schema's ON DELETE CASCADE takes the steps, the runs, the step
\* runs and the events along.
RemovePipeline(p) ==
  /\ pipelines[p] = "stored"
  /\ pipelines' = [pipelines EXCEPT ![p] = "deleted"]
  /\ steps' = [steps EXCEPT ![p] = <<>>]
  /\ runStatus' = [r \in Runs |-> IF target[r] = p THEN "absent" ELSE runStatus[r]]
  /\ stepStatus' = [r \in Runs |-> IF target[r] = p THEN NoStepRuns ELSE stepStatus[r]]
  /\ events' = [r \in Runs |-> IF target[r] = p THEN <<>> ELSE events[r]]
  /\ UNCHANGED target

--------------------------------------------------------------------------------
(* Runs.                                                                      *)

\* CreateRun's transaction, with the steps read before it.  Its rows refer to the
\* pipeline and to its steps, so it fails when they are gone.
InsertRun(r, loaded) ==
  /\ Stored(r)
  /\ runStatus' = [runStatus EXCEPT ![r] = "pending"]
  /\ stepStatus' = [stepStatus EXCEPT ![r] =
                      [k \in Keys |-> IF k \in KeysOf(loaded) THEN "pending" ELSE "absent"]]
  /\ UNCHANGED <<pipelines, steps, target, events>>

\* UpdatePipelineRunStatus: an UPDATE that matches no row is not an error.
UpdatePipelineRunStatus(r, status) ==
  /\ runStatus' = [runStatus EXCEPT ![r] = IF @ = "absent" THEN @ ELSE status]
  /\ UNCHANGED <<pipelines, steps, target, stepStatus, events>>

\* Mutant: the UPDATE matches the step in every run of the pipeline.
UpdateStepRunStatusOfAnyRun(r, k, status) ==
  /\ stepStatus' = [s \in Runs |->
                      IF target[s] = target[r] /\ stepStatus[s][k] # "absent"
                      THEN [stepStatus[s] EXCEPT ![k] = status] ELSE stepStatus[s]]
  /\ UNCHANGED <<pipelines, steps, target, runStatus, events>>

\* UpdateStepRunStatus
UpdateStepRunStatus(r, k, status) ==
  /\ stepStatus' = [stepStatus EXCEPT ![r][k] = IF @ = "absent" THEN @ ELSE status]
  /\ UNCHANGED <<pipelines, steps, target, runStatus, events>>

\* CreateRunEvent: the row refers to the pipeline and the run; its callers drop
\* the error of an insertion that finds them deleted.
CreateRunEvent(r, type, k) ==
  /\ events' = [events EXCEPT ![r] =
                  IF runStatus[r] = "absent" THEN @ ELSE Append(@, [type |-> type, step |-> k])]
  /\ UNCHANGED <<pipelines, steps, target, runStatus, stepStatus>>

--------------------------------------------------------------------------------
(* Statements whose error the caller drops are data: a caller queues them and *)
(* executes them in order.                                                    *)

RunUpdate(status) == [table |-> "pipeline_runs", value |-> status, step |-> EmptyKey]
StepUpdate(k, status) == [table |-> "step_runs", value |-> status, step |-> k]
EventInsert(type, k) == [table |-> "pipeline_run_events", value |-> type, step |-> k]

Execute(r, statement) ==
  \/ /\ statement.table = "pipeline_runs"
     /\ UpdatePipelineRunStatus(r, statement.value)
  \/ /\ statement.table = "step_runs"
     /\ UpdateStepRunStatus(r, statement.step, statement.value)
  \/ /\ statement.table = "pipeline_run_events"
     /\ CreateRunEvent(r, statement.value, statement.step)
================================================================================

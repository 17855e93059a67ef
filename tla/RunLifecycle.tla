----------------------------- MODULE RunLifecycle ------------------------------
(******************************************************************************)
(* What GET /api/v1/pipelines/{id}/status promises its clients: how the       *)
(* status of a run and of its steps may evolve.  The module knows nothing of  *)
(* statements, goroutines, retries or faults; Scheduler is shown to implement *)
(* it.                                                                        *)
(******************************************************************************)
EXTENDS Dag

CONSTANTS
  Runs,
  Definitions   \* the lists of steps that pipelines may have

VARIABLES
  plan,       \* the steps of the run's pipeline, none when there is no run
  status,     \* of the run
  progress    \* the status of each step

vars == <<plan, status, progress>>

NoProgress == [k \in Keys |-> "absent"]

Init ==
  /\ plan = [r \in Runs |-> <<>>]
  /\ status = [r \in Runs |-> "absent"]
  /\ progress = [r \in Runs |-> NoProgress]

Accept(r) ==
  /\ status[r] = "absent"
  /\ status' = [status EXCEPT ![r] = "pending"]
  /\ \E definition \in Definitions :
       /\ plan' = [plan EXCEPT ![r] = definition]
       /\ progress' = [progress EXCEPT ![r] =
                         [k \in Keys |-> IF k \in KeysOf(definition) THEN "pending" ELSE "absent"]]
       /\ definition # <<>> /\ Accepts(definition)

SetStatus(r, from, to) ==
  /\ status[r] = from
  /\ status' = [status EXCEPT ![r] = to]
  /\ UNCHANGED <<plan, progress>>

SetProgress(r, k, from, to) ==
  /\ status[r] = "running"
  /\ progress[r][k] = from
  /\ progress' = [progress EXCEPT ![r][k] = to]
  /\ UNCHANGED <<plan, status>>

Start(r) == SetStatus(r, "pending", "running")

StartStep(r, k) ==
  /\ \A d \in DependsOn(plan[r], k) : progress[r][d] = "completed"
  /\ \A l \in KeysOf(plan[r]) : progress[r][l] \in {"pending", "completed"}
  /\ SetProgress(r, k, "pending", "running")

CompleteStep(r, k) == SetProgress(r, k, "running", "completed")

\* A step fails before its run does; its failure may never be recorded.
FailStep(r, k) == SetProgress(r, k, "running", "failed")

Complete(r) ==
  /\ \A k \in KeysOf(plan[r]) : progress[r][k] = "completed"
  /\ SetStatus(r, "running", "completed")

Fail(r) == SetStatus(r, "running", "failed")

\* The pipeline is deleted, and its runs with it.
Forget(S) ==
  /\ plan' = [r \in Runs |-> IF r \in S THEN <<>> ELSE plan[r]]
  /\ status' = [r \in Runs |-> IF r \in S THEN "absent" ELSE status[r]]
  /\ progress' = [r \in Runs |-> IF r \in S THEN NoProgress ELSE progress[r]]

Next ==
  \/ \E r \in Runs :
       \/ Accept(r) \/ Start(r) \/ Complete(r) \/ Fail(r)
       \/ \E k \in Keys : StartStep(r, k) \/ CompleteStep(r, k) \/ FailStep(r, k)
  \/ \E S \in SUBSET Runs : Forget(S)

Spec == Init /\ [][Next]_vars
================================================================================

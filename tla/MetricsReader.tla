----------------------------- MODULE MetricsReader -----------------------------
(******************************************************************************)
(* A client of GET /pipelines/{id}/metrics and GET /metrics.  Every number is *)
(* a SELECT COUNT of its own, outside any transaction, so the runs, creations *)
(* and deletions of Scheduler come in between.                                *)
(******************************************************************************)
EXTENDS Scheduler

CONSTANT
  TopLimit        \* the LIMIT of the list of failed steps: 10 in the code

ASSUME TopLimitAssumption == TopLimit \in Nat \ {0}

VARIABLES
  counting,       \* "idle", the number that is counted next, "list", or "done"
  scope,          \* the pipelines of the request: one, or all of them
  metrics,        \* the numbers
  listing,        \* the answer lists failed steps: it is about one pipeline
  top,            \* top_failed_steps: the failures of each step that is listed
  createdSince,   \* a run was created since runs_total was counted (history)
  deletedSince    \* a pipeline was deleted since then (history)

counter == <<counting, scope, metrics, listing, top>>
metricsVars == <<vars, counter, createdSince, deletedSince>>

NoMetrics == [total |-> 0, running |-> 0, completed |-> 0, failed |-> 0, stepsFailed |-> 0]

MetricsInit ==
  /\ Init
  /\ counting = "idle" /\ scope = {} /\ metrics = NoMetrics
  /\ listing = FALSE /\ top = <<>>
  /\ createdSince = FALSE /\ deletedSince = FALSE

RunsIn(S) == {r \in Runs : target[r] \in S /\ runStatus[r] # "absent"}

CountRuns(S, status) == Cardinality({r \in RunsIn(S) : runStatus[r] = status})

FailedSteps(S) == {rk \in RunsIn(S) \X Keys : stepStatus[rk[1]][rk[2]] = "failed"}

\* Mutant: only the failed steps of failed runs are listed.
FailuresInFailedRuns(S, k) ==
  Cardinality({r \in RunsIn(S) : runStatus[r] = "failed" /\ stepStatus[r][k] = "failed"})

FailuresOf(S, k) == Cardinality({r \in RunsIn(S) : stepStatus[r][k] = "failed"})

\* The keys of the list: those with the most failures, as many as it takes.  Which
\* of two with as many is listed depends on the order of their names.
TopFailed(S) ==
  LET failing == {k \in Keys : FailuresOf(S, k) > 0} IN
  {T \in SUBSET failing :
     /\ Cardinality(T) <= TopLimit
     /\ T # failing => Cardinality(T) = TopLimit
     /\ \A k \in T, l \in failing \ T : FailuresOf(S, k) >= FailuresOf(S, l)}

AskAbout(S, list) ==
  /\ counting = "idle" /\ counting' = "total"
  /\ scope' = S /\ listing' = list
  /\ UNCHANGED <<vars, metrics, top, createdSince, deletedSince>>

\* GET /metrics is about every pipeline, GET /pipelines/{id}/metrics about one
\* that GetByID has found.
AskMetrics == AskAbout(Pipelines, FALSE)
AskPipelineMetrics(p) == pipelines[p] = "stored" /\ AskAbout({p}, TRUE)

\* counting moves on; the number is of the rows as they are now.
Count(field, next, number) ==
  /\ counting = field /\ counting' = next
  /\ metrics' = [metrics EXCEPT ![field] = number]
  /\ UNCHANGED <<vars, scope, listing, top, createdSince, deletedSince>>

CountTotal == Count("total", "running", Cardinality(RunsIn(scope)))
CountRunning == Count("running", "completed", CountRuns(scope, "running"))
CountCompleted == Count("completed", "failed", CountRuns(scope, "completed"))
CountFailed == Count("failed", "stepsFailed", CountRuns(scope, "failed"))
CountStepsFailed ==
  Count("stepsFailed", IF listing THEN "list" ELSE "done", Cardinality(FailedSteps(scope)))

ListFailed ==
  /\ counting = "list" /\ counting' = "done"
  /\ \E T \in TopFailed(scope) : top' = [k \in T |-> FailuresOf(scope, k)]
  /\ UNCHANGED <<vars, scope, metrics, listing, createdSince, deletedSince>>

\* The numbers are sent, or a statement fails and none are.
Answer ==
  /\ counting # "idle" /\ counting' = "idle"
  /\ scope' = {} /\ metrics' = NoMetrics /\ listing' = FALSE /\ top' = <<>>
  /\ createdSince' = FALSE /\ deletedSince' = FALSE
  /\ UNCHANGED vars

\* A step of the system.  The history starts with the count of runs_total.
Since(flag, event) == counting \notin {"idle", "total"} /\ (flag \/ event)

SystemStep ==
  /\ Next
  /\ createdSince' = Since(createdSince, \E r \in Runs : runStatus[r] = "absent" /\ runStatus'[r] # "absent")
  /\ deletedSince' = Since(deletedSince, \E p \in Pipelines : pipelines[p] = "stored" /\ pipelines'[p] # "stored")
  /\ UNCHANGED counter

MetricsNext ==
  \/ SystemStep
  \/ AskMetrics \/ \E p \in Pipelines : AskPipelineMetrics(p)
  \/ CountTotal \/ CountRunning \/ CountCompleted \/ CountFailed \/ CountStepsFailed
  \/ ListFailed \/ Answer

MetricsSpec == MetricsInit /\ [][MetricsNext]_metricsVars

--------------------------------------------------------------------------------
(* The numbers of one answer fit each other, as far as separate statements    *)
(* can: unless a run was created meanwhile, no run is counted as completed    *)
(* and as failed, or without having been counted in the total.                *)
CountsAddUp ==
  counting = "done" /\ ~ createdSince =>
    /\ metrics.running <= metrics.total
    /\ metrics.completed + metrics.failed <= metrics.total

(* Every failed run is explained by a failed step, unless a statement of one  *)
(* of the runs in question failed or the rows went away: the step is recorded *)
(* before its run, and counted after it.                                      *)
FailuresAreExplained ==
  counting = "done" /\ ~ deletedSince /\ (\A r \in RunsIn(scope) : dbErrors[r] = 0) =>
    metrics.failed <= metrics.stepsFailed

\* One element for each failure that the list tells of.
ListedFailures == UNION {{k} \X (1 .. top[k]) : k \in DOMAIN top}

(* A pipeline's list of failed steps accounts for every failure counted before *)
(* it, unless the list is full or the rows went away: a failed step stays so, *)
(* and is listed whether or not its run is marked as failed yet.              *)
FailuresAreListed ==
  counting = "done" /\ listing /\ ~ deletedSince /\ Cardinality(DOMAIN top) < TopLimit =>
    metrics.stepsFailed <= Cardinality(ListedFailures)

(* runs_success_rate and runs_failure_rate, completed and failed over total,  *)
(* are shares of the runs.                                                    *)
RatesAreShares ==
  counting = "done" /\ metrics.total > 0 =>
    metrics.completed <= metrics.total /\ metrics.failed <= metrics.total
================================================================================

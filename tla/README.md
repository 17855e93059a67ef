# Verification of the pipeline orchestrator

TLA+ models of the pipeline orchestrator (`src/orchestrator`, Go) and of the
worker it calls (`src/executor`, Python), TLC runs that check them on small
instances, and TLAPS proofs of what matters most for every instance.

## 1. The system

A client stores a *pipeline*: a list of steps, each with a key, a type, a
configuration and the keys of the steps it depends on. `POST
/pipelines/{id}/run` creates a *run* of it and answers 202; a goroutine then
executes the steps in dependency order, one at a time, each by a call to the
dispatcher, and records the progress in PostgreSQL, where the status, history,
event and metrics endpoints read it.

| component | code | state it keeps | operations |
|---|---|---|---|
| dependency graph | `internal/dag` | a `Graph` per call: nodes, `dependsOn`, `dependents`, `InDegree`, `insertOrder` | `BuildFromCreateSteps`, `BuildFromStoredSteps`, `Validate`, `TopologicalSort`, `Nodes`, `DependsOn` |
| store | `internal/store`, schema in `internal/database` | the tables `pipelines`, `pipeline_steps`, `pipeline_runs`, `step_runs`, `pipeline_run_events` | `Create`, `Delete`, `CreateRun`, `UpdatePipelineRunStatus`, `UpdateStepRunStatus`, `CreateRunEvent`; reads: `List`, `GetByID`, `getSteps`, `GetLatestRunStatus`, `GetRunStatusByID`, `ListRuns`, `ListRunEvents`, `GetMetrics`, `GetPipelineMetrics`, `GetPipelineFailureBreakdown` |
| pipeline handlers | `api/handlers/pipeline.go` | none of their own | `CreatePipeline`, `DeletePipeline`, `RunPipeline`, `ListPipelines`, `GetPipeline`, `PipelineStatus` |
| scheduler | `internal/scheduler` | locals of one `ExecuteRun` goroutine per run: `completed`, `queued`, `ready`, `attempt` | `ExecuteRun`, `readyStepKeys`, `maxRetriesForStep`, `emitEvent` |
| dispatcher | `internal/dispatcher` | an HTTP client with a timeout | `ExecuteStep`, locally or by `POST /execute` |
| worker | `executor/worker` | artifacts by run and step, in memory | `do_POST`, `execute_step`, `put_artifact`, `get_artifact` |
| connectors, transformations | `executor/connectors`, `executor/transformations` | none | extract, load, transform |
| interpreter | `internal/interpreter`, `api/handlers/interpret.go` | none | `Interpret`, `normalizeDraft`, `validateDraft`, `respondManualFallback` |
| monitoring | `api/handlers/monitoring.go` | none | `PipelineRuns`, `PipelineRunEvents`, `Metrics`, `PipelineMetrics`, `PipelineFailureBreakdown`, `parseLimit`, `parseOffset` |
| router, middleware | `api/router`, `api/middleware` | none | API key, recovery, CORS, logging |
| configuration, main | `internal/config`, `cmd/server` | none | `Load`; startup, graceful shutdown |

The components interact by calls (handlers and scheduler call the store, the
store's `Create` and the scheduler call the graph builders, the scheduler calls
the dispatcher) and through the tables, which every request and every run
shares. There is no lock and no queue in the orchestrator: a run belongs to the one
goroutine that `RunPipeline` started for it, and only a deletion touches its rows
from outside. The worker is a single thread: the calls of all runs wait in its socket.

What is hard about it:

- **interleaving**: runs, creations and deletions go on between any two
  statements of a run; `GetByID` is two SELECTs, and `CreateRun` reads the
  steps outside its transaction;
- **partial failure**: each statement may fail, having been executed or not;
  some errors end the run, others are dropped (`_ =` updates and every event);
- **crashes**: nothing resumes a run; `srv.Shutdown` waits for handlers, not
  for the goroutines they started;
- **retries and timeouts**: the dispatcher's timeout does not stop the worker,
  so an attempt that counts as failed may take effect later;
- **memory**: the results of steps live in the worker's memory, which a restart
  wipes in the middle of a run;
- **boundaries**: `retry_count` is any JSON number; a definition may list a
  dependency twice, have a cycle or have no steps.

What makes each component correct:

- graph: it accepts exactly the definitions with non-empty unique keys, known
  dependencies and no cycle, and the order it finds respects the dependencies;
- store: rows exist only under their parents, and vanish with them;
- scheduler: dependencies are respected, steps are sequential, the statuses
  and the timeline are true, final statuses are final, and each accepted run
  ends unless a fault hits it;
- worker: effects respect the dependencies, the late ones included; a result,
  once accepted, is never overwritten, and only a restart loses it; a failing
  execution is repeated as often as asked and no more;
- readers: the parts of an answer fit each other although they are read apart,
  and answers never go back;
- interpreter: whatever the NLP service says, the draft that is returned is a
  pipeline, and nothing unsure is returned as `auto`.

## 2. The modules

| module | models | extends |
|---|---|---|
| `Dag` | definitions, and what the builder is meant to accept | |
| `DagBuilder` | the builders, `Validate` and `TopologicalSort`, one step per iteration | `Dag` |
| `DagBuilderProofs` | its invariant, theorems and proofs | `DagBuilder` |
| `PipelineStore` | the tables and the statements that write them | `Dag` |
| `RunLifecycle` | abstract: how the statuses of a run and its steps may evolve | `Dag` |
| `Scheduler` | the handlers that write, `ExecuteRun`, failures and crashes; the properties | `PipelineStore` |
| `SchedulerInvariant` | the inductive invariants: `Inv`, `ProgressInv`, `TimelineInv`, `OrderInv`, `ExhaustionInv`, `RowsInv` | `Scheduler` |
| `SchedulerProofs` | the invariant theorems and their proofs | `SchedulerInvariant` |
| `LifecycleProofs` | finality and the refinement of `RunLifecycle`, with proofs | `SchedulerProofs` |
| `TimelineProofs` | what events and ends of runs say, the order of the events, attempts and failed runs, the moves of the rows, with proofs | `LifecycleProofs` |
| `Worker` | the single-threaded worker: its socket, executions, artifacts, restarts | |
| `System` | `Scheduler` and `Worker`, composed by the HTTP dispatcher; the properties | `Scheduler`, instance of `Worker` |
| `SystemInvariant` | the inductive invariant `SystemInv` of the composition | `System`, `SchedulerInvariant` |
| `SystemProofs` | its theorems and their proofs | `SystemInvariant`, `SchedulerProofs` |
| `Interpreter` | `POST /interpret`, from the service's reply to the draft and its creation | `Dag` |
| `InterpreterProofs` | its invariant, theorems and proofs | `Interpreter` |
| `StatusReader` | a client of the status, history and event endpoints beside `Scheduler` | `Scheduler` |
| `StatusReaderProofs` | its invariant, theorems and proofs | `StatusReader`, `TimelineProofs` |
| `MetricsReader` | a client of the metrics endpoints beside `Scheduler` | `Scheduler` |
| `MetricsReaderProofs` | its invariant, theorems and proofs | `MetricsReader`, `TimelineProofs` |
| `MCDagBuilder`, `MCScheduler`, `MCSystem`, `MCInterpreter`, `MCStatusReader`, `MCMetricsReader` | small instances | the modules they are named after |

### Definitions and graphs

A definition is a sequence of records `[key, dependsOn, retryCount]`; names,
types and the rest of the configuration do not influence scheduling. A
`retry_count` is an integer or `NotANumber` (absent, a string, malformed);
fractions are truncated by the code and add nothing. Every step has a
`depends_on` list: a `null` list fails at the database, which is `Interpreter`'s
subject.

`Acyclic` is the textbook definition (every non-empty set of steps has one that
depends on none of the set), and `Accepts` is what the store and the scheduler
use. `DagBuilder` is the algorithm the code runs, and `VerdictIsRight` says the
two agree; so `Scheduler` uses `Accepts` for both builders, which differ in
their row type and error texts only.

### The store

`pipelines`, `steps`, `target`, `runStatus`, `stepStatus` and `events` are the
five tables, by identifier; a row that does not exist has the status
`"absent"`. One operator per statement. An UPDATE that matches no row is no
error; an event whose run is gone violates a foreign key, and its caller drops
that error. `RemovePipeline` includes the cascades of the schema. `Create` and
`CreateRun` are transactions and thus atomic, except for the SELECT of
`CreateRun` that precedes its transaction.

### The scheduler

Each `r \in Runs` is one `POST /pipelines/{id}/run` request and the goroutine it
starts. `pc[r]` is the statement it is at, `job[r]` the locals of `ExecuteRun`.

| action | code |
|---|---|
| `CreatePipeline`, `DeletePipeline` | the handlers of the same names |
| `FindPipeline`, `ReadSteps`, `CreateRun`, `Spawn` | `RunPipeline`: `GetByID`, the two parts of `CreateRun` and `run_queued`, the `go` statement |
| `Load`, `LoadSteps` | the two SELECTs of `GetByID` and `BuildFromStoredSteps` |
| `StartRun` | the update to running and `run_started` |
| `Schedule` | the head of the outer loop with `readyStepKeys` |
| `Pick` | the head of the inner loop with `step_queued` and `maxRetriesForStep` |
| `BeginAttempt` | the head of the attempt loop: the update to running and `step_running` |
| `ExecuteSucceeds`, `ExecuteFails` | the dispatcher's answer, and everything up to the next examined statement |
| `CompleteStep`, `FinishRun` | the updates to completed, their events, and their failure paths |
| `Write` | the next statement whose error is dropped |
| `Crash` | the death or the shutdown of the process |

A statement whose error the code examines is an action of its own, which
succeeds, or reports an error having been executed or not (`ErrorOf`). The
statements whose error is dropped are queued in `out[r]` by the action that
precedes them, and the run does nothing else (`At`) before `Write` has
attempted them in order; each may fail unnoticed. So a crash, a deletion or a
step of another run can come between any two statements. `dbErrors[r]` counts the
statements of `r` that have failed, which lets a property tell a run that was hit by an
error from one whose neighbour was.

`retries` ranges over what the Go compilers make of `int(v)`: the number
itself, or for one beyond `MaxInt` either `MaxInt` or the smallest int. The
attempt counter wraps like Go's.

### The worker and the system

`Scheduler` lets `ExecuteStep` succeed or fail at any time. `System` replaces
that by a connection to `Worker`. The worker's `HTTPServer` serves one connection
at a time; the others wait in `backlog`, in the order in which they were made. It
does not notice that a client has gone, so a request is executed even if its call
has ended, and its answer is lost on the closed connection.

| action | code |
|---|---|
| `CallWorker` | `HTTPDispatcher.ExecuteStep` up to `client.Do`: the connection is made |
| `CallSucceeds`, `CallIsRefused` | the answer arrives: 2xx, or another status |
| `CallTimesOut` | no connection, a reset one, or the client's timeout, at any time, an answer that is on its way notwithstanding |
| `OwnStep` | everything else a run does, as in `Scheduler` |
| `OrchestratorCrash` | `Crash`, with the connections; the worker goes on |
| `Refuse`, `Begin` | `execute_step` up to the connector: the input is missing, or not |
| `Perform` | the connector has done its work |
| `Fail` | an exception before or after that |
| `Reply` | `put_artifact` and `_send` |
| `Restart` | the worker dies and starts with an empty memory |

`conn[r]` is the set of open connections of `r` (none or one) with the answer that
is on its way. `Send` finds the connection by its request, since an answer belongs to the TCP
connection that carried the request. An artifact is known by the attempt that
produced it and by whether it is Python's `None`: `get_artifact` does not tell the
artifact `None` (an extracted JSON `null`) from no artifact. `source` is the
`config.input_from` of each step, which the code never compares with `depends_on`.
`performed`, `wiped`, `refused`, `accepted` and `gaveUp` are histories.

A crash of the orchestrator does not lose the request it has sent. A restart of
the worker loses all; its clients find out when they time out or are reset, both
of which are `CallTimesOut`.

### The interpreter

One session: `InterpretUnconfigured`, or `InterpretRequest` and then `ServiceFails(reason)`
or `ServiceAnswers(e)`, which answers (`RejectUnsure`, `RejectInvalid`, `RespondAuto`), then `CreatePipeline`, with
which the client posts the draft it got. An envelope has a draft in up to three
places (`Pipeline` chooses), and any confidence. Keys are TLA+ strings only because a
few of them are spelled out by the code; `Trim` stands for `strings.TrimSpace`
and is any idempotent function that keeps the empty key. Keys and types are
trimmed, `depends_on` is not, so trimming can make keys equal or unknown to those
that depend on them. Confidences are integers, `One` for 1.0 (tenths in the run); `NaN` is
a possible threshold, as `ParseFloat` accepts it, and no possible confidence, as
JSON has none. `Null` is a `depends_on` that is absent or `null`.
Two branches cannot be reached with what the router builds today, a handler without an
interpreter (`interpret.go:52`) and an interpreter that returns nothing and no error
(`interpret.go:67`); they are modelled as the handler has them (`InterpretUnconfigured`,
the reason `invalid_nlp_response`).

Of a description the model knows whether it is blank, in which case the query takes its
place, and whether it contains U+0000, which JSON can spell and a PostgreSQL `TEXT` cannot
hold; the draft of a fallback always has the query as its description. The same character
in names, keys and configurations, which only the service or the client can put there, is
left out.

### The readers

`StatusReader` adds one client of `PipelineStatus` to `Scheduler`: `AskStatus`
(`GetByID` of the pipeline), `ReadRunRow` and `ReadStepRows` (the two SELECTs of
`GetRunStatusByID` and `GetLatestRunStatus`), `NoStatus` (no such run, or a
failing statement). Any step of the system comes between them. `answers` is
what the client was last told of each run. The latest run is one of those the client
could have named, so one action stands for both queries. `HistoryItem`
is a row of `ListRuns`, which is a single statement and needs no action.

The same client reads the events of a run page by page: `AskEvents` (a run and a
level), `ReadPage` (`PipelineRunEvents` with limit `PageSize`, the offset being
the number of events it has seen) until a page is not full, `NoPage` (a failing
request). The newest event comes first, so an insertion moves the others to
later pages. An event is known by its place in `events[r]`, which supposes that
events are inserted in the order of their `created_at`: those of a run are, as one
goroutine inserts them one after the other.

`MetricsReader` adds one client of `Metrics` and `PipelineMetrics`: `AskMetrics` or
`AskPipelineMetrics`, one action per COUNT in the order of the code, for a pipeline the list of
the steps that fail most (`ListFailed`; of equally frequent ones any may be cut off), and `Answer`. `createdSince` and
`deletedSince` are history variables: what has happened since `runs_total` was counted.

## 3. The runs

| run | instance | what it shows |
|---|---|---|
| `dag_builder` | all lists of at most 2 steps over 3 keys (one empty) and dependencies over 3 keys (one unknown), all graphs on 3 distinct steps, at most 2 entries per `depends_on` | the verdict is right, the order is topological at every iteration, Kahn's loop invariant, termination |
| `scheduler_faults` | 1 pipeline, 1 run, every dependency relation on 3 steps and 4 shapes (empty; a chain listed backwards, one step with a retry; a join with up to 2 retries; a diamond with a shortcut), 2 failing statements, 1 crash, deletion at any time | the invariant, the properties of statuses and timeline (except `StrandedOnlyByFault`), finality, refinement of `RunLifecycle`; the scheduler is never stuck, and an accepted run ends |
| `scheduler_two_runs` | 2 pipelines, 2 requests to any of them, 1 failing statement of each, 1 crash; pipelines and requests are symmetric | runs do not disturb each other, an error of one strands no other; deletions are complete |
| `status_reader` | 1 pipeline, 1 run of a chain with a retry, 1 failing statement, deletion at any time, pages of 2 events of every level | answers about a run are consistent and go forward; pages leave no event out |
| `metrics_reader` | 1 pipeline, 2 runs of a chain, 1 failing statement in one of them (`MCFaultsInOneRun`), deletion at any time | the numbers and the list of failed steps (at most 2, for 10 in the code) fit each other unless rows come or go meanwhile |
| `system` | 1 run of a chain with retries or of a join, 4 ways to configure the inputs, a socket of 3 connections, 1 failing statement, 1 crash, 1 restart | what is done and kept by the worker fits what the scheduler was told |
| `system_two_runs` | 2 runs of a chain of one pipeline, sharing the worker | runs do not disturb each other; the composition implements `Scheduler`, its liveness included |
| `interpreter` | drafts of up to 2 steps with keys that need trimming, types of every kind, null lists, descriptions of every kind; 6 thresholds, NaN among them, 4 confidences | the answer is a pipeline, the fallback is safe, `auto` is gated exactly |
| `retry_overflow` | `retry_count = MaxInt + 1` | violated: see Findings |
| `metrics_rates` | as `metrics_reader`, no failing statement | violated: see Findings |
| `interpreter_nan` | as `interpreter` | violated: see Findings |
| `interpreter_null` | as `interpreter`, with the default threshold | violated: see Findings |

Bounds. `MaxDbErrors` and `MaxCrashes` are guards of the actions that fail;
the former bounds the failing statements of each run.
Two failing statements are enough for every pair of an examined statement and
a dropped one of its failure path; a run dies at most once, and a crash that
hits two runs is in the two-run instance, with a failing statement in each of the two. In
`metrics_reader` a constraint of the run leaves one of the two runs without failures: what a
lost statement does to the counts does not depend on which run it belongs to, and the
proofs have no such bound. Three steps contain every way in which two
steps can be related to a third; the diamond adds a join that is reached by two
paths. `MaxInt = 7` stands for 2^63 - 1: no retry count of the passing
runs comes near it. Runs share nothing but pipelines, so two of them show every
interference; the proofs cover any number. Nothing bounds the events: their
number is bounded by the steps and attempts. `Backlog = 3` is more than the
requests that two attempts, or two runs, can leave behind: a full socket is a call that
cannot connect, which `CallTimesOut` allows at any time. One restart is enough to wipe
what one run has; the proofs bound neither. Pages of 2 events make every run's timeline
several pages long.

Deadlock is not checked: a call that has returned, and a server without
requests, stop.

Fairness. `WF(RunStep(r))` for each run: the Go runtime schedules a runnable
goroutine, the database driver returns from each statement, and the
dispatcher returns within `WORKER_TIMEOUT_MS` (the local one after 10 ms). In
`System` the same is `WF(SystemRunStep(r))`: the client's timeout makes each call
return, and nothing is assumed of the worker, which may hang for ever. This takes a
positive `WORKER_TIMEOUT_MS`: `http.Client` takes zero for no timeout. No
fairness is assumed of the arrival of requests (`FindPipeline`), of creations,
deletions and crashes, nor of which way a statement or an execution ends. In
`DagBuilder` it is weak fairness of the one sequential call.

### Properties

- `DependencyOrder`, `OneStepAtATime`, `CompletedStepsWereExecuted`,
  `NeverStuck`: what the steps of a run may do;
- `CompletedRunIsWhole`, `FailureIsExhaustion`, `StrandedOnlyByFault`,
  `TerminalIsFinal`, `DeletedLeavesNothing`, `AcceptedRunEnds`: what the status
  of a run says;
- `TimelineIsTrue`, `TimelineIsOrdered`: what its events say;
- `ShownCompletionIsWhole`, `ShownFailureHasCulprit`, `PollsGoForward`,
  `HistoryAddsUp`: what a client of the status and history endpoints can rely on;
- `PagesMissNothing`: a client that pages to the end has seen every event that
  there was when it began;
- `CountsAddUp`, `FailuresAreExplained`, `FailuresAreListed`: the same for the metrics;
- `EffectsFollowGraph`, `EffectsPerAttempt`: what the worker really does, late
  executions included, respects the graph and the number of attempts;
- `AcceptedResultStands`, `RefusalIsExplained`: the artifact a step reads is that of the
  attempt the scheduler accepted; a missing one has one of three causes;
- `QuietAfterwards`: when a run has ended, the worker has nothing left to do for it,
  except what a failed run gave up;
- `ImplementsScheduler`: `System` implements `Scheduler`, fairness included;
- `AnswerIsSound`, `FallbackIsSafe`, `AutoIsGated`: what `POST /interpret` answers. The gate
  of `auto` is stated against `Required`, what the configuration asks for (the threshold
  in (0, 1], else the default), in both directions, and NaN is named as the setting
  without one;
- `ImplementsLifecycle`: `Scheduler` implements `RunLifecycle`, a run's plan
  being the stored steps of its pipeline while its row exists.

Some of them are conditional where the code is. With a failed statement a run may be
`failed` without a failed step, and an event may say `run_failed` of a run
whose update to failed was lost, so those parts speak of runs none of whose own
statements has failed (`dbErrors[r] = 0`). What the timeline says of *completion* is
true in every case, as the code examines those updates. `CountsAddUp` and
`FailuresAreExplained` exclude creations and deletions during the request.

Each property of a passing run has a mutant of the model that violates it,
a bug the code could plausibly have; mutants stand directly before the
definition they change and are marked as such.

### Findings

`retry_overflow`: `maxRetriesForStep` (`scheduler.go:157-162`) converts with
`int(v)` and guards only against negative `v`. For a `retry_count` such as
`1e19` the result of the conversion is implementation-dependent in Go; where it
is the smallest int (amd64), the attempt loop is not entered, `execErr` stays
nil, and the step is marked as completed, with the event "step execution
completed", without having been executed.

`interpreter_nan`: `NLP_MIN_CONFIDENCE` goes through `strconv.ParseFloat`, which accepts
`NaN`. Both comparisons of `minConfidence` (`interpret.go:102`) are false of it, so it is
returned as the threshold, and nothing is below it (`interpret.go:74`): a draft with the
confidence 0 is answered as `auto`, though `README.md:44` calls auto mode
confidence-gated. `AutoIsGated` shows that no other setting opens the gate.

`metrics_rates`: `GetMetrics` and `GetPipelineMetrics`
(`pipeline_store.go:500-585`) count by separate statements and divide the counts
(lines 522 and 572). A run that is created after `runs_total` was counted and fails
before `runs_failed` is counted makes the failure rate exceed 1, and likewise for
completion. `CountsAddUp` shows that this is the only way.

`interpreter_null`: `normalizeDraft` and `validateDraft` (`interpret.go:170-233`) do not
look at a `depends_on` that is `null` or absent, so the draft is returned in mode
`auto`, as validated (`README.md:196`); posted as it is, `Create` writes a nil slice, which
`pq.Array` makes `NULL`, into a column that is `NOT NULL` (`pipeline_store.go:99`), and
the answer is 500. The same holds for any client that leaves `depends_on` out.

Not findings but consequences to be aware of, which the properties state: a step
whose input a restart has wiped fails in every attempt, although its dependency is
completed (`RefusalIsExplained`), and so does a reader of an extracted `null`; a run that has failed may
still have effects later, of the calls it gave up (`QuietAfterwards`); the fallback for a query
with U+0000 cannot be created, the answer being 500 (`FallbackIsSafe`); and an
error of the update to `running` or to `completed` of a *run* makes
`ExecuteRun` return without marking it as failed, so it stays pending or
running for ever, and so does a run whose process dies, or whose update to failed is lost.
`StrandedOnlyByFault` allows exactly this: a run is stranded by the death of its process or
by an error of its own, never by one of another run, and the first two of these errors
leave it with no step begun or with all steps completed, so that no error in the middle of
a run makes `ExecuteRun` return without an attempt to mark it as failed.

## 4. The proofs

For every set of keys, pipelines, requests and definitions, every number of failing
statements, crashes, restarts and waiting connections, every `MaxInt`, every size of a
page and every limit of a list:

| theorem | states |
|---|---|
| `DagBuilderProofs`: | |
| `BuilderConsistency` | `Spec => []BuilderInv` |
| `BuilderTypes` | `Spec => []TypeOK` |
| `SortIsTopological` | `Spec => []OrderIsTopological` |
| `FrontierIsQueued` | `Spec => []QueueIsTheFrontier` |
| `VerdictsAreRight` | `Spec => []VerdictIsRight` |
| `SchedulerProofs`, `LifecycleProofs`: | |
| `Consistency` | `Spec => []Inv` |
| `TypeCorrect` | `Spec => []TypeOK` |
| `StepsRespectDependencies` | `Spec => []DependencyOrder` |
| `StepsAreSequential` | `Spec => []OneStepAtATime` |
| `CompletionIsWhole` | `Spec => []CompletedRunIsWhole` |
| `SchedulerNeverStuck` | `Spec => []NeverStuck` |
| `DeletionIsComplete` | `Spec => []DeletedLeavesNothing` |
| `FinalityHolds` | `Spec => TerminalIsFinal` |
| `ProgressHolds` | `Spec => []ProgressInv`, if `CountsWithinInt` |
| `CompletionIsEarned` | `Spec => []CompletedStepsWereExecuted`, if `CountsWithinInt` |
| `SchedulerImplementsLifecycle` | `Spec => ImplementsLifecycle`, if `CountsWithinInt` |
| `TimelineProofs`: | |
| `TimelineConsistency` | `Spec => [](Inv /\ TimelineInv)` |
| `TimelineTellsTheTruth` | `Spec => []TimelineIsTrue` |
| `OnlyFaultsStrand` | `Spec => []StrandedOnlyByFault` |
| `OrderConsistency` | `Spec => [](Inv /\ OrderInv)` |
| `TimelinesAreOrdered` | `Spec => []TimelineIsOrdered` |
| `ExhaustionConsistency` | `Spec => []ExhaustionInv` |
| `FailuresAreExhaustion` | `Spec => []FailureIsExhaustion` |
| `SystemProofs`: | |
| `SystemTakesSchedulerSteps` | `SystemSpec => Init /\ [][Next]_vars` |
| `SystemConsistency` | `SystemSpec => [](Inv /\ SystemInv)`, if `RetriesEnd` |
| `SystemTypes` | `SystemSpec => []SystemTypeOK`, if `RetriesEnd` |
| `EffectsAreOrdered` | `SystemSpec => []EffectsFollowGraph`, if `RetriesEnd` |
| `ArtifactsStand` | `SystemSpec => []AcceptedResultStands`, if `RetriesEnd` |
| `InputsAreThere` | `SystemSpec => []RefusalIsExplained`, if `RetriesEnd` |
| `EffectsAreCounted` | `SystemSpec => []EffectsPerAttempt`, if `RetriesEnd` |
| `CompletedRunsAreQuiet` | `SystemSpec => []QuietAfterwards`, if `RetriesEnd` |
| `InterpreterProofs`: | |
| `InterpreterConsistency` | `Spec => []InterpreterInv` |
| `AnswersAreSound` | `Spec => []AnswerIsSound` |
| `FallbacksAreSafe` | `Spec => []FallbackIsSafe` |
| `AutoModeIsGated` | `Spec => []AutoIsGated` |
| `StatusReaderProofs`: | |
| `ReaderConsistency` | `ReaderSpec => [](Beneath /\ ReaderInv)` |
| `CompletionIsShownWhole` | `ReaderSpec => []ShownCompletionIsWhole` |
| `FailureIsShownWithCulprit` | `ReaderSpec => []ShownFailureHasCulprit` |
| `AnswersGoForward` | `ReaderSpec => PollsGoForward` |
| `PagingIsComplete` | `ReaderSpec => []PagesMissNothing` |
| `HistoriesAddUp` | `ReaderSpec => []HistoryAddsUp` |
| `MetricsReaderProofs`: | |
| `MetricsConsistency` | `MetricsSpec => [](Beneath /\ MetricsInv)` |
| `PartsAddUp` | `MetricsSpec => []CountsAddUp` |
| `FailedRunsAreExplained` | `MetricsSpec => []FailuresAreExplained` |
| `FailedStepsAreListed` | `MetricsSpec => []FailuresAreListed` |

Assumptions: those the modules name (`EmptyKey` is a key, `NotANumber` is no
integer, `MaxInt`, `PageSize` and `TopLimit` are positive, the bounds are natural numbers, definitions are
sequences of steps, `NoSource` is no key, `Null` is no sequence of keys, `Trim` is
idempotent). None is about finiteness:
that only finitely many runs have rows, and that a list has finitely many edges, is part of
the invariants. `CountsWithinInt`, no `retry_count`
of a definition is greater than `MaxInt`, is an assumption of the theorems that
`retry_overflow` shows to need it. `RetriesEnd`, no `retry_count` reaches `MaxInt`,
is that of the theorems about the worker: with `MaxInt` retries the attempt counter
wraps, a step is tried without end, and two of its requests could carry the same number.

The argument for the graph. The error that a cycle is reported must not be wrong in either
direction, for any list of steps, repeated dependencies included. `BuilderInv` says by `pc` what has
been read of the definition (`NodesFit`, `EdgesFit`: the lists of dependents hold an
edge for each dependency read so far) and, during the sort, that
the in-degree of a node is the number of edges into it whose source is not sorted
(`SortFit`, `Open`). From the in-degrees follow Kahn's loop invariant, and that
every set of sorted nodes has one without a dependency in the set (`OrderFit`), which is `Acyclic`
when everything is sorted. When the queue is empty and something is left, each node that is left
depends on another one that is, so that these are the set that refutes `Acyclic`. No
induction is needed: sets of edges change by one edge at a time, and so do their
cardinalities.

The argument for the scheduler. None of the properties is inductive: that a completed step's
dependencies are completed follows from the locals of the goroutine, which
follow the rows only as long as nobody else writes them and no late write is
pending. `Inv` says so in named parts, per run: `RowsExist` (rows only under a stored
pipeline), `StatusFits` (the run's status by `pc`), `PlanFits` (what is executed
is what is stored, and acyclic), `LoopsFit` (`completed`, `queued`, `batch` and
`step` by `pc`), `StepRowsFit` (step rows by those), `WritesFit` (what may still be in
`out`: events, and updates to failed of a run in its failure path, the step's only while it is not
completed), and the per-run forms of the properties. TLC checks `Inv` and `ProgressInv` in `scheduler_faults`.

The proof that a step preserves it has three parts. Every action of a run is
`Local`: it changes the rows, locals and writes of that run only
(`*IsLocal`), so the invariant of the other runs is kept (`LocalFrame`,
`UntouchedKeeps`). Each action keeps its own run's invariant (`*Keeps`), from
the effect of its statement on the rows (`RunUpdateEffect`, `StepUpdateEffect`)
and on the queued writes. `CreatePipeline`, `DeletePipeline` and `Crash` are
treated for all runs at once. `NeverStuck` needs the acyclicity of the plan:
`SomeStepIsReady` applies `Acyclic` to the set of steps not completed.

`LifecycleProofs` first shows that the statuses change only as `Effect` says:
each statement of a run, an UPDATE that matches nothing included, is one of
seven moves, named with the place of the goroutine that makes it
(`RunStepEffect`). Finality follows from the moves alone. The simulation needs
`ProgressInv` too: a step that is completed was running and executed, the failure
of a step is written before that of its run, and a stored definition is one of
`Definitions`. Each move is then an action of `RunLifecycle` (`*Simulates`), and
everything else a stuttering step; the plan of a run under the mapping is the
stored definition while the row exists.

`TimelineProofs`: what an event says is true when it is recorded, because the status was
recorded before (completions, whose update is examined), or because its update is
ahead of it in the queue (failures). `TimelineInv` says so of the events that are recorded
and of those that are queued, `CompletionFits` whatever fails, `FailureFits` and
`EndFits` as long as no statement of the run has failed. `ReturnFits` says how far a run
has come when `ExecuteRun` returns with an error of an update of the run: to all steps
pending, or all completed. `NewEvent` reduces each step to the head of the
queue; the rows do not move under an event since final statuses are final
(`FinalStays`, from the moves of `LifecycleProofs`).

`OrderInv`: two events are in order whether they are recorded or still queued, so `PairsFit`
speaks of the three kinds of pairs (both recorded, one queued after a recorded one,
both queued), and `Write` only moves a pair from one kind to the next (`PairsWrite`). New
pairs come with an action that announces something. `KnownFits` says that
the locals know all that was announced before: its steps are in `queued`, its completed
steps in `completed`, and no end of the run is among it. What is announced now is about a
step in hand, which is not completed, while everything announced before
waits for completed steps only (`NothingWaits`). A step is announced as failed in the
failure path only, after which nothing but the end of the run is announced.

`ExhaustionInv`: while no statement of a run fails, the number of `step_running` events of the step
in hand is its attempt counter, plus one between the event and the result
(`AttemptsFit`). `Pick` starts at zero, as `KnownFits` excludes an earlier
event of the step, and `CountAppended` lets a recorded event add exactly one. A step that is given up has
made `retries + 1` attempts (`ExecuteFailsExhausts`); `ExhaustionFits` keeps that
until the run's row says failed, which is written after the step's. No assumption on retry
counts is needed: with `MaxInt` retries the counter wraps and the step is never given
up (`CounterFits`).

`SystemProofs`: each step of `System` is one of `Scheduler` or leaves its variables alone, so `Inv`
and `ProgressInv` hold of the composition, too. `SystemInv` adds, per run, `CallsFit` (the
calls that have succeeded, by `pc`), `RequestsFit` (a request in the worker is for the
step in hand and for an attempt up to the current one, and its dependencies are
completed), `ConnFits` (an open connection is that of the current call; when it has been
answered, nothing of the run is left in the worker), `WorkFits` (what was performed, and
whose artifact is kept) and `RefusalFits`, and `QueueFits`, the order of the attempts in
the socket. The order is the heart of it: the worker serves first what was sent
first, so when it has answered an attempt, all given-up attempts before it have been served, and
the artifact that stands is the accepted one. The proof takes the worker's steps one by one; a
step of one run leaves the requests, connections and artifacts of the others alone, and
of its own run only the calls touch the worker. `InputsAreThere` rests on a
completed step's dependencies being completed, by induction over no more than the
definition of `Upstream` as a least closed set.

`InterpreterProofs`: `DraftFits` is what every answered draft satisfies, the fallback
(`FallbackIsAccepted`: its graph is acyclic) and a normalized draft that passes
validation (`ValidatedFits`) alike. It holds for any `Trim`, any envelopes and any thresholds.
`AutoModeIsGated` compares what the handler does with the threshold (`MinConfidence`,
`LowConfidence`) with what the configuration asks for (`Required`, `Unsure`): they agree
for every threshold, in (0, 1], outside of it, or NaN.

The readers. A reader changes nothing, so the invariants of the scheduler hold beneath it.
What it has read is out of date; `RowsMove` says how the rows of a run can have moved
meanwhile: they are deleted, created by the statement of their own request, or their
statuses move on (`Kept`), and events are only appended. A row that has been read belongs to a run that is
past its creation (`Inserted`), so that it is not created again, and `Forward` is
transitive: what the client was told, what it has read and what the rows say are in
this order (`AnswersFit`, `RowFits`).

For the pages the number of newer events of a list is a bijection to the offsets
(`RowsAreNumbered`), so a page that leaves out an event behind its offset is full
(`PageIsFull`), and insertions only increase the offset of an event (`NewerGrows`):
what is not seen yet is at the next offset or beyond (`PagingFits`).

The numbers of the metrics have nothing in the rows to be compared with once they are
counted. `CountsFit` compares them with what is still to be counted: as long as no run is
created, those that are not completed, with the ones that were counted as completed, are no
more than the total; `FailuresFit` compares the counted failures with those that are there, which only a
deletion takes away. A failed run has a failed step by `ExhaustionInv`, and at most one, by
`OneFits`, so that failed steps are no more than the runs. The list of failed steps accounts
for a failure by its key and its number among those of the key (`ListIsComplete`).

Only model-checked: liveness (`AcceptedRunEnds`, `BuildReturns`, the fairness of
`ImplementsScheduler`), as temporal reasoning under fairness is beyond the prover.
`TimelineInv` to `RowsInv`, `SystemInv` and the invariants of the readers were checked by TLC on
the instances of the runs before they were proved.

## 5. What is not modelled

- connectors and transformations: what they compute. `Worker` has their success, their
  failure before or after the effect, and `None` as a result;
- of the reading endpoints: `ListPipelines` and `GetPipeline`, the failure breakdown,
  durations, the pages and the status filter of the history (with the
  filter, a client can miss runs that leave it between two pages: a hazard of
  the code without a promise to check it against), `parseLimit` and `parseOffset`;
- router, middleware (API key, recovery, CORS, logging), health and the parsing of the
  configuration: they decide on each request or at the start alone, and keep no
  state. What the configuration can break is an input of the models: the choice of
  the dispatcher, the threshold, the timeout;
- migrations: they run before the server does;
- timestamps, error texts, warnings and event metadata; the status `skipped` and the
  pipeline statuses other than `draft`, which nothing sets;
- of a draft, the configuration of its steps, which is copied, and of its description all
  but whether it is blank and whether it can be stored;
- malformed requests and unsupported types at the worker: refused without a change of
  state, like any failing execution;
- reuse of identifiers: they are fresh UUIDs, so `Runs` and `Pipelines` are used once;
- panics: in a handler `middleware.Recovery` ends the request, in `ExecuteRun`
  the process (a `Crash`); no modelled code path panics.

## 6. Plan

1. *done*: graphs, store and scheduler; the refinement of `RunLifecycle`; the readers of
   statuses and metrics.
2. *done*: `Worker` and `System`; `Interpreter`; the pages of events.
3. *done*: proofs about the graph, the scheduler, the timeline, the system, the interpreter and
   the readers: every invariant and every action property that a run checks.
4. Left: variants that decrease with every step of a run and of the builder, as far as
   termination can be proved without fairness; the failure breakdown and durations of the metrics.

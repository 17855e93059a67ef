---------------------------- MODULE SchedulerProofs ----------------------------
(******************************************************************************)
(* Theorems about Scheduler, for every set of keys, pipelines, runs and       *)
(* definitions and every number of faults.                                    *)
(******************************************************************************)
EXTENDS SchedulerInvariant, SequenceTheorems, TLAPS

--------------------------------------------------------------------------------
(* Definitions and the operators over them.                                   *)

\* A pipeline without steps is accepted.
LEMMA EmptyAccepted == Accepts(<<>>)
  BY DEF Accepts, KeysOf, UniqueKeys, KnownDependencies, Acyclic

\* The keys of a definition are keys, and a key of it leads to one of its steps.
LEMMA KeysOfSteps ==
  ASSUME NEW sq \in Seq(Step)
  PROVE  /\ KeysOf(sq) \subseteq Keys
         /\ \A k \in KeysOf(sq) : StepOrder(sq, k) \in DOMAIN sq
         /\ \A k \in KeysOf(sq) : RetryCount(sq, k) \in Int \cup {NotANumber}
<1>1. \A n \in DOMAIN sq : sq[n] \in Step
  BY ElementOfSeq, LenProperties
<1>2. KeysOf(sq) \subseteq Keys
  BY <1>1 DEF KeysOf, Step
<1>3. \A k \in KeysOf(sq) : StepOrder(sq, k) \in DOMAIN sq
  BY DEF KeysOf, StepOrder
<1>4. \A k \in KeysOf(sq) : RetryCount(sq, k) \in Int \cup {NotANumber}
  BY <1>1, <1>3 DEF RetryCount, Step
<1> QED BY <1>2, <1>3, <1>4

\* maxRetriesForStep returns an int.
LEMMA RetriesAreInts ==
  ASSUME NEW raw \in Int \cup {NotANumber}
  PROVE  MaxRetriesForStep(raw) \subseteq Int
<1>1. MaxInt \in Int /\ -MaxInt - 1 \in Int
  BY MaxIntAssumption
<1>2. CASE raw = NotANumber
  BY <1>2 DEF MaxRetriesForStep
<1>3. CASE raw # NotANumber
  <2>1. raw \in Int
    BY <1>3
  <2> QED BY <1>1, <1>3, <2>1 DEF MaxRetriesForStep
<1> QED BY <1>2, <1>3

\* In an accepted definition some step that is not completed has all of its
\* dependencies completed: readyStepKeys is not empty between two batches.
LEMMA SomeStepIsReady ==
  ASSUME NEW jb \in Job, Accepts(jb.plan),
         jb.queued = jb.completed,
         jb.completed \subseteq KeysOf(jb.plan), jb.completed # KeysOf(jb.plan)
  PROVE  Ready(jb) # {}
<1> DEFINE rest == KeysOf(jb.plan) \ jb.completed
<1>1. rest # {} /\ rest \in SUBSET KeysOf(jb.plan)
  OBVIOUS
<1>2. PICK k \in rest : DependsOn(jb.plan, k) \cap rest = {}
  BY <1>1 DEF Accepts, Acyclic
<1>3. DependsOn(jb.plan, k) \subseteq KeysOf(jb.plan)
  BY <1>2 DEF Accepts, KnownDependencies
<1>4. DependsOn(jb.plan, k) \subseteq jb.completed
  BY <1>2, <1>3
<1>5. k \in Ready(jb)
  BY <1>2, <1>4 DEF Ready
<1> QED BY <1>5

--------------------------------------------------------------------------------
(* The statements of the store keep the types of the tables.                  *)

LEMMA RunUpdateType ==
  ASSUME StoreTypeOK, NEW r \in Runs, NEW status \in RunStatuses,
         UpdatePipelineRunStatus(r, status)
  PROVE  StoreTypeOK'
BY DEF StoreTypeOK, UpdatePipelineRunStatus

LEMMA StepUpdateType ==
  ASSUME StoreTypeOK, NEW r \in Runs, NEW k \in Keys, NEW status \in RunStatuses,
         UpdateStepRunStatus(r, k, status)
  PROVE  StoreTypeOK'
<1>1. stepStatus' \in [Runs -> [Keys -> RunStatuses \cup {"absent"}]]
  BY DEF StoreTypeOK, UpdateStepRunStatus
<1> QED BY <1>1 DEF StoreTypeOK, UpdateStepRunStatus

LEMMA EventInsertType ==
  ASSUME StoreTypeOK, NEW r \in Runs, NEW type \in EventTypes, NEW k \in Keys,
         CreateRunEvent(r, type, k)
  PROVE  StoreTypeOK'
<1>1. [type |-> type, step |-> k] \in Event
  BY DEF Event
<1>2. events[r] \in Seq(Event)
  BY DEF StoreTypeOK
<1>3. Append(events[r], [type |-> type, step |-> k]) \in Seq(Event)
  BY <1>1, <1>2
<1>4. events' \in [Runs -> Seq(Event)]
  BY <1>3 DEF StoreTypeOK, CreateRunEvent
<1> QED BY <1>4 DEF StoreTypeOK, CreateRunEvent

LEMMA InsertRunType ==
  ASSUME StoreTypeOK, NEW r \in Runs, NEW sq \in Seq(Step), InsertRun(r, sq)
  PROVE  StoreTypeOK'
<1>1. runStatus' \in [Runs -> RunStatuses \cup {"absent"}]
  BY DEF StoreTypeOK, InsertRun, RunStatuses
<1>2. stepStatus' \in [Runs -> [Keys -> RunStatuses \cup {"absent"}]]
  BY DEF StoreTypeOK, InsertRun, RunStatuses
<1> QED BY <1>1, <1>2 DEF StoreTypeOK, InsertRun

\* What a statement of out[r] can be, and what its execution can do.
LEMMA ExecuteCases ==
  ASSUME NEW r \in Runs, NEW statement \in EventInserts \cup FailureUpdates,
         Execute(r, statement)
  PROVE  \/ /\ statement \in EventInserts
            /\ \E type \in EventTypes, k \in Keys : CreateRunEvent(r, type, k)
         \/ /\ statement = RunUpdate("failed")
            /\ UpdatePipelineRunStatus(r, "failed")
         \/ \E k \in Keys : /\ statement = StepUpdate(k, "failed")
                            /\ UpdateStepRunStatus(r, k, "failed")
<1>1. CASE statement \in EventInserts
  <2>1. PICK type \in EventTypes, k \in Keys : statement = EventInsert(type, k)
    BY <1>1 DEF EventInserts
  <2>2. /\ statement.table = "pipeline_run_events"
        /\ statement.value = type /\ statement.step = k
    BY <2>1 DEF EventInsert
  <2>3. CreateRunEvent(r, type, k)
    BY <2>2 DEF Execute
  <2> QED BY <1>1, <2>3
<1>2. CASE statement = RunUpdate("failed")
  <2>1. statement.table = "pipeline_runs" /\ statement.value = "failed"
    BY <1>2 DEF RunUpdate
  <2>2. UpdatePipelineRunStatus(r, "failed")
    BY <2>1 DEF Execute
  <2> QED BY <1>2, <2>2
<1>3. ASSUME NEW k \in Keys, statement = StepUpdate(k, "failed")
      PROVE  UpdateStepRunStatus(r, k, "failed")
  <2>1. /\ statement.table = "step_runs"
        /\ statement.value = "failed" /\ statement.step = k
    BY <1>3 DEF StepUpdate
  <2> QED BY <2>1 DEF Execute
<1>4. \/ statement \in EventInserts \/ statement = RunUpdate("failed")
      \/ \E k \in Keys : statement = StepUpdate(k, "failed")
  BY DEF FailureUpdates
<1> QED BY <1>1, <1>2, <1>3, <1>4

--------------------------------------------------------------------------------
(* Steps of one run leave the other runs alone.                               *)

\* Nothing that RunInv(s) speaks of changes.
Untouched(s) ==
  /\ UNCHANGED <<pipelines, steps, target>>
  /\ pc'[s] = pc[s] /\ out'[s] = out[s] /\ job'[s] = job[s] /\ dbErrors'[s] = dbErrors[s]
  /\ runStatus'[s] = runStatus[s] /\ stepStatus'[s] = stepStatus[s] /\ events'[s] = events[s]

LEMMA UntouchedKeeps ==
  ASSUME NEW s \in Runs, RunInv(s), Untouched(s)
  PROVE  RunInv(s)'
<1> USE DEF RunInv, Untouched
<1>1. RowsExist(s)'
  BY DEF RowsExist, Present, Stored
<1>2. StatusFits(s)'
  BY DEF StatusFits, Present
<1>3. PlanFits(s)'
  BY DEF PlanFits, Stored
<1>4. LoopsFit(s)'
  BY DEF LoopsFit
<1>5. StepRowsFit(s)'
  BY DEF StepRowsFit, Present
<1>6. Failures(s)' = Failures(s)
  BY DEF Failures
<1>7. WritesFit(s)'
  BY <1>6 DEF WritesFit
<1>8. OrderFits(s)' /\ OneFits(s)' /\ WholeFits(s)'
  BY DEF OrderFits, OneFits, WholeFits
<1> QED BY <1>1, <1>2, <1>3, <1>4, <1>5, <1>7, <1>8

\* A statement on the rows of r, executed or not.
Statement(r) ==
  \/ UNCHANGED tables
  \/ \E status \in RunStatuses : UpdatePipelineRunStatus(r, status)
  \/ \E k \in Keys, status \in RunStatuses : UpdateStepRunStatus(r, k, status)
  \/ \E k \in Keys, type \in EventTypes : CreateRunEvent(r, type, k)
  \/ \E sq \in Seq(Step) : InsertRun(r, sq)

LEMMA StatementType ==
  ASSUME StoreTypeOK, NEW r \in Runs, Statement(r)
  PROVE  StoreTypeOK'
<1>1. CASE UNCHANGED tables
  BY <1>1 DEF tables, StoreTypeOK
<1> QED
  BY <1>1, RunUpdateType, StepUpdateType, EventInsertType, InsertRunType DEF Statement

LEMMA StatementFrame ==
  ASSUME StoreTypeOK, NEW r \in Runs, NEW s \in Runs \ {r}, Statement(r)
  PROVE  /\ UNCHANGED <<pipelines, steps, target>>
         /\ runStatus'[s] = runStatus[s] /\ stepStatus'[s] = stepStatus[s]
         /\ events'[s] = events[s]
<1>1. CASE UNCHANGED tables
  BY <1>1 DEF tables
<1>2. ASSUME NEW status, UpdatePipelineRunStatus(r, status)
      PROVE  /\ UNCHANGED <<pipelines, steps, target, stepStatus, events>>
             /\ runStatus'[s] = runStatus[s]
  BY <1>2 DEF UpdatePipelineRunStatus, StoreTypeOK
<1>3. ASSUME NEW k, NEW status, UpdateStepRunStatus(r, k, status)
      PROVE  /\ UNCHANGED <<pipelines, steps, target, runStatus, events>>
             /\ stepStatus'[s] = stepStatus[s]
  BY <1>3 DEF UpdateStepRunStatus, StoreTypeOK
<1>4. ASSUME NEW k, NEW type, CreateRunEvent(r, type, k)
      PROVE  /\ UNCHANGED <<pipelines, steps, target, runStatus, stepStatus>>
             /\ events'[s] = events[s]
  BY <1>4 DEF CreateRunEvent, StoreTypeOK
<1>5. ASSUME NEW sq, InsertRun(r, sq)
      PROVE  /\ UNCHANGED <<pipelines, steps, target, events>>
             /\ runStatus'[s] = runStatus[s] /\ stepStatus'[s] = stepStatus[s]
  BY <1>5 DEF InsertRun, StoreTypeOK
<1> QED BY <1>1, <1>2, <1>3, <1>4, <1>5 DEF Statement

\* At most one more of the statements of r has failed.
CountsErrors(r) ==
  /\ dbErrors' \in [Runs -> 0 .. MaxDbErrors]
  /\ dbErrors' = dbErrors \/ dbErrors' = [dbErrors EXCEPT ![r] = @ + 1]

\* A step of r: a statement of its own, a new place, new locals, new writes.
Local(r) ==
  /\ Statement(r)
  /\ \E to \in Pcs : pc' = [pc EXCEPT ![r] = to]
  /\ \E writes \in Seq(EventInserts \cup FailureUpdates) : out' = [out EXCEPT ![r] = writes]
  /\ \E jb \in Job : job' = [job EXCEPT ![r] = jb]
  /\ \E done \in SUBSET Keys : executed' = [executed EXCEPT ![r] = done]
  /\ CountsErrors(r)
  /\ crashes' = crashes

LEMMA LocalType ==
  ASSUME TypeOK, NEW r \in Runs, Local(r)
  PROVE  TypeOK'
<1>1. StoreTypeOK'
  BY StatementType DEF TypeOK, Local
<1>2. dbErrors' \in [Runs -> 0 .. MaxDbErrors]
  BY DEF Local, CountsErrors
<1> QED BY <1>1, <1>2 DEF TypeOK, Local

LEMMA LocalFrame ==
  ASSUME TypeOK, NEW r \in Runs, NEW s \in Runs \ {r}, Local(r)
  PROVE  Untouched(s)
<1>1. /\ UNCHANGED <<pipelines, steps, target>>
      /\ runStatus'[s] = runStatus[s] /\ stepStatus'[s] = stepStatus[s]
      /\ events'[s] = events[s]
  BY StatementFrame DEF TypeOK, Local
<1>2. pc'[s] = pc[s] /\ out'[s] = out[s] /\ job'[s] = job[s]
  BY DEF TypeOK, Local
<1>3. dbErrors'[s] = dbErrors[s]
  BY DEF TypeOK, Local, CountsErrors
<1> QED BY <1>1, <1>2, <1>3 DEF Untouched

\* The parts of Local, from the forms they take in the actions.
LEMMA GotoIsLocal ==
  ASSUME NEW r \in Runs, NEW to \in Pcs, Goto(r, to)
  PROVE  \E at \in Pcs : pc' = [pc EXCEPT ![r] = at]
BY DEF Goto

LEMMA NoWritesAreLocal ==
  ASSUME TypeOK, NEW r \in Runs, UNCHANGED out
  PROVE  \E writes \in Seq(EventInserts \cup FailureUpdates) : out' = [out EXCEPT ![r] = writes]
<1>1. out[r] \in Seq(EventInserts \cup FailureUpdates) /\ out' = [out EXCEPT ![r] = out[r]]
  BY DEF TypeOK
<1> QED BY <1>1

LEMMA EmitIsLocal ==
  ASSUME NEW r \in Runs, NEW sq \in Seq(EventInserts \cup FailureUpdates), Emit(r, sq)
  PROVE  \E writes \in Seq(EventInserts \cup FailureUpdates) : out' = [out EXCEPT ![r] = writes]
BY DEF Emit

LEMMA SameJobIsLocal ==
  ASSUME TypeOK, NEW r \in Runs, UNCHANGED job
  PROVE  \E jb \in Job : job' = [job EXCEPT ![r] = jb]
<1>1. job[r] \in Job /\ job' = [job EXCEPT ![r] = job[r]]
  BY DEF TypeOK
<1> QED BY <1>1

LEMMA SameExecutedIsLocal ==
  ASSUME TypeOK, NEW r \in Runs, UNCHANGED executed
  PROVE  \E done \in SUBSET Keys : executed' = [executed EXCEPT ![r] = done]
<1>1. executed[r] \in SUBSET Keys /\ executed' = [executed EXCEPT ![r] = executed[r]]
  BY DEF TypeOK
<1> QED BY <1>1

LEMMA ErrorsAreCounted ==
  ASSUME TypeOK, NEW r \in Runs, DbError(r) \/ NoDbError
  PROVE  CountsErrors(r)
<1>1. dbErrors[r] \in 0 .. MaxDbErrors
  BY DEF TypeOK
<1>2. dbErrors[r] < MaxDbErrors => dbErrors[r] + 1 \in 0 .. MaxDbErrors
  BY <1>1, BoundsAssumption
<1>3. CASE NoDbError
  BY <1>3 DEF TypeOK, NoDbError, CountsErrors
<1>4. CASE DbError(r)
  BY <1>2, <1>4 DEF TypeOK, DbError, CountsErrors
<1> QED BY <1>3, <1>4

LEMMA EventIsWrite ==
  ASSUME NEW type \in EventTypes, NEW k \in Keys
  PROVE  /\ EventInsert(type, k) \in EventInserts
         /\ StepUpdate(k, "failed") \in FailureUpdates
         /\ RunUpdate("failed") \in FailureUpdates
BY DEF EventInserts, FailureUpdates

--------------------------------------------------------------------------------
(* Every step of a run is Local.                                              *)

LEMMA FindPipelineIsLocal ==
  ASSUME TypeOK, NEW r \in Runs, FindPipeline(r)
  PROVE  Local(r)
<1>1. \E to \in Pcs : pc' = [pc EXCEPT ![r] = to]
  BY DEF FindPipeline, Goto, Pcs, HandlerPcs, EndPcs
<1> QED BY <1>1, NoWritesAreLocal, SameJobIsLocal, SameExecutedIsLocal, ErrorsAreCounted
        DEF Local, Statement, FindPipeline

LEMMA ReadStepsIsLocal ==
  ASSUME TypeOK, NEW r \in Runs, ReadSteps(r)
  PROVE  Local(r)
<1>1. \E to \in Pcs : pc' = [pc EXCEPT ![r] = to]
  BY DEF ReadSteps, Goto, Pcs, HandlerPcs, EndPcs
<1>2. \E jb \in Job : job' = [job EXCEPT ![r] = jb]
  <2>1. job[r] \in Job /\ steps[target[r]] \in Seq(Step)
    BY DEF TypeOK, StoreTypeOK
  <2>2. [job[r] EXCEPT !.plan = steps[target[r]]] \in Job
    BY <2>1 DEF Job
  <2> QED BY <2>2, SameJobIsLocal DEF ReadSteps
<1> QED BY <1>1, <1>2, NoWritesAreLocal, SameExecutedIsLocal, ErrorsAreCounted
        DEF Local, Statement, ReadSteps

LEMMA CreateRunIsLocal ==
  ASSUME TypeOK, NEW r \in Runs, CreateRun(r)
  PROVE  Local(r)
<1>1. \E to \in Pcs : pc' = [pc EXCEPT ![r] = to]
  BY DEF CreateRun, Goto, Pcs, HandlerPcs, EndPcs
<1>2. Statement(r)
  <2>1. job[r].plan \in Seq(Step)
    BY DEF TypeOK, Job
  <2> QED BY <2>1 DEF CreateRun, ErrorOf, Statement
<1>3. \E writes \in Seq(EventInserts \cup FailureUpdates) : out' = [out EXCEPT ![r] = writes]
  <2>1. EventInsert("run_queued", EmptyKey) \in EventInserts \cup FailureUpdates
    BY EventIsWrite, KeysAssumption DEF EventTypes
  <2>2. <<EventInsert("run_queued", EmptyKey)>> \in Seq(EventInserts \cup FailureUpdates)
    BY <2>1
  <2> QED BY <2>2, EmitIsLocal, NoWritesAreLocal DEF CreateRun
<1>4. CountsErrors(r)
  BY ErrorsAreCounted DEF CreateRun, ErrorOf
<1> QED BY <1>1, <1>2, <1>3, <1>4, SameJobIsLocal, SameExecutedIsLocal DEF Local, CreateRun

LEMMA SpawnIsLocal ==
  ASSUME TypeOK, NEW r \in Runs, Spawn(r)
  PROVE  Local(r)
<1>1. \E to \in Pcs : pc' = [pc EXCEPT ![r] = to]
  BY DEF Spawn, Goto, Pcs, ExecutePcs
<1>2. NoJob \in Job
  BY EmptySeq, KeysAssumption DEF NoJob, Job
<1>3. CountsErrors(r) /\ crashes' = crashes
  BY ErrorsAreCounted DEF Spawn, faults, NoDbError
<1> QED BY <1>1, <1>2, <1>3, NoWritesAreLocal, SameExecutedIsLocal DEF Local, Statement, Spawn

LEMMA LoadIsLocal ==
  ASSUME TypeOK, NEW r \in Runs, Load(r)
  PROVE  Local(r)
<1>1. \E to \in Pcs : pc' = [pc EXCEPT ![r] = to]
  BY DEF Load, Goto, Pcs, ExecutePcs, EndPcs
<1> QED BY <1>1, NoWritesAreLocal, SameJobIsLocal, SameExecutedIsLocal, ErrorsAreCounted
        DEF Local, Statement, Load

LEMMA LoadStepsIsLocal ==
  ASSUME TypeOK, NEW r \in Runs, LoadSteps(r)
  PROVE  Local(r)
<1>1. \E to \in Pcs : pc' = [pc EXCEPT ![r] = to]
  BY DEF LoadSteps, Goto, Pcs, ExecutePcs, EndPcs
<1>2. \E jb \in Job : job' = [job EXCEPT ![r] = jb]
  <2>1. job[r] \in Job /\ steps[target[r]] \in Seq(Step)
    BY DEF TypeOK, StoreTypeOK
  <2>2. [job[r] EXCEPT !.plan = steps[target[r]]] \in Job
    BY <2>1 DEF Job
  <2> QED BY <2>2, SameJobIsLocal DEF LoadSteps
<1> QED BY <1>1, <1>2, NoWritesAreLocal, SameExecutedIsLocal, ErrorsAreCounted
        DEF Local, Statement, LoadSteps

LEMMA StartRunIsLocal ==
  ASSUME TypeOK, NEW r \in Runs, StartRun(r)
  PROVE  Local(r)
<1>1. \E to \in Pcs : pc' = [pc EXCEPT ![r] = to]
  BY DEF StartRun, Goto, Pcs, ExecutePcs, EndPcs
<1>2. Statement(r)
  BY DEF StartRun, ErrorOf, Statement, RunStatuses
<1>3. \E writes \in Seq(EventInserts \cup FailureUpdates) : out' = [out EXCEPT ![r] = writes]
  <2>1. EventInsert("run_started", EmptyKey) \in EventInserts \cup FailureUpdates
    BY EventIsWrite, KeysAssumption DEF EventTypes
  <2>2. <<EventInsert("run_started", EmptyKey)>> \in Seq(EventInserts \cup FailureUpdates)
    BY <2>1
  <2> QED BY <2>2, EmitIsLocal, NoWritesAreLocal DEF StartRun
<1>4. CountsErrors(r)
  BY ErrorsAreCounted DEF StartRun, ErrorOf
<1> QED BY <1>1, <1>2, <1>3, <1>4, SameJobIsLocal, SameExecutedIsLocal DEF Local, StartRun

LEMMA ScheduleIsLocal ==
  ASSUME TypeOK, NEW r \in Runs, Schedule(r)
  PROVE  Local(r)
<1>1. \E to \in Pcs : pc' = [pc EXCEPT ![r] = to]
  BY DEF Schedule, Goto, Pcs, ExecutePcs, EndPcs
<1>2. \E writes \in Seq(EventInserts \cup FailureUpdates) : out' = [out EXCEPT ![r] = writes]
  <2>1. EventInsert("run_failed", EmptyKey) \in EventInserts \cup FailureUpdates
    BY EventIsWrite, KeysAssumption DEF EventTypes
  <2>2. RunUpdate("failed") \in EventInserts \cup FailureUpdates
    BY DEF FailureUpdates
  <2>3. <<RunUpdate("failed"), EventInsert("run_failed", EmptyKey)>>
          \in Seq(EventInserts \cup FailureUpdates)
    BY <2>1, <2>2
  <2> QED BY <2>3, EmitIsLocal, NoWritesAreLocal DEF Schedule
<1>3. \E jb \in Job : job' = [job EXCEPT ![r] = jb]
  <2>1. job[r] \in Job /\ Ready(job[r]) \subseteq Keys
    BY KeysOfSteps DEF TypeOK, Job, Ready
  <2>2. [job[r] EXCEPT !.batch = Ready(job[r])] \in Job
    BY <2>1 DEF Job
  <2> QED BY <2>2, SameJobIsLocal DEF Schedule
<1>4. CountsErrors(r) /\ crashes' = crashes
  BY ErrorsAreCounted DEF Schedule, faults, NoDbError
<1> QED BY <1>1, <1>2, <1>3, <1>4, SameExecutedIsLocal DEF Local, Statement, Schedule

LEMMA PickIsLocal ==
  ASSUME Inv, NEW r \in Runs, Pick(r)
  PROVE  Local(r)
<1>0. TypeOK /\ pc[r] = "pick"
  BY DEF Inv, Pick, At
<1>a. PICK k \in job[r].batch :
        \E n \in MaxRetriesForStep(RetryCount(job[r].plan, k)) :
          /\ job' = [job EXCEPT ![r] = TakeInHand(@, k, n)]
          /\ Goto(r, IF 0 <= n THEN "attempt" ELSE "complete")
          /\ Emit(r, <<EventInsert("step_queued", k)>>)
  BY DEF Pick
<1>1. PICK retries \in MaxRetriesForStep(RetryCount(job[r].plan, k)) :
        /\ job' = [job EXCEPT ![r] = TakeInHand(@, k, retries)]
        /\ Goto(r, IF 0 <= retries THEN "attempt" ELSE "complete")
        /\ Emit(r, <<EventInsert("step_queued", k)>>)
  BY <1>a
<1>2. job[r] \in Job /\ job[r].plan \in Seq(Step)
  BY <1>0 DEF TypeOK, Job
<1>3. k \in KeysOf(job[r].plan) /\ k \in Keys
  BY <1>0, <1>2, KeysOfSteps DEF Inv, RunInv, LoopsFit
<1>4. retries \in Int
  BY <1>1, <1>2, <1>3, KeysOfSteps, RetriesAreInts
<1>5. \E to \in Pcs : pc' = [pc EXCEPT ![r] = to]
  BY <1>1 DEF Goto, Pcs, ExecutePcs
<1>6. \E writes \in Seq(EventInserts \cup FailureUpdates) : out' = [out EXCEPT ![r] = writes]
  <2>1. EventInsert("step_queued", k) \in EventInserts \cup FailureUpdates
    BY <1>3, EventIsWrite DEF EventTypes
  <2>2. <<EventInsert("step_queued", k)>> \in Seq(EventInserts \cup FailureUpdates)
    BY <2>1
  <2> QED BY <1>1, <2>2, EmitIsLocal
<1>7. \E jb \in Job : job' = [job EXCEPT ![r] = jb]
  <2>1. 0 \in Int /\ job[r].queued \cup {k} \in SUBSET Keys /\ job[r].batch \ {k} \in SUBSET Keys
    BY <1>2, <1>3 DEF Job
  <2>2. TakeInHand(job[r], k, retries) \in Job
    BY <1>2, <1>3, <1>4, <2>1 DEF Job, TakeInHand
  <2>3. job' = [job EXCEPT ![r] = TakeInHand(job[r], k, retries)]
    BY <1>1
  <2> QED BY <2>2, <2>3
<1>8. CountsErrors(r) /\ crashes' = crashes
  BY <1>0, ErrorsAreCounted DEF Pick, faults, NoDbError
<1> QED BY <1>0, <1>5, <1>6, <1>7, <1>8, SameExecutedIsLocal DEF Local, Statement, Pick

LEMMA BeginAttemptIsLocal ==
  ASSUME TypeOK, NEW r \in Runs, BeginAttempt(r)
  PROVE  Local(r)
<1>0. job[r].step \in Keys
  BY DEF TypeOK, Job
<1>1. \E to \in Pcs : pc' = [pc EXCEPT ![r] = to]
  BY DEF BeginAttempt, Goto, Pcs, ExecutePcs, EndPcs
<1>2. Statement(r)
  BY <1>0 DEF BeginAttempt, ErrorOf, Statement, RunStatuses
<1>3. \E writes \in Seq(EventInserts \cup FailureUpdates) : out' = [out EXCEPT ![r] = writes]
  <2>1. /\ EventInsert("step_running", job[r].step) \in EventInserts \cup FailureUpdates
        /\ EventInsert("run_failed", job[r].step) \in EventInserts \cup FailureUpdates
        /\ RunUpdate("failed") \in EventInserts \cup FailureUpdates
    BY <1>0, EventIsWrite DEF EventTypes
  <2>2. <<EventInsert("step_running", job[r].step)>> \in Seq(EventInserts \cup FailureUpdates)
    BY <2>1
  <2>3. <<RunUpdate("failed"), EventInsert("run_failed", job[r].step)>>
          \in Seq(EventInserts \cup FailureUpdates)
    BY <2>1
  <2> QED BY <2>2, <2>3, EmitIsLocal DEF BeginAttempt
<1>4. CountsErrors(r)
  BY ErrorsAreCounted DEF BeginAttempt, ErrorOf
<1> QED BY <1>1, <1>2, <1>3, <1>4, SameJobIsLocal, SameExecutedIsLocal DEF Local, BeginAttempt

LEMMA ExecuteSucceedsIsLocal ==
  ASSUME TypeOK, NEW r \in Runs, ExecuteSucceeds(r)
  PROVE  Local(r)
<1>1. \E to \in Pcs : pc' = [pc EXCEPT ![r] = to]
  BY DEF ExecuteSucceeds, Goto, Pcs, ExecutePcs
<1>2. \E done \in SUBSET Keys : executed' = [executed EXCEPT ![r] = done]
  <2>1. executed[r] \cup {job[r].step} \in SUBSET Keys
    BY DEF TypeOK, Job
  <2> QED BY <2>1 DEF ExecuteSucceeds
<1>3. CountsErrors(r) /\ crashes' = crashes
  BY ErrorsAreCounted DEF ExecuteSucceeds, faults, NoDbError
<1> QED BY <1>1, <1>2, <1>3, NoWritesAreLocal, SameJobIsLocal DEF Local, Statement, ExecuteSucceeds

LEMMA ExecuteFailsIsLocal ==
  ASSUME TypeOK, NEW r \in Runs, ExecuteFails(r)
  PROVE  Local(r)
<1>0. job[r] \in Job /\ job[r].step \in Keys /\ job[r].attempt \in Int
  BY DEF TypeOK, Job
<1>1. \E to \in Pcs : pc' = [pc EXCEPT ![r] = to]
  BY DEF ExecuteFails, Goto, Pcs, ExecutePcs, EndPcs
<1>2. \E jb \in Job : job' = [job EXCEPT ![r] = jb]
  <2>1. Increment(job[r].attempt) \in Int
    BY <1>0, MaxIntAssumption DEF Increment
  <2>2. [job[r] EXCEPT !.attempt = Increment(@)] \in Job
    BY <1>0, <2>1 DEF Job
  <2> QED BY <2>2 DEF ExecuteFails
<1>3. \E writes \in Seq(EventInserts \cup FailureUpdates) : out' = [out EXCEPT ![r] = writes]
  <2> DEFINE All == EventInserts \cup FailureUpdates
             retry == IF job[r].attempt < job[r].retries
                      THEN <<EventInsert("step_retry", job[r].step)>> ELSE <<>>
             rest == <<StepUpdate(job[r].step, "failed"), RunUpdate("failed"),
                       EventInsert("step_failed", job[r].step),
                       EventInsert("run_failed", EmptyKey)>>
  <2>1. /\ EventInsert("step_retry", job[r].step) \in All
        /\ EventInsert("step_failed", job[r].step) \in All
        /\ EventInsert("run_failed", EmptyKey) \in All
        /\ StepUpdate(job[r].step, "failed") \in All
        /\ RunUpdate("failed") \in All
    BY <1>0, EventIsWrite, KeysAssumption DEF EventTypes
  <2>2. retry \in Seq(All)
    <3>1. <<EventInsert("step_retry", job[r].step)>> \in Seq(All) /\ <<>> \in Seq(All)
      BY <2>1
    <3> QED BY <3>1
  <2>3. rest \in Seq(All)
    BY <2>1
  <2>4. retry \o rest \in Seq(All)
    BY <2>2, <2>3, ConcatProperties
  <2>5. Emit(r, retry) \/ Emit(r, retry \o rest)
    BY DEF ExecuteFails
  <2> HIDE DEF retry, rest
  <2> QED BY <2>2, <2>4, <2>5, EmitIsLocal
<1>4. CountsErrors(r) /\ crashes' = crashes
  BY ErrorsAreCounted DEF ExecuteFails, faults, NoDbError
<1> QED BY <1>1, <1>2, <1>3, <1>4, SameExecutedIsLocal DEF Local, Statement, ExecuteFails

LEMMA CompleteStepIsLocal ==
  ASSUME TypeOK, NEW r \in Runs, CompleteStep(r)
  PROVE  Local(r)
<1>0. job[r] \in Job /\ job[r].step \in Keys
  BY DEF TypeOK, Job
<1>1. \E to \in Pcs : pc' = [pc EXCEPT ![r] = to]
  BY DEF CompleteStep, Goto, Pcs, ExecutePcs, EndPcs
<1>2. Statement(r)
  BY <1>0 DEF CompleteStep, ErrorOf, Statement, RunStatuses
<1>3. \E writes \in Seq(EventInserts \cup FailureUpdates) : out' = [out EXCEPT ![r] = writes]
  <2>1. /\ EventInsert("step_completed", job[r].step) \in EventInserts \cup FailureUpdates
        /\ EventInsert("run_failed", job[r].step) \in EventInserts \cup FailureUpdates
        /\ RunUpdate("failed") \in EventInserts \cup FailureUpdates
    BY <1>0, EventIsWrite DEF EventTypes
  <2>2. <<EventInsert("step_completed", job[r].step)>> \in Seq(EventInserts \cup FailureUpdates)
    BY <2>1
  <2>3. <<RunUpdate("failed"), EventInsert("run_failed", job[r].step)>>
          \in Seq(EventInserts \cup FailureUpdates)
    BY <2>1
  <2> QED BY <2>2, <2>3, EmitIsLocal DEF CompleteStep
<1>4. \E jb \in Job : job' = [job EXCEPT ![r] = jb]
  <2>1. [job[r] EXCEPT !.completed = @ \cup {job[r].step}] \in Job
    BY <1>0 DEF Job
  <2> QED BY <2>1, SameJobIsLocal DEF CompleteStep
<1>5. CountsErrors(r)
  BY ErrorsAreCounted DEF CompleteStep, ErrorOf
<1> QED BY <1>1, <1>2, <1>3, <1>4, <1>5, SameExecutedIsLocal DEF Local, CompleteStep

LEMMA FinishRunIsLocal ==
  ASSUME TypeOK, NEW r \in Runs, FinishRun(r)
  PROVE  Local(r)
<1>1. \E to \in Pcs : pc' = [pc EXCEPT ![r] = to]
  BY DEF FinishRun, Goto, Pcs, EndPcs
<1>2. Statement(r)
  BY DEF FinishRun, ErrorOf, Statement, RunStatuses
<1>3. \E writes \in Seq(EventInserts \cup FailureUpdates) : out' = [out EXCEPT ![r] = writes]
  <2>1. EventInsert("run_completed", EmptyKey) \in EventInserts \cup FailureUpdates
    BY EventIsWrite, KeysAssumption DEF EventTypes
  <2>2. <<EventInsert("run_completed", EmptyKey)>> \in Seq(EventInserts \cup FailureUpdates)
    BY <2>1
  <2> QED BY <2>2, EmitIsLocal, NoWritesAreLocal DEF FinishRun
<1>4. CountsErrors(r)
  BY ErrorsAreCounted DEF FinishRun, ErrorOf
<1> QED BY <1>1, <1>2, <1>3, <1>4, SameJobIsLocal, SameExecutedIsLocal DEF Local, FinishRun

\* The head of the queued statements is one of them, and so is its tail.
LEMMA QueuedStatements ==
  ASSUME NEW S, NEW r \in Runs, out \in [Runs -> Seq(EventInserts \cup FailureUpdates)],
         out[r] \in Seq(S), Write(r)
  PROVE  /\ Head(out[r]) \in S
         /\ out' = [out EXCEPT ![r] = Tail(out[r])]
         /\ Tail(out[r]) \in Seq(S)
BY HeadTailProperties DEF Write

LEMMA WriteIsLocal ==
  ASSUME TypeOK, NEW r \in Runs, Write(r)
  PROVE  Local(r)
<1>1. \E to \in Pcs : pc' = [pc EXCEPT ![r] = to]
  <2>1. pc[r] \in Pcs /\ pc' = [pc EXCEPT ![r] = pc[r]]
    BY DEF TypeOK, Write
  <2> QED BY <2>1
<1>2. out[r] \in Seq(EventInserts \cup FailureUpdates)
  BY DEF TypeOK
<1>3. /\ Head(out[r]) \in EventInserts \cup FailureUpdates
      /\ out' = [out EXCEPT ![r] = Tail(out[r])]
      /\ Tail(out[r]) \in Seq(EventInserts \cup FailureUpdates)
  BY <1>2, QueuedStatements DEF TypeOK
<1>4. Statement(r)
  BY <1>3, ExecuteCases DEF Write, Statement, RunStatuses
<1>5. CountsErrors(r)
  BY ErrorsAreCounted DEF Write
<1> QED BY <1>1, <1>3, <1>4, <1>5, SameJobIsLocal, SameExecutedIsLocal DEF Local, Write

\* Every step of a run keeps the types and leaves the other runs alone.
LEMMA RunStepIsLocal ==
  ASSUME Inv, NEW r \in Runs, FindPipeline(r) \/ RunStep(r)
  PROVE  Local(r)
<1>1. TypeOK
  BY DEF Inv
<1> QED
  BY <1>1, FindPipelineIsLocal, ReadStepsIsLocal, CreateRunIsLocal, SpawnIsLocal, LoadIsLocal,
     LoadStepsIsLocal, StartRunIsLocal, ScheduleIsLocal, PickIsLocal, BeginAttemptIsLocal,
     ExecuteSucceedsIsLocal, ExecuteFailsIsLocal, CompleteStepIsLocal, FinishRunIsLocal,
     WriteIsLocal DEF RunStep

--------------------------------------------------------------------------------
(* What the statements do to the rows of their run, and what the queued ones  *)
(* may be afterwards.                                                         *)

LEMMA RunUpdateEffect ==
  ASSUME TypeOK, NEW r \in Runs, NEW status, UpdatePipelineRunStatus(r, status)
  PROVE  /\ UNCHANGED <<pipelines, steps, target, stepStatus, events>>
         /\ runStatus'[r] = IF runStatus[r] = "absent" THEN "absent" ELSE status
BY DEF TypeOK, StoreTypeOK, UpdatePipelineRunStatus

LEMMA StepUpdateEffect ==
  ASSUME TypeOK, NEW r \in Runs, NEW k \in Keys, NEW status, UpdateStepRunStatus(r, k, status)
  PROVE  /\ UNCHANGED <<pipelines, steps, target, runStatus, events>>
         /\ stepStatus'[r][k] = IF stepStatus[r][k] = "absent" THEN "absent" ELSE status
         /\ \A l \in Keys \ {k} : stepStatus'[r][l] = stepStatus[r][l]
         /\ stepStatus[r] = NoStepRuns => stepStatus'[r] = NoStepRuns
<1>1. UNCHANGED <<pipelines, steps, target, runStatus, events>>
  BY DEF UpdateStepRunStatus
<1>2. /\ stepStatus[r] \in [Keys -> RunStatuses \cup {"absent"}]
      /\ stepStatus'[r] = [stepStatus[r] EXCEPT ![k] = IF @ = "absent" THEN @ ELSE status]
  BY DEF TypeOK, StoreTypeOK, UpdateStepRunStatus
<1>3. /\ stepStatus'[r][k] = IF stepStatus[r][k] = "absent" THEN "absent" ELSE status
      /\ \A l \in Keys \ {k} : stepStatus'[r][l] = stepStatus[r][l]
  BY <1>2
<1>4. ASSUME stepStatus[r] = NoStepRuns
      PROVE  stepStatus'[r] = NoStepRuns
  <2>1. stepStatus[r][k] = "absent"
    BY <1>4 DEF NoStepRuns
  <2> QED BY <1>2, <1>4, <2>1 DEF NoStepRuns
<1> QED BY <1>1, <1>3, <1>4

LEMMA TablesSame ==
  ASSUME NEW r \in Runs, RunInv(r), UNCHANGED tables
  PROVE  RowsExist(r)' /\ OrderFits(r)' /\ OneFits(r)' /\ WholeFits(r)'
BY DEF tables, RunInv, RowsExist, Present, Stored, OrderFits, OneFits, WholeFits

\* Nothing is queued.
LEMMA NothingQueued ==
  ASSUME NEW r \in Runs, out[r] = <<>>, UNCHANGED out
  PROVE  WritesFit(r)'
<1>1. out'[r] = <<>>
  OBVIOUS
<1> QED BY <1>1, EmptySeq DEF WritesFit

\* An event is.
LEMMA EventQueued ==
  ASSUME TypeOK, NEW r \in Runs, NEW type \in EventTypes, NEW k \in Keys,
         Emit(r, <<EventInsert(type, k)>>)
  PROVE  WritesFit(r)'
<1>1. out'[r] = <<EventInsert(type, k)>>
  BY DEF TypeOK, Emit
<1>2. EventInsert(type, k) \in EventInserts \cup Failures(r)'
  BY EventIsWrite
<1>3. <<EventInsert(type, k)>> \in Seq(EventInserts \cup Failures(r)')
  BY <1>2
<1>4. EventInserts' = EventInserts
  BY DEF EventInserts
<1> QED BY <1>1, <1>3, <1>4 DEF WritesFit

\* The failure of the run is.
LEMMA FailureQueued ==
  ASSUME TypeOK, NEW r \in Runs, NEW k \in Keys, pc'[r] = "failing",
         Emit(r, <<RunUpdate("failed"), EventInsert("run_failed", k)>>)
  PROVE  WritesFit(r)'
<1>1. out'[r] = <<RunUpdate("failed"), EventInsert("run_failed", k)>>
  BY DEF TypeOK, Emit
<1>2. EventInsert("run_failed", k) \in EventInserts \cup Failures(r)'
  BY EventIsWrite DEF EventTypes
<1>3. RunUpdate("failed") \in EventInserts \cup Failures(r)'
  BY DEF Failures
<1>4. <<RunUpdate("failed"), EventInsert("run_failed", k)>> \in Seq(EventInserts \cup Failures(r)')
  BY <1>2, <1>3
<1> QED BY <1>1, <1>4 DEF WritesFit, EventInserts

--------------------------------------------------------------------------------
(* Every step of a run keeps its own invariant.                               *)

LEMMA FindPipelineKeeps ==
  ASSUME Inv, NEW r \in Runs, FindPipeline(r)
  PROVE  RunInv(r)'
<1>0. TypeOK /\ RunInv(r) /\ UNCHANGED <<tables, out, job>> /\ At(r, "idle")
  BY DEF Inv, FindPipeline
<1>1. RowsExist(r)' /\ OrderFits(r)' /\ OneFits(r)' /\ WholeFits(r)'
  BY <1>0, TablesSame
<1>2. WritesFit(r)'
  BY <1>0, NothingQueued DEF At
<1>3. pc'[r] \in {"read", "rejected"}
  BY <1>0 DEF TypeOK, FindPipeline, Goto
<1>4. ~ Present(r) /\ ~ Present(r)'
  BY <1>0 DEF RunInv, StatusFits, At, Present, tables
<1>5. StatusFits(r)'
  BY <1>3, <1>4 DEF StatusFits, Present, Executing
<1>6. PlanFits(r)' /\ LoopsFit(r)' /\ StepRowsFit(r)'
  BY <1>3, <1>4 DEF PlanFits, LoopsFit, StepRowsFit, Executing, InHand
<1> QED BY <1>1, <1>2, <1>5, <1>6 DEF RunInv

LEMMA ReadStepsKeeps ==
  ASSUME Inv, NEW r \in Runs, ReadSteps(r)
  PROVE  RunInv(r)'
<1>0. TypeOK /\ RunInv(r) /\ UNCHANGED <<tables, out>> /\ At(r, "read")
  BY DEF Inv, ReadSteps
<1>1. RowsExist(r)' /\ OrderFits(r)' /\ OneFits(r)' /\ WholeFits(r)'
  BY <1>0, TablesSame
<1>2. WritesFit(r)'
  BY <1>0, NothingQueued DEF At
<1>3. \/ pc'[r] = "rejected"
      \/ pc'[r] = "insert" /\ job'[r].plan = steps[target[r]]
  BY <1>0 DEF TypeOK, ReadSteps, Goto, Job
<1>4. ~ Present(r) /\ ~ Present(r)'
  BY <1>0 DEF RunInv, StatusFits, At, Present, tables
<1>5. StatusFits(r)'
  BY <1>3, <1>4 DEF StatusFits, Present, Executing
<1>6. Accepts(steps[target[r]])
  BY <1>0 DEF Inv, TypeOK, StoreTypeOK
<1>7. PlanFits(r)'
  BY <1>0, <1>3, <1>6 DEF PlanFits, Executing, tables
<1>8. LoopsFit(r)' /\ StepRowsFit(r)'
  BY <1>3, <1>4 DEF LoopsFit, StepRowsFit, Executing, InHand
<1> QED BY <1>1, <1>2, <1>5, <1>7, <1>8 DEF RunInv

LEMMA CreateRunKeeps ==
  ASSUME Inv, NEW r \in Runs, CreateRun(r)
  PROVE  RunInv(r)'
<1>0. TypeOK /\ RunInv(r) /\ At(r, "insert") /\ UNCHANGED job
  BY DEF Inv, CreateRun
<1>1. ~ Present(r) /\ stepStatus[r] = NoStepRuns /\ events[r] = <<>>
  BY <1>0 DEF RunInv, StatusFits, RowsExist, At
<1>2. CASE InsertRun(r, job[r].plan)
  <2>1. /\ Stored(r) /\ Stored(r)'
        /\ UNCHANGED <<pipelines, steps, target, events>>
        /\ runStatus'[r] = "pending"
        /\ stepStatus'[r] = [k \in Keys |-> IF k \in KeysOf(job[r].plan) THEN "pending" ELSE "absent"]
    BY <1>0, <1>2 DEF TypeOK, StoreTypeOK, InsertRun, Stored
  <2>2. job[r].plan = steps[target[r]]
    BY <1>0, <2>1 DEF RunInv, PlanFits, At
  <2>3. \A k \in Keys : stepStatus'[r][k] =
          IF k \in KeysOf(steps[target[r]]) THEN "pending" ELSE "absent"
    BY <2>1, <2>2
  <2>4. \/ pc'[r] = "spawn" /\ Emit(r, <<EventInsert("run_queued", EmptyKey)>>)
        \/ pc'[r] = "rejected" /\ UNCHANGED out
    BY <1>0, <1>2 DEF TypeOK, CreateRun, Goto
  <2>5. WritesFit(r)'
    BY <1>0, <2>4, NothingQueued, EventQueued, KeysAssumption DEF At, EventTypes
  <2>6. RowsExist(r)'
    BY <2>1 DEF RowsExist, Present
  <2>7. StatusFits(r)' /\ PlanFits(r)' /\ LoopsFit(r)'
    BY <2>1, <2>4 DEF StatusFits, PlanFits, LoopsFit, Executing, InHand
  <2>8. StepRowsFit(r)'
    BY <2>1, <2>3, <2>4 DEF StepRowsFit, Executing
  <2>9. OrderFits(r)' /\ OneFits(r)' /\ WholeFits(r)'
    BY <2>1, <2>3 DEF OrderFits, OneFits, WholeFits
  <2> QED BY <2>5, <2>6, <2>7, <2>8, <2>9 DEF RunInv
<1>3. CASE UNCHANGED tables /\ UNCHANGED out /\ pc'[r] = "rejected"
  <2>1. RowsExist(r)' /\ OrderFits(r)' /\ OneFits(r)' /\ WholeFits(r)'
    BY <1>0, <1>3, TablesSame
  <2>2. WritesFit(r)'
    BY <1>0, <1>3, NothingQueued DEF At
  <2>3. StatusFits(r)' /\ PlanFits(r)' /\ LoopsFit(r)' /\ StepRowsFit(r)'
    BY <1>1, <1>3 DEF StatusFits, PlanFits, LoopsFit, StepRowsFit, Executing, InHand, Present, tables
  <2> QED BY <2>1, <2>2, <2>3 DEF RunInv
<1>4. InsertRun(r, job[r].plan) \/ (UNCHANGED tables /\ UNCHANGED out /\ pc'[r] = "rejected")
  BY <1>0 DEF CreateRun, ErrorOf, TypeOK, Goto, tables
<1> QED BY <1>2, <1>3, <1>4

LEMMA SpawnKeeps ==
  ASSUME Inv, NEW r \in Runs, Spawn(r)
  PROVE  RunInv(r)'
<1>0. TypeOK /\ RunInv(r) /\ UNCHANGED <<tables, out>> /\ At(r, "spawn")
  BY DEF Inv, Spawn
<1>1. RowsExist(r)' /\ OrderFits(r)' /\ OneFits(r)' /\ WholeFits(r)'
  BY <1>0, TablesSame
<1>2. WritesFit(r)'
  BY <1>0, NothingQueued DEF At
<1>3. pc'[r] = "load" /\ job'[r] = NoJob
  BY <1>0 DEF TypeOK, Spawn, Goto
<1>4. StatusFits(r)' /\ PlanFits(r)' /\ StepRowsFit(r)'
  BY <1>0, <1>3 DEF RunInv, StatusFits, PlanFits, StepRowsFit, Present, Executing, At, tables
<1>5. LoopsFit(r)'
  BY <1>3 DEF LoopsFit, NoJob, Executing, InHand
<1> QED BY <1>1, <1>2, <1>4, <1>5 DEF RunInv

LEMMA LoadKeeps ==
  ASSUME Inv, NEW r \in Runs, Load(r)
  PROVE  RunInv(r)'
<1>0. TypeOK /\ RunInv(r) /\ UNCHANGED <<tables, out, job>> /\ At(r, "load")
  BY DEF Inv, Load
<1>1. RowsExist(r)' /\ OrderFits(r)' /\ OneFits(r)' /\ WholeFits(r)'
  BY <1>0, TablesSame
<1>2. WritesFit(r)'
  BY <1>0, NothingQueued DEF At
<1>3. pc'[r] \in {"loadSteps", "returned"}
  BY <1>0 DEF TypeOK, Load, Goto
<1>4. StatusFits(r)' /\ PlanFits(r)' /\ StepRowsFit(r)' /\ LoopsFit(r)'
  BY <1>0, <1>3 DEF RunInv, StatusFits, PlanFits, StepRowsFit, LoopsFit, Present, Executing,
                    InHand, At, tables
<1> QED BY <1>1, <1>2, <1>4 DEF RunInv

LEMMA LoadStepsKeeps ==
  ASSUME Inv, NEW r \in Runs, LoadSteps(r)
  PROVE  RunInv(r)'
<1>0. TypeOK /\ RunInv(r) /\ UNCHANGED <<tables, out>> /\ At(r, "loadSteps")
  BY DEF Inv, LoadSteps
<1>1. RowsExist(r)' /\ OrderFits(r)' /\ OneFits(r)' /\ WholeFits(r)'
  BY <1>0, TablesSame
<1>2. WritesFit(r)'
  BY <1>0, NothingQueued DEF At
<1>3. \/ pc'[r] = "returned"
      \/ /\ pc'[r] = "start" /\ Accepts(steps[target[r]])
         /\ job'[r].plan = steps[target[r]]
         /\ job'[r].completed = job[r].completed /\ job'[r].queued = job[r].queued
  BY <1>0 DEF TypeOK, LoadSteps, Goto, Job
<1>4. StatusFits(r)' /\ PlanFits(r)' /\ StepRowsFit(r)' /\ LoopsFit(r)'
  BY <1>0, <1>3 DEF RunInv, StatusFits, PlanFits, StepRowsFit, LoopsFit, Present, Executing,
                    InHand, At, tables
<1> QED BY <1>1, <1>2, <1>4 DEF RunInv

LEMMA StartRunKeeps ==
  ASSUME Inv, NEW r \in Runs, StartRun(r)
  PROVE  RunInv(r)'
<1>0. TypeOK /\ RunInv(r) /\ At(r, "start") /\ UNCHANGED job
  BY DEF Inv, StartRun
<1>1. runStatus[r] \in {"absent", "pending"}
  BY <1>0 DEF RunInv, StatusFits, At
<1>2. /\ UNCHANGED <<pipelines, steps, target, stepStatus, events>>
      /\ \/ runStatus'[r] = runStatus[r]
         \/ runStatus[r] = "pending" /\ runStatus'[r] = "running"
      /\ pc'[r] = "loop" => runStatus'[r] \in {"absent", "running"}
  BY <1>0, <1>1, RunUpdateEffect DEF StartRun, ErrorOf, tables, Goto, TypeOK
<1>3. \/ pc'[r] = "loop" /\ Emit(r, <<EventInsert("run_started", EmptyKey)>>)
      \/ pc'[r] = "returned" /\ UNCHANGED out
  BY <1>0 DEF TypeOK, StartRun, Goto
<1>4. WritesFit(r)'
  BY <1>0, <1>3, NothingQueued, EventQueued, KeysAssumption DEF At, EventTypes
<1>5. RowsExist(r)' /\ OrderFits(r)' /\ OneFits(r)' /\ WholeFits(r)'
  BY <1>0, <1>1, <1>2 DEF RunInv, RowsExist, OrderFits, OneFits, WholeFits, Present, Stored
<1>6. StatusFits(r)'
  BY <1>2, <1>3 DEF StatusFits, Executing
<1>7. PlanFits(r)'
  BY <1>0, <1>2, <1>3 DEF RunInv, PlanFits, At, Stored
<1>8. LoopsFit(r)'
  BY <1>0, <1>3 DEF RunInv, LoopsFit, At, Executing, InHand
<1>9. StepRowsFit(r)'
  <2>1. CASE pc'[r] = "loop" /\ Present(r)'
    <3>1. Present(r)
      BY <1>1, <1>2, <2>1 DEF Present
    <3>2. job[r].plan = steps[target[r]] /\ job[r].completed = {} /\ job[r].queued = {}
      BY <1>0, <3>1 DEF RunInv, RowsExist, PlanFits, LoopsFit, At
    <3>3. \A k \in Keys : stepStatus[r][k] =
            IF k \in KeysOf(steps[target[r]]) THEN "pending" ELSE "absent"
      BY <1>0, <3>1 DEF RunInv, StepRowsFit, At
    <3> QED BY <1>0, <1>2, <2>1, <3>2, <3>3 DEF StepRowsFit
  <2>2. CASE ~ (pc'[r] = "loop" /\ Present(r)')
    BY <1>3, <2>2 DEF StepRowsFit, Executing
  <2> QED BY <2>1, <2>2
<1> QED BY <1>4, <1>5, <1>6, <1>7, <1>8, <1>9 DEF RunInv

\* An unfinished run always has a ready step between two batches.
LEMMA ReadyIsNotEmpty ==
  ASSUME Inv, NEW r \in Runs, pc[r] = "loop", job[r].completed # KeysOf(job[r].plan)
  PROVE  Ready(job[r]) # {}
<1>1. job[r] \in Job
  BY DEF Inv, TypeOK
<1>2. /\ Accepts(job[r].plan)
      /\ job[r].queued = job[r].completed
      /\ job[r].completed \subseteq KeysOf(job[r].plan)
  BY DEF Inv, RunInv, PlanFits, LoopsFit, Executing
<1> QED BY <1>1, <1>2, SomeStepIsReady

LEMMA ScheduleKeeps ==
  ASSUME Inv, NEW r \in Runs, Schedule(r)
  PROVE  RunInv(r)'
<1>0. TypeOK /\ RunInv(r) /\ UNCHANGED tables /\ At(r, "loop")
  BY DEF Inv, Schedule
<1>1. RowsExist(r)' /\ OrderFits(r)' /\ OneFits(r)' /\ WholeFits(r)'
  BY <1>0, TablesSame
<1>2. \/ /\ job[r].completed = KeysOf(job[r].plan)
         /\ pc'[r] = "finish" /\ UNCHANGED <<out, job>>
      \/ /\ pc'[r] = "pick" /\ UNCHANGED out
         /\ job' = [job EXCEPT ![r].batch = Ready(job[r])]
  BY <1>0, ReadyIsNotEmpty DEF Schedule, Goto, TypeOK, At
<1>3. WritesFit(r)'
  BY <1>0, <1>2, NothingQueued DEF At
<1>4. /\ job'[r].plan = job[r].plan /\ job'[r].completed = job[r].completed
      /\ job'[r].queued = job[r].queued
      /\ pc'[r] = "pick" => job'[r].batch = Ready(job[r])
  BY <1>0, <1>2 DEF TypeOK, Job
<1>5. StatusFits(r)' /\ PlanFits(r)' /\ StepRowsFit(r)'
  BY <1>0, <1>2, <1>4 DEF RunInv, StatusFits, PlanFits, StepRowsFit, Present, Stored, Executing,
                          At, tables
<1>6. LoopsFit(r)'
  BY <1>0, <1>2, <1>4 DEF RunInv, LoopsFit, Ready, Executing, InHand, At
<1> QED BY <1>1, <1>3, <1>5, <1>6 DEF RunInv

LEMMA PickKeeps ==
  ASSUME Inv, NEW r \in Runs, Pick(r)
  PROVE  RunInv(r)'
<1>0. TypeOK /\ RunInv(r) /\ UNCHANGED tables /\ At(r, "pick")
  BY DEF Inv, Pick
<1>1. RowsExist(r)' /\ OrderFits(r)' /\ OneFits(r)' /\ WholeFits(r)'
  BY <1>0, TablesSame
<1>a. PICK k \in job[r].batch :
        \E n \in MaxRetriesForStep(RetryCount(job[r].plan, k)) :
          /\ job' = [job EXCEPT ![r] = TakeInHand(@, k, n)]
          /\ Goto(r, IF 0 <= n THEN "attempt" ELSE "complete")
          /\ Emit(r, <<EventInsert("step_queued", k)>>)
  BY DEF Pick
<1>b. PICK n : /\ job' = [job EXCEPT ![r] = TakeInHand(@, k, n)]
               /\ Goto(r, IF 0 <= n THEN "attempt" ELSE "complete")
               /\ Emit(r, <<EventInsert("step_queued", k)>>)
  BY <1>a
<1>2. pc'[r] \in {"attempt", "complete"}
  BY <1>0, <1>b DEF TypeOK, Goto
<1>3. /\ job'[r].plan = job[r].plan /\ job'[r].completed = job[r].completed
      /\ job'[r].queued = job[r].queued \cup {k} /\ job'[r].batch = job[r].batch \ {k}
      /\ job'[r].step = k
  BY <1>0, <1>b DEF TypeOK, Job, TakeInHand
<1>4. /\ k \in KeysOf(job[r].plan) \ job[r].queued
      /\ DependsOn(job[r].plan, k) \subseteq job[r].completed
      /\ job[r].queued = job[r].completed
  BY <1>0 DEF RunInv, LoopsFit, At
<1>5. k \in Keys
  BY <1>0, <1>4, KeysOfSteps DEF TypeOK, Job
<1>6. WritesFit(r)'
  BY <1>0, <1>b, <1>5, EventQueued DEF EventTypes
<1>7. StatusFits(r)' /\ PlanFits(r)'
  BY <1>0, <1>2, <1>3 DEF RunInv, StatusFits, PlanFits, Present, Stored, Executing, At, tables
<1>8. LoopsFit(r)'
  BY <1>0, <1>2, <1>3, <1>4 DEF RunInv, LoopsFit, Executing, InHand, At
<1>9. StepRowsFit(r)'
  BY <1>0, <1>2, <1>3, <1>4, <1>5 DEF RunInv, StepRowsFit, Present, Executing, At, tables
<1> QED BY <1>1, <1>6, <1>7, <1>8, <1>9 DEF RunInv

\* What is known of the rows of a run that has a step in hand.
LEMMA RowsInHand ==
  ASSUME Inv, NEW r \in Runs, pc[r] \in InHand, Present(r)
  PROVE  /\ job[r].plan = steps[target[r]]
         /\ job[r].step \in Keys /\ job[r].step \in KeysOf(steps[target[r]])
         /\ job[r].step \notin job[r].completed
         /\ \A d \in DependsOn(steps[target[r]], job[r].step) : stepStatus[r][d] = "completed"
         /\ \A l \in Keys : l # job[r].step =>
              stepStatus[r][l] =
                IF l \in job[r].completed THEN "completed"
                ELSE IF l \in KeysOf(steps[target[r]]) THEN "pending" ELSE "absent"
<1>1. TypeOK /\ RunInv(r) /\ pc[r] \in Executing
  BY DEF Inv, InHand, Executing
<1>2. job[r].plan = steps[target[r]]
  BY <1>1 DEF RunInv, RowsExist, PlanFits
<1>3. /\ job[r].step \in KeysOf(steps[target[r]]) \ job[r].completed
      /\ job[r].queued = job[r].completed \cup {job[r].step}
      /\ DependsOn(steps[target[r]], job[r].step) \subseteq job[r].completed
  BY <1>1, <1>2 DEF RunInv, LoopsFit
<1>4. \A l \in Keys :
        /\ l \in job[r].completed => stepStatus[r][l] = "completed"
        /\ l \in KeysOf(steps[target[r]]) \ job[r].queued => stepStatus[r][l] = "pending"
        /\ l \notin KeysOf(steps[target[r]]) => stepStatus[r][l] = "absent"
  BY <1>1, <1>2 DEF RunInv, StepRowsFit
<1>5. job[r].step \in Keys /\ job[r].completed \subseteq Keys
  BY <1>1 DEF TypeOK, Job
<1> QED BY <1>2, <1>3, <1>4, <1>5

\* The update of the step in hand, executed or not, keeps what is said of the rows.
LEMMA StepUpdateKeepsRows ==
  ASSUME Inv, NEW r \in Runs, NEW status \in {"running", "completed", "failed"},
         pc[r] \in InHand,
         Present(r) /\ status # "failed" => stepStatus[r][job[r].step] \in {"pending", "running"},
         Present(r) /\ status = "failed" => stepStatus[r][job[r].step] \in {"running", "failed"},
         UpdateStepRunStatus(r, job[r].step, status) \/ UNCHANGED tables
  PROVE  /\ UNCHANGED <<pipelines, steps, target, runStatus, events>>
         /\ RowsExist(r)' /\ OrderFits(r)' /\ OneFits(r)' /\ WholeFits(r)'
         /\ \A l \in Keys : l # job[r].step => stepStatus'[r][l] = stepStatus[r][l]
         /\ Present(r) => stepStatus'[r][job[r].step] \in {status, stepStatus[r][job[r].step]}
<1>0. TypeOK /\ RunInv(r) /\ job[r].step \in Keys
  BY DEF Inv, TypeOK, Job
<1>1. CASE UNCHANGED tables
  BY <1>0, <1>1, TablesSame DEF tables
<1>2. CASE UpdateStepRunStatus(r, job[r].step, status) /\ ~ Present(r)
  <2>1. stepStatus[r] = NoStepRuns /\ events[r] = <<>>
    BY <1>0, <1>2 DEF RunInv, RowsExist
  <2>2. /\ UNCHANGED <<pipelines, steps, target, runStatus, events>>
        /\ stepStatus'[r] = NoStepRuns
    BY <1>0, <1>2, <2>1, StepUpdateEffect
  <2>3. RowsExist(r)' /\ OrderFits(r)' /\ OneFits(r)' /\ WholeFits(r)'
    BY <1>2, <2>1, <2>2 DEF RowsExist, Present, OrderFits, OneFits, WholeFits, NoStepRuns
  <2> QED BY <1>2, <2>1, <2>2, <2>3
<1>3. CASE UpdateStepRunStatus(r, job[r].step, status) /\ Present(r)
  <2> DEFINE k == job[r].step
             plan == steps[target[r]]
  <2>1. /\ k \in KeysOf(plan) /\ k \notin job[r].completed
        /\ \A d \in DependsOn(plan, k) : stepStatus[r][d] = "completed"
        /\ \A l \in Keys : l # k => stepStatus[r][l] =
             IF l \in job[r].completed THEN "completed"
             ELSE IF l \in KeysOf(plan) THEN "pending" ELSE "absent"
    BY <1>3, RowsInHand
  <2>2. stepStatus[r][k] \in {"pending", "running", "failed"}
    BY <1>3
  <2>3. /\ UNCHANGED <<pipelines, steps, target, runStatus, events>>
        /\ stepStatus'[r][k] = status
        /\ \A l \in Keys \ {k} : stepStatus'[r][l] = stepStatus[r][l]
    BY <1>0, <1>3, <2>2, StepUpdateEffect
  <2>4. RowsExist(r)'
    BY <1>0, <1>3, <2>3 DEF RunInv, RowsExist, Present, Stored
  <2>5. OrderFits(r)'
    <3> SUFFICES ASSUME NEW l \in Keys, stepStatus'[r][l] \in {"running", "completed", "failed"},
                        NEW d \in DependsOn(plan, l)
                 PROVE  stepStatus'[r][d] = "completed"
      BY <2>3 DEF OrderFits
    <3>1. d \in Keys
      BY DEF DependsOn
    <3>2. stepStatus[r][d] = "completed"
      <4>1. CASE l = k
        BY <2>1, <4>1
      <4>2. CASE l # k
        BY <1>0, <2>3, <4>2 DEF RunInv, OrderFits
      <4> QED BY <4>1, <4>2
    <3>3. d # k
      BY <2>2, <3>2
    <3> QED BY <2>3, <3>1, <3>2, <3>3
  <2>6. OneFits(r)'
    BY <2>1, <2>3 DEF OneFits
  <2>7. runStatus[r] # "completed"
    BY <1>0 DEF RunInv, StatusFits, InHand, Executing
  <2>8. WholeFits(r)'
    BY <2>3, <2>7 DEF WholeFits
  <2> QED BY <2>3, <2>4, <2>5, <2>6, <2>8
<1> QED BY <1>1, <1>2, <1>3

LEMMA BeginAttemptKeeps ==
  ASSUME Inv, NEW r \in Runs, BeginAttempt(r)
  PROVE  RunInv(r)'
<1>0. TypeOK /\ RunInv(r) /\ At(r, "attempt") /\ UNCHANGED job /\ job[r].step \in Keys
  BY DEF Inv, BeginAttempt, TypeOK, Job
<1>1. Present(r) => stepStatus[r][job[r].step] \in {"pending", "running"}
  BY <1>0 DEF RunInv, StepRowsFit, At
<1>2. /\ UNCHANGED <<pipelines, steps, target, runStatus, events>>
      /\ RowsExist(r)' /\ OrderFits(r)' /\ OneFits(r)' /\ WholeFits(r)'
      /\ \A l \in Keys : l # job[r].step => stepStatus'[r][l] = stepStatus[r][l]
      /\ Present(r) => stepStatus'[r][job[r].step] \in {"running", stepStatus[r][job[r].step]}
  BY <1>0, <1>1, StepUpdateKeepsRows DEF BeginAttempt, ErrorOf, At, InHand
<1>3. \/ /\ pc'[r] = "execute" /\ Emit(r, <<EventInsert("step_running", job[r].step)>>)
         /\ Present(r) => stepStatus'[r][job[r].step] = "running"
      \/ /\ pc'[r] = "failing"
         /\ Emit(r, <<RunUpdate("failed"), EventInsert("run_failed", job[r].step)>>)
  BY <1>0, <1>1, StepUpdateEffect DEF TypeOK, BeginAttempt, Goto
<1>4. WritesFit(r)'
  BY <1>0, <1>3, EventQueued, FailureQueued DEF EventTypes
<1>5. StatusFits(r)' /\ PlanFits(r)'
  BY <1>0, <1>2, <1>3 DEF RunInv, StatusFits, PlanFits, Present, Stored, Executing, At
<1>6. LoopsFit(r)'
  BY <1>0, <1>3 DEF RunInv, LoopsFit, Executing, InHand, At
<1>7. StepRowsFit(r)'
  <2>1. CASE Present(r)
    <3>1. /\ job[r].step \in KeysOf(job[r].plan) \ job[r].completed
          /\ job[r].queued = job[r].completed \cup {job[r].step}
      BY <1>0 DEF RunInv, LoopsFit, InHand, At
    <3> QED BY <1>0, <1>1, <1>2, <1>3, <2>1, <3>1 DEF RunInv, StepRowsFit, Present, Executing, At
  <2>2. CASE ~ Present(r)
    BY <1>2, <2>2 DEF StepRowsFit, Present
  <2> QED BY <2>1, <2>2
<1> QED BY <1>2, <1>4, <1>5, <1>6, <1>7 DEF RunInv

LEMMA ExecuteSucceedsKeeps ==
  ASSUME Inv, NEW r \in Runs, ExecuteSucceeds(r)
  PROVE  RunInv(r)'
<1>0. TypeOK /\ RunInv(r) /\ UNCHANGED <<tables, out, job>> /\ At(r, "execute")
  BY DEF Inv, ExecuteSucceeds
<1>1. RowsExist(r)' /\ OrderFits(r)' /\ OneFits(r)' /\ WholeFits(r)'
  BY <1>0, TablesSame
<1>2. WritesFit(r)'
  BY <1>0, NothingQueued DEF At
<1>3. pc'[r] = "complete"
  BY <1>0 DEF TypeOK, ExecuteSucceeds, Goto
<1>4. StatusFits(r)' /\ PlanFits(r)' /\ StepRowsFit(r)' /\ LoopsFit(r)'
  BY <1>0, <1>3 DEF RunInv, StatusFits, PlanFits, StepRowsFit, LoopsFit, Present, Stored, Executing,
                    InHand, At, tables
<1> QED BY <1>1, <1>2, <1>4 DEF RunInv

LEMMA ExecuteFailsKeeps ==
  ASSUME Inv, NEW r \in Runs, ExecuteFails(r)
  PROVE  RunInv(r)'
<1>0. TypeOK /\ RunInv(r) /\ UNCHANGED tables /\ At(r, "execute") /\ job[r].step \in Keys
  BY DEF Inv, ExecuteFails, TypeOK, Job
<1>1. RowsExist(r)' /\ OrderFits(r)' /\ OneFits(r)' /\ WholeFits(r)'
  BY <1>0, TablesSame
<1> DEFINE retry == IF job[r].attempt < job[r].retries
                    THEN <<EventInsert("step_retry", job[r].step)>> ELSE <<>>
           rest == <<StepUpdate(job[r].step, "failed"), RunUpdate("failed"),
                     EventInsert("step_failed", job[r].step),
                     EventInsert("run_failed", EmptyKey)>>
<1>2. \/ pc'[r] = "attempt" /\ out'[r] = retry
      \/ pc'[r] = "failing" /\ out'[r] = retry \o rest
  BY <1>0 DEF TypeOK, ExecuteFails, Goto, Emit
<1>3. /\ job'[r].plan = job[r].plan /\ job'[r].completed = job[r].completed
      /\ job'[r].queued = job[r].queued /\ job'[r].batch = job[r].batch
      /\ job'[r].step = job[r].step
  BY <1>0 DEF TypeOK, Job, ExecuteFails
<1>4. WritesFit(r)'
  <2> DEFINE S == EventInserts \cup Failures(r)'
  <2>1. /\ EventInsert("step_retry", job[r].step) \in S
        /\ EventInsert("step_failed", job[r].step) \in S
        /\ EventInsert("run_failed", EmptyKey) \in S
    BY <1>0, EventIsWrite, KeysAssumption DEF EventTypes
  <2>2. retry \in Seq(S)
    <3>1. <<EventInsert("step_retry", job[r].step)>> \in Seq(S) /\ <<>> \in Seq(S)
      BY <2>1
    <3> QED BY <3>1
  <2>3. CASE pc'[r] = "attempt" /\ out'[r] = retry
    BY <2>2, <2>3 DEF WritesFit, EventInserts
  <2>4. CASE pc'[r] = "failing" /\ out'[r] = retry \o rest
    <3>1. stepStatus[r][job[r].step] \in {"absent", "running"}
      BY <1>0 DEF RunInv, StepRowsFit, RowsExist, NoStepRuns, At
    <3>2. stepStatus'[r][job'[r].step] \in {"absent", "running"}
      BY <1>0, <1>3, <3>1 DEF tables
    <3>3. StepUpdate(job[r].step, "failed") \in S /\ RunUpdate("failed") \in S
      BY <1>3, <2>4, <3>2 DEF Failures
    <3>4. rest \in Seq(S)
      BY <2>1, <3>3
    <3>5. retry \o rest \in Seq(S)
      BY <2>2, <3>4, ConcatProperties
    <3> QED BY <2>4, <3>5 DEF WritesFit, EventInserts
  <2> QED BY <1>2, <2>3, <2>4
<1> HIDE DEF retry, rest
<1>5. StatusFits(r)' /\ PlanFits(r)'
  BY <1>0, <1>2, <1>3 DEF RunInv, StatusFits, PlanFits, Present, Stored, Executing, At, tables
<1>6. LoopsFit(r)'
  BY <1>0, <1>2, <1>3 DEF RunInv, LoopsFit, Executing, InHand, At
<1>7. StepRowsFit(r)'
  BY <1>0, <1>2, <1>3 DEF RunInv, StepRowsFit, Present, Executing, At, tables
<1> QED BY <1>1, <1>4, <1>5, <1>6, <1>7 DEF RunInv

LEMMA CompleteStepKeeps ==
  ASSUME Inv, NEW r \in Runs, CompleteStep(r)
  PROVE  RunInv(r)'
<1>0. TypeOK /\ RunInv(r) /\ At(r, "complete") /\ job[r].step \in Keys
  BY DEF Inv, CompleteStep, TypeOK, Job
<1>1. Present(r) => stepStatus[r][job[r].step] \in {"pending", "running"}
  BY <1>0 DEF RunInv, StepRowsFit, At
<1>2. /\ UNCHANGED <<pipelines, steps, target, runStatus, events>>
      /\ RowsExist(r)' /\ OrderFits(r)' /\ OneFits(r)' /\ WholeFits(r)'
      /\ \A l \in Keys : l # job[r].step => stepStatus'[r][l] = stepStatus[r][l]
      /\ Present(r) => stepStatus'[r][job[r].step] \in {"completed", stepStatus[r][job[r].step]}
  BY <1>0, <1>1, StepUpdateKeepsRows DEF CompleteStep, ErrorOf, At, InHand
<1>3. /\ job[r].step \in KeysOf(job[r].plan) \ job[r].completed
      /\ job[r].queued = job[r].completed \cup {job[r].step}
      /\ DependsOn(job[r].plan, job[r].step) \subseteq job[r].completed
      /\ \A k \in job[r].completed : DependsOn(job[r].plan, k) \subseteq job[r].completed
  BY <1>0 DEF RunInv, LoopsFit, InHand, Executing, At
<1>4. CASE /\ pc'[r] = IF job[r].batch = {} THEN "loop" ELSE "pick"
           /\ Emit(r, <<EventInsert("step_completed", job[r].step)>>)
           /\ job' = [job EXCEPT ![r].completed = @ \cup {job[r].step}]
           /\ UpdateStepRunStatus(r, job[r].step, "completed")
  <2>1. /\ job'[r].plan = job[r].plan
        /\ job'[r].completed = job[r].completed \cup {job[r].step}
        /\ job'[r].queued = job[r].queued /\ job'[r].batch = job[r].batch
    BY <1>0, <1>4 DEF TypeOK, Job
  <2>2. Present(r) => stepStatus'[r][job[r].step] = "completed"
    BY <1>0, <1>1, <1>4, StepUpdateEffect
  <2>3. WritesFit(r)'
    BY <1>0, <1>4, EventQueued DEF EventTypes
  <2>4. StatusFits(r)' /\ PlanFits(r)'
    BY <1>0, <1>2, <1>4, <2>1 DEF RunInv, StatusFits, PlanFits, Present, Stored, Executing, At
  <2>5. LoopsFit(r)'
    BY <1>0, <1>3, <1>4, <2>1 DEF RunInv, LoopsFit, Executing, InHand, At
  <2>6. StepRowsFit(r)'
    BY <1>0, <1>2, <1>3, <1>4, <2>1, <2>2 DEF RunInv, StepRowsFit, Present, Executing, At
  <2> QED BY <1>2, <2>3, <2>4, <2>5, <2>6 DEF RunInv
<1>5. CASE /\ pc'[r] = "failing" /\ UNCHANGED job
           /\ Emit(r, <<RunUpdate("failed"), EventInsert("run_failed", job[r].step)>>)
  <2>1. WritesFit(r)'
    BY <1>0, <1>5, FailureQueued
  <2>2. StatusFits(r)' /\ PlanFits(r)' /\ LoopsFit(r)'
    BY <1>0, <1>2, <1>5 DEF RunInv, StatusFits, PlanFits, LoopsFit, Present, Stored, Executing,
                            InHand, At
  <2>3. StepRowsFit(r)'
    BY <1>0, <1>1, <1>2, <1>3, <1>5 DEF RunInv, StepRowsFit, Present, Executing, At
  <2> QED BY <1>2, <2>1, <2>2, <2>3 DEF RunInv
<1> QED BY <1>0, <1>4, <1>5 DEF CompleteStep, Goto, TypeOK

LEMMA FinishRunKeeps ==
  ASSUME Inv, NEW r \in Runs, FinishRun(r)
  PROVE  RunInv(r)'
<1>0. TypeOK /\ RunInv(r) /\ At(r, "finish") /\ UNCHANGED job
  BY DEF Inv, FinishRun
<1>1. /\ UNCHANGED <<pipelines, steps, target, stepStatus, events>>
      /\ \/ runStatus'[r] = runStatus[r]
         \/ Present(r) /\ runStatus'[r] = "completed"
  BY <1>0, RunUpdateEffect DEF FinishRun, ErrorOf, tables, Present
<1>2. /\ pc'[r] = "returned"
      /\ Emit(r, <<EventInsert("run_completed", EmptyKey)>>) \/ UNCHANGED out
  BY <1>0 DEF TypeOK, FinishRun, Goto
<1>3. WritesFit(r)'
  BY <1>0, <1>2, NothingQueued, EventQueued, KeysAssumption DEF At, EventTypes
<1>4. RowsExist(r)' /\ OrderFits(r)' /\ OneFits(r)'
  BY <1>0, <1>1 DEF RunInv, RowsExist, OrderFits, OneFits, Present, Stored
<1>5. WholeFits(r)'
  <2>1. CASE Present(r) /\ runStatus'[r] = "completed"
    <3>1. job[r].plan = steps[target[r]] /\ job[r].completed = KeysOf(steps[target[r]])
      BY <1>0, <2>1 DEF RunInv, RowsExist, PlanFits, LoopsFit, Executing, At
    <3>2. \A k \in KeysOf(steps[target[r]]) : k \in Keys
      BY <1>0, <3>1 DEF TypeOK, Job
    <3>3. \A k \in KeysOf(steps[target[r]]) : stepStatus[r][k] = "completed"
      BY <1>0, <2>1, <3>1, <3>2 DEF RunInv, StepRowsFit, Executing, At
    <3> QED BY <1>1, <3>3 DEF WholeFits
  <2>2. CASE runStatus'[r] = runStatus[r]
    BY <1>0, <1>1, <2>2 DEF RunInv, WholeFits
  <2> QED BY <1>1, <2>1, <2>2
<1>6. StatusFits(r)' /\ PlanFits(r)' /\ LoopsFit(r)' /\ StepRowsFit(r)'
  BY <1>2 DEF StatusFits, PlanFits, LoopsFit, StepRowsFit, Executing, InHand
<1> QED BY <1>3, <1>4, <1>5, <1>6 DEF RunInv

LEMMA WriteKeeps ==
  ASSUME Inv, NEW r \in Runs, Write(r)
  PROVE  RunInv(r)'
<1>0. TypeOK /\ RunInv(r) /\ UNCHANGED <<pc, job>> /\ job[r].step \in Keys
  BY DEF Inv, Write, TypeOK, Job
<1>1. /\ Head(out[r]) \in EventInserts \cup Failures(r)
      /\ out'[r] = Tail(out[r])
      /\ Tail(out[r]) \in Seq(EventInserts \cup Failures(r))
  <2>1. /\ out \in [Runs -> Seq(EventInserts \cup FailureUpdates)]
        /\ out[r] \in Seq(EventInserts \cup Failures(r))
    BY <1>0 DEF RunInv, WritesFit, TypeOK
  <2>2. /\ Head(out[r]) \in EventInserts \cup Failures(r)
        /\ out' = [out EXCEPT ![r] = Tail(out[r])]
        /\ Tail(out[r]) \in Seq(EventInserts \cup Failures(r))
    BY <2>1, QueuedStatements
  <2> QED BY <2>1, <2>2
<1>2. Failures(r) \subseteq FailureUpdates
  BY <1>0 DEF Failures, FailureUpdates
<1>3. ASSUME Failures(r)' = Failures(r)
      PROVE  WritesFit(r)'
  BY <1>1, <1>3 DEF WritesFit, EventInserts
<1>4. CASE UNCHANGED tables
  <2>1. RowsExist(r)' /\ OrderFits(r)' /\ OneFits(r)' /\ WholeFits(r)'
    BY <1>0, <1>4, TablesSame
  <2>2. WritesFit(r)'
    BY <1>0, <1>3, <1>4 DEF Failures, tables
  <2>3. StatusFits(r)' /\ PlanFits(r)' /\ LoopsFit(r)' /\ StepRowsFit(r)'
    BY <1>0, <1>4 DEF RunInv, StatusFits, PlanFits, LoopsFit, StepRowsFit, Present, Stored, tables
  <2> QED BY <2>1, <2>2, <2>3 DEF RunInv
<1>5. ASSUME NEW type \in EventTypes, NEW k \in Keys, CreateRunEvent(r, type, k)
      PROVE  RunInv(r)'
  <2>1. /\ UNCHANGED <<pipelines, steps, target, runStatus, stepStatus>>
        /\ ~ Present(r) => events'[r] = events[r]
    BY <1>0, <1>5 DEF CreateRunEvent, Present, TypeOK, StoreTypeOK
  <2>2. RowsExist(r)' /\ OrderFits(r)' /\ OneFits(r)' /\ WholeFits(r)'
    BY <1>0, <2>1 DEF RunInv, RowsExist, OrderFits, OneFits, WholeFits, Present, Stored
  <2>3. WritesFit(r)'
    BY <1>0, <1>3, <2>1 DEF Failures
  <2>4. StatusFits(r)' /\ PlanFits(r)' /\ LoopsFit(r)' /\ StepRowsFit(r)'
    BY <1>0, <2>1 DEF RunInv, StatusFits, PlanFits, LoopsFit, StepRowsFit, Present, Stored
  <2> QED BY <2>2, <2>3, <2>4 DEF RunInv
<1>6. CASE Head(out[r]) \in Failures(r) /\ UpdatePipelineRunStatus(r, "failed")
  <2>1. pc[r] = "failing"
    BY <1>6 DEF Failures
  <2>2. /\ UNCHANGED <<pipelines, steps, target, stepStatus, events>>
        /\ runStatus'[r] = IF runStatus[r] = "absent" THEN "absent" ELSE "failed"
    BY <1>0, <1>6, RunUpdateEffect
  <2>3. RowsExist(r)' /\ OrderFits(r)' /\ OneFits(r)' /\ WholeFits(r)'
    BY <1>0, <2>2 DEF RunInv, RowsExist, OrderFits, OneFits, WholeFits, Present, Stored
  <2>4. WritesFit(r)'
    BY <1>0, <1>3, <2>2 DEF Failures
  <2>5. StatusFits(r)' /\ PlanFits(r)' /\ LoopsFit(r)' /\ StepRowsFit(r)'
    BY <1>0, <2>1, <2>2 DEF RunInv, StatusFits, PlanFits, LoopsFit, StepRowsFit, Present, Stored,
                            Executing
  <2> QED BY <2>3, <2>4, <2>5 DEF RunInv
<1>7. ASSUME NEW k \in Keys, Head(out[r]) = StepUpdate(k, "failed"), Head(out[r]) \in Failures(r),
             UpdateStepRunStatus(r, k, "failed")
      PROVE  RunInv(r)'
  <2>1. /\ pc[r] = "failing" /\ k = job[r].step
        /\ stepStatus[r][job[r].step] \in {"absent", "running", "failed"}
    BY <1>7 DEF Failures, RunUpdate, StepUpdate
  <2>2. Present(r) => stepStatus[r][job[r].step] \in {"running", "failed"}
    BY <1>0, <2>1 DEF RunInv, StepRowsFit
  <2>3. /\ UNCHANGED <<pipelines, steps, target, runStatus, events>>
        /\ RowsExist(r)' /\ OrderFits(r)' /\ OneFits(r)' /\ WholeFits(r)'
        /\ \A l \in Keys : l # job[r].step => stepStatus'[r][l] = stepStatus[r][l]
    BY <1>7, <2>1, <2>2, StepUpdateKeepsRows DEF InHand
  <2>4. /\ stepStatus'[r][job[r].step] \in {"absent", "failed"}
        /\ Present(r) => stepStatus'[r][job[r].step] = "failed"
    BY <1>0, <1>7, <2>1, <2>2, StepUpdateEffect
  <2>5. WritesFit(r)'
    BY <1>0, <1>3, <2>1, <2>4 DEF Failures
  <2>6. StatusFits(r)' /\ PlanFits(r)' /\ LoopsFit(r)'
    BY <1>0, <2>3 DEF RunInv, StatusFits, PlanFits, LoopsFit, Present, Stored
  <2>7. StepRowsFit(r)'
    <3>1. job[r].step \in KeysOf(job[r].plan) \ job[r].completed /\ job[r].step \in job[r].queued
      BY <1>0, <2>1 DEF RunInv, LoopsFit, InHand
    <3> QED BY <1>0, <2>1, <2>3, <2>4, <3>1 DEF RunInv, StepRowsFit, Present
  <2> QED BY <2>3, <2>5, <2>6, <2>7 DEF RunInv
<1>8. \/ UNCHANGED tables
      \/ \E type \in EventTypes, k \in Keys : CreateRunEvent(r, type, k)
      \/ Head(out[r]) = RunUpdate("failed") /\ UpdatePipelineRunStatus(r, "failed")
      \/ \E k \in Keys : /\ Head(out[r]) = StepUpdate(k, "failed")
                          /\ UpdateStepRunStatus(r, k, "failed")
  BY <1>1, <1>2, ExecuteCases DEF Write
<1>9. /\ RunUpdate("failed") \notin EventInserts
      /\ \A k \in Keys : StepUpdate(k, "failed") \notin EventInserts
  <2>1. \A e \in EventInserts : e.table = "pipeline_run_events"
    BY DEF EventInserts, EventInsert
  <2>2. /\ RunUpdate("failed").table = "pipeline_runs"
        /\ \A k \in Keys : StepUpdate(k, "failed").table = "step_runs"
    BY DEF RunUpdate, StepUpdate
  <2> QED BY <2>1, <2>2
<1> QED BY <1>1, <1>4, <1>5, <1>6, <1>7, <1>8, <1>9

\* Every step of a run keeps its own invariant.
LEMMA RunStepKeeps ==
  ASSUME Inv, NEW r \in Runs, FindPipeline(r) \/ RunStep(r)
  PROVE  RunInv(r)'
BY FindPipelineKeeps, ReadStepsKeeps, CreateRunKeeps, SpawnKeeps, LoadKeeps, LoadStepsKeeps,
   StartRunKeeps, ScheduleKeeps, PickKeeps, BeginAttemptKeeps, ExecuteSucceedsKeeps,
   ExecuteFailsKeeps, CompleteStepKeeps, FinishRunKeeps, WriteKeeps DEF RunStep

--------------------------------------------------------------------------------
(* The steps that are not a run's.                                            *)

LEMMA CreatePipelineKeeps ==
  ASSUME Inv, NEW p \in Pipelines, CreatePipeline(p)
  PROVE  Inv'
<1>1. PICK definition \in Definitions : InsertPipeline(p, definition)
  BY DEF CreatePipeline
<1>2. definition \in Seq(Step)
  BY DefinitionsAssumption
<1>3. TypeOK /\ UNCHANGED <<control, executed, faults>>
  BY DEF Inv, CreatePipeline
<1>4. StoreTypeOK'
  BY <1>1, <1>2, <1>3 DEF TypeOK, StoreTypeOK, InsertPipeline
<1>5. TypeOK'
  BY <1>3, <1>4 DEF TypeOK, control, faults
<1>6. \A q \in Pipelines : Accepts(steps'[q])
  BY <1>1, <1>3 DEF Inv, TypeOK, StoreTypeOK, InsertPipeline
<1>7. ASSUME NEW r \in Runs
      PROVE  PipelineFound(r)' /\ RunInv(r)'
  <2>1. RunInv(r) /\ UNCHANGED <<pc, out, job, target, runStatus, stepStatus, events>>
    BY <1>1, <1>3 DEF Inv, control, InsertPipeline
  <2>4. PipelineFound(r)'
    BY <1>1, <1>3, <2>1 DEF Inv, PipelineFound, InsertPipeline, TypeOK, StoreTypeOK
  <2>2. CASE target[r] # p
    <3>1. pipelines'[target[r]] = pipelines[target[r]] /\ steps'[target[r]] = steps[target[r]]
      BY <1>1, <1>3, <2>2 DEF TypeOK, StoreTypeOK, InsertPipeline
    <3>2. Failures(r)' = Failures(r)
      BY <2>1 DEF Failures
    <3>3. RowsExist(r)' /\ StatusFits(r)' /\ OrderFits(r)' /\ OneFits(r)' /\ WholeFits(r)'
      BY <2>1, <3>1 DEF RunInv, RowsExist, StatusFits, OrderFits, OneFits, WholeFits, Present, Stored
    <3>4. PlanFits(r)' /\ LoopsFit(r)' /\ StepRowsFit(r)'
      BY <2>1, <3>1 DEF RunInv, PlanFits, LoopsFit, StepRowsFit, Present, Stored
    <3>5. WritesFit(r)'
      BY <2>1, <3>2 DEF RunInv, WritesFit, EventInserts
    <3> QED BY <2>4, <3>3, <3>4, <3>5 DEF RunInv
  <2>3. CASE target[r] = p
    <3>1. /\ ~ Stored(r) /\ ~ Present(r) /\ ~ Present(r)'
          /\ pc'[r] \in {"idle", "rejected"} /\ out'[r] = out[r]
          /\ stepStatus'[r] = NoStepRuns /\ events'[r] = <<>>
      BY <1>1, <2>1, <2>3 DEF InsertPipeline, Stored, Present, RunInv, RowsExist, Inv, PipelineFound
    <3>2. RowsExist(r)' /\ OrderFits(r)' /\ OneFits(r)' /\ WholeFits(r)'
      BY <3>1 DEF RowsExist, OrderFits, OneFits, WholeFits, Present, NoStepRuns
    <3>3. StatusFits(r)' /\ PlanFits(r)' /\ LoopsFit(r)' /\ StepRowsFit(r)'
      BY <3>1 DEF StatusFits, PlanFits, LoopsFit, StepRowsFit, Present, Executing, InHand
    <3>4. Failures(r)' = Failures(r)
      BY <2>1 DEF Failures
    <3>5. WritesFit(r)'
      BY <2>1, <3>4 DEF RunInv, WritesFit, EventInserts
    <3> QED BY <2>4, <3>2, <3>3, <3>5 DEF RunInv
  <2> QED BY <2>2, <2>3
<1> QED BY <1>5, <1>6, <1>7 DEF Inv

LEMMA DeletePipelineKeeps ==
  ASSUME Inv, NEW p \in Pipelines, DeletePipeline(p)
  PROVE  Inv'
<1>1. TypeOK /\ RemovePipeline(p) /\ UNCHANGED <<control, executed, faults>>
  BY DEF Inv, DeletePipeline
<1>2. StoreTypeOK'
  <2>1. pipelines' \in [Pipelines -> {"unused", "stored", "deleted"}]
    BY <1>1 DEF TypeOK, StoreTypeOK, RemovePipeline
  <2>2. steps' \in [Pipelines -> Seq(Step)]
    BY <1>1, EmptySeq DEF TypeOK, StoreTypeOK, RemovePipeline
  <2>3. /\ runStatus' \in [Runs -> RunStatuses \cup {"absent"}]
        /\ stepStatus' \in [Runs -> [Keys -> RunStatuses \cup {"absent"}]]
    BY <1>1 DEF TypeOK, StoreTypeOK, RemovePipeline, NoStepRuns
  <2>4. events' \in [Runs -> Seq(Event)]
    BY <1>1, EmptySeq DEF TypeOK, StoreTypeOK, RemovePipeline
  <2> QED BY <1>1, <2>1, <2>2, <2>3, <2>4 DEF TypeOK, StoreTypeOK, RemovePipeline
<1>3. TypeOK'
  BY <1>1, <1>2 DEF TypeOK, control, faults
<1>4. \A q \in Pipelines : Accepts(steps'[q])
  BY <1>1, EmptyAccepted DEF Inv, TypeOK, StoreTypeOK, RemovePipeline
<1>5. ASSUME NEW r \in Runs
      PROVE  PipelineFound(r)' /\ RunInv(r)'
  <2>1. RunInv(r) /\ UNCHANGED <<pc, out, job, target>>
    BY <1>1 DEF Inv, control, RemovePipeline
  <2>2. CASE target[r] # p
    <3>1. /\ pipelines'[target[r]] = pipelines[target[r]] /\ steps'[target[r]] = steps[target[r]]
          /\ runStatus'[r] = runStatus[r] /\ stepStatus'[r] = stepStatus[r]
          /\ events'[r] = events[r]
      BY <1>1, <2>2 DEF TypeOK, StoreTypeOK, RemovePipeline
    <3>2. Failures(r)' = Failures(r)
      BY <2>1, <3>1 DEF Failures
    <3>3. RowsExist(r)' /\ StatusFits(r)' /\ OrderFits(r)' /\ OneFits(r)' /\ WholeFits(r)'
      BY <2>1, <3>1 DEF RunInv, RowsExist, StatusFits, OrderFits, OneFits, WholeFits, Present, Stored
    <3>4. PlanFits(r)' /\ LoopsFit(r)' /\ StepRowsFit(r)'
      BY <2>1, <3>1 DEF RunInv, PlanFits, LoopsFit, StepRowsFit, Present, Stored
    <3>5. WritesFit(r)'
      BY <2>1, <3>2 DEF RunInv, WritesFit, EventInserts
    <3> QED BY <2>1, <3>1, <3>3, <3>4, <3>5 DEF RunInv, Inv, PipelineFound
  <2>3. CASE target[r] = p
    <3>1. /\ pipelines'[target[r]] = "deleted" /\ runStatus'[r] = "absent"
          /\ stepStatus'[r] = NoStepRuns /\ events'[r] = <<>>
      BY <1>1, <2>3 DEF TypeOK, StoreTypeOK, RemovePipeline
    <3>2. RowsExist(r)' /\ OrderFits(r)' /\ OneFits(r)' /\ WholeFits(r)'
      BY <3>1 DEF RowsExist, OrderFits, OneFits, WholeFits, Present, NoStepRuns
    <3>3. StatusFits(r)' /\ PlanFits(r)' /\ LoopsFit(r)' /\ StepRowsFit(r)'
      BY <2>1, <3>1 DEF RunInv, StatusFits, PlanFits, LoopsFit, StepRowsFit, Present, Stored
    <3>4. Failures(r) \subseteq Failures(r)'
      <4>1. job[r].step \in Keys
        BY <1>1 DEF TypeOK, Job
      <4> QED BY <2>1, <3>1, <4>1 DEF Failures, NoStepRuns
    <3>5. WritesFit(r)'
      <4>1. out[r] \in Seq(EventInserts \cup Failures(r))
        BY <2>1 DEF RunInv, WritesFit
      <4>2. out[r] \in Seq(EventInserts \cup Failures(r)')
        BY <3>4, <4>1, SeqMonotonic
      <4> QED BY <2>1, <4>2 DEF WritesFit, EventInserts
    <3>6. PipelineFound(r)'
      BY <2>1, <3>1 DEF PipelineFound
    <3> QED BY <3>2, <3>3, <3>5, <3>6 DEF RunInv
  <2> QED BY <2>2, <2>3
<1> QED BY <1>3, <1>4, <1>5 DEF Inv

LEMMA CrashKeeps ==
  ASSUME Inv, Crash
  PROVE  Inv'
<1>1. TypeOK /\ UNCHANGED <<tables, job, executed, dbErrors>>
  BY DEF Inv, Crash
<1>2. TypeOK'
  <2>1. pc' \in [Runs -> Pcs]
    BY <1>1 DEF TypeOK, Crash, Pcs, EndPcs
  <2>2. out' \in [Runs -> Seq(EventInserts \cup FailureUpdates)]
    BY EmptySeq DEF Crash
  <2>3. crashes' \in 0 .. MaxCrashes
    BY <1>1, BoundsAssumption DEF TypeOK, Crash
  <2> QED BY <1>1, <2>1, <2>2, <2>3 DEF TypeOK, StoreTypeOK, tables
<1>3. \A p \in Pipelines : Accepts(steps'[p])
  BY <1>1 DEF Inv, tables
<1>4. ASSUME NEW r \in Runs
      PROVE  PipelineFound(r)' /\ RunInv(r)'
  <2>1. RunInv(r) /\ PipelineFound(r) /\ out'[r] = <<>>
    BY DEF Inv, Crash
  <2>2. \/ pc'[r] = "lost" /\ pc[r] \notin {"idle", "rejected"}
        \/ pc'[r] = pc[r]
    <3>1. pc'[r] = IF UnderWay(r) THEN "lost" ELSE pc[r]
      BY DEF Crash
    <3> QED BY <3>1 DEF UnderWay
  <2>3. RowsExist(r)' /\ OrderFits(r)' /\ OneFits(r)' /\ WholeFits(r)'
    BY <1>1, <2>1, TablesSame
  <2>4. PipelineFound(r)'
    BY <1>1, <2>1, <2>2 DEF PipelineFound, tables
  <2>5. StatusFits(r)' /\ PlanFits(r)'
    BY <1>1, <2>1, <2>2 DEF RunInv, StatusFits, PlanFits, Present, Stored, Executing, tables
  <2>6. LoopsFit(r)' /\ StepRowsFit(r)'
    BY <1>1, <2>1, <2>2 DEF RunInv, LoopsFit, StepRowsFit, Present, Executing, InHand, tables
  <2>7. WritesFit(r)'
    BY <2>1, EmptySeq DEF WritesFit
  <2> QED BY <2>3, <2>4, <2>5, <2>6, <2>7 DEF RunInv
<1> QED BY <1>2, <1>3, <1>4 DEF Inv

--------------------------------------------------------------------------------
(* The invariant.                                                             *)

\* A run that is under way has found its pipeline, and pipelines stay.
LEMMA RunStepKeepsPipelines ==
  ASSUME Inv, NEW r \in Runs, FindPipeline(r) \/ RunStep(r)
  PROVE  PipelineFound(r)'
<1>1. TypeOK /\ Local(r) /\ PipelineFound(r)
  BY RunStepIsLocal DEF Inv
<1>2. UNCHANGED <<pipelines, target>>
  <2>1. ASSUME NEW status, UpdatePipelineRunStatus(r, status)
        PROVE  UNCHANGED <<pipelines, target>>
    BY <2>1 DEF UpdatePipelineRunStatus
  <2>2. ASSUME NEW k, NEW status, UpdateStepRunStatus(r, k, status)
        PROVE  UNCHANGED <<pipelines, target>>
    BY <2>2 DEF UpdateStepRunStatus
  <2>3. ASSUME NEW k, NEW type, CreateRunEvent(r, type, k)
        PROVE  UNCHANGED <<pipelines, target>>
    BY <2>3 DEF CreateRunEvent
  <2>4. ASSUME NEW sq, InsertRun(r, sq)
        PROVE  UNCHANGED <<pipelines, target>>
    BY <2>4 DEF InsertRun
  <2> QED BY <1>1, <2>1, <2>2, <2>3, <2>4 DEF Local, Statement, tables
<1>3. CASE FindPipeline(r)
  <2>1. pc'[r] = "rejected" \/ Stored(r)
    BY <1>1, <1>3 DEF TypeOK, FindPipeline, Goto
  <2> QED BY <1>2, <2>1 DEF PipelineFound, Stored
<1>4. CASE RunStep(r)
  <2>1. pc[r] # "idle" \/ pc'[r] = pc[r]
    BY <1>4 DEF RunStep, ReadSteps, CreateRun, Spawn, Load, LoadSteps, StartRun, Schedule, Pick,
                BeginAttempt, ExecuteSucceeds, ExecuteFails, CompleteStep, FinishRun, Write, At
  <2>2. pc[r] # "rejected" \/ pc'[r] = pc[r]
    BY <1>4 DEF RunStep, ReadSteps, CreateRun, Spawn, Load, LoadSteps, StartRun, Schedule, Pick,
                BeginAttempt, ExecuteSucceeds, ExecuteFails, CompleteStep, FinishRun, Write, At
  <2> QED BY <1>1, <1>2, <2>1, <2>2 DEF PipelineFound
<1> QED BY <1>3, <1>4

LEMMA RunStepKeepsInv ==
  ASSUME Inv, NEW r \in Runs, FindPipeline(r) \/ RunStep(r)
  PROVE  Inv'
<1>1. TypeOK /\ Local(r)
  BY RunStepIsLocal DEF Inv
<1>2. TypeOK'
  BY <1>1, LocalType
<1>3. UNCHANGED steps
  <2>1. ASSUME NEW status, UpdatePipelineRunStatus(r, status)
        PROVE  UNCHANGED steps
    BY <2>1 DEF UpdatePipelineRunStatus
  <2>2. ASSUME NEW k, NEW status, UpdateStepRunStatus(r, k, status)
        PROVE  UNCHANGED steps
    BY <2>2 DEF UpdateStepRunStatus
  <2>3. ASSUME NEW k, NEW type, CreateRunEvent(r, type, k)
        PROVE  UNCHANGED steps
    BY <2>3 DEF CreateRunEvent
  <2>4. ASSUME NEW sq, InsertRun(r, sq)
        PROVE  UNCHANGED steps
    BY <2>4 DEF InsertRun
  <2> QED BY <1>1, <2>1, <2>2, <2>3, <2>4 DEF Local, Statement, tables
<1>4. \A p \in Pipelines : Accepts(steps'[p])
  BY <1>3 DEF Inv
<1>5. ASSUME NEW s \in Runs
      PROVE  PipelineFound(s)' /\ RunInv(s)'
  <2>1. CASE s = r
    BY <2>1, RunStepKeeps, RunStepKeepsPipelines
  <2>2. CASE s # r
    <3>1. Untouched(s)
      BY <1>1, <2>2, LocalFrame
    <3>2. RunInv(s) /\ PipelineFound(s)
      BY DEF Inv
    <3>3. RunInv(s)'
      BY <3>1, <3>2, UntouchedKeeps
    <3>4. PipelineFound(s)'
      BY <3>1, <3>2 DEF Untouched, PipelineFound
    <3> QED BY <3>3, <3>4
  <2> QED BY <2>1, <2>2
<1> QED BY <1>2, <1>4, <1>5 DEF Inv

LEMMA InvInit ==
  ASSUME Init
  PROVE  Inv
<1>1. TypeOK
  <2>1. StoreTypeOK
    BY EmptySeq DEF Init, StoreInit, StoreTypeOK, NoStepRuns
  <2>2. pc \in [Runs -> Pcs]
    BY DEF Init, Pcs, HandlerPcs
  <2>3. NoJob \in Job
    BY KeysAssumption, EmptySeq DEF NoJob, Job
  <2>4. job \in [Runs -> Job] /\ executed \in [Runs -> SUBSET Keys]
    BY <2>3 DEF Init
  <2>5. out \in [Runs -> Seq(EventInserts \cup FailureUpdates)]
    BY EmptySeq DEF Init
  <2>6. dbErrors \in [Runs -> 0 .. MaxDbErrors] /\ crashes \in 0 .. MaxCrashes
    BY BoundsAssumption DEF Init
  <2> QED BY <2>1, <2>2, <2>4, <2>5, <2>6 DEF TypeOK
<1>2. \A p \in Pipelines : Accepts(steps[p])
  BY EmptyAccepted DEF Init, StoreInit
<1>3. ASSUME NEW r \in Runs
      PROVE  PipelineFound(r) /\ RunInv(r)
  <2>1. /\ pc[r] = "idle" /\ out[r] = <<>> /\ runStatus[r] = "absent"
        /\ stepStatus[r] = NoStepRuns /\ events[r] = <<>>
    BY DEF Init, StoreInit
  <2>2. RowsExist(r) /\ OrderFits(r) /\ OneFits(r) /\ WholeFits(r)
    BY <2>1 DEF RowsExist, OrderFits, OneFits, WholeFits, Present, NoStepRuns
  <2>3. StatusFits(r) /\ PlanFits(r) /\ LoopsFit(r) /\ StepRowsFit(r)
    BY <2>1 DEF StatusFits, PlanFits, LoopsFit, StepRowsFit, Present, Executing, InHand
  <2>4. WritesFit(r)
    BY <2>1, EmptySeq DEF WritesFit
  <2>5. PipelineFound(r)
    BY <2>1 DEF PipelineFound
  <2> QED BY <2>2, <2>3, <2>4, <2>5 DEF RunInv
<1> QED BY <1>1, <1>2, <1>3 DEF Inv

LEMMA StutterKeeps ==
  ASSUME Inv, UNCHANGED vars
  PROVE  Inv'
<1>1. UNCHANGED <<tables, pc, out, job, executed, dbErrors, crashes>>
  BY DEF vars, control, faults
<1>2. TypeOK'
  BY <1>1 DEF Inv, TypeOK, StoreTypeOK, tables
<1>3. \A p \in Pipelines : Accepts(steps'[p])
  BY <1>1 DEF Inv, tables
<1>4. ASSUME NEW r \in Runs
      PROVE  PipelineFound(r)' /\ RunInv(r)'
  <2>1. RunInv(r) /\ PipelineFound(r)
    BY DEF Inv
  <2>2. Untouched(r)
    BY <1>1 DEF Untouched, tables
  <2>3. RunInv(r)'
    BY <2>1, <2>2, UntouchedKeeps
  <2>4. PipelineFound(r)'
    BY <2>1, <2>2 DEF Untouched, PipelineFound
  <2> QED BY <2>3, <2>4
<1> QED BY <1>2, <1>3, <1>4 DEF Inv

\* Every step of the system preserves the invariant.
LEMMA InvStep ==
  ASSUME Inv, [Next]_vars
  PROVE  Inv'
<1>1. ASSUME NEW p \in Pipelines, CreatePipeline(p)
      PROVE  Inv'
  BY <1>1, CreatePipelineKeeps
<1>2. ASSUME NEW p \in Pipelines, DeletePipeline(p)
      PROVE  Inv'
  BY <1>2, DeletePipelineKeeps
<1>3. ASSUME NEW r \in Runs, FindPipeline(r) \/ RunStep(r)
      PROVE  Inv'
  BY <1>3, RunStepKeepsInv
<1>4. CASE Crash
  BY <1>4, CrashKeeps
<1>5. CASE UNCHANGED vars
  BY <1>5, StutterKeeps
<1> QED BY <1>1, <1>2, <1>3, <1>4, <1>5 DEF Next

--------------------------------------------------------------------------------
(* The theorems.                                                              *)

(* Whatever fails and whenever the process dies, the locals of every run, its *)
(* rows and its pending writes agree as SchedulerInvariant says.              *)
THEOREM Consistency == Spec => []Inv
<1>1. Init => Inv
  BY InvInit
<1>2. Inv /\ [Next]_vars => Inv'
  BY InvStep
<1> QED BY <1>1, <1>2, PTL DEF Spec

(* The values of the tables and of the locals of RunPipeline and ExecuteRun   *)
(* stay in their types: in particular the events and the late updates that    *)
(* wait in out are only those the failure paths and emitEvent issue.          *)
THEOREM TypeCorrect == Spec => []TypeOK
<1>1. Inv => TypeOK
  BY DEF Inv
<1> QED BY <1>1, Consistency, PTL

(* ExecuteRun touches a step only after all of its dependencies have been     *)
(* recorded as completed, for every accepted definition and any number of     *)
(* runs, faults, deletions and crashes.                                       *)
THEOREM StepsRespectDependencies == Spec => []DependencyOrder
<1>1. Inv => DependencyOrder
  BY DEF Inv, RunInv, OrderFits, DependencyOrder
<1> QED BY <1>1, Consistency, PTL

(* At most one step of a run is running or failed.                            *)
THEOREM StepsAreSequential == Spec => []OneStepAtATime
<1>1. Inv => OneStepAtATime
  BY DEF Inv, RunInv, OneFits, OneStepAtATime
<1> QED BY <1>1, Consistency, PTL

(* A run that is recorded as completed has completed all of its steps.        *)
THEOREM CompletionIsWhole == Spec => []CompletedRunIsWhole
<1>1. Inv => CompletedRunIsWhole
  BY DEF Inv, RunInv, WholeFits, CompletedRunIsWhole
<1> QED BY <1>1, Consistency, PTL

(* The "no schedulable steps remaining" path of ExecuteRun is dead code: the  *)
(* builder's acyclicity check leaves every unfinished run a ready step.       *)
THEOREM SchedulerNeverStuck == Spec => []NeverStuck
<1>1. Inv => NeverStuck
  BY ReadyIsNotEmpty DEF NeverStuck
<1> QED BY <1>1, Consistency, PTL

(* A deleted pipeline leaves no rows, although its runs may still be          *)
(* executing and writing.                                                     *)
THEOREM DeletionIsComplete == Spec => []DeletedLeavesNothing
<1>1. Inv => DeletedLeavesNothing
  BY DEF Inv, RunInv, RowsExist, Present, DeletedLeavesNothing
<1> QED BY <1>1, Consistency, PTL
================================================================================

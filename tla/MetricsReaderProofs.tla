-------------------------- MODULE MetricsReaderProofs ---------------------------
(******************************************************************************)
(* How far the numbers of the metrics fit each other, although each is        *)
(* counted by a statement of its own.  What a number has counted cannot be    *)
(* found again in the rows, which have moved on; MetricsInv keeps instead     *)
(* what it says of the rows as they are now.                                  *)
(******************************************************************************)
EXTENDS MetricsReader, TimelineProofs

\* Where the request is after runs_total has been counted.
Counting == {"running", "completed", "failed", "stepsFailed", "list", "done"}

MetricsTypes ==
  /\ counting \in Counting \cup {"idle", "total"}
  /\ metrics \in [total: Nat, running: Nat, completed: Nat, failed: Nat, stepsFailed: Nat]

PresentRuns == {r \in Runs : Present(r)}

\* The runs that may still be counted as something else than completed.
Unfinished(S) == {r \in RunsIn(S) : runStatus[r] # "completed"}

(* As long as no run is created, those that are still to be counted are among *)
(* those of the total, beside the ones that have been counted as completed.   *)
CountsFit ==
  ~ createdSince =>
    /\ counting \in {"running", "completed"} => Cardinality(RunsIn(scope)) <= metrics.total
    /\ counting = "failed" =>
         metrics.completed + Cardinality(Unfinished(scope)) <= metrics.total
    /\ counting \in {"stepsFailed", "list", "done"} =>
         metrics.completed + metrics.failed <= metrics.total
    /\ counting \in Counting \ {"running"} => metrics.running <= metrics.total

\* No statement of a run in question has failed.
Unharmed(S) == \A r \in RunsIn(S) : dbErrors[r] = 0

(* As long as no pipeline is deleted, the failures that have been counted are *)
(* among those that are there.                                                *)
FailuresFit ==
  ~ deletedSince =>
    /\ counting = "stepsFailed" => metrics.failed <= CountRuns(scope, "failed")
    /\ counting \in {"list", "done"} /\ Unharmed(scope) => metrics.failed <= metrics.stepsFailed
    /\ counting = "list" => metrics.stepsFailed <= Cardinality(FailedSteps(scope))

MetricsInv == MetricsTypes /\ CountsFit /\ FailuresFit /\ FailuresAreListed

\* The invariants of the scheduler that the numbers depend on.
Beneath == Inv /\ OrderInv /\ ExhaustionInv /\ IsFiniteSet(PresentRuns)

--------------------------------------------------------------------------------
(* The reader beside the scheduler.                                           *)

LEMMA MetricsTakesSchedulerSteps ==
  [MetricsNext]_metricsVars => [Next]_vars
BY DEF MetricsNext, metricsVars, SystemStep, AskMetrics, AskPipelineMetrics, AskAbout, CountTotal,
       CountRunning, CountCompleted, CountFailed, CountStepsFailed, Count, ListFailed, Answer

\* A step of the system is of one run, so there are only ever finitely many.
LEMMA RunsStayFinite ==
  ASSUME Inv, IsFiniteSet(PresentRuns), [Next]_vars
  PROVE  IsFiniteSet(PresentRuns')
<1>1. ASSUME NEW s, \A r \in Runs : r # s /\ Present(r)' => Present(r)
      PROVE  IsFiniteSet(PresentRuns')
  <2>1. IsFiniteSet(PresentRuns \cup {s})
    BY FS_AddElement
  <2>2. PresentRuns' \in SUBSET (PresentRuns \cup {s})
    BY <1>1 DEF PresentRuns
  <2> QED BY <2>1, <2>2, FS_Subset
<1>2. ASSUME NEW p \in Pipelines, CreatePipeline(p)
      PROVE  IsFiniteSet(PresentRuns')
  BY <1>1, <1>2, CreatePipelineEffect DEF Present
<1>3. ASSUME NEW p \in Pipelines, DeletePipeline(p)
      PROVE  IsFiniteSet(PresentRuns')
  BY <1>1, <1>3, DeletePipelineEffect DEF Present
<1>4. ASSUME NEW s \in Runs, FindPipeline(s) \/ RunStep(s)
      PROVE  IsFiniteSet(PresentRuns')
  <2>1. \A r \in Runs : r # s => Untouched(r)
    BY <1>4, RunStepIsLocal, LocalFrame DEF Inv
  <2> QED BY <1>1, <2>1 DEF Untouched, Present
<1>5. CASE Crash \/ UNCHANGED vars
  BY <1>1, <1>5 DEF Crash, vars, tables, Present
<1> QED BY <1>2, <1>3, <1>4, <1>5 DEF Next

LEMMA BeneathInit == MetricsInit => Beneath
<1>1. MetricsInit => PresentRuns = {}
  BY DEF MetricsInit, Init, StoreInit, PresentRuns, Present
<1> QED BY <1>1, InvInit, OrderInit, ExhaustionInit, FS_EmptySet DEF MetricsInit, Beneath

LEMMA BeneathStep ==
  ASSUME Beneath, [MetricsNext]_metricsVars
  PROVE  Beneath'
BY InvStep, OrderStep, ExhaustionStep, RunsStayFinite, MetricsTakesSchedulerSteps DEF Beneath

--------------------------------------------------------------------------------
(* The sets that are counted.                                                 *)

\* At most one step of a run has failed, so failed steps are counted by runs.
LEMMA CountedSets ==
  ASSUME Beneath, NEW S
  PROVE  /\ IsFiniteSet(RunsIn(S)) /\ IsFiniteSet(FailedSteps(S))
         /\ Cardinality(RunsIn(S)) \in Nat /\ Cardinality(FailedSteps(S)) \in Nat
         /\ \A T \in SUBSET RunsIn(S) :
              /\ IsFiniteSet(T) /\ Cardinality(T) \in Nat
              /\ Cardinality(T) <= Cardinality(RunsIn(S))
<1>1. RunsIn(S) \in SUBSET PresentRuns
  BY DEF RunsIn, PresentRuns, Present
<1>2. IsFiniteSet(RunsIn(S))
  BY <1>1, FS_Subset DEF Beneath
<1>3. IsFiniteSet(FailedSteps(S))
  <2> DEFINE run == [rk \in FailedSteps(S) |-> rk[1]]
  <2>1. run \in [FailedSteps(S) -> RunsIn(S)]
    BY DEF FailedSteps
  <2>2. ASSUME NEW x \in FailedSteps(S), NEW y \in FailedSteps(S), run[x] = run[y]
        PROVE  x = y
    <3>1. /\ x = <<x[1], x[2]>> /\ y = <<y[1], y[2]>> /\ x[1] = y[1]
          /\ x[1] \in RunsIn(S) /\ x[2] \in Keys /\ y[2] \in Keys
          /\ stepStatus[x[1]][x[2]] = "failed" /\ stepStatus[y[1]][y[2]] = "failed"
      BY <2>2 DEF FailedSteps
    <3>2. OneFits(x[1])
      BY <3>1 DEF RunsIn, Beneath, Inv, RunInv
    <3> QED BY <3>1, <3>2 DEF OneFits
  <2>3. run \in Injection(FailedSteps(S), RunsIn(S))
    BY <2>1, <2>2 DEF Injection, IsInjective
  <2> HIDE DEF run
  <2> QED BY <1>2, <2>3, FS_Injection
<1> QED BY <1>2, <1>3, FS_Subset, FS_CardinalityType

SetsAreFinite == \A S : IsFiniteSet(RunsIn(S)) /\ IsFiniteSet(FailedSteps(S))

LEMMA CountedSetsAreFinite == Beneath => SetsAreFinite
BY CountedSets DEF SetsAreFinite

\* As long as no run is created, the sets of runs that are counted shrink.
LEMMA RunsShrink ==
  ASSUME Beneath, [Next]_vars, NEW S,
         ~ \E r \in Runs : runStatus[r] = "absent" /\ runStatus'[r] # "absent"
  PROVE  RunsIn(S)' \subseteq RunsIn(S) /\ Unfinished(S)' \subseteq Unfinished(S)
<1>1. ASSUME NEW r \in Runs, r \in RunsIn(S)'
      PROVE  /\ r \in RunsIn(S)
             /\ runStatus[r] = "completed" => runStatus'[r] = "completed"
  <2>1. r \in RunsIn(S) /\ runStatus'[r] # "absent"
    BY <1>1, RowsMove DEF RunsIn, Beneath
  <2>2. Kept(r)
    BY <2>1, RowsMove DEF RunsIn, Beneath, Deleted, Created, Present
  <2> QED BY <2>1, <2>2 DEF Kept, RunMovesOn, Terminal
<1>2. RunsIn(S)' \subseteq Runs
  BY DEF RunsIn
<1> QED BY <1>1, <1>2 DEF Unfinished

\* As long as no pipeline is deleted, the sets of failures grow.
LEMMA FailuresGrow ==
  ASSUME Beneath, [Next]_vars, NEW S,
         ~ \E p \in Pipelines : pipelines[p] = "stored" /\ pipelines'[p] # "stored"
  PROVE  /\ {r \in RunsIn(S) : runStatus[r] = "failed"} \subseteq
              {r \in RunsIn(S) : runStatus[r] = "failed"}'
         /\ FailedSteps(S) \subseteq FailedSteps(S)'
         /\ RunsIn(S) \subseteq RunsIn(S)'
<1>1. ASSUME NEW r \in RunsIn(S)
      PROVE  /\ r \in RunsIn(S)'
             /\ runStatus[r] = "failed" => runStatus'[r] = "failed"
             /\ \A k \in Keys : stepStatus[r][k] = "failed" => stepStatus'[r][k] = "failed"
  <2>1. r \in Runs /\ target[r] \in S /\ Present(r) /\ target' = target
    BY RowsMove DEF RunsIn, Present, Beneath
  <2>2. target[r] \in Pipelines /\ pipelines[target[r]] = "stored"
    BY <2>1 DEF Beneath, Inv, RunInv, RowsExist, Stored, TypeOK, StoreTypeOK
  <2>3. ~ Deleted(r) /\ ~ Created(r)
    BY <2>1, <2>2 DEF Deleted, Created
  <2>4. Kept(r)
    BY <2>1, <2>3, RowsMove DEF Beneath
  <2>5. runStatus'[r] # "absent"
    BY <2>1, <2>4 DEF Kept, RunMovesOn, Terminal, Present
  <2> QED BY <2>1, <2>4, <2>5 DEF RunsIn, Kept, StepMovesOn, RunMovesOn
<1>2. FailedSteps(S) \subseteq FailedSteps(S)'
  BY <1>1 DEF FailedSteps
<1> QED BY <1>1, <1>2

\* While none of their statements has failed, each failed run has a failed step.
LEMMA FailedRunsHaveFailedSteps ==
  ASSUME Beneath, NEW S, Unharmed(S)
  PROVE  CountRuns(S, "failed") <= Cardinality(FailedSteps(S))
<1> DEFINE failedRuns == {r \in RunsIn(S) : runStatus[r] = "failed"}
           culprit == [r \in failedRuns |-> <<r, job[r].step>>]
<1>1. ASSUME NEW r \in failedRuns
      PROVE  <<r, job[r].step>> \in FailedSteps(S)
  <2>1. r \in Runs /\ r \in RunsIn(S) /\ Present(r)
    BY DEF RunsIn, Present
  <2>2. job[r].step \in Keys
    BY <2>1 DEF Beneath, Inv, TypeOK, Job
  <2>3. stepStatus[r][job[r].step] = "failed"
    BY <2>1 DEF Beneath, ExhaustionInv, ExhaustionFits, Unharmed
  <2> QED BY <2>1, <2>2, <2>3 DEF FailedSteps
<1>2. culprit \in Injection(failedRuns, FailedSteps(S))
  BY <1>1 DEF Injection, IsInjective
<1> HIDE DEF culprit, failedRuns
<1>3. Cardinality(failedRuns) <= Cardinality(FailedSteps(S))
  BY <1>2, CountedSets, FS_Injection
<1> QED BY <1>3 DEF failedRuns, CountRuns

\* A list that is not full tells of every failed step.
LEMMA ListIsComplete ==
  ASSUME Beneath, NEW S, NEW T \in TopFailed(S), Cardinality(T) < TopLimit,
         NEW list, list = [k \in T |-> FailuresOf(S, k)]
  PROVE  /\ Cardinality(FailedSteps(S)) <=
              Cardinality(UNION {{k} \X (1 .. list[k]) : k \in DOMAIN list})
         /\ Cardinality(UNION {{k} \X (1 .. list[k]) : k \in DOMAIN list}) \in Nat
<1> DEFINE failing == {k \in Keys : FailuresOf(S, k) > 0}
           having(k) == {r \in RunsIn(S) : stepStatus[r][k] = "failed"}
           told == UNION {{k} \X (1 .. list[k]) : k \in DOMAIN list}
           all == FailedSteps(S)
<1>0. DOMAIN list = T /\ \A k \in T : list[k] = FailuresOf(S, k)
  OBVIOUS
<1>1. IsFiniteSet(all) /\ Cardinality(all) \in Nat
  BY CountedSets
<1>2. ASSUME NEW k
      PROVE  /\ FailuresOf(S, k) = Cardinality(having(k)) /\ IsFiniteSet(having(k))
             /\ FailuresOf(S, k) \in Nat
             /\ having(k) # {} => FailuresOf(S, k) > 0
  <2>1. having(k) \in SUBSET RunsIn(S)
    OBVIOUS
  <2>2. IsFiniteSet(having(k)) /\ Cardinality(having(k)) \in Nat
    BY <2>1, CountedSets
  <2>3. FailuresOf(S, k) = Cardinality(having(k))
    BY DEF FailuresOf
  <2> HIDE DEF having
  <2> QED BY <2>2, <2>3, FS_EmptySet
<1>3. T = failing
  <2>1. T \in SUBSET failing /\ (T # failing => Cardinality(T) = TopLimit)
    BY DEF TopFailed
  <2> QED BY <2>1, TopLimitAssumption
<1>4. IsFiniteSet(T)
  <2> DEFINE step == [rk \in all |-> rk[2]]
  <2>1. \A rk \in all : rk[2] \in failing
    BY <1>2 DEF FailedSteps
  <2>2. ASSUME NEW k \in failing
        PROVE  \E rk \in all : rk[2] = k
    <3>1. having(k) # {}
      BY <1>2, FS_EmptySet
    <3>2. PICK r \in having(k) : TRUE
      BY <3>1
    <3>3. <<r, k>> \in all
      BY <3>2 DEF FailedSteps
    <3> QED BY <3>3
  <2> HIDE DEF failing, all
  <2>3. step \in Surjection(all, failing)
    BY <2>1, <2>2 DEF Surjection
  <2> QED BY <1>1, <1>3, <2>3, FS_Surjection
<1>5. IsFiniteSet(told)
  <2> DEFINE part == [k \in T |-> {k} \X (1 .. list[k])]
             parts == {{k} \X (1 .. list[k]) : k \in T}
  <2>1. part \in Surjection(T, parts)
    BY DEF Surjection
  <2>2. ASSUME NEW k \in T
        PROVE  IsFiniteSet({k} \X (1 .. list[k]))
    <3>1. FailuresOf(S, k) \in Nat
      BY ONLY <1>2
    <3>2. list[k] = FailuresOf(S, k)
      BY ONLY <1>0, <2>2
    <3>3. IsFiniteSet({k})
      BY FS_Singleton
    <3>4. IsFiniteSet(1 .. list[k])
      BY ONLY <3>1, <3>2, FS_Interval
    <3> QED BY ONLY <3>3, <3>4, FS_Product
  <2>3. \A P \in parts : IsFiniteSet(P)
    BY <2>2
  <2>4. told = UNION parts
    BY <1>0
  <2> HIDE DEF part, parts, told
  <2> QED BY <1>4, <2>1, <2>3, <2>4, FS_Surjection, FS_UNION
<1>6. \A k \in T : \E f : f \in Bijection(having(k), 1 .. list[k])
  <2> SUFFICES ASSUME NEW k \in T
               PROVE  \E f : f \in Bijection(having(k), 1 .. list[k])
    OBVIOUS
  <2>1. list[k] = Cardinality(having(k)) /\ IsFiniteSet(having(k)) /\ list[k] \in Nat
    BY <1>0, <1>2
  <2>2. IsFiniteSet(1 .. list[k]) /\ Cardinality(1 .. list[k]) = list[k]
    BY <2>1, FS_Interval
  <2> HIDE DEF having
  <2> QED BY <2>1, <2>2, FS_SameCardinalityBij DEF ExistsBijection
<1> DEFINE number == [k \in T |-> CHOOSE f : f \in Bijection(having(k), 1 .. list[k])]
           place == [rk \in all |-> <<rk[2], number[rk[2]][rk[1]]>>]
<1>7. \A k \in T : number[k] \in Bijection(having(k), 1 .. list[k])
  BY <1>6
<1>8. ASSUME NEW rk \in all
      PROVE  rk = <<rk[1], rk[2]>> /\ rk[2] \in T /\ rk[1] \in having(rk[2])
  <2>1. /\ rk = <<rk[1], rk[2]>> /\ rk[1] \in RunsIn(S) /\ rk[2] \in Keys
        /\ stepStatus[rk[1]][rk[2]] = "failed"
    BY DEF FailedSteps
  <2>2. rk[1] \in having(rk[2])
    BY <2>1
  <2>3. FailuresOf(S, rk[2]) > 0
    BY <1>2, <2>2
  <2> QED BY <1>3, <2>1, <2>2, <2>3
<1> HIDE DEF number, having, failing, all
<1>9. place \in [all -> told]
  <2>1. ASSUME NEW rk \in all
        PROVE  <<rk[2], number[rk[2]][rk[1]]>> \in told
    <3>1. number[rk[2]][rk[1]] \in 1 .. list[rk[2]]
      BY <1>7, <1>8 DEF Bijection, Injection
    <3> QED BY <1>0, <1>8, <3>1
  <2> QED BY <2>1
<1>10. ASSUME NEW x \in all, NEW y \in all, place[x] = place[y]
       PROVE  x = y
  <2>1. x[2] = y[2] /\ number[x[2]][x[1]] = number[y[2]][y[1]]
    BY <1>10
  <2>2. x[1] = y[1]
    BY <1>7, <1>8, <2>1 DEF Bijection, Injection, IsInjective
  <2> QED BY <1>8, <2>1, <2>2
<1>11. place \in Injection(all, told)
  BY <1>9, <1>10 DEF Injection, IsInjective
<1> HIDE DEF place, told
<1>12. Cardinality(all) <= Cardinality(told) /\ Cardinality(told) \in Nat
  BY <1>5, <1>11, FS_Injection, FS_CardinalityType
<1> QED BY <1>12 DEF all, told

--------------------------------------------------------------------------------
(* The numbers.                                                               *)

\* What the actions of the reader leave to say of the numbers once they are sent.
LEMMA NothingCounted ==
  ASSUME counting \in {"idle", "total"}
  PROVE  CountsFit /\ FailuresFit /\ FailuresAreListed
BY DEF CountsFit, FailuresFit, FailuresAreListed, Counting

LEMMA MetricsInvInit == MetricsInit => MetricsInv
<1> SUFFICES ASSUME MetricsInit
             PROVE  MetricsInv
  OBVIOUS
<1>1. MetricsTypes
  BY DEF MetricsInit, MetricsTypes, NoMetrics
<1>2. counting = "idle"
  BY DEF MetricsInit
<1> QED BY <1>1, <1>2, NothingCounted DEF MetricsInv

LEMMA SystemKeepsNumbers ==
  ASSUME Beneath, MetricsInv, Beneath', Next, SystemStep
  PROVE  MetricsInv'
<1>0. /\ counting' = counting /\ scope' = scope /\ metrics' = metrics
      /\ listing' = listing /\ top' = top
      /\ MetricsTypes /\ CountsFit /\ FailuresFit /\ FailuresAreListed
  BY DEF SystemStep, counter, MetricsInv
<1>1. MetricsTypes'
  BY <1>0 DEF MetricsTypes
<1>2. CASE counting \in {"idle", "total"}
  BY <1>0, <1>1, <1>2 DEF MetricsInv, CountsFit, FailuresFit, FailuresAreListed, Counting
<1>3. CASE counting \in Counting
  <2>1. /\ ~ createdSince' => /\ ~ createdSince
                              /\ ~ \E r \in Runs : runStatus[r] = "absent" /\ runStatus'[r] # "absent"
        /\ ~ deletedSince' => /\ ~ deletedSince
                              /\ ~ \E p \in Pipelines : pipelines[p] = "stored" /\ pipelines'[p] # "stored"
    BY <1>3 DEF SystemStep, Since, Counting
  <2>2. metrics.total \in Nat /\ metrics.completed \in Nat /\ metrics.failed \in Nat /\ metrics.stepsFailed \in Nat
    BY <1>0 DEF MetricsTypes
  <2>3. CountsFit'
    <3> SUFFICES ASSUME ~ createdSince'
                 PROVE  CountsFit'
      BY DEF CountsFit
    <3>1. /\ Cardinality(RunsIn(scope)') <= Cardinality(RunsIn(scope))
          /\ Cardinality(Unfinished(scope)') <= Cardinality(Unfinished(scope))
          /\ Cardinality(RunsIn(scope)) \in Nat /\ Cardinality(RunsIn(scope)') \in Nat
          /\ Cardinality(Unfinished(scope)) \in Nat /\ Cardinality(Unfinished(scope)') \in Nat
      <4>1. RunsIn(scope)' \in SUBSET RunsIn(scope) /\ Unfinished(scope)' \in SUBSET Unfinished(scope)
        BY <1>0, <2>1, RunsShrink DEF RunsIn, Unfinished
      <4>2. Unfinished(scope) \in SUBSET RunsIn(scope)
        BY DEF Unfinished
      <4>3. IsFiniteSet(RunsIn(scope)) /\ IsFiniteSet(Unfinished(scope))
        BY <4>2, CountedSets
      <4> QED BY <4>1, <4>3, FS_Subset, FS_CardinalityType
    <3>2. CountsFit
      BY <1>0
    <3> QED BY <1>0, <2>1, <2>2, <3>1, <3>2 DEF CountsFit
  <2>4. FailuresFit'
    <3> SUFFICES ASSUME ~ deletedSince'
                 PROVE  FailuresFit'
      BY DEF FailuresFit
    <3> DEFINE failedRuns == {r \in RunsIn(scope) : runStatus[r] = "failed"}
    <3>1. failedRuns \in SUBSET failedRuns' /\ FailedSteps(scope) \in SUBSET FailedSteps(scope)'
      BY <1>0, <2>1, FailuresGrow DEF FailedSteps, RunsIn
    <3>2. IsFiniteSet(failedRuns') /\ IsFiniteSet(FailedSteps(scope)')
      <4>1. SetsAreFinite'
        BY CountedSetsAreFinite, PTL
      <4>2. IsFiniteSet(RunsIn(scope)') /\ IsFiniteSet(FailedSteps(scope)')
        BY <1>0, <4>1 DEF SetsAreFinite
      <4>3. failedRuns' \in SUBSET RunsIn(scope)'
        OBVIOUS
      <4> QED BY <4>2, <4>3, FS_Subset
    <3>3. /\ CountRuns(scope, "failed") <= CountRuns(scope, "failed")'
          /\ Cardinality(FailedSteps(scope)) <= Cardinality(FailedSteps(scope)')
          /\ CountRuns(scope, "failed") \in Nat /\ CountRuns(scope, "failed")' \in Nat
          /\ Cardinality(FailedSteps(scope)) \in Nat /\ Cardinality(FailedSteps(scope)') \in Nat
      BY <3>1, <3>2, FS_Subset, FS_CardinalityType DEF CountRuns
    <3>4. Unharmed(scope)' => Unharmed(scope)
      <4>1. RunsIn(scope) \subseteq RunsIn(scope)' /\ RunsIn(scope) \subseteq Runs
        BY <1>0, <2>1, FailuresGrow DEF RunsIn
      <4>2. \A r \in Runs : dbErrors'[r] = 0 => dbErrors[r] = 0
        BY <1>0, ErrorsStay DEF Beneath
      <4> QED BY <4>1, <4>2 DEF Unharmed
    <3> QED BY <1>0, <2>1, <2>2, <3>3, <3>4 DEF FailuresFit
  <2>5. FailuresAreListed'
    BY <1>0, <2>1 DEF FailuresAreListed, ListedFailures
  <2> QED BY <1>1, <2>3, <2>4, <2>5 DEF MetricsInv
<1> QED BY <1>0, <1>2, <1>3 DEF MetricsTypes

\* A number is counted of the rows as they are now, and none of the others changes.
LEMMA CountKeepsNumbers ==
  ASSUME Beneath, MetricsInv,
         CountTotal \/ CountRunning \/ CountCompleted \/ CountFailed \/ CountStepsFailed
  PROVE  MetricsInv'
<1> DEFINE runs == RunsIn(scope)
           having(status) == {r \in runs : runStatus[r] = status}
           open == Unfinished(scope)
<1>0. MetricsTypes /\ CountsFit /\ FailuresFit
  BY DEF MetricsInv
<1>1. /\ UNCHANGED <<scope, listing, top, createdSince, deletedSince, dbErrors, runStatus,
                     stepStatus, target>>
  BY DEF CountTotal, CountRunning, CountCompleted, CountFailed, CountStepsFailed, Count,
         vars, tables, faults
<1>2. /\ RunsIn(scope)' = runs /\ Unfinished(scope)' = open
      /\ CountRuns(scope, "failed")' = CountRuns(scope, "failed")
      /\ FailedSteps(scope)' = FailedSteps(scope)
      /\ Unharmed(scope)' = Unharmed(scope)
  BY <1>1 DEF RunsIn, Unfinished, CountRuns, FailedSteps, Unharmed
<1>3. /\ Cardinality(runs) \in Nat /\ Cardinality(FailedSteps(scope)) \in Nat
      /\ Cardinality(open) \in Nat
      /\ \A status : CountRuns(scope, status) \in Nat
      /\ CountRuns(scope, "running") <= Cardinality(runs)
      /\ CountRuns(scope, "failed") <= Cardinality(open)
      /\ CountRuns(scope, "completed") + Cardinality(open) = Cardinality(runs)
  <2>1. \A status : having(status) \in SUBSET runs
    OBVIOUS
  <2>2. /\ open \in SUBSET runs /\ having("failed") \in SUBSET open
        /\ having("completed") \cup open = runs /\ having("completed") \cap open = {}
    BY DEF Unfinished
  <2>3. \A status : CountRuns(scope, status) = Cardinality(having(status))
    BY DEF CountRuns
  <2> HIDE DEF runs, having, open
  <2>4. /\ \A T \in SUBSET runs :
             IsFiniteSet(T) /\ Cardinality(T) \in Nat /\ Cardinality(T) <= Cardinality(runs)
        /\ Cardinality(runs) \in Nat /\ Cardinality(FailedSteps(scope)) \in Nat
    BY CountedSets DEF runs
  <2>5. Cardinality(having("failed")) <= Cardinality(open)
    BY <2>2, <2>4, FS_Subset
  <2>6. Cardinality(having("completed")) + Cardinality(open) = Cardinality(runs)
    <3>1. Cardinality(runs) = Cardinality(having("completed")) + Cardinality(open) - 0
      BY <2>1, <2>2, <2>4, FS_Union, FS_EmptySet
    <3> QED BY <2>1, <2>2, <2>4, <3>1
  <2> QED BY <2>1, <2>2, <2>3, <2>4, <2>5, <2>6
<1>4. CASE CountTotal
  <2>1. /\ counting' = "running" /\ metrics' = [metrics EXCEPT !.total = Cardinality(runs)]
    BY <1>4 DEF CountTotal, Count
  <2> QED BY <1>0, <1>1, <1>2, <1>3, <2>1
    DEF MetricsInv, MetricsTypes, CountsFit, FailuresFit, FailuresAreListed, Counting
<1>5. CASE CountRunning
  <2>1. /\ counting = "running" /\ counting' = "completed"
        /\ metrics' = [metrics EXCEPT !.running = CountRuns(scope, "running")]
    BY <1>5 DEF CountRunning, Count
  <2> QED BY <1>0, <1>1, <1>2, <1>3, <2>1
    DEF MetricsInv, MetricsTypes, CountsFit, FailuresFit, FailuresAreListed, Counting
<1>6. CASE CountCompleted
  <2>1. /\ counting = "completed" /\ counting' = "failed"
        /\ metrics' = [metrics EXCEPT !.completed = CountRuns(scope, "completed")]
    BY <1>6 DEF CountCompleted, Count
  <2> QED BY <1>0, <1>1, <1>2, <1>3, <2>1
    DEF MetricsInv, MetricsTypes, CountsFit, FailuresFit, FailuresAreListed, Counting
<1>7. CASE CountFailed
  <2>1. /\ counting = "failed" /\ counting' = "stepsFailed"
        /\ metrics' = [metrics EXCEPT !.failed = CountRuns(scope, "failed")]
    BY <1>7 DEF CountFailed, Count
  <2> QED BY <1>0, <1>1, <1>2, <1>3, <2>1
    DEF MetricsInv, MetricsTypes, CountsFit, FailuresFit, FailuresAreListed, Counting
<1>8. CASE CountStepsFailed
  <2>1. /\ counting = "stepsFailed" /\ counting' = IF listing THEN "list" ELSE "done"
        /\ metrics' = [metrics EXCEPT !.stepsFailed = Cardinality(FailedSteps(scope))]
    BY <1>8 DEF CountStepsFailed, Count
  <2>2. Unharmed(scope) => CountRuns(scope, "failed") <= Cardinality(FailedSteps(scope))
    BY FailedRunsHaveFailedSteps
  <2>3. FailuresAreListed'
    BY <1>1, <2>1 DEF FailuresAreListed
  <2> QED BY <1>0, <1>1, <1>2, <1>3, <2>1, <2>2, <2>3
    DEF MetricsInv, MetricsTypes, CountsFit, FailuresFit, Counting
<1> QED BY <1>4, <1>5, <1>6, <1>7, <1>8

LEMMA ListKeepsNumbers ==
  ASSUME Beneath, MetricsInv, ListFailed
  PROVE  MetricsInv'
<1>0. /\ counting = "list" /\ counting' = "done" /\ MetricsTypes /\ CountsFit /\ FailuresFit
      /\ UNCHANGED <<scope, metrics, listing, createdSince, deletedSince>>
      /\ Unharmed(scope)' = Unharmed(scope)
  BY DEF MetricsInv, ListFailed, vars, faults, tables, Unharmed, RunsIn
<1>1. PICK T \in TopFailed(scope) : top' = [k \in T |-> FailuresOf(scope, k)]
  BY DEF ListFailed
<1>2. MetricsTypes' /\ CountsFit' /\ FailuresFit'
  BY <1>0 DEF MetricsTypes, CountsFit, FailuresFit, Counting
<1>3. FailuresAreListed'
  <2> SUFFICES ASSUME ~ deletedSince, Cardinality(DOMAIN top') < TopLimit
               PROVE  metrics.stepsFailed <= Cardinality(ListedFailures')
    BY <1>0 DEF FailuresAreListed
  <2>1. Cardinality(T) < TopLimit
    BY <1>1
  <2>2. /\ Cardinality(FailedSteps(scope)) <= Cardinality(ListedFailures')
        /\ Cardinality(ListedFailures') \in Nat
    BY <1>1, <2>1, ListIsComplete DEF ListedFailures
  <2>3. metrics.stepsFailed <= Cardinality(FailedSteps(scope))
    BY <1>0 DEF FailuresFit
  <2>4. metrics.stepsFailed \in Nat /\ Cardinality(FailedSteps(scope)) \in Nat
    BY <1>0, CountedSets DEF MetricsTypes
  <2> QED BY <2>2, <2>3, <2>4
<1> QED BY <1>2, <1>3 DEF MetricsInv

LEMMA MetricsInvStep ==
  ASSUME Beneath, MetricsInv, [MetricsNext]_metricsVars
  PROVE  MetricsInv'
<1>0. MetricsTypes
  BY DEF MetricsInv
<1>1. CASE SystemStep
  BY <1>1, BeneathStep, SystemKeepsNumbers DEF SystemStep
<1>2. ASSUME counting' \in {"idle", "total"}, metrics' \in {metrics, NoMetrics}
      PROVE  MetricsInv'
  BY <1>0, <1>2
  DEF MetricsInv, MetricsTypes, NoMetrics, CountsFit, FailuresFit, FailuresAreListed, Counting
<1>3. ASSUME NEW S, NEW list, AskAbout(S, list)
      PROVE  MetricsInv'
  BY <1>2, <1>3 DEF AskAbout
<1>4. CASE Answer
  BY <1>2, <1>4 DEF Answer
<1>5. CASE UNCHANGED metricsVars
  <2>1. UNCHANGED <<counting, scope, metrics, listing, top, createdSince, deletedSince, dbErrors,
                    runStatus, stepStatus, target>>
    BY <1>5 DEF metricsVars, counter, vars, tables, faults
  <2> QED BY <2>1
    DEF MetricsInv, MetricsTypes, CountsFit, FailuresFit, FailuresAreListed, ListedFailures,
        RunsIn, Unfinished, CountRuns, FailedSteps, Unharmed
<1> QED BY <1>1, <1>3, <1>4, <1>5, CountKeepsNumbers, ListKeepsNumbers
    DEF MetricsNext, AskMetrics, AskPipelineMetrics

--------------------------------------------------------------------------------
(* The theorems.                                                              *)

(* What each number says of the rows stays true of them while the others are  *)
(* counted.                                                                   *)
THEOREM MetricsConsistency == MetricsSpec => [](Beneath /\ MetricsInv)
<1>1. MetricsInit => Beneath /\ MetricsInv
  BY BeneathInit, MetricsInvInit
<1>2. Beneath /\ MetricsInv /\ [MetricsNext]_metricsVars => Beneath' /\ MetricsInv'
  BY BeneathStep, MetricsInvStep
<1> QED BY <1>1, <1>2, PTL DEF MetricsSpec

(* The parts that GetPipelineMetrics and GetGlobalMetrics count add up to no  *)
(* more than the total they have counted first, unless a run was created in   *)
(* between; for any number of runs.                                           *)
THEOREM PartsAddUp == MetricsSpec => []CountsAddUp
<1>1. MetricsInv => CountsAddUp
  BY DEF MetricsInv, CountsFit, CountsAddUp, Counting
<1> QED BY <1>1, MetricsConsistency, PTL

(* They count no more failed runs than failed steps, unless a statement of    *)
(* one of the runs failed or a pipeline was deleted in between.               *)
THEOREM FailedRunsAreExplained == MetricsSpec => []FailuresAreExplained
<1>1. MetricsInv => FailuresAreExplained
  BY DEF MetricsInv, FailuresFit, FailuresAreExplained, Unharmed
<1> QED BY <1>1, MetricsConsistency, PTL

(* The list of failed steps accounts for every one that was counted before    *)
(* it, unless it is full or a pipeline was deleted in between; for any limit. *)
THEOREM FailedStepsAreListed == MetricsSpec => []FailuresAreListed
<1>1. MetricsInv => FailuresAreListed
  BY DEF MetricsInv
<1> QED BY <1>1, MetricsConsistency, PTL
================================================================================

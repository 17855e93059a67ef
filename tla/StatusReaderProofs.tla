--------------------------- MODULE StatusReaderProofs ---------------------------
(******************************************************************************)
(* What a client that polls the status of runs and pages through their events *)
(* can rely on.  The reader only reads, so what is proved of the scheduler    *)
(* holds beneath it; ReaderInv relates what it has read to the rows as they   *)
(* are now: they can only have moved on.                                      *)
(******************************************************************************)
EXTENDS StatusReader, TimelineProofs

ReaderTypes ==
  /\ asking \in [at: {"idle", "run", "steps", "list", "page"}, pipeline: Pipelines]
  /\ row \in [run: Runs, status: RunStatuses \cup {"absent"}]
  /\ answers \in [Runs -> [status: RunStatuses \cup {"absent"},
                           steps: [Keys -> RunStatuses \cup {"absent"}]]]
  /\ paging \in [run: Runs, level: Levels, offset: Nat, known: SUBSET Nat, seen: SUBSET Nat]

(* The row that has been read is of a run that will not be created again.     *)
RowFits ==
  asking.at = "steps" =>
    row.status # "absent" /\ Inserted(row.run) /\ Forward(row.status, runStatus[row.run])

(* Neither is what the client was told ahead of what it is about to be told.  *)
AnswersFit(r) ==
  answers[r] # NoAnswer =>
    /\ Inserted(r)
    /\ Forward(answers[r].status, runStatus[r])
    /\ \A k \in Keys : Forward(answers[r].steps[k], stepStatus[r][k])
    /\ asking.at = "steps" /\ row.run = r => Forward(answers[r].status, row.status)

\* How many events of the list come before event n: the offset it is found at.
Newer(listed, n) == Cardinality({m \in listed : m > n})

(* What has not been seen yet is at the offset of the next page or beyond it. *)
PagingFits ==
  /\ paging.known # {} => pipelines[target[paging.run]] # "unused"
  /\ asking.at = "page" /\ Stored(paging.run) /\ paging.offset > 0 =>
       \A n \in paging.known :
         /\ n \in Listed(paging.run, paging.level)
         /\ n \in paging.seen \/ Newer(Listed(paging.run, paging.level), n) >= paging.offset

ReaderInv ==
  /\ ReaderTypes /\ RowFits /\ (\A r \in Runs : AnswersFit(r)) /\ PagingFits
  /\ ShownCompletionIsWhole /\ ShownFailureHasCulprit /\ PagesMissNothing

\* The invariants of the scheduler that the reader depends on.
Beneath == Inv /\ RowsInv /\ OrderInv /\ ExhaustionInv

--------------------------------------------------------------------------------
(* The reader beside the scheduler.                                           *)

LEMMA ReaderTakesSchedulerSteps ==
  [ReaderNext]_readerVars => [Next]_vars
BY DEF ReaderNext, readerVars, AskStatus, ReadRunRow, ReadStepRows, NoStatus, AskEvents,
       ReadPage, NoPage

LEMMA BeneathInit == ReaderInit => Beneath
BY InvInit, RowsInit, OrderInit, ExhaustionInit DEF ReaderInit, Beneath

LEMMA BeneathStep ==
  ASSUME Beneath, [ReaderNext]_readerVars
  PROVE  Beneath'
BY InvStep, RowsStep, OrderStep, ExhaustionStep, ReaderTakesSchedulerSteps DEF Beneath

LEMMA ReaderTypesInit == ReaderInit => ReaderTypes
<1> SUFFICES ASSUME ReaderInit
             PROVE  ReaderTypes
  OBVIOUS
<1>1. asking \in [at: {"idle", "run", "steps", "list", "page"}, pipeline: Pipelines]
  BY DEF ReaderInit
<1>2. row \in [run: Runs, status: RunStatuses \cup {"absent"}]
  BY DEF ReaderInit
<1>3. answers \in [Runs -> [status: RunStatuses \cup {"absent"},
                            steps: [Keys -> RunStatuses \cup {"absent"}]]]
  BY DEF ReaderInit, NoAnswer, NoStepRuns
<1>4. paging \in [run: Runs, level: Levels, offset: Nat, known: SUBSET Nat, seen: SUBSET Nat]
  BY DEF ReaderInit, Levels
<1> QED BY <1>1, <1>2, <1>3, <1>4 DEF ReaderTypes

\* A page is some of what is listed, which are places in the timeline.
LEMMA ListedType ==
  ASSUME Inv, NEW r \in Runs, NEW level
  PROVE  /\ Listed(r, level) \subseteq 1 .. Len(events[r])
         /\ Len(events[r]) \in Nat
         /\ IsFiniteSet(Listed(r, level))
<1>1. events[r] \in Seq(Event)
  BY DEF Inv, TypeOK, StoreTypeOK
<1>2. Listed(r, level) \subseteq 1 .. Len(events[r])
  BY <1>1 DEF Listed
<1>3. IsFiniteSet(1 .. Len(events[r]))
  BY <1>1, FS_Interval
<1> QED BY <1>1, <1>2, <1>3, FS_Subset

LEMMA PageType ==
  ASSUME NEW listed \in SUBSET Nat, IsFiniteSet(listed), NEW offset
  PROVE  /\ Page(listed, offset) \subseteq listed
         /\ IsFiniteSet(Page(listed, offset)) /\ Cardinality(Page(listed, offset)) \in Nat
<1>1. Page(listed, offset) \subseteq listed
  BY DEF Page
<1> QED BY <1>1, FS_Subset, FS_CardinalityType

LEMMA ReaderTypesStep ==
  ASSUME Inv, ReaderTypes, [ReaderNext]_readerVars
  PROVE  ReaderTypes'
<1> USE DEF ReaderTypes
<1>1. CASE Next /\ UNCHANGED reader
  BY <1>1 DEF reader
<1>2. ASSUME NEW p \in Pipelines, AskStatus(p)
      PROVE  ReaderTypes'
  BY <1>2 DEF AskStatus
<1>3. ASSUME NEW r \in Runs, ReadRunRow(r)
      PROVE  ReaderTypes'
  <2>1. runStatus[r] \in RunStatuses \cup {"absent"}
    BY DEF Inv, TypeOK, StoreTypeOK
  <2> QED BY <1>3, <2>1 DEF ReadRunRow, AskFrom
<1>4. CASE ReadStepRows
  <2>1. stepStatus[row.run] \in [Keys -> RunStatuses \cup {"absent"}]
    BY DEF Inv, TypeOK, StoreTypeOK
  <2> QED BY <1>4, <2>1 DEF ReadStepRows, AskFrom
<1>5. CASE NoStatus
  BY <1>5 DEF NoStatus, AskFrom
<1>6. ASSUME NEW r \in Runs, NEW level \in Levels, AskEvents(r, level)
      PROVE  ReaderTypes'
  <2>1. target[r] \in Pipelines
    BY DEF Inv, TypeOK, StoreTypeOK
  <2> QED BY <1>6, <2>1 DEF AskEvents
<1>7. CASE ReadPage
  <2> DEFINE listed == Listed(paging.run, paging.level)
             page == Page(listed, paging.offset)
  <2>1. listed \in SUBSET Nat /\ IsFiniteSet(listed)
    BY ListedType
  <2>2. page \in SUBSET Nat /\ Cardinality(page) \in Nat
    BY <2>1, PageType
  <2>3. /\ asking' = [asking EXCEPT !.at = IF Cardinality(page) < PageSize THEN "list" ELSE "page"]
        /\ paging' = [paging EXCEPT !.offset = @ + Cardinality(page), !.seen = @ \cup page,
                                    !.known = IF paging.offset = 0 THEN listed ELSE @]
        /\ UNCHANGED <<vars, row, answers>>
    BY <1>7 DEF ReadPage
  <2> HIDE DEF listed, page
  <2>4. asking' \in [at: {"idle", "run", "steps", "list", "page"}, pipeline: Pipelines]
    BY <2>3
  <2>5. paging' \in [run: Runs, level: Levels, offset: Nat, known: SUBSET Nat, seen: SUBSET Nat]
    <3>1. paging.offset + Cardinality(page) \in Nat /\ paging.seen \cup page \in SUBSET Nat
      <4>1. paging.offset \in Nat /\ paging.seen \in SUBSET Nat
        OBVIOUS
      <4>2. paging.offset + Cardinality(page) \in Nat
        BY ONLY <2>2, <4>1
      <4>3. paging.seen \cup page \in SUBSET Nat
        BY ONLY <2>2, <4>1
      <4> QED BY <4>2, <4>3
    <3>2. (IF paging.offset = 0 THEN listed ELSE paging.known) \in SUBSET Nat
      BY <2>1
    <3>3. paging' = [run |-> paging.run, level |-> paging.level,
                     offset |-> paging.offset + Cardinality(page),
                     known |-> IF paging.offset = 0 THEN listed ELSE paging.known,
                     seen |-> paging.seen \cup page]
      BY <2>3
    <3> QED BY <3>1, <3>2, <3>3
  <2> QED BY <2>3, <2>4, <2>5
<1>8. CASE NoPage
  BY <1>8 DEF NoPage, AskFrom
<1>9. CASE UNCHANGED readerVars
  BY <1>9 DEF readerVars, reader
<1> QED BY <1>1, <1>2, <1>3, <1>4, <1>5, <1>6, <1>7, <1>8, <1>9 DEF ReaderNext

--------------------------------------------------------------------------------
(* Statuses only go forward.                                                  *)

LEMMA ForwardMoves ==
  /\ \A s : Forward(s, s)
  /\ \A s \in RunStatuses \cup {"absent"} : Forward(s, "absent")
  /\ \A s, t : StepMovesOn(s, t) => Forward(s, t)
  /\ \A s, t : RunMovesOn(s, t) => Forward(s, t)
BY DEF Forward, Rank, RunStatuses, StepMovesOn, RunMovesOn, Terminal

LEMMA ForwardIsTransitive ==
  ASSUME NEW s \in RunStatuses \cup {"absent"}, NEW t \in RunStatuses \cup {"absent"},
         NEW u \in RunStatuses \cup {"absent"}, Forward(s, t), Forward(t, u)
  PROVE  Forward(s, u)
BY DEF Forward, Rank, RunStatuses

\* The rows of a run that has got as far as having some only move forward.
LEMMA RowsGoForward ==
  ASSUME Inv, [Next]_vars, NEW r \in Runs, Inserted(r)
  PROVE  /\ Inserted(r)'
         /\ Forward(runStatus[r], runStatus'[r])
         /\ \A k \in Keys : Forward(stepStatus[r][k], stepStatus'[r][k])
<1>1. /\ runStatus[r] \in RunStatuses \cup {"absent"}
      /\ \A k \in Keys : stepStatus[r][k] \in RunStatuses \cup {"absent"}
  BY DEF Inv, TypeOK, StoreTypeOK
<1>2. ~ Created(r)
  BY DEF Created, At, Inserted
<1>3. CASE Deleted(r)
  BY <1>1, <1>3, ForwardMoves, RowsMove DEF Deleted, NoStepRuns
<1>4. CASE Kept(r)
  BY <1>4, ForwardMoves, RowsMove DEF Kept
<1> QED BY <1>2, <1>3, <1>4, RowsMove

\* What has been read of a run, and told of it, stays behind it.
LEMMA SystemKeepsAnswers ==
  ASSUME Inv, ReaderTypes, RowFits, \A r \in Runs : AnswersFit(r), [Next]_vars, UNCHANGED reader
  PROVE  RowFits' /\ \A r \in Runs : AnswersFit(r)'
<1>0. /\ asking' = asking /\ row' = row /\ answers' = answers
      /\ row.run \in Runs /\ row.status \in RunStatuses \cup {"absent"}
      /\ \A r \in Runs :
           /\ answers[r].status \in RunStatuses \cup {"absent"}
           /\ runStatus[r] \in RunStatuses \cup {"absent"}
           /\ runStatus'[r] \in RunStatuses \cup {"absent"}
           /\ \A k \in Keys :
                /\ answers[r].steps[k] \in RunStatuses \cup {"absent"}
                /\ stepStatus[r][k] \in RunStatuses \cup {"absent"}
                /\ stepStatus'[r][k] \in RunStatuses \cup {"absent"}
  <2>1. asking' = asking /\ row' = row /\ answers' = answers
    BY DEF reader
  <2>2. /\ row.run \in Runs /\ row.status \in RunStatuses \cup {"absent"}
        /\ \A r \in Runs :
             /\ answers[r].status \in RunStatuses \cup {"absent"}
             /\ \A k \in Keys : answers[r].steps[k] \in RunStatuses \cup {"absent"}
    BY DEF ReaderTypes
  <2>3. \A r \in Runs :
          /\ runStatus[r] \in RunStatuses \cup {"absent"}
          /\ \A k \in Keys : stepStatus[r][k] \in RunStatuses \cup {"absent"}
    BY DEF Inv, TypeOK, StoreTypeOK
  <2>4. \A r \in Runs :
          /\ runStatus'[r] \in RunStatuses \cup {"absent"}
          /\ \A k \in Keys : stepStatus'[r][k] \in RunStatuses \cup {"absent"}
    BY InvStep DEF Inv, TypeOK, StoreTypeOK
  <2> QED BY <2>1, <2>2, <2>3, <2>4
<1>1. RowFits'
  <2> SUFFICES ASSUME asking.at = "steps"
               PROVE  /\ row.status # "absent" /\ Inserted(row.run)'
                      /\ Forward(row.status, runStatus'[row.run])
    BY <1>0 DEF RowFits, Inserted
  <2>1. row.status # "absent" /\ Inserted(row.run) /\ Forward(row.status, runStatus[row.run])
    BY DEF RowFits
  <2>2. Inserted(row.run)' /\ Forward(runStatus[row.run], runStatus'[row.run])
    BY <1>0, <2>1, RowsGoForward DEF Inserted
  <2> QED BY <1>0, <2>1, <2>2, ForwardIsTransitive
<1>2. ASSUME NEW r \in Runs
      PROVE  AnswersFit(r)'
  <2> SUFFICES ASSUME answers[r] # NoAnswer
               PROVE  /\ Inserted(r)'
                      /\ Forward(answers[r].status, runStatus'[r])
                      /\ \A k \in Keys : Forward(answers[r].steps[k], stepStatus'[r][k])
                      /\ asking.at = "steps" /\ row.run = r => Forward(answers[r].status, row.status)
    BY <1>0 DEF AnswersFit, NoAnswer, NoStepRuns
  <2>1. AnswersFit(r)
    OBVIOUS
  <2>2. /\ Inserted(r)' /\ Forward(runStatus[r], runStatus'[r])
        /\ \A k \in Keys : Forward(stepStatus[r][k], stepStatus'[r][k])
    BY <2>1, RowsGoForward DEF AnswersFit
  <2> QED BY <1>0, <2>1, <2>2, ForwardIsTransitive DEF AnswersFit
<1> QED BY <1>1, <1>2

\* A new answer about a run is not behind the last one, and says what the rows say.
LEMMA NewAnswer ==
  ASSUME Beneath, ReaderInv, ReadStepRows, NEW r, r = row.run
  PROVE  /\ r \in Runs /\ Inserted(r)
         /\ answers'[r] = [status |-> row.status, steps |-> stepStatus[r]]
         /\ \A s \in Runs : s # r => answers'[s] = answers[s]
         /\ row.status # "absent" /\ Forward(row.status, runStatus[r])
         /\ answers[r] # NoAnswer =>
              /\ Forward(answers[r].status, row.status)
              /\ \A k \in Keys : Forward(answers[r].steps[k], stepStatus[r][k])
BY DEF ReaderInv, ReaderTypes, RowFits, AnswersFit, ReadStepRows, AskFrom

LEMMA ReaderKeepsAnswers ==
  ASSUME Beneath, ReaderInv, ReaderNext, UNCHANGED vars
  PROVE  RowFits' /\ \A r \in Runs : AnswersFit(r)'
<1>0. /\ asking.at \in {"idle", "run", "steps", "list", "page"}
      /\ UNCHANGED <<pc, runStatus, stepStatus>>
      /\ Inv /\ ReaderTypes /\ RowFits /\ \A r \in Runs : AnswersFit(r)
  BY DEF ReaderInv, ReaderTypes, vars, tables, control, Beneath
<1>1. ASSUME UNCHANGED <<answers, row>>, asking'.at = asking.at \/ asking'.at # "steps"
      PROVE  RowFits' /\ \A r \in Runs : AnswersFit(r)'
  BY <1>0, <1>1 DEF RowFits, AnswersFit, NoAnswer, NoStepRuns, Inserted
<1>2. ASSUME NEW q \in Runs, ReadRunRow(q)
      PROVE  RowFits' /\ \A r \in Runs : AnswersFit(r)'
  <2>1. Inserted(q)
    BY <1>0, <1>2 DEF ReadRunRow, Inv, RunInv, StatusFits, Present, Inserted
  <2>2. row' = [run |-> q, status |-> runStatus[q]] /\ answers' = answers /\ runStatus[q] # "absent"
    BY <1>2 DEF ReadRunRow
  <2>3. RowFits'
    BY <1>0, <2>1, <2>2, ForwardMoves DEF RowFits, Inserted
  <2>4. ASSUME NEW r \in Runs
        PROVE  AnswersFit(r)'
    BY <1>0, <2>2 DEF AnswersFit, NoAnswer, NoStepRuns, Inserted
  <2> QED BY <2>3, <2>4
<1>3. CASE ReadStepRows
  <2>1. asking'.at = "idle"
    BY <1>3 DEF ReadStepRows, AskFrom, ReaderInv, ReaderTypes
  <2>2. ASSUME NEW r \in Runs
        PROVE  AnswersFit(r)'
    <3>1. CASE r = row.run
      <4>1. /\ answers'[r].status = row.status /\ answers'[r].steps = stepStatus[r]
            /\ Inserted(r) /\ Forward(row.status, runStatus[r])
        <5>1. /\ answers'[r] = [status |-> row.status, steps |-> stepStatus[r]]
              /\ Inserted(r) /\ Forward(row.status, runStatus[r])
          BY <1>3, <3>1, NewAnswer
        <5> QED BY <5>1
      <4>2. \A k \in Keys : Forward(stepStatus[r][k], stepStatus[r][k])
        BY ForwardMoves
      <4> QED BY <1>0, <2>1, <4>1, <4>2 DEF AnswersFit, Inserted
    <3>2. CASE r # row.run
      <4>1. answers'[r] = answers[r] /\ row' = row
        BY <1>3, <3>2, NewAnswer DEF ReadStepRows
      <4> QED BY <1>0, <2>1, <4>1 DEF AnswersFit, NoAnswer, NoStepRuns, Inserted
    <3> QED BY <3>1, <3>2
  <2> QED BY <2>1, <2>2 DEF RowFits
<1>4. CASE UNCHANGED reader
  BY <1>1, <1>4 DEF reader
<1>5. ASSUME NEW p \in Pipelines, AskStatus(p)
      PROVE  RowFits' /\ \A r \in Runs : AnswersFit(r)'
  BY <1>1, <1>5 DEF AskStatus
<1>6. CASE NoStatus
  BY <1>0, <1>1, <1>6 DEF NoStatus, AskFrom, ReaderTypes
<1>7. ASSUME NEW r \in Runs, NEW level \in Levels, AskEvents(r, level)
      PROVE  RowFits' /\ \A s \in Runs : AnswersFit(s)'
  BY <1>1, <1>7 DEF AskEvents
<1>8. CASE ReadPage
  BY <1>0, <1>1, <1>8 DEF ReadPage, ReaderTypes
<1>9. CASE NoPage
  BY <1>0, <1>1, <1>9 DEF NoPage, AskFrom, ReaderTypes
<1> QED BY <1>2, <1>3, <1>4, <1>5, <1>6, <1>7, <1>8, <1>9 DEF ReaderNext

--------------------------------------------------------------------------------
(* What a client is shown.                                                    *)

LEMMA ShownStep ==
  ASSUME Beneath, ReaderInv, [ReaderNext]_readerVars
  PROVE  ShownCompletionIsWhole' /\ ShownFailureHasCulprit'
<1>0. /\ Inv /\ RowsInv /\ ExhaustionInv /\ ShownCompletionIsWhole /\ ShownFailureHasCulprit
      /\ \A r \in Runs : dbErrors'[r] = 0 => dbErrors[r] = 0
  BY ErrorsStay, ReaderTakesSchedulerSteps DEF Beneath, ReaderInv
<1>1. CASE UNCHANGED answers
  BY <1>0, <1>1 DEF ShownCompletionIsWhole, ShownFailureHasCulprit, NoStepRuns
<1>2. CASE ReadStepRows
  <2> DEFINE r == row.run
  <2>1. /\ r \in Runs /\ answers'[r] = [status |-> row.status, steps |-> stepStatus[r]]
        /\ \A s \in Runs : s # r => answers'[s] = answers[s]
        /\ row.status # "absent" /\ Forward(row.status, runStatus[r])
    BY <1>2, NewAnswer
  <2>2. /\ runStatus[r] \in RunStatuses \cup {"absent"} /\ job[r].step \in Keys
        /\ RowsExist(r) /\ WholeFits(r) /\ OnlyPlanned(r)
    BY <1>0, <2>1 DEF Inv, TypeOK, StoreTypeOK, Job, RunInv, RowsInv
  <2>3. answers'[r].status = row.status /\ answers'[r].steps = stepStatus[r]
    BY <2>1
  <2>4. row.status \in Terminal => runStatus[r] \in {row.status, "absent"}
    BY <2>1, <2>2 DEF Forward, Rank, RunStatuses, Terminal
  <2> HIDE DEF r
  <2>5. ASSUME NEW k \in Keys, row.status = "completed"
        PROVE  stepStatus[r][k] \in {"completed", "absent"}
    BY <2>2, <2>4, <2>5 DEF WholeFits, OnlyPlanned, RowsExist, Present, NoStepRuns, Terminal
  <2>6. ShownCompletionIsWhole'
    BY <1>0, <2>1, <2>3, <2>5 DEF ShownCompletionIsWhole
  <2>7. ASSUME row.status = "failed", dbErrors[r] = 0
        PROVE  (\E k \in Keys : stepStatus[r][k] = "failed") \/ stepStatus[r] = NoStepRuns
    BY <1>0, <2>1, <2>2, <2>4, <2>7
    DEF RowsExist, Present, Terminal, ExhaustionInv, ExhaustionFits
  <2>8. ShownFailureHasCulprit'
    BY <1>0, <2>1, <2>3, <2>7 DEF ShownFailureHasCulprit, NoStepRuns
  <2> QED BY <2>6, <2>8
<1> QED BY <1>1, <1>2 DEF ReaderNext, readerVars, reader, AskStatus, ReadRunRow, NoStatus,
                          AskEvents, ReadPage, NoPage

--------------------------------------------------------------------------------
(* Pages.                                                                     *)

LEMMA PlacesOfPage ==
  ASSUME NEW from \in Nat, NEW count \in Nat
  PROVE  /\ IsFiniteSet(from .. from + count - 1)
         /\ Cardinality(from .. from + count - 1) = count
<1>1. from + count - 1 \in Int /\ from \in Int
  OBVIOUS
<1>2. /\ IsFiniteSet(from .. from + count - 1)
      /\ Cardinality(from .. from + count - 1) =
           IF from > from + count - 1 THEN 0 ELSE from + count - 1 - from + 1
  BY <1>1, FS_Interval
<1> QED BY <1>2

LEMMA NewerType ==
  ASSUME NEW listed \in SUBSET Nat, IsFiniteSet(listed), NEW n \in listed
  PROVE  /\ IsFiniteSet({m \in listed : m > n})
         /\ Newer(listed, n) \in 0 .. Cardinality(listed) - 1
<1> DEFINE above == {m \in listed : m > n}
           others == listed \ {n}
<1>1. above \in SUBSET others
  OBVIOUS
<1>2. IsFiniteSet(others) /\ Cardinality(others) = Cardinality(listed) - 1
  BY FS_RemoveElement
<1> HIDE DEF above, others
<1>3. IsFiniteSet(above) /\ Cardinality(above) <= Cardinality(others)
  BY <1>1, <1>2, FS_Subset
<1>4. Cardinality(listed) \in Nat
  BY FS_CardinalityType
<1>5. Cardinality(above) \in Nat
  BY <1>3, FS_CardinalityType
<1> QED BY <1>2, <1>3, <1>4, <1>5 DEF above, Newer

\* Of two rows the later one comes first.
LEMMA NewerIsSmaller ==
  ASSUME NEW listed \in SUBSET Nat, IsFiniteSet(listed), NEW m \in listed, NEW n \in listed, m < n
  PROVE  Newer(listed, n) < Newer(listed, m)
<1> DEFINE above(x) == {l \in listed : l > x}
<1>0. m \in Nat /\ n \in Nat /\ listed \subseteq Nat
  OBVIOUS
<1>1. above(n) \in SUBSET above(m) /\ n \in above(m) /\ n \notin above(n)
  <2>1. \A l \in Nat : l > n => l > m
    BY <1>0
  <2>2. above(n) \subseteq above(m)
    BY <1>0, <2>1
  <2>3. n \in above(m) /\ n \notin above(n)
    BY <1>0
  <2> QED BY <2>2, <2>3
<1>2. IsFiniteSet(above(m)) /\ IsFiniteSet(above(n))
  BY NewerType
<1> HIDE DEF above
<1>3. /\ Cardinality(above(n)) <= Cardinality(above(m))
      /\ Cardinality(above(n)) # Cardinality(above(m))
  BY <1>1, <1>2, FS_Subset
<1>4. Cardinality(above(n)) \in Nat /\ Cardinality(above(m)) \in Nat
  BY <1>2, FS_CardinalityType
<1> QED BY <1>3, <1>4 DEF above, Newer

\* The rows are numbered without a gap.
LEMMA RowsAreNumbered ==
  ASSUME NEW listed \in SUBSET Nat, IsFiniteSet(listed)
  PROVE  [n \in listed |-> Newer(listed, n)]
           \in Bijection(listed, 0 .. Cardinality(listed) - 1)
<1> DEFINE rank == [n \in listed |-> Newer(listed, n)]
           numbers == 0 .. Cardinality(listed) - 1
<1>1. Cardinality(listed) \in Nat
  BY FS_CardinalityType
<1>2. IsFiniteSet(numbers) /\ Cardinality(numbers) = Cardinality(listed)
  <2>1. numbers = 0 .. 0 + Cardinality(listed) - 1
    BY <1>1
  <2> QED BY <1>1, <2>1, PlacesOfPage
<1>3. rank \in [listed -> numbers]
  BY NewerType
<1>4. ASSUME NEW m \in listed, NEW n \in listed, rank[m] = rank[n]
      PROVE  m = n
  <2>1. Newer(listed, m) = Newer(listed, n)
    BY <1>4
  <2>2. Newer(listed, m) \in 0 .. Cardinality(listed) - 1
    BY NewerType
  <2>3. ~ (m < n) /\ ~ (n < m)
    BY <2>1, <2>2, NewerIsSmaller
  <2>4. m \in Nat /\ n \in Nat
    OBVIOUS
  <2> QED BY <2>3, <2>4
<1> HIDE DEF rank, numbers
<1>5. rank \in Injection(listed, numbers)
  BY <1>3, <1>4 DEF Injection, IsInjective
<1>6. rank \in Surjection(listed, numbers)
  BY <1>2, <1>5, FS_Injection
<1> QED BY <1>5, <1>6 DEF Bijection, rank, numbers

\* A page has as many rows as are asked for if any row comes after it.
LEMMA PageIsFull ==
  ASSUME NEW listed \in SUBSET Nat, IsFiniteSet(listed), NEW offset \in Nat,
         NEW n \in listed, Newer(listed, n) >= offset, n \notin Page(listed, offset)
  PROVE  /\ Cardinality(Page(listed, offset)) = PageSize
         /\ Newer(listed, n) >= offset + PageSize
<1> DEFINE rank == [m \in listed |-> Newer(listed, m)]
           page == Page(listed, offset)
           places == offset .. offset + PageSize - 1
<1>1. rank \in Bijection(listed, 0 .. Cardinality(listed) - 1)
  BY RowsAreNumbered
<1>2. page = {m \in listed : rank[m] \in places}
  BY DEF Page, Newer
<1>3. PageSize \in Nat \ {0} /\ Newer(listed, n) \in 0 .. Cardinality(listed) - 1
  BY PageSizeAssumption, NewerType
<1>4. rank[n] = Newer(listed, n) /\ rank[n] \notin places
  BY <1>2
<1>5. Newer(listed, n) >= offset + PageSize
  BY <1>3, <1>4
<1>6. places \subseteq 0 .. Cardinality(listed) - 1
  <2>1. Cardinality(listed) \in Nat
    BY FS_CardinalityType
  <2> QED BY <1>3, <1>5, <2>1
<1> HIDE DEF rank, places, page
<1>7. [m \in page |-> rank[m]] \in Bijection(page, places)
  <2> DEFINE place == [m \in page |-> rank[m]]
  <2>1. place \in [page -> places]
    BY <1>2
  <2>2. place \in Injection(page, places)
    BY <1>1, <1>2, <2>1 DEF Bijection, Injection, IsInjective
  <2>3. ASSUME NEW i \in places
        PROVE  \E m \in page : place[m] = i
    <3>1. PICK m \in listed : rank[m] = i
      BY <1>1, <1>6 DEF Bijection, Surjection
    <3> QED BY <1>2, <3>1
  <2>4. place \in Surjection(page, places)
    BY <2>1, <2>3 DEF Surjection
  <2> QED BY <2>2, <2>4 DEF Bijection
<1>8. IsFiniteSet(page) /\ IsFiniteSet(places) /\ Cardinality(places) = PageSize
  BY <1>3, PageType, PlacesOfPage DEF page, places
<1>9. Cardinality(page) = PageSize
  BY <1>7, <1>8, FS_Bijection DEF ExistsBijection
<1> QED BY <1>5, <1>9 DEF page

\* No page has more rows than are asked for.
LEMMA PageIsBounded ==
  ASSUME NEW listed \in SUBSET Nat, IsFiniteSet(listed), NEW offset \in Nat
  PROVE  Cardinality(Page(listed, offset)) <= PageSize
<1> DEFINE rank == [m \in listed |-> Newer(listed, m)]
           page == Page(listed, offset)
           places == offset .. offset + PageSize - 1
<1>1. rank \in Bijection(listed, 0 .. Cardinality(listed) - 1)
  BY RowsAreNumbered
<1>2. page = {m \in listed : rank[m] \in places}
  BY DEF Page, Newer
<1>3. IsFiniteSet(places) /\ Cardinality(places) = PageSize
  BY PageSizeAssumption, PlacesOfPage
<1> HIDE DEF rank, page, places
<1>4. [m \in page |-> rank[m]] \in Injection(page, places)
  BY <1>1, <1>2 DEF Bijection, Injection, IsInjective
<1>5. Cardinality(page) <= Cardinality(places)
  BY <1>3, <1>4, FS_Injection
<1> QED BY <1>3, <1>5 DEF page

\* While a pipeline is stored, its timelines grow at their ends.
LEMMA ListedGrows ==
  ASSUME Inv, [Next]_vars, NEW r \in Runs, NEW level, pipelines[target[r]] # "unused", Stored(r)'
  PROVE  /\ Stored(r)
         /\ Listed(r, level) \subseteq Listed(r, level)'
<1>1. Stored(r)
  BY DefinitionStays, RowsMove DEF Inv, TypeOK, StoreTypeOK, Stored
<1>2. ~ Deleted(r)
  BY RowsMove DEF Deleted, Stored
<1>3. events[r] \in Seq(Event)
  BY DEF Inv, TypeOK, StoreTypeOK
<1>4. CASE events'[r] = events[r]
  BY <1>1, <1>4 DEF Listed
<1>5. ASSUME NEW e \in Event, events'[r] = Append(events[r], e)
      PROVE  Listed(r, level) \subseteq Listed(r, level)'
  <2>1. \A n \in DOMAIN events[r] : n \in DOMAIN events'[r] /\ events'[r][n] = events[r][n]
    BY <1>3, <1>5
  <2> QED BY <2>1 DEF Listed
<1> QED BY <1>1, <1>2, <1>4, <1>5, RowsMove

LEMMA NewerGrows ==
  ASSUME NEW S \in SUBSET Nat, NEW T \in SUBSET Nat, IsFiniteSet(T), S \subseteq T, NEW n \in S
  PROVE  Newer(S, n) <= Newer(T, n)
<1> DEFINE old == {m \in S : m > n}
           new == {m \in T : m > n}
<1>1. old \in SUBSET new /\ IsFiniteSet(new)
  BY NewerType
<1> HIDE DEF old, new
<1>2. Cardinality(old) <= Cardinality(new)
  BY <1>1, FS_Subset
<1> QED BY <1>2 DEF old, new, Newer

LEMMA SystemKeepsPaging ==
  ASSUME Inv, ReaderTypes, PagingFits, PagesMissNothing, [Next]_vars, UNCHANGED reader
  PROVE  PagingFits' /\ PagesMissNothing'
<1> DEFINE r == paging.run
           listed == Listed(r, paging.level)
<1>0. /\ asking' = asking /\ paging' = paging /\ r \in Runs /\ target[r] \in Pipelines
      /\ target' = target /\ pipelines[target[r]] \in {"unused", "stored", "deleted"}
  BY RowsMove DEF reader, ReaderTypes, Inv, TypeOK, StoreTypeOK
<1>1. pipelines[target[r]] # "unused" => pipelines'[target[r]] # "unused"
  BY <1>0, DefinitionStays
<1>2. ASSUME asking.at = "page", Stored(r)', paging.offset > 0, NEW n \in paging.known
      PROVE  n \in listed' /\ (n \in paging.seen \/ Newer(listed', n) >= paging.offset)
  <2>1. pipelines[target[r]] # "unused"
    BY <1>2 DEF PagingFits
  <2>2. Stored(r) /\ listed \subseteq listed'
    BY <1>0, <1>2, <2>1, ListedGrows
  <2>3. n \in listed /\ (n \in paging.seen \/ Newer(listed, n) >= paging.offset)
    BY <1>2, <2>2 DEF PagingFits
  <2>4. Inv'
    BY InvStep
  <2>5. listed \in SUBSET Nat /\ IsFiniteSet(listed) /\ listed' \in SUBSET Nat /\ IsFiniteSet(listed')
    <3>1. listed \subseteq 1 .. Len(events[r]) /\ IsFiniteSet(listed)
      BY <1>0, ListedType
    <3>2. events'[r] \in Seq(Event)
      BY <1>0, <2>4 DEF Inv, TypeOK, StoreTypeOK
    <3>3. listed' \subseteq 1 .. Len(events'[r]) /\ Len(events'[r]) \in Nat
      BY <1>0, <3>2 DEF Listed
    <3>4. IsFiniteSet(1 .. Len(events'[r]))
      BY <3>3, FS_Interval
    <3>5. IsFiniteSet(listed')
      BY <3>3, <3>4, FS_Subset
    <3> QED BY <3>1, <3>3, <3>5
  <2> HIDE DEF listed
  <2>6. Newer(listed, n) <= Newer(listed', n)
    BY <2>2, <2>3, <2>5, NewerGrows
  <2>7. Newer(listed, n) \in Nat /\ Newer(listed', n) \in Nat /\ paging.offset \in Nat
    <3>1. Newer(listed, n) \in 0 .. Cardinality(listed) - 1
      BY <2>3, <2>5, NewerType
    <3>2. Newer(listed', n) \in 0 .. Cardinality(listed') - 1
      BY <2>2, <2>3, <2>5, NewerType
    <3> QED BY <3>1, <3>2 DEF ReaderTypes
  <2> QED BY <2>2, <2>3, <2>6, <2>7
<1>3. PagingFits'
  BY <1>0, <1>1, <1>2 DEF PagingFits
<1>4. PagesMissNothing'
  <2> SUFFICES ASSUME asking.at = "list", Stored(r)', ~ (paging.known \subseteq paging.seen)
               PROVE  FALSE
    BY <1>0 DEF PagesMissNothing
  <2>1. pipelines[target[r]] # "unused"
    BY DEF PagingFits
  <2>2. Stored(r)
    BY <1>0, <2>1, ListedGrows
  <2> QED BY <2>2 DEF PagesMissNothing
<1> QED BY <1>3, <1>4

LEMMA ReadPageKeepsPaging ==
  ASSUME Beneath, ReaderTypes, PagingFits, ReadPage, UNCHANGED vars
  PROVE  PagingFits' /\ PagesMissNothing'
<1> DEFINE r == paging.run
           listed == Listed(r, paging.level)
           page == Page(listed, paging.offset)
<1>0. /\ r \in Runs /\ paging.offset \in Nat /\ Inv
      /\ UNCHANGED <<pipelines, target, events>>
  BY DEF ReaderTypes, Beneath, vars, tables
<1>1. listed \in SUBSET Nat /\ IsFiniteSet(listed)
  BY <1>0, ListedType
<1>2. page \subseteq listed /\ Cardinality(page) \in Nat /\ Cardinality(page) <= PageSize
  BY <1>0, <1>1, PageType, PageIsBounded
<1>3. /\ asking.at = "page"
      /\ asking'.at = IF Cardinality(page) < PageSize THEN "list" ELSE "page"
      /\ paging'.run = r /\ paging'.level = paging.level
      /\ paging'.offset = paging.offset + Cardinality(page)
      /\ paging'.seen = paging.seen \cup page
      /\ paging'.known = IF paging.offset = 0 THEN listed ELSE paging.known
  BY DEF ReadPage, ReaderTypes
<1>4. Listed(paging.run, paging.level)' = listed
  BY <1>0, <1>3 DEF Listed
<1>5. listed # {} => Stored(r)
  <2>1. RowsExist(r) /\ events[r] \in Seq(Event)
    BY <1>0 DEF Inv, RunInv, TypeOK, StoreTypeOK
  <2> QED BY <2>1 DEF RowsExist, Listed
<1>6. paging'.known # {} => pipelines[target[r]] # "unused"
  BY <1>3, <1>5 DEF PagingFits, Stored
<1>7. ASSUME Stored(r), NEW n \in paging'.known
      PROVE  /\ n \in listed /\ Newer(listed, n) \in Nat
             /\ n \in paging.seen \/ Newer(listed, n) >= paging.offset
  <2>1. n \in listed /\ (n \in paging.seen \/ Newer(listed, n) >= paging.offset \/ paging.offset = 0)
    BY <1>0, <1>3, <1>7 DEF PagingFits
  <2> HIDE DEF listed
  <2>2. Newer(listed, n) \in 0 .. Cardinality(listed) - 1
    BY <1>1, <2>1, NewerType
  <2> QED BY <2>1, <2>2
<1> HIDE DEF listed, page
<1>8. ASSUME Stored(r), NEW n \in paging'.known, n \notin paging'.seen
      PROVE  /\ Cardinality(page) = PageSize
             /\ Newer(listed, n) >= paging'.offset
  <2>1. n \in listed /\ Newer(listed, n) >= paging.offset /\ n \notin page
    BY <1>3, <1>7, <1>8
  <2>2. Cardinality(page) = PageSize /\ Newer(listed, n) >= paging.offset + PageSize
    BY <1>0, <1>1, <2>1, PageIsFull DEF page
  <2> QED BY <1>3, <2>2
<1>9. PagingFits'
  <2>1. ASSUME Stored(r), NEW n \in paging'.known
        PROVE  n \in listed /\ (n \in paging'.seen \/ Newer(listed, n) >= paging'.offset)
    BY <1>7, <1>8, <2>1
  <2> QED BY <1>0, <1>3, <1>4, <1>6, <2>1 DEF PagingFits, Stored
<1>10. PagesMissNothing'
  <2>1. PageSize \in Nat
    BY PageSizeAssumption
  <2>2. asking'.at = "list" => Cardinality(page) < PageSize
    BY <1>3
  <2>3. asking'.at = "list" /\ Stored(r) => paging'.known \subseteq paging'.seen
    BY <1>2, <1>8, <2>1, <2>2
  <2> QED BY <1>0, <1>3, <2>3 DEF PagesMissNothing, Stored
<1> QED BY <1>9, <1>10

LEMMA ReaderKeepsPaging ==
  ASSUME Beneath, ReaderInv, ReaderNext, UNCHANGED vars
  PROVE  PagingFits' /\ PagesMissNothing'
<1>0. /\ UNCHANGED <<pipelines, target, events>>
      /\ ReaderTypes /\ PagingFits /\ PagesMissNothing
  BY DEF ReaderInv, vars, tables
<1>1. ASSUME paging' = paging, asking'.at = asking.at \/ asking'.at \notin {"list", "page"}
      PROVE  PagingFits' /\ PagesMissNothing'
  BY <1>0, <1>1 DEF PagingFits, PagesMissNothing, Listed, Stored
<1>2. ASSUME paging'.known = {}
      PROVE  PagingFits' /\ PagesMissNothing'
  BY <1>2 DEF PagingFits, PagesMissNothing
<1>3. CASE ReadPage
  BY <1>0, <1>3, ReadPageKeepsPaging
<1>4. ASSUME NEW r \in Runs, NEW level \in Levels, AskEvents(r, level)
      PROVE  PagingFits' /\ PagesMissNothing'
  BY <1>2, <1>4 DEF AskEvents
<1>5. CASE NoPage
  BY <1>0, <1>2, <1>5 DEF NoPage, ReaderTypes
<1>6. CASE UNCHANGED reader
  BY <1>1, <1>6 DEF reader
<1>7. ASSUME NEW p \in Pipelines, AskStatus(p)
      PROVE  PagingFits' /\ PagesMissNothing'
  BY <1>1, <1>7 DEF AskStatus
<1>8. ASSUME NEW r \in Runs, ReadRunRow(r)
      PROVE  PagingFits' /\ PagesMissNothing'
  BY <1>0, <1>1, <1>8 DEF ReadRunRow, AskFrom, ReaderTypes
<1>9. CASE ReadStepRows
  BY <1>0, <1>1, <1>9 DEF ReadStepRows, AskFrom, ReaderTypes
<1>10. CASE NoStatus
  BY <1>0, <1>1, <1>10 DEF NoStatus, AskFrom, ReaderTypes
<1> QED BY <1>3, <1>4, <1>5, <1>6, <1>7, <1>8, <1>9, <1>10 DEF ReaderNext

--------------------------------------------------------------------------------
(* The theorems.                                                              *)

LEMMA ReaderInvInit == ReaderInit => ReaderInv
<1> SUFFICES ASSUME ReaderInit
             PROVE  ReaderInv
  OBVIOUS
<1>1. ReaderTypes
  BY ReaderTypesInit
<1>2. /\ asking.at \in {"idle", "list"} /\ paging.known = {}
      /\ \A r \in Runs : answers[r] = NoAnswer /\ answers[r].status = "absent"
  BY DEF ReaderInit, NoAnswer
<1> QED BY <1>1, <1>2 DEF ReaderInv, RowFits, AnswersFit, PagingFits, ShownCompletionIsWhole,
                          ShownFailureHasCulprit, PagesMissNothing

LEMMA ReaderInvStep ==
  ASSUME Beneath, ReaderInv, [ReaderNext]_readerVars
  PROVE  ReaderInv'
<1>1. ReaderTypes' /\ ShownCompletionIsWhole' /\ ShownFailureHasCulprit'
  BY ReaderTypesStep, ShownStep DEF Beneath, ReaderInv
<1>2. CASE [Next]_vars /\ UNCHANGED reader
  BY <1>1, <1>2, SystemKeepsAnswers, SystemKeepsPaging DEF Beneath, ReaderInv
<1>3. CASE ReaderNext /\ UNCHANGED vars
  BY <1>1, <1>3, ReaderKeepsAnswers, ReaderKeepsPaging DEF ReaderInv
<1>4. \/ [Next]_vars /\ UNCHANGED reader
      \/ ReaderNext /\ UNCHANGED vars
  BY DEF ReaderNext, readerVars, AskStatus, ReadRunRow, ReadStepRows, NoStatus, AskEvents,
         ReadPage, NoPage
<1> QED BY <1>2, <1>3, <1>4

(* What the client has read is behind the rows of the runs, never ahead.      *)
THEOREM ReaderConsistency == ReaderSpec => [](Beneath /\ ReaderInv)
<1>1. ReaderInit => Beneath /\ ReaderInv
  BY BeneathInit, ReaderInvInit
<1>2. Beneath /\ ReaderInv /\ [ReaderNext]_readerVars => Beneath' /\ ReaderInv'
  BY BeneathStep, ReaderInvStep
<1> QED BY <1>1, <1>2, PTL DEF ReaderSpec

(* GetRunStatus shows a completed run with completed steps only, although it  *)
(* reads the steps after the run.                                             *)
THEOREM CompletionIsShownWhole == ReaderSpec => []ShownCompletionIsWhole
<1>1. ReaderInv => ShownCompletionIsWhole
  BY DEF ReaderInv
<1> QED BY <1>1, ReaderConsistency, PTL

(* It shows a failed run with the step that failed, as long as no statement   *)
(* of ExecuteRun has failed: the step is recorded first and read last.        *)
THEOREM FailureIsShownWithCulprit == ReaderSpec => []ShownFailureHasCulprit
<1>1. ReaderInv => ShownFailureHasCulprit
  BY DEF ReaderInv
<1> QED BY <1>1, ReaderConsistency, PTL

(* ListRunEvents loses no event between two pages, although the offsets shift *)
(* when ExecuteRun records another; for any page size and any timeline.       *)
THEOREM PagingIsComplete == ReaderSpec => []PagesMissNothing
<1>1. ReaderInv => PagesMissNothing
  BY DEF ReaderInv
<1> QED BY <1>1, ReaderConsistency, PTL

\* What PollsGoForward says of one run.
AnswerGoesForward(r) ==
  answers[r] # NoAnswer =>
    /\ Forward(answers[r].status, answers'[r].status)
    /\ \A k \in Keys : Forward(answers[r].steps[k], answers'[r].steps[k])

(* No answer of GetRunStatus is behind an earlier one, for the run or for any *)
(* of its steps, however long ago the row of the run was read.                *)
THEOREM AnswersGoForward == ReaderSpec => PollsGoForward
<1>1. ASSUME Beneath, ReaderInv, [ReaderNext]_readerVars
      PROVE  [\A r \in Runs : AnswerGoesForward(r)]_readerVars
  <2> SUFFICES ASSUME NEW r \in Runs
               PROVE  AnswerGoesForward(r)
    OBVIOUS
  <2>1. CASE UNCHANGED answers
    BY <2>1, ForwardMoves DEF AnswerGoesForward
  <2>2. CASE ReadStepRows
    <3>1. CASE r # row.run
      BY <1>1, <2>2, <3>1, NewAnswer, ForwardMoves DEF AnswerGoesForward
    <3>2. CASE r = row.run
      <4>1. /\ answers'[r] = [status |-> row.status, steps |-> stepStatus[r]]
            /\ answers[r] # NoAnswer =>
                 /\ Forward(answers[r].status, row.status)
                 /\ \A k \in Keys : Forward(answers[r].steps[k], stepStatus[r][k])
        BY <1>1, <2>2, <3>2, NewAnswer
      <4>2. answers'[r].status = row.status /\ answers'[r].steps = stepStatus[r]
        BY <4>1
      <4> QED BY <4>1, <4>2 DEF AnswerGoesForward
    <3> QED BY <3>1, <3>2
  <2> QED BY <1>1, <2>1, <2>2 DEF ReaderNext, readerVars, reader, AskStatus, ReadRunRow, NoStatus,
                                  AskEvents, ReadPage, NoPage
<1>2. ReaderSpec => [][\A r \in Runs : AnswerGoesForward(r)]_readerVars
  BY <1>1, ReaderConsistency, PTL DEF ReaderSpec
<1> QED BY <1>2 DEF PollsGoForward, AnswerGoesForward

(* The numbers of ListPipelineRuns fit the status of their run: the one       *)
(* statement that joins the runs and the steps sees what ExecuteRun leaves    *)
(* between any two of its own.                                                *)
THEOREM HistoriesAddUp == ReaderSpec => []HistoryAddsUp
<1>1. ASSUME Inv, RowsInv
      PROVE  HistoryAddsUp
  <2> SUFFICES ASSUME NEW r \in Runs
               PROVE  LET item == HistoryItem(r) IN
                      /\ item.status = "pending" => item.completed = 0 /\ item.failed = 0
                      /\ item.status = "completed" => item.completed = item.total
                      /\ item.failed <= 1 /\ item.completed + item.failed <= item.total
    BY DEF HistoryAddsUp
  <2> DEFINE having(status) == {k \in Keys : stepStatus[r][k] = status}
             all == {k \in Keys : stepStatus[r][k] # "absent"}
             completed == having("completed")
             failed == having("failed")
  <2>0. /\ RowsExist(r) /\ OneFits(r) /\ WholeFits(r) /\ OnlyPlanned(r) /\ PendingFits(r)
        /\ steps[target[r]] \in Seq(Step)
    BY <1>1 DEF Inv, RunInv, RowsInv, TypeOK, StoreTypeOK
  <2>1. IsFiniteSet(all)
    <3> DEFINE sq == steps[target[r]]
    <3>1. IsFiniteSet(KeysOf(sq))
      <4> DEFINE key == [n \in 1 .. Len(sq) |-> sq[n].key]
      <4>1. key \in Surjection(1 .. Len(sq), KeysOf(sq)) /\ Len(sq) \in Nat
        <5>1. DOMAIN sq = 1 .. Len(sq) /\ Len(sq) \in Nat
          BY <2>0
        <5>2. KeysOf(sq) = {sq[n].key : n \in 1 .. Len(sq)}
          BY <5>1 DEF KeysOf
        <5> HIDE DEF sq
        <5> QED BY <5>1, <5>2 DEF Surjection
      <4> HIDE DEF key, sq
      <4> QED BY <4>1, FS_Interval, FS_Surjection
    <3>2. all \in SUBSET KeysOf(sq)
      BY <2>0 DEF OnlyPlanned
    <3> HIDE DEF all, sq
    <3> QED BY <3>1, <3>2, FS_Subset
  <2>2. completed \cup failed \in SUBSET all /\ completed \cap failed = {}
    OBVIOUS
  <2>3. runStatus[r] = "pending" => completed = {} /\ failed = {}
    BY <2>0 DEF PendingFits
  <2>4. runStatus[r] = "completed" => completed = all
    BY <2>0 DEF WholeFits, OnlyPlanned
  <2>5. failed = {} \/ \E k : failed = {k}
    <3>1. \A k, l \in failed : k = l
      BY <2>0 DEF OneFits
    <3> HIDE DEF failed
    <3>2. ASSUME NEW k \in failed
          PROVE  failed = {k}
      BY <3>1
    <3> QED BY <3>2
  <2>6. /\ HistoryItem(r).status = runStatus[r] /\ HistoryItem(r).total = Cardinality(all)
        /\ HistoryItem(r).completed = Cardinality(completed)
        /\ HistoryItem(r).failed = Cardinality(failed)
    BY DEF HistoryItem
  <2> HIDE DEF having, all, completed, failed
  <2>7. IsFiniteSet(completed) /\ IsFiniteSet(failed)
    BY <2>1, <2>2, FS_Subset
  <2>8. /\ Cardinality(completed \cup failed) <= Cardinality(all)
        /\ Cardinality(completed \cup failed) = Cardinality(completed) + Cardinality(failed)
    <3>1. Cardinality(completed \cup failed) <= Cardinality(all)
      BY <2>1, <2>2, FS_Subset
    <3>2. /\ Cardinality(completed \cup failed) =
               Cardinality(completed) + Cardinality(failed) - Cardinality(completed \cap failed)
          /\ Cardinality(completed) \in Nat /\ Cardinality(failed) \in Nat
      BY <2>7, FS_Union, FS_CardinalityType
    <3> QED BY <2>2, <3>1, <3>2, FS_EmptySet
  <2>9. Cardinality(failed) <= 1 /\ Cardinality({}) = 0
    BY <2>5, FS_EmptySet, FS_Singleton
  <2> QED BY <2>3, <2>4, <2>6, <2>8, <2>9
<1>2. Beneath => HistoryAddsUp
  BY <1>1 DEF Beneath
<1> QED BY <1>2, ReaderConsistency, PTL
================================================================================

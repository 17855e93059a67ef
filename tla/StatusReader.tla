----------------------------- MODULE StatusReader ------------------------------
(******************************************************************************)
(* A client that polls GET /pipelines/{id}/status, with or without run_id,    *)
(* and GET /pipelines/{id}/runs, and reads GET /pipelines/{id}/events page by *)
(* page, while the runs of Scheduler go on.  The status of the run and those  *)
(* of its steps are read by two statements, and every page by a request of    *)
(* its own, so that what a client is shown may never have been true at any    *)
(* one time; the properties say in what respect it can be relied on.          *)
(******************************************************************************)
EXTENDS Scheduler

CONSTANT PageSize    \* the limit of the event pages

ASSUME PageSizeAssumption == PageSize \in Nat \ {0}

VARIABLES
  asking,   \* where the request is, and the pipeline it is about: "idle" between two
            \* polls of the status, "list" between two lists of events
  row,      \* the row of pipeline_runs that it has read
  answers,  \* what the client was last told of each run
  paging    \* the events it has seen, of those it knows of, page by page

reader == <<asking, row, answers, paging>>
readerVars == <<vars, reader>>

Levels == {"any", "info", "warn", "error"}

\* The level of the events of each type.
Level == [type \in EventTypes |->
            CASE type = "step_retry" -> "warn"
              [] type \in {"run_failed", "step_failed"} -> "error"
              [] OTHER -> "info"]

NoAnswer == [status |-> "absent", steps |-> NoStepRuns]

ReaderInit ==
  /\ Init
  /\ asking \in [at: {"idle", "list"}, pipeline: Pipelines]
  /\ row \in [run: Runs, status: {"absent"}]
  /\ answers = [r \in Runs |-> NoAnswer]
  /\ paging \in [run: Runs, level: {"any"}, offset: {0}, known: {{}}, seen: {{}}]

AskFrom(from, to) == asking.at = from /\ asking' = [asking EXCEPT !.at = to]

\* GetByID; a pipeline that is not found is a 404.
AskStatus(p) ==
  /\ asking.at = "idle" /\ pipelines[p] = "stored"
  /\ asking' = [at |-> "run", pipeline |-> p]
  /\ UNCHANGED <<vars, row, answers, paging>>

\* The first SELECT of GetRunStatusByID, or of GetLatestRunStatus.  The latter
\* reads one of the runs that the client could have named: which of them is of no
\* concern here, and created_at is not modelled.
ReadRunRow(r) ==
  /\ AskFrom("run", "steps")
  /\ target[r] = asking.pipeline /\ runStatus[r] # "absent"
  /\ row' = [run |-> r, status |-> runStatus[r]]
  /\ UNCHANGED <<vars, answers, paging>>

\* The second SELECT, which finds no rows if the pipeline has just been deleted.
ReadStepRows ==
  /\ AskFrom("steps", "idle")
  /\ answers' = [answers EXCEPT ![row.run] =
                   [status |-> row.status, steps |-> stepStatus[row.run]]]
  /\ UNCHANGED <<vars, row, paging>>

\* There is no such run, or a statement fails; the client learns nothing.
NoStatus ==
  /\ AskFrom("run", "idle") \/ AskFrom("steps", "idle")
  /\ UNCHANGED <<vars, row, answers, paging>>

--------------------------------------------------------------------------------
(* The requests of a client that pages through the events of a run.  An event *)
(* is known by its place in events[r]: a later one has a later created_at.    *)

Listed(r, level) ==
  {n \in DOMAIN events[r] : level \in {"any", Level[events[r][n].type]}}

\* Mutant: the rows are numbered from 1.
PageFromOne(listed, offset) ==
  {n \in listed : Cardinality({m \in listed : m > n}) \in offset + 1 .. offset + PageSize}

\* ORDER BY created_at DESC LIMIT PageSize OFFSET offset.
Page(listed, offset) ==
  {n \in listed : Cardinality({m \in listed : m > n}) \in offset .. offset + PageSize - 1}

AskEvents(r, level) ==
  /\ asking.at = "list" /\ Stored(r)
  /\ asking' = [at |-> "page", pipeline |-> target[r]]
  /\ paging' = [run |-> r, level |-> level, offset |-> 0, known |-> {}, seen |-> {}]
  /\ UNCHANGED <<vars, row, answers>>

\* The client goes on until a page is not full; a first page tells it how many
\* events there are to be read.
ReadPage ==
  LET listed == Listed(paging.run, paging.level)
      page == Page(listed, paging.offset)
  IN
  /\ asking.at = "page"
  /\ asking' = [asking EXCEPT !.at = IF Cardinality(page) < PageSize THEN "list" ELSE "page"]
  /\ paging' = [paging EXCEPT !.offset = @ + Cardinality(page), !.seen = @ \cup page,
                              !.known = IF paging.offset = 0 THEN listed ELSE @]
  /\ UNCHANGED <<vars, row, answers>>

\* A page is refused, as the pipeline is not found or a statement fails.
NoPage ==
  /\ AskFrom("page", "list")
  /\ paging' = [paging EXCEPT !.offset = 0, !.known = {}, !.seen = {}]
  /\ UNCHANGED <<vars, row, answers>>

ReaderNext ==
  \/ Next /\ UNCHANGED reader
  \/ \E p \in Pipelines : AskStatus(p)
  \/ \E r \in Runs : ReadRunRow(r)
  \/ ReadStepRows \/ NoStatus
  \/ \E r \in Runs, level \in Levels : AskEvents(r, level)
  \/ ReadPage \/ NoPage

ReaderSpec == ReaderInit /\ [][ReaderNext]_readerVars

--------------------------------------------------------------------------------
(* What PipelineStatus tells.                                                 *)

(* A run that is shown as completed is shown with completed steps only: the   *)
(* run is read before its steps, and they are final.  None are shown when the *)
(* pipeline was deleted in between.                                           *)
ShownCompletionIsWhole ==
  \A r \in Runs, k \in Keys :
    answers[r].status = "completed" => answers[r].steps[k] \in {"completed", "absent"}

(* A run that is shown as failed is shown with the step that failed, or with  *)
(* no steps, unless a statement of the run has failed: ExecuteRun writes the  *)
(* step before the run, the reader reads them the other way round.            *)
ShownFailureHasCulprit ==
  \A r \in Runs :
    answers[r].status = "failed" /\ dbErrors[r] = 0 =>
      (\E k \in Keys : answers[r].steps[k] = "failed") \/ answers[r].steps = NoStepRuns

Rank == [absent |-> 3, pending |-> 0, running |-> 1, completed |-> 2, failed |-> 2]

Forward(s, t) == s = t \/ Rank[s] < Rank[t]

(* Successive answers about a run never go back: not for the run, and not for *)
(* any of its steps, however stale the parts of an answer are.                *)
PollsGoForward ==
  [][\A r \in Runs : answers[r] # NoAnswer =>
       /\ Forward(answers[r].status, answers'[r].status)
       /\ \A k \in Keys : Forward(answers[r].steps[k], answers'[r].steps[k])]_readerVars

(* A client that pages to the end has seen every event that there was when it *)
(* began, although each event that is inserted meanwhile moves the others to  *)
(* later pages; unless the pipeline has been deleted under it.                *)
PagesMissNothing ==
  asking.at = "list" => paging.known \subseteq paging.seen \/ ~ Stored(paging.run)

--------------------------------------------------------------------------------
(* What PipelineRuns tells: one statement that joins the runs and their steps. *)

HistoryItem(r) ==
  LET Number(status) == Cardinality({k \in Keys : stepStatus[r][k] = status})
  IN [status    |-> runStatus[r],
      total     |-> Cardinality({k \in Keys : stepStatus[r][k] # "absent"}),
      completed |-> Number("completed"),
      failed    |-> Number("failed")]

(* The numbers of a run fit its status: a pending run has done nothing, a     *)
(* completed one everything, and at most one step of a run fails, which is    *)
(* not of a run that completes.                                               *)
HistoryAddsUp ==
  \A r \in Runs :
    LET item == HistoryItem(r) IN
    /\ item.status = "pending" => item.completed = 0 /\ item.failed = 0
    /\ item.status = "completed" => item.completed = item.total
    /\ item.failed <= 1 /\ item.completed + item.failed <= item.total
================================================================================

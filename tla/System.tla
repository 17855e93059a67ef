--------------------------------- MODULE System ---------------------------------
(******************************************************************************)
(* The orchestrator and its worker: Scheduler, with Worker as what the        *)
(* dispatcher calls.  An ExecuteStep call makes a connection and waits for    *)
(* the answer or for its timeout, whichever the client sees first.            *)
(******************************************************************************)
EXTENDS Scheduler

CONSTANTS
  NoSource,     \* the source of an extract step, which reads no artifact
  Sources,      \* the input_from of each step key that pipelines may configure
  Backlog,      \* how many connections the worker's socket holds
  MaxRestarts   \* bound of the search: restarts of the worker

ASSUME SourcesAssumption == NoSource \notin Keys /\ Sources \subseteq [Keys -> Keys \cup {NoSource}]
ASSUME WorkerBoundsAssumption == Backlog \in Nat \ {0} /\ MaxRestarts \in Nat

VARIABLES
  backlog, serving, phase, artifacts, conn, performed, wiped, refused, restarts,
  source,       \* config.input_from of the steps of each pipeline
  accepted,     \* the attempt whose answer completed a step, NoAttempt before (history)
  gaveUp        \* the runs that ended a call without an answer (history)

INSTANCE Worker

NoAttempt == -1

\* The variables of Worker, conn last.
worker == <<backlog, serving, phase, artifacts, performed, wiped, refused, restarts>>
workerVars == <<worker, conn>>

history == <<accepted, gaveUp>>
systemVars == <<vars, workerVars, source, history>>

SystemTypeOK ==
  /\ TypeOK
  /\ WorkerTypeOK
  /\ source \in [Pipelines -> Sources]
  /\ accepted \in [Runs -> [Keys -> Int]]
  /\ gaveUp \subseteq Runs

SystemInit ==
  /\ Init
  /\ WorkerInit
  /\ source \in [Pipelines -> Sources]
  /\ accepted = [r \in Runs |-> [k \in Keys |-> NoAttempt]]
  /\ gaveUp = {}

--------------------------------------------------------------------------------
(* HTTPDispatcher.ExecuteStep.                                                *)

\* The request of the call that r is in.
Call(r) == [run |-> r, step |-> job[r].step, source |-> source[target[r]][job[r].step],
            attempt |-> job[r].attempt]

CallWorker(r) ==
  /\ At(r, "execute")
  /\ Connect(Call(r))
  /\ UNCHANGED <<vars, source, history>>

Answered(r, answer) == \E c \in conn[r] : c.answer = answer

\* A 2xx answer; whether its body can be decoded does not matter.
CallSucceeds(r) ==
  /\ Answered(r, "ok")
  /\ ExecuteSucceeds(r)
  /\ Close(r)
  /\ accepted' = [accepted EXCEPT ![r][job[r].step] = job[r].attempt]
  /\ UNCHANGED <<source, gaveUp>>

\* An answer with another status.
CallIsRefused(r) ==
  /\ Answered(r, "error")
  /\ ExecuteFails(r)
  /\ Close(r)
  /\ UNCHANGED <<source, history>>

\* Mutant: a client without a timeout waits for an answer.
CallTimesOutOnceAnswered(r) ==
  /\ conn[r] # {} /\ ~ Answered(r, "pending")
  /\ ExecuteFails(r)
  /\ Close(r)
  /\ gaveUp' = gaveUp \cup {r}
  /\ UNCHANGED <<source, accepted>>

\* The worker cannot be reached, the connection is reset, or the client's timeout
\* expires, perhaps while the answer is on its way.
CallTimesOut(r) ==
  /\ ExecuteFails(r)
  /\ Close(r)
  /\ gaveUp' = gaveUp \cup {r}
  /\ UNCHANGED <<source, accepted>>

--------------------------------------------------------------------------------

\* Everything a run does besides waiting for its dispatcher.
OwnStep(r) ==
  /\ \/ ReadSteps(r) \/ CreateRun(r) \/ Spawn(r)
     \/ Load(r) \/ LoadSteps(r) \/ StartRun(r) \/ Schedule(r) \/ Pick(r)
     \/ BeginAttempt(r) \/ CompleteStep(r) \/ FinishRun(r) \/ Write(r)
  /\ UNCHANGED <<workerVars, source, history>>

SystemRunStep(r) ==
  OwnStep(r) \/ CallWorker(r) \/ CallSucceeds(r) \/ CallIsRefused(r) \/ CallTimesOut(r)

\* The orchestrator dies, and its connections with it; the worker goes on.
OrchestratorCrash ==
  /\ Crash
  /\ conn' = [r \in Runs |-> {}]
  /\ UNCHANGED <<worker, source, history>>

SystemNext ==
  \/ /\ \/ \E p \in Pipelines : CreatePipeline(p) \/ DeletePipeline(p)
        \/ \E r \in Runs : FindPipeline(r)
     /\ UNCHANGED <<workerVars, source, history>>
  \/ \E r \in Runs : SystemRunStep(r)
  \/ OrchestratorCrash
  \/ WorkerStep /\ UNCHANGED <<vars, source, history>>

\* As in Scheduler; the client's timeout is what makes each call return.  Nothing
\* is assumed of the worker: a connector may take as long as it likes.
SystemSpec ==
  SystemInit /\ [][SystemNext]_systemVars /\ \A r \in Runs : WF_systemVars(SystemRunStep(r))

--------------------------------------------------------------------------------
(* Properties.                                                                *)

(* Dependencies hold for effects, too, the late ones included: the work of a  *)
(* step is asked for or done only after that of its dependencies, and no      *)
(* request that was given up can still repeat theirs.                         *)
EffectsFollowGraph ==
  \A r \in Runs, k \in Keys : InWorker(r, k) \/ performed[r][k] > 0 =>
    \A d \in DependsOn(job[r].plan, k) : performed[r][d] > 0 /\ ~ InWorker(r, d)

(* The artifact of a step whose call has succeeded is that of the accepted    *)
(* attempt, never of one that was given up before, unless a restart wiped it. *)
AcceptedResultStands ==
  \A r \in Runs, k \in Keys : k \in executed[r] =>
    artifacts[r][k].attempt = accepted[r][k] \/ <<r, k>> \in wiped

(* The steps that k waits for, directly or not.                               *)
Upstream(plan, k) ==
  {d \in KeysOf(plan) : \A S \in SUBSET KeysOf(plan) :
     DependsOn(plan, k) \subseteq S /\ (\A s \in S : DependsOn(plan, s) \subseteq S) => d \in S}

(* A step is refused for want of its input only if a restart has wiped it, if *)
(* it is an extracted null, or if input_from names no step upstream of it:    *)
(* retries, timeouts and other runs never make an input disappear.            *)
RefusalIsExplained ==
  \A r \in Runs, k \in Keys : <<r, k>> \in refused =>
    LET input == source[target[r]][k] IN
    \/ input \notin Upstream(job[r].plan, k)
    \/ <<r, input>> \in wiped
    \/ artifacts[r][input] # NoArtifact /\ artifacts[r][input].none

(* A step whose call has succeeded was performed at least once, and at most   *)
(* once for each of its attempts: exactly once if the first was accepted.     *)
EffectsPerAttempt ==
  \A r \in Runs, k \in Keys : k \in executed[r] => performed[r][k] \in 1 .. accepted[r][k] + 1

(* The worker has nothing left to do for a completed run, and for a failed    *)
(* one only if the run gave up a call.                                        *)
QuietAfterwards ==
  \A r \in Runs, k \in Keys :
    runStatus[r] \in Terminal /\ InWorker(r, k) => runStatus[r] = "failed" /\ r \in gaveUp

(* The system with the worker, as slow, stuck or restarted as it may be, does *)
(* what Scheduler says of it: every call returns.                             *)
ImplementsScheduler == Spec
================================================================================

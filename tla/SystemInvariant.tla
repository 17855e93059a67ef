---------------------------- MODULE SystemInvariant ----------------------------
(******************************************************************************)
(* The inductive invariant of System: what the requests in the worker, its    *)
(* artifacts and the dispatcher's connections have to do with where each run  *)
(* is.  It rests on Inv of SchedulerInvariant, and holds if no retry_count    *)
(* reaches the largest int.                                                   *)
(******************************************************************************)
EXTENDS System, SchedulerInvariant

RetriesEnd ==
  \A sq \in Definitions : \A n \in DOMAIN sq :
    sq[n].retryCount \in Int => sq[n].retryCount < MaxInt

\* Where no step of the run has been asked for, and where one may be in the worker.
Before == {"idle", "read", "insert", "spawn", "load", "loadSteps", "start"}
Calling == {"attempt", "execute", "failing", "lost"}

\* The requests of r in the socket, and the one that is being served.
Waiting(r) == {backlog[i] : i \in {j \in DOMAIN backlog : backlog[j].run = r}}
Served(r) == {serving[i] : i \in {j \in DOMAIN serving : serving[j].run = r}}
RequestsOf(r) == Waiting(r) \cup Served(r)

(* The loops, and the calls that have succeeded.                              *)
CallsFit(r) ==
  LET jb == job[r] IN
  /\ jb.plan \in Definitions \cup {<<>>}
  /\ pc[r] \in Before => executed[r] = {}
  /\ pc[r] \in Executing => executed[r] \subseteq jb.queued
  /\ jb.completed \subseteq executed[r]
  /\ pc[r] = "complete" => jb.step \in executed[r]
  /\ pc[r] \in {"attempt", "execute"} =>
       jb.step \notin executed[r] /\ jb.attempt \in 0 .. jb.retries /\ jb.retries < MaxInt

(* A request in the worker is for the step in hand, whose dependencies are    *)
(* completed; it is the open connection's, or was given up.                   *)
RequestsFit(r) ==
  LET jb == job[r] IN
  \A request \in RequestsOf(r) :
    /\ pc[r] \in Calling
    /\ request.step = jb.step /\ request.source = source[target[r]][jb.step]
    /\ jb.step \notin executed[r]
    /\ request.attempt \in 0 .. jb.attempt
    /\ request.attempt = jb.attempt => pc[r] = "lost" \/ (pc[r] = "execute" /\ conn[r] # {})
    /\ DependsOn(jb.plan, jb.step) \subseteq jb.completed
    /\ jb.completed \subseteq KeysOf(jb.plan)
    /\ \A k \in jb.completed : DependsOn(jb.plan, k) \subseteq jb.completed
    /\ runStatus[r] # "completed"
    /\ r \notin gaveUp => pc[r] \in {"execute", "lost"} /\ runStatus[r] # "failed"

(* The requests of a run are served in the order of its attempts.             *)
QueueFits ==
  /\ \A i, j \in DOMAIN backlog :
       i < j /\ backlog[i].run = backlog[j].run => backlog[i].attempt < backlog[j].attempt
  /\ \A i \in DOMAIN serving, j \in DOMAIN backlog :
       serving[i].run = backlog[j].run => serving[i].attempt < backlog[j].attempt

(* An answer on an open connection is to the call that the run is in, and the *)
(* requests that were given up before it have been served.                    *)
ConnFits(r) ==
  \A c \in conn[r] :
    /\ pc[r] = "execute" /\ out[r] = <<>>
    /\ c.request = Call(r)
    /\ c.answer # "pending" => RequestsOf(r) = {}
    /\ c.answer = "ok" =>
         /\ performed[r][job[r].step] > 0
         /\ artifacts[r][job[r].step].attempt = job[r].attempt \/ <<r, job[r].step>> \in wiped

(* What has been performed of the steps whose call has succeeded, and of the  *)
(* step in hand: no more than its attempts up to the one being served.        *)
WorkFits(r) ==
  LET jb == job[r] IN
  /\ \A k \in executed[r] :
       /\ performed[r][k] \in 1 .. accepted[r][k] + 1
       /\ artifacts[r][k].attempt = accepted[r][k] \/ <<r, k>> \in wiped
       /\ accepted[r][k] >= 0
       /\ DependsOn(jb.plan, k) \subseteq executed[r]
  /\ \A k \in Keys \ executed[r] : performed[r][k] > 0 =>
       /\ k = jb.step /\ pc[r] \in Calling
       /\ DependsOn(jb.plan, k) \subseteq executed[r]
       /\ pc[r] \in {"attempt", "execute"} =>
            performed[r][k] <= jb.attempt + (IF conn[r] # {} THEN 1 ELSE 0)
  /\ \A request \in Waiting(r) : performed[r][request.step] <= request.attempt
  /\ \A request \in Served(r) :
       /\ phase = "executing" => performed[r][request.step] <= request.attempt
       /\ phase = "performed" => performed[r][request.step] \in 1 .. request.attempt + 1

(* RefusalIsExplained, for one run.                                           *)
RefusalFits(r) ==
  \A k \in Keys : <<r, k>> \in refused =>
    LET input == source[target[r]][k] IN
    /\ pc[r] \notin Before
    /\ \/ input \notin Upstream(job[r].plan, k)
       \/ <<r, input>> \in wiped
       \/ input \in executed[r] /\ artifacts[r][input].none

CallInv(r) ==
  CallsFit(r) /\ RequestsFit(r) /\ ConnFits(r) /\ WorkFits(r) /\ RefusalFits(r)

SystemInv == SystemTypeOK /\ QueueFits /\ \A r \in Runs : CallInv(r)
================================================================================

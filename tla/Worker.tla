--------------------------------- MODULE Worker ---------------------------------
(******************************************************************************)
(* The executor worker: an HTTPServer of one thread, which serves the POST    *)
(* /execute requests one after the other in the order in which their          *)
(* connections were made, and the artifacts that it keeps in memory.  It does *)
(* not notice that a client has closed its connection, so a request outlives  *)
(* the call that sent it.  System composes it with the scheduler's calls.     *)
(******************************************************************************)
EXTENDS Integers, Sequences

CONSTANTS
  Runs,         \* run identifiers
  Keys,         \* step keys
  NoSource,     \* the source of an extract step, which reads no artifact
  Backlog,      \* how many connections the listening socket holds
  MaxRestarts   \* bound of the search: restarts of the worker

VARIABLES
  backlog,      \* the connections waiting to be served, the oldest first
  serving,      \* the requests being served: none or one
  phase,        \* "executing", then "performed": the connector has done its work
  artifacts,    \* _data, by run and step key
  conn,         \* the open connection of each run's dispatcher, with the answer
  performed,    \* how often the work of a step was done (history)
  wiped,        \* the artifacts that a restart has wiped (history)
  refused,      \* the requests refused for want of their input (history)
  restarts      \* restarts so far

\* source is config.input_from: EmptyKey if a step that needs one has none.
Request == [run: Runs, step: Keys, source: Keys \cup {NoSource}, attempt: Int]

\* A step may produce None (an extracted JSON null), which get_artifact does not
\* tell from an artifact that is not there.
Artifact == [attempt: Int, none: BOOLEAN]
NoArtifact == [attempt |-> -1, none |-> TRUE]

Answers == {"pending", "ok", "error"}
Connection == [request: Request, answer: Answers]

WorkerTypeOK ==
  /\ backlog \in Seq(Request) /\ Len(backlog) <= Backlog
  /\ serving \in Seq(Request) /\ Len(serving) <= 1
  /\ phase \in {"executing", "performed"}
  /\ artifacts \in [Runs -> [Keys -> Artifact]]
  /\ conn \in [Runs -> SUBSET Connection]
  /\ performed \in [Runs -> [Keys -> Nat]]
  /\ wiped \subseteq Runs \X Keys
  /\ refused \subseteq Runs \X Keys
  /\ restarts \in 0 .. MaxRestarts

WorkerInit ==
  /\ backlog = <<>> /\ serving = <<>> /\ phase = "executing"
  /\ artifacts = [r \in Runs |-> [k \in Keys |-> NoArtifact]]
  /\ conn = [r \in Runs |-> {}]
  /\ performed = [r \in Runs |-> [k \in Keys |-> 0]]
  /\ wiped = {} /\ refused = {} /\ restarts = 0

--------------------------------------------------------------------------------
(* The requests the worker has received and not answered.                     *)
Unanswered == {serving[i] : i \in DOMAIN serving} \cup {backlog[i] : i \in DOMAIN backlog}

InWorker(r, k) == \E request \in Unanswered : request.run = r /\ request.step = k

--------------------------------------------------------------------------------
(* The dispatcher's side of a connection.                                     *)

\* Mutant: a transport that sends the request again.
ConnectTwice(request) ==
  /\ Len(backlog) + 1 < Backlog
  /\ conn[request.run] = {}
  /\ backlog' = backlog \o <<request, request>>
  /\ conn' = [conn EXCEPT ![request.run] = {[request |-> request, answer |-> "pending"]}]
  /\ UNCHANGED <<serving, phase, artifacts, performed, wiped, refused, restarts>>

\* The connection is made and the request written: it waits in the socket.
Connect(request) ==
  /\ Len(backlog) < Backlog
  /\ conn[request.run] = {}
  /\ backlog' = Append(backlog, request)
  /\ conn' = [conn EXCEPT ![request.run] = {[request |-> request, answer |-> "pending"]}]
  /\ UNCHANGED <<serving, phase, artifacts, performed, wiped, refused, restarts>>

\* The client is done with the call, or gives it up: the worker is not told.
Close(r) ==
  /\ conn' = [conn EXCEPT ![r] = {}]
  /\ UNCHANGED <<backlog, serving, phase, artifacts, performed, wiped, refused, restarts>>

\* Mutant: an answer is taken for one to the latest request.
SendToAnyone(request, answer) ==
  conn' = [conn EXCEPT ![request.run] = {[c EXCEPT !.answer = answer] : c \in @}]

\* _send: an answer on a connection that the client has closed is lost.
Send(request, answer) ==
  conn' = [conn EXCEPT ![request.run] =
             {IF c.request = request THEN [c EXCEPT !.answer = answer] ELSE c : c \in @}]

--------------------------------------------------------------------------------
(* do_POST and execute_step.                                                  *)

HasInput(request) ==
  request.source # NoSource => ~ artifacts[request.run][request.source].none

\* A transform or load step whose input is missing, or None, is an error.
Refuse ==
  /\ serving = <<>> /\ backlog # <<>>
  /\ ~ HasInput(Head(backlog))
  /\ backlog' = Tail(backlog)
  /\ Send(Head(backlog), "error")
  /\ refused' = refused \cup {<<Head(backlog).run, Head(backlog).step>>}
  /\ UNCHANGED <<serving, phase, artifacts, performed, wiped, restarts>>

\* Mutant: a pool of threads takes the requests in any order.
BeginAny ==
  /\ serving = <<>>
  /\ \E i \in DOMAIN backlog :
       /\ HasInput(backlog[i])
       /\ serving' = <<backlog[i]>>
       /\ backlog' = SubSeq(backlog, 1, i - 1) \o SubSeq(backlog, i + 1, Len(backlog))
  /\ phase' = "executing"
  /\ UNCHANGED <<artifacts, conn, performed, wiped, refused, restarts>>

Begin ==
  /\ serving = <<>> /\ backlog # <<>>
  /\ HasInput(Head(backlog))
  /\ serving' = <<Head(backlog)>> /\ backlog' = Tail(backlog)
  /\ phase' = "executing"
  /\ UNCHANGED <<artifacts, conn, performed, wiped, refused, restarts>>

\* The connector has read or written, or apply_transform has returned.
Perform ==
  /\ serving # <<>> /\ phase = "executing"
  /\ phase' = "performed"
  /\ performed' = [performed EXCEPT ![serving[1].run][serving[1].step] = @ + 1]
  /\ UNCHANGED <<backlog, serving, artifacts, conn, wiped, refused, restarts>>

\* Mutant: the worker tries a failed execution again later.
FailAndRequeue ==
  /\ serving # <<>>
  /\ serving' = <<>>
  /\ backlog' = Append(backlog, serving[1])
  /\ Send(serving[1], "error")
  /\ phase' = "executing"
  /\ UNCHANGED <<artifacts, performed, wiped, refused, restarts>>

\* The connector or apply_transform raises, before or after it has had its effect
\* (a POST, an INSERT whose confirmation is lost).
Fail ==
  /\ serving # <<>>
  /\ serving' = <<>>
  /\ Send(serving[1], "error")
  /\ phase' = "executing"
  /\ UNCHANGED <<backlog, artifacts, performed, wiped, refused, restarts>>

\* Mutant: an artifact is freed when a step has consumed it, and artifacts are
\* found by step key only.
ReplyAndFree ==
  LET request == serving[1]
      freed == [q \in Runs |-> [k \in Keys |->
                  IF k = request.source THEN NoArtifact ELSE artifacts[q][k]]]
  IN
  /\ serving # <<>> /\ phase = "performed"
  /\ \E none \in BOOLEAN :
       /\ none => request.source = NoSource
       /\ artifacts' = [freed EXCEPT ![request.run][request.step] =
                          [attempt |-> request.attempt, none |-> none]]
  /\ serving' = <<>>
  /\ Send(request, "ok")
  /\ phase' = "executing"
  /\ UNCHANGED <<backlog, performed, wiped, refused, restarts>>

\* put_artifact and the answer; only an extract step can produce None.
Reply ==
  LET request == serving[1] IN
  /\ serving # <<>> /\ phase = "performed"
  /\ \E none \in BOOLEAN :
       /\ none => request.source = NoSource
       /\ artifacts' = [artifacts EXCEPT ![request.run][request.step] =
                          [attempt |-> request.attempt, none |-> none]]
  /\ serving' = <<>>
  /\ Send(request, "ok")
  /\ phase' = "executing"
  /\ UNCHANGED <<backlog, performed, wiped, refused, restarts>>

--------------------------------------------------------------------------------
\* The worker process dies and is started again: its connections are reset, which
\* their clients may find out later, and its memory is empty.
Restart ==
  /\ restarts < MaxRestarts
  /\ restarts' = restarts + 1
  /\ backlog' = <<>> /\ serving' = <<>> /\ phase' = "executing"
  /\ artifacts' = [r \in Runs |-> [k \in Keys |-> NoArtifact]]
  /\ wiped' = wiped \cup {rk \in Runs \X Keys : artifacts[rk[1]][rk[2]] # NoArtifact}
  /\ UNCHANGED <<conn, performed, refused>>

WorkerStep == Refuse \/ Begin \/ Perform \/ Fail \/ Reply \/ Restart
================================================================================

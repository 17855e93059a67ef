------------------------------ MODULE SystemProofs ------------------------------
(******************************************************************************)
(* Proofs about System for any pipelines, runs, definitions, sources, faults, *)
(* crashes and restarts, as long as no retry_count reaches the largest int:   *)
(* SystemInv is inductive together with the invariants of Scheduler, and what *)
(* has been done by the worker and is kept in its memory follows from it.     *)
(******************************************************************************)
EXTENDS SystemInvariant, LifecycleProofs

--------------------------------------------------------------------------------
(* The system takes the steps of Scheduler.                                   *)

\* The orchestrator's part of a step, and none for a step of the worker.
LEMMA StepsAreSchedulerSteps ==
  ASSUME [SystemNext]_systemVars
  PROVE  [Next]_vars
<1>1. CASE UNCHANGED systemVars
  BY <1>1 DEF systemVars
<1>2. ASSUME NEW r \in Runs, SystemRunStep(r)
      PROVE  [Next]_vars
  <2>1. CASE OwnStep(r)
    BY <2>1 DEF OwnStep, RunStep, Next
  <2>2. CASE CallWorker(r)
    BY <2>2 DEF CallWorker
  <2>3. CASE CallSucceeds(r)
    BY <2>3 DEF CallSucceeds, RunStep, Next
  <2>4. CASE CallIsRefused(r)
    BY <2>4 DEF CallIsRefused, RunStep, Next
  <2>5. CASE CallTimesOut(r)
    BY <2>5 DEF CallTimesOut, RunStep, Next
  <2> QED BY <1>2, <2>1, <2>2, <2>3, <2>4, <2>5 DEF SystemRunStep
<1>3. CASE OrchestratorCrash
  BY <1>3 DEF OrchestratorCrash, Next
<1> QED BY <1>1, <1>2, <1>3 DEF SystemNext, Next

LEMMA RetriesEndWithinInt ==
  ASSUME RetriesEnd
  PROVE  CountsWithinInt
<1>1. MaxInt \in Int
  BY MaxIntAssumption
<1> QED BY <1>1 DEF RetriesEnd, CountsWithinInt

--------------------------------------------------------------------------------
(* The socket of the worker is a queue.                                       *)

LEMMA Characterization ==
  ASSUME NEW r
  PROVE  /\ \A request : request \in Waiting(r) <=>
              \E i \in DOMAIN backlog : request = backlog[i] /\ request.run = r
         /\ \A request : request \in Served(r) <=>
              \E i \in DOMAIN serving : request = serving[i] /\ request.run = r
BY DEF Waiting, Served

LEMMA InWorkerRequests ==
  ASSUME NEW r, NEW k, InWorker(r, k)
  PROVE  \E request \in RequestsOf(r) : request.step = k
BY DEF InWorker, Unanswered, RequestsOf, Waiting, Served

\* A request is taken from the socket.
LEMMA TakenFromBacklog ==
  ASSUME SystemTypeOK, QueueFits, serving = <<>>, backlog # <<>>, backlog' = Tail(backlog)
  PROVE  /\ Head(backlog) \in Request /\ Head(backlog) \in Waiting(Head(backlog).run)
         /\ backlog' \in Seq(Request) /\ Len(backlog') <= Backlog
         /\ \A r : Served(r) = {}
         /\ \A r : Waiting(r)' \subseteq Waiting(r)
         /\ \A r : Waiting(r) \subseteq Waiting(r)' \cup {Head(backlog)}
         /\ \A r : r # Head(backlog).run => Waiting(r)' = Waiting(r)
         /\ \A i \in DOMAIN backlog' :
              backlog'[i].run = Head(backlog).run => Head(backlog).attempt < backlog'[i].attempt
         /\ \A i, j \in DOMAIN backlog' :
              i < j /\ backlog'[i].run = backlog'[j].run => backlog'[i].attempt < backlog'[j].attempt
<1>1. backlog \in Seq(Request) /\ Len(backlog) <= Backlog /\ Backlog \in Nat
  BY WorkerBoundsAssumption DEF SystemTypeOK, WorkerTypeOK
<1>2. /\ Head(backlog) = backlog[1] /\ Head(backlog) \in Request
      /\ Tail(backlog) \in Seq(Request) /\ Len(backlog') = Len(backlog) - 1
      /\ \A i \in 1 .. Len(backlog') : backlog'[i] = backlog[i + 1]
  BY <1>1, HeadTailProperties
<1>3. Len(backlog) \in Nat \ {0} /\ Len(backlog') \in Nat
      /\ DOMAIN backlog = 1 .. Len(backlog) /\ DOMAIN backlog' = 1 .. Len(backlog')
  BY <1>1, <1>2, EmptySeq, LenProperties
<1>4. 1 \in DOMAIN backlog /\ \A i \in DOMAIN backlog' : i + 1 \in DOMAIN backlog
                                                        /\ backlog'[i] = backlog[i + 1]
  BY <1>2, <1>3
<1>5. \A i \in DOMAIN backlog : i = 1 \/ (i - 1 \in DOMAIN backlog' /\ backlog[i] = backlog'[i - 1])
  BY <1>2, <1>3
<1>6. Head(backlog) \in Waiting(Head(backlog).run)
  BY <1>2, <1>4, Characterization
<1>7. \A r : Served(r) = {}
  BY DEF Served
<1>8. ASSUME NEW r
      PROVE  /\ Waiting(r)' \subseteq Waiting(r)
             /\ Waiting(r) \subseteq Waiting(r)' \cup {Head(backlog)}
             /\ r # Head(backlog).run => Waiting(r)' = Waiting(r)
  <2>1. \A request : request \in Waiting(r)' <=>
          \E i \in DOMAIN backlog' : request = backlog'[i] /\ request.run = r
    BY DEF Waiting
  <2>2. \A request : request \in Waiting(r) <=>
          \E i \in DOMAIN backlog : request = backlog[i] /\ request.run = r
    BY DEF Waiting
  <2>3. Waiting(r)' \subseteq Waiting(r)
    BY <2>1, <2>2, <1>4
  <2>4. ASSUME NEW request \in Waiting(r), request # Head(backlog)
        PROVE  request \in Waiting(r)'
    <3>1. PICK i \in DOMAIN backlog : request = backlog[i] /\ request.run = r
      BY <2>2
    <3>2. i - 1 \in DOMAIN backlog' /\ request = backlog'[i - 1]
      BY <1>2, <1>5, <2>4, <3>1
    <3> QED BY <2>1, <3>1, <3>2
  <2>5. r # Head(backlog).run => \A request \in Waiting(r) : request # Head(backlog)
    BY <2>2
  <2> QED BY <2>3, <2>4, <2>5
<1>9. /\ \A i \in DOMAIN backlog' :
           backlog'[i].run = Head(backlog).run => Head(backlog).attempt < backlog'[i].attempt
      /\ \A i, j \in DOMAIN backlog' :
           i < j /\ backlog'[i].run = backlog'[j].run => backlog'[i].attempt < backlog'[j].attempt
  BY <1>2, <1>3, <1>4 DEF QueueFits
<1> QED BY <1>1, <1>2, <1>3, <1>6, <1>7, <1>8, <1>9

--------------------------------------------------------------------------------
(* What CallInv(r) depends on.                                                *)

SameCaller(r) ==
  /\ UNCHANGED <<target, source>>
  /\ pc'[r] = pc[r] /\ out'[r] = out[r] /\ job'[r] = job[r]
  /\ executed'[r] = executed[r] /\ runStatus'[r] \in {runStatus[r], "absent"}
  /\ accepted'[r] = accepted[r] /\ (r \in gaveUp' <=> r \in gaveUp)

SameWorker(r) ==
  /\ conn'[r] = conn[r] /\ performed'[r] = performed[r] /\ artifacts'[r] = artifacts[r]
  /\ Waiting(r)' = Waiting(r) /\ Served(r)' = Served(r)
  /\ Served(r) # {} => phase' = phase
  /\ \A k : <<r, k>> \in wiped' <=> <<r, k>> \in wiped
  /\ \A k : <<r, k>> \in refused' <=> <<r, k>> \in refused

LEMMA FrameKeeps ==
  ASSUME NEW r \in Runs, CallInv(r), SameCaller(r), SameWorker(r)
  PROVE  CallInv(r)'
<1> USE DEF CallInv, SameCaller
<1>1. CallsFit(r)'
  BY DEF CallsFit
<1>2. RequestsFit(r)'
  BY DEF RequestsFit, RequestsOf, SameWorker
<1>3. ConnFits(r)'
  BY DEF ConnFits, RequestsOf, SameWorker, Call
<1>4. WorkFits(r)'
  BY DEF WorkFits, SameWorker
<1>5. RefusalFits(r)'
  BY DEF RefusalFits, SameWorker
<1> QED BY <1>1, <1>2, <1>3, <1>4, <1>5

LEMMA CallsKeep ==
  ASSUME NEW r \in Runs, CallsFit(r), SameCaller(r)
  PROVE  CallsFit(r)'
BY DEF CallsFit, SameCaller

\* The worker answers or forgets requests.
LEMMA RequestsKeep ==
  ASSUME NEW r \in Runs, RequestsFit(r), SameCaller(r),
         RequestsOf(r)' \subseteq RequestsOf(r), conn[r] # {} => conn'[r] # {}
  PROVE  RequestsFit(r)'
BY DEF RequestsFit, SameCaller

LEMMA SendEffect ==
  ASSUME conn \in [Runs -> SUBSET Connection], NEW request \in Request, NEW answer \in Answers,
         Send(request, answer)
  PROVE  /\ conn' \in [Runs -> SUBSET Connection]
         /\ \A s \in Runs : s # request.run => conn'[s] = conn[s]
         /\ conn[request.run] # {} => conn'[request.run] # {}
         /\ \A c \in conn'[request.run] : \E d \in conn[request.run] :
              /\ c.request = d.request
              /\ c.answer = IF d.request = request THEN answer ELSE d.answer
<1> DEFINE r == request.run
           Answer(c) == IF c.request = request THEN [c EXCEPT !.answer = answer] ELSE c
<1>1. r \in Runs /\ conn[r] \in SUBSET Connection
  BY DEF Request
<1>2. conn' = [conn EXCEPT ![r] = {Answer(c) : c \in conn[r]}]
  BY DEF Send
<1>3. \A d \in conn[r] : /\ Answer(d) \in Connection
                         /\ Answer(d).request = d.request
                         /\ Answer(d).answer = IF d.request = request THEN answer ELSE d.answer
  BY <1>1 DEF Connection
<1>4. conn'[r] = {Answer(c) : c \in conn[r]}
  BY <1>1, <1>2
<1> HIDE DEF Answer
<1>5. {Answer(c) : c \in conn[r]} \in SUBSET Connection
  BY <1>3
<1> QED BY <1>1, <1>2, <1>3, <1>4, <1>5

\* An answer to the request at the head, when all others of its run are later.
LEMMA AnswerFits ==
  ASSUME SystemTypeOK, NEW r \in Runs, CallInv(r), SameCaller(r),
         NEW request \in RequestsOf(r), request \in Request, request.run = r,
         NEW answer \in Answers, Send(request, answer),
         RequestsOf(r)' \subseteq RequestsOf(r),
         \A later \in RequestsOf(r)' : request.attempt < later.attempt,
         answer = "ok" => /\ performed'[r][request.step] > 0
                          /\ artifacts'[r][request.step].attempt = request.attempt
  PROVE  ConnFits(r)'
<1> SUFFICES ASSUME NEW c \in conn'[r]
             PROVE  /\ pc'[r] = "execute" /\ out'[r] = <<>>
                    /\ c.request = Call(r)'
                    /\ c.answer # "pending" => RequestsOf(r)' = {}
                    /\ c.answer = "ok" =>
                         /\ performed'[r][job'[r].step] > 0
                         /\ artifacts'[r][job'[r].step].attempt = job'[r].attempt
  BY DEF ConnFits
<1>1. conn \in [Runs -> SUBSET Connection]
  BY DEF SystemTypeOK, WorkerTypeOK
<1>2. PICK d \in conn[r] : /\ c.request = d.request
                          /\ c.answer = IF d.request = request THEN answer ELSE d.answer
  BY <1>1, SendEffect
<1>3. /\ pc[r] = "execute" /\ out[r] = <<>> /\ d.request = Call(r)
      /\ d.answer = "pending"
  BY <1>2 DEF CallInv, ConnFits
<1>4. Call(r)' = Call(r) /\ job'[r] = job[r]
  BY DEF Call, SameCaller
<1>5. CASE d.request # request
  BY <1>2, <1>3, <1>4, <1>5 DEF SameCaller
<1>6. CASE d.request = request
  <2>1. request.attempt = job[r].attempt /\ request.step = job[r].step
    BY <1>3, <1>6 DEF Call
  <2>2. \A later \in RequestsOf(r)' : later.attempt \in Int /\ later.attempt <= job[r].attempt
    BY DEF CallInv, RequestsFit
  <2>3. job[r].attempt \in Int
    BY DEF SystemTypeOK, TypeOK, Job
  <2>4. RequestsOf(r)' = {}
    BY <2>1, <2>2, <2>3
  <2> QED BY <1>2, <1>3, <1>4, <1>6, <2>1, <2>4 DEF SameCaller
<1> QED BY <1>5, <1>6

--------------------------------------------------------------------------------
(* The worker's steps.                                                        *)

LEMMA WorkerIsElsewhere ==
  ASSUME UNCHANGED <<vars, source, history>>
  PROVE  \A r : SameCaller(r)
BY DEF vars, tables, control, history, SameCaller

LEMMA ServedIsOne ==
  ASSUME SystemTypeOK, serving # <<>>
  PROVE  /\ serving[1] \in Request /\ 1 \in DOMAIN serving
         /\ Served(serving[1].run) = {serving[1]}
         /\ \A s : s # serving[1].run => Served(s) = {}
<1>1. serving \in Seq(Request) /\ Len(serving) <= 1
  BY DEF SystemTypeOK, WorkerTypeOK
<1>2. Len(serving) = 1 /\ DOMAIN serving = {1}
  <2>1. Len(serving) \in Nat /\ DOMAIN serving = 1 .. Len(serving) /\ Len(serving) # 0
    BY <1>1, EmptySeq, LenProperties
  <2> QED BY <1>1, <2>1
<1>3. serving[1] \in Request
  BY <1>1, <1>2
<1> QED BY <1>2, <1>3 DEF Served

LEMMA ServedLater ==
  ASSUME SystemTypeOK, QueueFits, serving # <<>>
  PROVE  \A later \in Waiting(serving[1].run) : serving[1].attempt < later.attempt
BY ServedIsOne, Characterization DEF QueueFits

\* Nothing is left but later requests.
LEMMA WorkKeeps ==
  ASSUME NEW r \in Runs, WorkFits(r), SameCaller(r), conn[r] # {} => conn'[r] # {},
         performed'[r] = performed[r], UNCHANGED wiped,
         \A k \in executed[r] : artifacts'[r][k] = artifacts[r][k],
         Waiting(r)' \subseteq Waiting(r), Served(r)' = {},
         job[r].attempt \in Int, performed[r] \in [Keys -> Nat]
  PROVE  WorkFits(r)'
<1>1. /\ target' = target /\ pc'[r] = pc[r] /\ job'[r] = job[r]
      /\ executed'[r] = executed[r] /\ accepted'[r] = accepted[r]
  BY DEF SameCaller
<1>2. ASSUME NEW k \in executed[r]
      PROVE  /\ performed'[r][k] \in 1 .. accepted'[r][k] + 1
             /\ artifacts'[r][k].attempt = accepted'[r][k] \/ <<r, k>> \in wiped'
             /\ accepted'[r][k] >= 0
             /\ DependsOn(job'[r].plan, k) \subseteq executed'[r]
  BY <1>1, <1>2 DEF WorkFits
<1>3. ASSUME NEW k \in Keys \ executed[r], performed[r][k] > 0
      PROVE  /\ k = job'[r].step /\ pc'[r] \in Calling
             /\ DependsOn(job'[r].plan, k) \subseteq executed'[r]
  BY <1>1, <1>3 DEF WorkFits
<1>4. ASSUME NEW k \in Keys \ executed[r], performed[r][k] > 0, pc[r] \in {"attempt", "execute"}
      PROVE  performed'[r][k] <= job'[r].attempt + (IF conn'[r] # {} THEN 1 ELSE 0)
  <2>1. performed[r][k] <= job[r].attempt + (IF conn[r] # {} THEN 1 ELSE 0)
    BY <1>4 DEF WorkFits
  <2>2. conn[r] # {} => performed'[r][k] <= job'[r].attempt + 1 /\ conn'[r] # {}
    BY <1>1, <2>1
  <2>3. conn[r] = {} => performed'[r][k] <= job'[r].attempt + 0
    BY <1>1, <2>1
  <2>4. performed'[r][k] \in Nat /\ job'[r].attempt \in Int
    BY <1>1
  <2>5. CASE conn[r] # {}
    BY <2>2, <2>5
  <2>6. CASE conn[r] = {} /\ conn'[r] = {}
    BY <2>3, <2>6
  <2>7. CASE conn[r] = {} /\ conn'[r] # {}
    <3>1. performed'[r][k] <= job'[r].attempt + 1
      BY <2>3, <2>4, <2>7
    <3> QED BY <2>7, <3>1
  <2> QED BY <2>5, <2>6, <2>7
<1>5. \A request \in Waiting(r)' : performed'[r][request.step] <= request.attempt
  BY DEF WorkFits
<1> QED BY <1>1, <1>2, <1>3, <1>4, <1>5 DEF WorkFits

\* What RequestsFit says of one request.
LEMMA RequestFacts ==
  ASSUME NEW r \in Runs, CallInv(r), NEW request \in RequestsOf(r)
  PROVE  /\ pc[r] \in Calling
         /\ request.step = job[r].step /\ request.source = source[target[r]][job[r].step]
         /\ job[r].step \notin executed[r]
         /\ request.attempt \in 0 .. job[r].attempt
         /\ request.attempt = job[r].attempt => pc[r] = "lost" \/ (pc[r] = "execute" /\ conn[r] # {})
         /\ DependsOn(job[r].plan, job[r].step) \subseteq executed[r]
<1>1. RequestsFit(r) /\ job[r].completed \subseteq executed[r]
  BY DEF CallInv, CallsFit
<1>2. DependsOn(job[r].plan, job[r].step) \subseteq job[r].completed
  BY <1>1 DEF RequestsFit
<1> QED BY <1>1, <1>2 DEF RequestsFit

\* What a requested step waits for, directly or not, has been executed.
LEMMA UpstreamIsExecuted ==
  ASSUME NEW r \in Runs, CallInv(r), NEW request \in RequestsOf(r),
         NEW input \in Upstream(job[r].plan, request.step)
  PROVE  input \in executed[r]
<1>1. /\ request.step = job[r].step
      /\ DependsOn(job[r].plan, job[r].step) \subseteq job[r].completed
      /\ job[r].completed \in SUBSET KeysOf(job[r].plan)
      /\ \A k \in job[r].completed : DependsOn(job[r].plan, k) \subseteq job[r].completed
      /\ job[r].completed \subseteq executed[r]
  BY DEF CallInv, RequestsFit, CallsFit
<1>2. input \in job[r].completed
  BY <1>1 DEF Upstream
<1> QED BY <1>1, <1>2

LEMMA RefuseKeeps ==
  ASSUME SystemInv, Refuse, UNCHANGED <<vars, source, history>>, TypeOK'
  PROVE  SystemInv'
<1>0. PICK q, r : q = Head(backlog) /\ r = q.run
  OBVIOUS
<1>1. SystemTypeOK /\ QueueFits /\ \A s \in Runs : CallInv(s)
  BY DEF SystemInv
<1>2. /\ serving = <<>> /\ backlog # <<>> /\ backlog' = Tail(backlog)
      /\ ~ HasInput(q) /\ Send(q, "error")
      /\ refused' = refused \cup {<<r, q.step>>}
      /\ UNCHANGED <<serving, phase, artifacts, performed, wiped, restarts>>
  BY <1>0 DEF Refuse
<1>3. /\ q \in Request /\ q.run = r /\ q \in Waiting(r)
      /\ backlog' \in Seq(Request) /\ Len(backlog') <= Backlog
      /\ \A s : Served(s) = {}
      /\ \A s : Waiting(s)' \subseteq Waiting(s)
      /\ \A s : s # r => Waiting(s)' = Waiting(s)
      /\ \A i \in DOMAIN backlog' : backlog'[i].run = r => q.attempt < backlog'[i].attempt
      /\ \A i, j \in DOMAIN backlog' :
           i < j /\ backlog'[i].run = backlog'[j].run => backlog'[i].attempt < backlog'[j].attempt
  BY <1>0, <1>1, <1>2, TakenFromBacklog
<1>4. /\ r \in Runs /\ q.step \in Keys
      /\ conn' \in [Runs -> SUBSET Connection]
      /\ \A s \in Runs : s # r => conn'[s] = conn[s]
      /\ conn[r] # {} => conn'[r] # {}
  <2>1. conn \in [Runs -> SUBSET Connection] /\ "error" \in Answers
    BY <1>1 DEF SystemTypeOK, WorkerTypeOK, Answers
  <2>2. r \in Runs /\ q.step \in Keys
    BY <1>3 DEF Request
  <2> QED BY <1>2, <1>3, <2>1, <2>2, SendEffect
<1>5. \A s : SameCaller(s) /\ Served(s)' = {}
  BY <1>2, <1>3, WorkerIsElsewhere DEF Served
<1>6. SystemTypeOK'
  BY <1>1, <1>2, <1>3, <1>4 DEF SystemTypeOK, WorkerTypeOK, history
<1>7. QueueFits'
  <2>1. DOMAIN serving' = {}
    BY <1>2
  <2> QED BY <1>3, <2>1 DEF QueueFits
<1>8. ASSUME NEW s \in Runs, s # r
      PROVE  CallInv(s)'
  BY <1>1, <1>2, <1>3, <1>4, <1>5, <1>8, FrameKeeps DEF SameWorker
<1>9. CallInv(r)'
  <2>0. CallInv(r) /\ SameCaller(r) /\ r \in Runs
    BY <1>1, <1>4, <1>5
  <2>1. CallsFit(r)'
    BY <2>0, CallsKeep DEF CallInv
  <2>2. RequestsOf(r)' \subseteq RequestsOf(r) /\ q \in RequestsOf(r)
    BY <1>3, <1>5 DEF RequestsOf
  <2>3. RequestsFit(r)'
    BY <1>4, <2>0, <2>2, RequestsKeep DEF CallInv
  <2>4. \A later \in RequestsOf(r)' : q.attempt < later.attempt
    BY <1>3, <1>5 DEF RequestsOf, Waiting
  <2>5. "error" \in Answers /\ "error" # "ok"
    BY DEF Answers
  <2>6. ConnFits(r)'
    BY <1>1, <1>2, <1>3, <2>0, <2>2, <2>4, <2>5, AnswerFits
  <2>7. WorkFits(r)'
    <3>1. job[r].attempt \in Int /\ performed[r] \in [Keys -> Nat]
      BY <1>1, <1>4 DEF SystemTypeOK, TypeOK, Job, WorkerTypeOK
    <3> QED BY <1>2, <1>3, <1>4, <1>5, <2>0, <3>1, WorkKeeps DEF CallInv
  <2>8. RefusalFits(r)'
    <3>1. /\ pc[r] \in Calling /\ q.source = source[target[r]][q.step]
          /\ q.source \in Upstream(job[r].plan, q.step) => q.source \in executed[r]
          /\ artifacts[r][q.source].none
      <4>1. pc[r] \in Calling /\ q.source = source[target[r]][q.step]
        BY <2>0, <2>2 DEF CallInv, RequestsFit
      <4>2. q.source \in Upstream(job[r].plan, q.step) => q.source \in executed[r]
        BY <2>0, <2>2, UpstreamIsExecuted
      <4>3. artifacts[r][q.source].none
        BY <1>2, <1>3 DEF HasInput
      <4> QED BY <4>1, <4>2, <4>3
    <3>2. pc[r] \notin Before
      BY <3>1 DEF Calling, Before
    <3> QED BY <1>2, <2>0, <3>1, <3>2 DEF CallInv, RefusalFits, SameCaller
  <2> QED BY <2>1, <2>3, <2>6, <2>7, <2>8 DEF CallInv
<1> QED BY <1>6, <1>7, <1>8, <1>9 DEF SystemInv

LEMMA BeginKeeps ==
  ASSUME SystemInv, Begin, UNCHANGED <<vars, source, history>>, TypeOK'
  PROVE  SystemInv'
<1>0. PICK q, r : q = Head(backlog) /\ r = q.run
  OBVIOUS
<1>1. SystemTypeOK /\ QueueFits /\ \A s \in Runs : CallInv(s)
  BY DEF SystemInv
<1>2. /\ serving = <<>> /\ backlog # <<>> /\ backlog' = Tail(backlog)
      /\ serving' = <<q>> /\ phase' = "executing"
      /\ UNCHANGED <<artifacts, conn, performed, wiped, refused, restarts>>
  BY <1>0 DEF Begin
<1>3. /\ q \in Request /\ q.run = r /\ q \in Waiting(r)
      /\ backlog' \in Seq(Request) /\ Len(backlog') <= Backlog
      /\ \A s : Served(s) = {}
      /\ \A s : Waiting(s)' \subseteq Waiting(s)
      /\ \A s : s # r => Waiting(s)' = Waiting(s)
      /\ \A i \in DOMAIN backlog' : backlog'[i].run = r => q.attempt < backlog'[i].attempt
      /\ \A i, j \in DOMAIN backlog' :
           i < j /\ backlog'[i].run = backlog'[j].run => backlog'[i].attempt < backlog'[j].attempt
  BY <1>0, <1>1, <1>2, TakenFromBacklog
<1>4. r \in Runs
  BY <1>3 DEF Request
<1>5. /\ serving' \in Seq(Request) /\ Len(serving') = 1
      /\ DOMAIN serving' = {1} /\ serving'[1] = q
  BY <1>2, <1>3
<1>6. /\ \A s : SameCaller(s)
      /\ Served(r)' = {q} /\ \A s : s # r => Served(s)' = {}
  <2>1. \A s : SameCaller(s)
    BY WorkerIsElsewhere
  <2>2. \A s : Served(s)' = {serving'[i] : i \in {j \in {1} : serving'[j].run = s}}
    BY <1>5 DEF Served
  <2>3. Served(r)' = {q} /\ \A s : s # r => Served(s)' = {}
    BY <1>3, <1>5, <2>2
  <2> QED BY <2>1, <2>3
<1>7. SystemTypeOK'
  BY <1>1, <1>2, <1>3, <1>5 DEF SystemTypeOK, WorkerTypeOK, history
<1>8. QueueFits'
  BY <1>3, <1>5 DEF QueueFits
<1>9. ASSUME NEW s \in Runs, s # r
      PROVE  CallInv(s)'
  BY <1>1, <1>2, <1>3, <1>6, <1>9, FrameKeeps DEF SameWorker
<1>10. CallInv(r)'
  <2>0. CallInv(r) /\ SameCaller(r)
    BY <1>1, <1>4, <1>6
  <2>1. CallsFit(r)'
    BY <1>4, <2>0, CallsKeep DEF CallInv
  <2>2. RequestsOf(r)' \subseteq RequestsOf(r)
    BY <1>3, <1>6 DEF RequestsOf
  <2>3. RequestsFit(r)'
    BY <1>2, <1>4, <2>0, <2>2, RequestsKeep DEF CallInv
  <2>4. ConnFits(r)'
    BY <1>2, <2>0, <2>2 DEF CallInv, ConnFits, SameCaller, Call
  <2>5. WorkFits(r)'
    BY <1>2, <1>3, <1>6, <2>0 DEF CallInv, WorkFits, SameCaller
  <2>6. RefusalFits(r)'
    BY <1>2, <2>0 DEF CallInv, RefusalFits, SameCaller
  <2> QED BY <2>1, <2>3, <2>4, <2>5, <2>6 DEF CallInv
<1> QED BY <1>7, <1>8, <1>9, <1>10 DEF SystemInv

LEMMA PerformKeeps ==
  ASSUME SystemInv, Perform, UNCHANGED <<vars, source, history>>, TypeOK'
  PROVE  SystemInv'
<1>0. PICK q, r : q = serving[1] /\ r = q.run
  OBVIOUS
<1>1. SystemTypeOK /\ QueueFits /\ \A s \in Runs : CallInv(s)
  BY DEF SystemInv
<1>2. /\ serving # <<>> /\ phase = "executing" /\ phase' = "performed"
      /\ performed' = [performed EXCEPT ![r][q.step] = @ + 1]
      /\ UNCHANGED <<backlog, serving, artifacts, conn, wiped, refused, restarts>>
  BY <1>0 DEF Perform
<1>3. /\ q \in Request /\ q.run = r /\ Served(r) = {q}
      /\ \A s : s # r => Served(s) = {}
      /\ \A later \in Waiting(r) : q.attempt < later.attempt
  BY <1>0, <1>1, <1>2, ServedIsOne, ServedLater
<1>4. /\ \A s : SameCaller(s)
      /\ \A s : Waiting(s)' = Waiting(s) /\ Served(s)' = Served(s)
  BY <1>2, WorkerIsElsewhere DEF Waiting, Served
<1>5. /\ r \in Runs /\ q.step \in Keys /\ q.attempt \in Int
      /\ performed \in [Runs -> [Keys -> Nat]] /\ performed' \in [Runs -> [Keys -> Nat]]
      /\ performed'[r][q.step] = performed[r][q.step] + 1
      /\ \A k \in Keys : k # q.step => performed'[r][k] = performed[r][k]
      /\ \A s \in Runs : s # r => performed'[s] = performed[s]
  <2>1. r \in Runs /\ q.step \in Keys /\ q.attempt \in Int
    BY <1>3 DEF Request
  <2>2. performed \in [Runs -> [Keys -> Nat]]
    BY <1>1 DEF SystemTypeOK, WorkerTypeOK
  <2>3. performed[r] \in [Keys -> Nat] /\ performed[r][q.step] + 1 \in Nat
    BY <2>1, <2>2
  <2>4. performed' = [performed EXCEPT ![r] = [performed[r] EXCEPT ![q.step] = performed[r][q.step] + 1]]
    BY <1>2
  <2> QED BY <2>1, <2>2, <2>3, <2>4
<1>6. SystemTypeOK'
  BY <1>1, <1>2, <1>5 DEF SystemTypeOK, WorkerTypeOK, history
<1>7. QueueFits'
  BY <1>1, <1>2 DEF QueueFits
<1>8. ASSUME NEW s \in Runs, s # r
      PROVE  CallInv(s)'
  BY <1>1, <1>2, <1>3, <1>4, <1>5, <1>8, FrameKeeps DEF SameWorker
<1>9. CallInv(r)'
  <2>0. CallInv(r) /\ SameCaller(r) /\ q \in RequestsOf(r)
    BY <1>1, <1>3, <1>4, <1>5 DEF RequestsOf
  <2>1. CallsFit(r)'
    BY <1>5, <2>0, CallsKeep DEF CallInv
  <2>2. RequestsOf(r)' = RequestsOf(r)
    BY <1>4 DEF RequestsOf
  <2>3. RequestsFit(r)'
    BY <1>2, <1>5, <2>0, <2>2, RequestsKeep DEF CallInv
  <2>4. ConnFits(r)'
    BY <1>2, <2>0, <2>2 DEF CallInv, ConnFits, SameCaller, Call
  <2>5. /\ pc[r] \in Calling /\ q.step = job[r].step /\ job[r].step \notin executed[r]
        /\ q.attempt <= job[r].attempt /\ job[r].attempt \in Int
        /\ q.attempt = job[r].attempt => pc[r] = "lost" \/ (pc[r] = "execute" /\ conn[r] # {})
        /\ DependsOn(job[r].plan, job[r].step) \subseteq executed[r]
        /\ \A later \in Waiting(r) : later.step = q.step
    <3>1. job[r].attempt \in Int
      BY <1>1, <1>5 DEF SystemTypeOK, TypeOK, Job
    <3>2. \A later \in Waiting(r) : later.step = q.step
      BY <1>5, <2>0, RequestFacts DEF RequestsOf
    <3> QED BY <1>5, <2>0, <3>1, <3>2, RequestFacts
  <2>6. performed[r][q.step] <= q.attempt
    BY <1>2, <1>3, <2>0 DEF CallInv, WorkFits
  <2>7. WorkFits(r)'
    <3>1. ASSUME NEW k \in executed[r]
          PROVE  /\ performed'[r][k] \in 1 .. accepted'[r][k] + 1
                 /\ artifacts'[r][k].attempt = accepted'[r][k] \/ <<r, k>> \in wiped'
                 /\ accepted'[r][k] >= 0
                 /\ DependsOn(job'[r].plan, k) \subseteq executed'[r]
      <4>1. k \in Keys
        BY <1>1, <1>5, <3>1 DEF SystemTypeOK, TypeOK
      <4>2. performed'[r][k] = performed[r][k]
        BY <1>5, <2>5, <3>1, <4>1
      <4> QED BY <1>2, <2>0, <3>1, <4>2 DEF CallInv, WorkFits, SameCaller
    <3>2. ASSUME NEW k \in Keys \ executed[r], performed'[r][k] > 0
          PROVE  /\ k = job'[r].step /\ pc'[r] \in Calling
                 /\ DependsOn(job'[r].plan, k) \subseteq executed'[r]
      <4>1. CASE k = q.step
        BY <2>0, <2>5, <4>1 DEF SameCaller
      <4>2. CASE k # q.step
        BY <1>5, <2>0, <3>2, <4>2 DEF CallInv, WorkFits, SameCaller
      <4> QED BY <4>1, <4>2
    <3>3. ASSUME NEW k \in Keys \ executed[r], performed'[r][k] > 0,
                 pc'[r] \in {"attempt", "execute"}
          PROVE  performed'[r][k] <= job'[r].attempt + (IF conn'[r] # {} THEN 1 ELSE 0)
      <4>1. k = q.step /\ pc'[r] = pc[r] /\ job'[r] = job[r] /\ conn'[r] = conn[r]
        BY <1>2, <2>0, <2>5, <3>2, <3>3 DEF SameCaller
      <4>2. performed'[r][k] <= q.attempt + 1
        BY <1>5, <2>6, <4>1
      <4>3. CASE conn[r] # {}
        BY <1>5, <2>5, <4>1, <4>2, <4>3
      <4>4. CASE conn[r] = {}
        <5>1. q.attempt # job[r].attempt
          BY <2>5, <3>3, <4>1, <4>4
        <5>2. performed'[r][k] \in Nat /\ job'[r].attempt = job[r].attempt
          BY <1>5, <4>1
        <5>3. performed'[r][k] <= job'[r].attempt
          <6>1. /\ q.attempt \in Int /\ job[r].attempt \in Int
                /\ q.attempt <= job[r].attempt /\ q.attempt # job[r].attempt
            BY <1>5, <2>5, <5>1
          <6> QED BY <4>2, <5>2, <6>1
        <5>4. performed'[r][k] <= job'[r].attempt + 0
          BY <2>5, <5>2, <5>3
        <5> QED BY <4>1, <4>4, <5>4
      <4> QED BY <4>3, <4>4
    <3>4. ASSUME NEW later \in Waiting(r)
          PROVE  performed'[r][later.step] <= later.attempt
      <4>1. later.attempt \in Int /\ q.attempt < later.attempt /\ later.step = q.step
        BY <1>3, <2>0, <2>5 DEF CallInv, RequestsFit, RequestsOf
      <4> QED BY <1>5, <2>6, <4>1
    <3>5. performed'[r][q.step] \in 1 .. q.attempt + 1
      BY <1>5, <2>6
    <3> QED BY <1>2, <1>3, <1>4, <2>0, <3>1, <3>2, <3>3, <3>4, <3>5 DEF WorkFits, SameCaller
  <2>8. RefusalFits(r)'
    BY <1>2, <2>0 DEF CallInv, RefusalFits, SameCaller
  <2> QED BY <2>1, <2>3, <2>4, <2>7, <2>8 DEF CallInv
<1> QED BY <1>6, <1>7, <1>8, <1>9 DEF SystemInv

LEMMA FailKeeps ==
  ASSUME SystemInv, Fail, UNCHANGED <<vars, source, history>>, TypeOK'
  PROVE  SystemInv'
<1>0. PICK q, r : q = serving[1] /\ r = q.run
  OBVIOUS
<1>1. SystemTypeOK /\ QueueFits /\ \A s \in Runs : CallInv(s)
  BY DEF SystemInv
<1>2. /\ serving # <<>> /\ serving' = <<>> /\ phase' = "executing" /\ Send(q, "error")
      /\ UNCHANGED <<backlog, artifacts, performed, wiped, refused, restarts>>
  BY <1>0 DEF Fail
<1>3. /\ q \in Request /\ q.run = r /\ Served(r) = {q}
      /\ \A s : s # r => Served(s) = {}
      /\ \A later \in Waiting(r) : q.attempt < later.attempt
  BY <1>0, <1>1, <1>2, ServedIsOne, ServedLater
<1>4. /\ \A s : SameCaller(s)
      /\ \A s : Waiting(s)' = Waiting(s) /\ Served(s)' = {}
      /\ DOMAIN serving' = {} /\ serving' \in Seq(Request) /\ Len(serving') <= 1
  BY <1>2, WorkerIsElsewhere DEF Waiting, Served
<1>5. /\ r \in Runs
      /\ conn' \in [Runs -> SUBSET Connection]
      /\ \A s \in Runs : s # r => conn'[s] = conn[s]
      /\ conn[r] # {} => conn'[r] # {}
  <2>1. conn \in [Runs -> SUBSET Connection] /\ "error" \in Answers
    BY <1>1 DEF SystemTypeOK, WorkerTypeOK, Answers
  <2>2. r \in Runs
    BY <1>3 DEF Request
  <2> QED BY <1>2, <1>3, <2>1, <2>2, SendEffect
<1>6. SystemTypeOK'
  BY <1>1, <1>2, <1>4, <1>5 DEF SystemTypeOK, WorkerTypeOK, history
<1>7. QueueFits'
  BY <1>1, <1>2, <1>4 DEF QueueFits
<1>8. ASSUME NEW s \in Runs, s # r
      PROVE  CallInv(s)'
  BY <1>1, <1>2, <1>3, <1>4, <1>5, <1>8, FrameKeeps DEF SameWorker
<1>9. CallInv(r)'
  <2>0. CallInv(r) /\ SameCaller(r)
    BY <1>1, <1>4, <1>5
  <2>1. CallsFit(r)'
    BY <1>5, <2>0, CallsKeep DEF CallInv
  <2>2. /\ RequestsOf(r)' \subseteq RequestsOf(r) /\ q \in RequestsOf(r)
        /\ \A later \in RequestsOf(r)' : q.attempt < later.attempt
    BY <1>3, <1>4 DEF RequestsOf
  <2>3. RequestsFit(r)'
    BY <1>5, <2>0, <2>2, RequestsKeep DEF CallInv
  <2>4. "error" \in Answers /\ "error" # "ok"
    BY DEF Answers
  <2>5. ConnFits(r)'
    BY <1>1, <1>2, <1>3, <1>5, <2>0, <2>2, <2>4, AnswerFits
  <2>6. WorkFits(r)'
    <3>1. job[r].attempt \in Int /\ performed[r] \in [Keys -> Nat]
      BY <1>1, <1>5 DEF SystemTypeOK, TypeOK, Job, WorkerTypeOK
    <3> QED BY <1>2, <1>4, <1>5, <2>0, <3>1, WorkKeeps DEF CallInv
  <2>7. RefusalFits(r)'
    BY <1>2, <2>0 DEF CallInv, RefusalFits, SameCaller
  <2> QED BY <2>1, <2>3, <2>5, <2>6, <2>7 DEF CallInv
<1> QED BY <1>6, <1>7, <1>8, <1>9 DEF SystemInv

LEMMA ReplyKeeps ==
  ASSUME SystemInv, Reply, UNCHANGED <<vars, source, history>>, TypeOK'
  PROVE  SystemInv'
<1>0. PICK q, r : q = serving[1] /\ r = q.run
  OBVIOUS
<1>1. SystemTypeOK /\ QueueFits /\ \A s \in Runs : CallInv(s)
  BY DEF SystemInv
<1>2. /\ serving # <<>> /\ phase = "performed"
      /\ serving' = <<>> /\ phase' = "executing" /\ Send(q, "ok")
      /\ UNCHANGED <<backlog, performed, wiped, refused, restarts>>
  BY <1>0 DEF Reply
<1>a. PICK none \in BOOLEAN :
        artifacts' = [artifacts EXCEPT ![r][q.step] = [attempt |-> q.attempt, none |-> none]]
  BY <1>0 DEF Reply
<1>3. /\ q \in Request /\ q.run = r /\ Served(r) = {q}
      /\ \A s : s # r => Served(s) = {}
      /\ \A later \in Waiting(r) : q.attempt < later.attempt
  BY <1>0, <1>1, <1>2, ServedIsOne, ServedLater
<1>4. /\ \A s : SameCaller(s)
      /\ \A s : Waiting(s)' = Waiting(s) /\ Served(s)' = {}
      /\ DOMAIN serving' = {} /\ serving' \in Seq(Request) /\ Len(serving') <= 1
  BY <1>2, WorkerIsElsewhere DEF Waiting, Served
<1>5. /\ r \in Runs /\ q.step \in Keys /\ q.attempt \in Int
      /\ conn' \in [Runs -> SUBSET Connection]
      /\ \A s \in Runs : s # r => conn'[s] = conn[s]
      /\ conn[r] # {} => conn'[r] # {}
  <2>1. conn \in [Runs -> SUBSET Connection] /\ "ok" \in Answers
    BY <1>1 DEF SystemTypeOK, WorkerTypeOK, Answers
  <2>2. r \in Runs /\ q.step \in Keys /\ q.attempt \in Int
    BY <1>3 DEF Request
  <2> QED BY <1>2, <1>3, <2>1, <2>2, SendEffect
<1>b. /\ artifacts' \in [Runs -> [Keys -> Artifact]]
      /\ artifacts'[r][q.step].attempt = q.attempt
      /\ \A k \in Keys : k # q.step => artifacts'[r][k] = artifacts[r][k]
      /\ \A s \in Runs : s # r => artifacts'[s] = artifacts[s]
  <2> DEFINE new == [attempt |-> q.attempt, none |-> none]
  <2>1. new \in Artifact /\ new.attempt = q.attempt
    BY <1>5 DEF Artifact
  <2> HIDE DEF new
  <2>2. artifacts \in [Runs -> [Keys -> Artifact]]
    BY <1>1 DEF SystemTypeOK, WorkerTypeOK
  <2>3. artifacts' = [artifacts EXCEPT ![r] = [artifacts[r] EXCEPT ![q.step] = new]]
    BY <1>a DEF new
  <2> QED BY <1>5, <2>1, <2>2, <2>3
<1>6. SystemTypeOK'
  BY <1>1, <1>2, <1>b, <1>4, <1>5 DEF SystemTypeOK, WorkerTypeOK, history
<1>7. QueueFits'
  BY <1>1, <1>2, <1>4 DEF QueueFits
<1>8. ASSUME NEW s \in Runs, s # r
      PROVE  CallInv(s)'
  BY <1>1, <1>2, <1>b, <1>3, <1>4, <1>5, <1>8, FrameKeeps DEF SameWorker
<1>9. CallInv(r)'
  <2>0. CallInv(r) /\ SameCaller(r) /\ executed[r] \subseteq Keys
    BY <1>1, <1>4, <1>5 DEF SystemTypeOK, TypeOK
  <2>1. CallsFit(r)'
    BY <1>5, <2>0, CallsKeep DEF CallInv
  <2>2. /\ RequestsOf(r)' \subseteq RequestsOf(r) /\ q \in RequestsOf(r)
        /\ \A later \in RequestsOf(r)' : q.attempt < later.attempt
    BY <1>3, <1>4 DEF RequestsOf
  <2>3. RequestsFit(r)'
    BY <1>5, <2>0, <2>2, RequestsKeep DEF CallInv
  <2>4. "ok" \in Answers
    BY DEF Answers
  <2>5. performed'[r][q.step] > 0
    <3>1. performed[r][q.step] \in 1 .. q.attempt + 1
      BY <1>2, <1>3, <2>0 DEF CallInv, WorkFits
    <3> QED BY <1>2, <1>5, <3>1
  <2>6. ConnFits(r)'
    BY <1>1, <1>2, <1>b, <1>3, <1>5, <2>0, <2>2, <2>4, <2>5, AnswerFits
  <2>7. q.step \notin executed[r]
    BY <1>5, <2>0, <2>2, RequestFacts
  <2>8. \A k \in executed[r] : artifacts'[r][k] = artifacts[r][k]
    BY <1>b, <2>0, <2>7
  <2>9. WorkFits(r)'
    <3>1. job[r].attempt \in Int /\ performed[r] \in [Keys -> Nat]
      BY <1>1, <1>5 DEF SystemTypeOK, TypeOK, Job, WorkerTypeOK
    <3> QED BY <1>2, <1>4, <1>5, <2>0, <2>8, <3>1, WorkKeeps DEF CallInv
  <2>10. RefusalFits(r)'
    BY <1>2, <2>0, <2>8 DEF CallInv, RefusalFits, SameCaller
  <2> QED BY <2>1, <2>3, <2>6, <2>9, <2>10 DEF CallInv
<1> QED BY <1>6, <1>7, <1>8, <1>9 DEF SystemInv

LEMMA RestartKeeps ==
  ASSUME SystemInv, Restart, UNCHANGED <<vars, source, history>>, TypeOK'
  PROVE  SystemInv'
<1>1. SystemTypeOK /\ QueueFits /\ \A s \in Runs : CallInv(s)
  BY DEF SystemInv
<1>2. /\ restarts < MaxRestarts /\ restarts' = restarts + 1
      /\ backlog' = <<>> /\ serving' = <<>> /\ phase' = "executing"
      /\ artifacts' = [r \in Runs |-> [k \in Keys |-> NoArtifact]]
      /\ wiped' = wiped \cup {rk \in Runs \X Keys : artifacts[rk[1]][rk[2]] # NoArtifact}
      /\ UNCHANGED <<conn, performed, refused>>
  BY DEF Restart
<1>3. /\ \A s : SameCaller(s)
      /\ \A s : Waiting(s)' = {} /\ Served(s)' = {} /\ RequestsOf(s)' = {}
      /\ backlog' \in Seq(Request) /\ Len(backlog') = 0 /\ DOMAIN backlog' = {}
      /\ serving' \in Seq(Request) /\ Len(serving') = 0 /\ DOMAIN serving' = {}
  BY <1>2, WorkerIsElsewhere DEF Waiting, Served, RequestsOf
<1>4. /\ NoArtifact \in Artifact /\ NoArtifact.attempt = -1 /\ NoArtifact.none
      /\ \A s \in Runs : \A k \in Keys : artifacts'[s][k] = NoArtifact
  BY <1>2 DEF NoArtifact, Artifact
<1>5. SystemTypeOK'
  <2>1. restarts' \in 0 .. MaxRestarts /\ Backlog \in Nat
    BY <1>1, <1>2, WorkerBoundsAssumption DEF SystemTypeOK, WorkerTypeOK
  <2>2. wiped' \subseteq Runs \X Keys /\ artifacts' \in [Runs -> [Keys -> Artifact]]
    BY <1>1, <1>2, <1>4 DEF SystemTypeOK, WorkerTypeOK
  <2> QED BY <1>1, <1>2, <1>3, <2>1, <2>2 DEF SystemTypeOK, WorkerTypeOK, history
<1>6. QueueFits'
  BY <1>3 DEF QueueFits
<1>7. ASSUME NEW r \in Runs
      PROVE  CallInv(r)'
  <2>0. CallInv(r) /\ SameCaller(r) /\ executed[r] \subseteq Keys /\ job[r].step \in Keys
    BY <1>1, <1>3 DEF SystemTypeOK, TypeOK, Job
  <2>1. CallsFit(r)'
    BY <2>0, CallsKeep DEF CallInv
  <2>2. RequestsFit(r)'
    BY <1>3 DEF RequestsFit
  <2>3. ASSUME NEW k \in Keys, artifacts[r][k].attempt >= 0
        PROVE  <<r, k>> \in wiped'
    <3>1. artifacts[r][k] # NoArtifact
      BY <1>4, <2>3
    <3> QED BY <1>2, <3>1
  <2>4. ConnFits(r)'
    <3>1. pc[r] = "execute" => job[r].attempt >= 0
      BY <2>0 DEF CallInv, CallsFit
    <3>2. wiped \subseteq wiped'
      BY <1>2
    <3> QED BY <1>2, <1>3, <2>0, <2>3, <3>1, <3>2 DEF CallInv, ConnFits, SameCaller, Call
  <2>5. WorkFits(r)'
    <3>1. \A k \in executed[r] : <<r, k>> \in wiped'
      BY <1>2, <2>0, <2>3 DEF CallInv, WorkFits
    <3> QED BY <1>2, <1>3, <2>0, <3>1 DEF CallInv, WorkFits, SameCaller
  <2>6. RefusalFits(r)'
    BY <1>2, <1>4, <2>0 DEF CallInv, RefusalFits, SameCaller
  <2> QED BY <2>1, <2>2, <2>4, <2>5, <2>6 DEF CallInv
<1> QED BY <1>5, <1>6, <1>7 DEF SystemInv

LEMMA WorkerKeeps ==
  ASSUME SystemInv, WorkerStep, UNCHANGED <<vars, source, history>>, TypeOK'
  PROVE  SystemInv'
BY RefuseKeeps, BeginKeeps, PerformKeeps, FailKeeps, ReplyKeeps, RestartKeeps DEF WorkerStep

--------------------------------------------------------------------------------
(* The dispatcher's steps.                                                    *)

\* A step of a run does not touch the others.
LEMMA OtherRuns ==
  ASSUME Inv, NEW r \in Runs, FindPipeline(r) \/ RunStep(r), NEW s \in Runs \ {r}
  PROVE  /\ target' = target
         /\ pc'[s] = pc[s] /\ out'[s] = out[s] /\ job'[s] = job[s]
         /\ executed'[s] = executed[s] /\ runStatus'[s] = runStatus[s]
<1>1. Local(r) /\ TypeOK
  BY RunStepIsLocal DEF Inv
<1>2. Untouched(s)
  BY <1>1, LocalFrame
<1>3. executed'[s] = executed[s]
  BY <1>1 DEF Local, TypeOK
<1> QED BY <1>2, <1>3 DEF Untouched

\* The step in hand, as LoopsFit and StatusFits have it.
LEMMA StepInHand ==
  ASSUME Inv, NEW r \in Runs, pc[r] = "execute"
  PROVE  /\ job[r] \in Job /\ job[r].step \in Keys
         /\ job[r].step \in job[r].queued
         /\ DependsOn(job[r].plan, job[r].step) \subseteq job[r].completed
         /\ job[r].completed \subseteq KeysOf(job[r].plan)
         /\ \A k \in job[r].completed : DependsOn(job[r].plan, k) \subseteq job[r].completed
         /\ runStatus[r] \notin {"completed", "failed"}
<1>1. job[r] \in Job /\ RunInv(r)
  BY DEF Inv, TypeOK
<1>2. pc[r] \in Executing /\ pc[r] \in InHand /\ pc[r] # "failing"
  BY DEF Executing, InHand
<1>3. runStatus[r] \in {"absent", "running"}
  BY <1>1, <1>2 DEF RunInv, StatusFits
<1>4. LoopsFit(r)
  BY <1>1 DEF RunInv
<1>5. job[r].completed \subseteq KeysOf(job[r].plan)
  BY <1>2, <1>4 DEF LoopsFit
<1> QED BY <1>1, <1>2, <1>3, <1>4, <1>5 DEF LoopsFit, Job

LEMMA CallIsRequest ==
  ASSUME SystemTypeOK, NEW r \in Runs
  PROVE  Call(r) \in Request
<1>1. job[r].step \in Keys /\ job[r].attempt \in Int /\ target[r] \in Pipelines
  BY DEF SystemTypeOK, TypeOK, StoreTypeOK, Job
<1>2. source[target[r]] \in [Keys -> Keys \cup {NoSource}]
  BY <1>1, SourcesAssumption DEF SystemTypeOK
<1>3. source[target[r]][job[r].step] \in Keys \cup {NoSource}
  BY <1>1, <1>2
<1> QED BY <1>1, <1>3 DEF Call, Request

LEMMA CallWorkerKeeps ==
  ASSUME Inv, SystemInv, NEW r \in Runs, CallWorker(r)
  PROVE  SystemInv'
<1>0. PICK q : q = Call(r)
  OBVIOUS
<1>1. SystemTypeOK /\ QueueFits /\ \A s \in Runs : CallInv(s)
  BY DEF SystemInv
<1>2. /\ At(r, "execute") /\ Len(backlog) < Backlog /\ conn[q.run] = {}
      /\ backlog' = Append(backlog, q)
      /\ conn' = [conn EXCEPT ![q.run] = {[request |-> q, answer |-> "pending"]}]
      /\ UNCHANGED <<serving, phase, artifacts, performed, wiped, refused, restarts>>
      /\ UNCHANGED <<vars, source, history>>
  BY <1>0 DEF CallWorker, Connect
<1>3. /\ q \in Request /\ q.run = r /\ q.step = job[r].step
      /\ q.source = source[target[r]][job[r].step] /\ q.attempt = job[r].attempt
  BY <1>0, <1>1, CallIsRequest DEF Call
<1>4. \A s : SameCaller(s)
  BY <1>2, WorkerIsElsewhere
<1>5. /\ backlog \in Seq(Request) /\ backlog' \in Seq(Request)
      /\ Len(backlog') = Len(backlog) + 1 /\ Len(backlog) \in Nat
      /\ DOMAIN backlog = 1 .. Len(backlog) /\ DOMAIN backlog' = 1 .. Len(backlog) + 1
      /\ \A i \in DOMAIN backlog : backlog'[i] = backlog[i]
      /\ backlog'[Len(backlog) + 1] = q
  <2>1. backlog \in Seq(Request)
    BY <1>1 DEF SystemTypeOK, WorkerTypeOK
  <2> QED BY <1>2, <1>3, <2>1, AppendProperties
<1>6. /\ \A s : Served(s)' = Served(s)
      /\ \A s : s # r => Waiting(s)' = Waiting(s)
      /\ Waiting(r)' = Waiting(r) \cup {q}
  <2>1. \A s : \A request : request \in Waiting(s)' <=>
          \E i \in DOMAIN backlog' : request = backlog'[i] /\ request.run = s
    BY DEF Waiting
  <2>2. \A s : \A request : request \in Waiting(s) <=>
          \E i \in DOMAIN backlog : request = backlog[i] /\ request.run = s
    BY DEF Waiting
  <2>3. \A i \in DOMAIN backlog' : i \in DOMAIN backlog \/ i = Len(backlog) + 1
    BY <1>5
  <2>4. DOMAIN backlog \subseteq DOMAIN backlog' /\ Len(backlog) + 1 \in DOMAIN backlog'
    BY <1>5
  <2>5. \A s : \A request : request \in Waiting(s)' <=>
          request \in Waiting(s) \/ (request = q /\ s = r)
    BY <1>3, <1>5, <2>1, <2>2, <2>3, <2>4
  <2>6. \A s : Served(s)' = Served(s)
    BY <1>2 DEF Served
  <2>7. ASSUME NEW s, s # r
        PROVE  Waiting(s)' = Waiting(s)
    BY <2>5, <2>7
  <2>8. Waiting(r)' = Waiting(r) \cup {q}
    BY <2>5
  <2> QED BY <2>6, <2>7, <2>8
<1>7. /\ conn' \in [Runs -> SUBSET Connection]
      /\ \A s \in Runs : s # r => conn'[s] = conn[s]
      /\ conn[r] = {} /\ conn'[r] = {[request |-> q, answer |-> "pending"]}
  <2>1. conn \in [Runs -> SUBSET Connection]
    BY <1>1 DEF SystemTypeOK, WorkerTypeOK
  <2>2. [request |-> q, answer |-> "pending"] \in Connection
    BY <1>3 DEF Connection, Answers
  <2> QED BY <1>2, <1>3, <2>1, <2>2
<1>8. /\ pc[r] = "execute" /\ out[r] = <<>> /\ CallInv(r) /\ job[r].attempt \in Int
      /\ job[r].step \notin executed[r] /\ job[r].attempt \in 0 .. job[r].retries
  BY <1>1, <1>2 DEF At, CallInv, CallsFit, SystemTypeOK, TypeOK, Job
<1>9. \A request \in RequestsOf(r) : request.attempt < q.attempt
  <2>1. \A request \in RequestsOf(r) :
          request.attempt \in 0 .. job[r].attempt /\ request.attempt # job[r].attempt
    BY <1>7, <1>8, RequestFacts
  <2> QED BY <1>3, <1>8, <2>1
<1>10. SystemTypeOK'
  <2>1. Len(backlog') <= Backlog
    BY <1>2, <1>5, WorkerBoundsAssumption
  <2>2. TypeOK'
    BY <1>1, <1>2 DEF vars, tables, control, faults, SystemTypeOK, TypeOK, StoreTypeOK
  <2> QED BY <1>1, <1>2, <1>5, <1>7, <2>1, <2>2 DEF SystemTypeOK, WorkerTypeOK, history
<1>11. QueueFits'
  <2>1. ASSUME NEW i \in DOMAIN backlog', NEW j \in DOMAIN backlog',
               i < j, backlog'[i].run = backlog'[j].run
        PROVE  backlog'[i].attempt < backlog'[j].attempt
    <3>1. i \in DOMAIN backlog /\ backlog'[i] = backlog[i]
      BY <1>5, <2>1
    <3>2. CASE j \in DOMAIN backlog
      BY <1>1, <1>5, <2>1, <3>1, <3>2 DEF QueueFits
    <3>3. CASE j = Len(backlog) + 1
      <4>1. backlog[i] \in RequestsOf(r)
        BY <1>3, <1>5, <2>1, <3>1, <3>3, Characterization DEF RequestsOf
      <4> QED BY <1>5, <1>9, <3>1, <3>3, <4>1
    <3> QED BY <1>5, <3>2, <3>3
  <2>2. ASSUME NEW i \in DOMAIN serving, NEW j \in DOMAIN backlog',
               serving[i].run = backlog'[j].run
        PROVE  serving[i].attempt < backlog'[j].attempt
    <3>1. CASE j \in DOMAIN backlog
      BY <1>1, <1>5, <2>2, <3>1 DEF QueueFits
    <3>2. CASE j = Len(backlog) + 1
      <4>1. serving[i] \in RequestsOf(r)
        BY <1>3, <1>5, <2>2, <3>2, Characterization DEF RequestsOf
      <4> QED BY <1>5, <1>9, <3>2, <4>1
    <3> QED BY <1>5, <3>1, <3>2
  <2> QED BY <1>2, <2>1, <2>2 DEF QueueFits
<1>12. ASSUME NEW s \in Runs, s # r
       PROVE  CallInv(s)'
  BY <1>1, <1>2, <1>4, <1>6, <1>7, <1>12, FrameKeeps DEF SameWorker
<1>13. CallInv(r)'
  <2>0. SameCaller(r)
    BY <1>4
  <2>1. CallsFit(r)'
    BY <1>8, <2>0, CallsKeep DEF CallInv
  <2>2. RequestsOf(r)' = RequestsOf(r) \cup {q}
    BY <1>6 DEF RequestsOf
  <2>3. RequestsFit(r)'
    <3>1. \A request \in RequestsOf(r)' :
            /\ request.step = job[r].step /\ request.source = source[target[r]][job[r].step]
            /\ request.attempt \in 0 .. job[r].attempt
      BY <1>3, <1>8, <2>2, RequestFacts
    <3>2. pc[r] \in Calling /\ pc[r] \in {"execute", "lost"} /\ conn'[r] # {}
      BY <1>7, <1>8 DEF Calling
    <3> QED BY <1>8, <2>0, <3>1, <3>2, StepInHand DEF RequestsFit, SameCaller
  <2>4. ConnFits(r)'
    <3>1. Call(r)' = q
      BY <1>0, <2>0 DEF Call, SameCaller
    <3> QED BY <1>7, <1>8, <2>0, <3>1 DEF ConnFits, SameCaller
  <2>5. WorkFits(r)'
    <3>1. performed[r] \in [Keys -> Nat] /\ q.step \in Keys
      BY <1>1, <1>3 DEF SystemTypeOK, WorkerTypeOK, Request
    <3>2. performed[r][q.step] > 0 => performed[r][q.step] <= job[r].attempt + 0
      BY <1>3, <1>7, <1>8, <3>1 DEF CallInv, WorkFits
    <3>3. performed[r][q.step] <= q.attempt
      BY <1>3, <1>8, <3>1, <3>2
    <3>4. ASSUME NEW k \in Keys \ executed[r], performed[r][k] > 0
          PROVE  /\ k = q.step /\ DependsOn(job[r].plan, k) \subseteq executed[r]
                 /\ performed[r][k] <= job[r].attempt + 1
      <4>1. k = q.step /\ DependsOn(job[r].plan, k) \subseteq executed[r]
        BY <1>3, <1>8, <3>4 DEF CallInv, WorkFits
      <4> QED BY <1>3, <1>8, <3>1, <3>3, <4>1
    <3>5. pc[r] \in Calling /\ conn'[r] # {}
      BY <1>7, <1>8 DEF Calling
    <3>6. \A request \in Waiting(r)' : performed[r][request.step] <= request.attempt
      BY <1>6, <1>8, <3>3 DEF CallInv, WorkFits
    <3>7. \A k \in executed[r] :
            /\ performed[r][k] \in 1 .. accepted[r][k] + 1
            /\ artifacts[r][k].attempt = accepted[r][k] \/ <<r, k>> \in wiped
            /\ accepted[r][k] >= 0
            /\ DependsOn(job[r].plan, k) \subseteq executed[r]
      BY <1>8 DEF CallInv, WorkFits
    <3>8. \A request \in Served(r) :
            /\ phase = "executing" => performed[r][request.step] <= request.attempt
            /\ phase = "performed" => performed[r][request.step] \in 1 .. request.attempt + 1
      BY <1>8 DEF CallInv, WorkFits
    <3> QED BY <1>2, <1>3, <1>6, <2>0, <3>4, <3>5, <3>6, <3>7, <3>8 DEF WorkFits, SameCaller
  <2>6. RefusalFits(r)'
    BY <1>2, <1>8, <2>0 DEF CallInv, RefusalFits, SameCaller
  <2> QED BY <2>1, <2>3, <2>4, <2>5, <2>6 DEF CallInv
<1> QED BY <1>10, <1>11, <1>12, <1>13 DEF SystemInv

\* What a step of r does to System when it leaves the worker alone.
LEMMA RunFrame ==
  ASSUME Inv, SystemInv, TypeOK', NEW r \in Runs, FindPipeline(r) \/ RunStep(r),
         UNCHANGED <<worker, source>>,
         conn' \in [Runs -> SUBSET Connection], \A s \in Runs : s # r => conn'[s] = conn[s],
         accepted' \in [Runs -> [Keys -> Int]],
         \A s \in Runs : s # r => accepted'[s] = accepted[s],
         gaveUp' \in {gaveUp, gaveUp \cup {r}},
         CallInv(r)'
  PROVE  SystemInv'
<1>1. SystemTypeOK /\ QueueFits /\ \A s \in Runs : CallInv(s)
  BY DEF SystemInv
<1>2. SystemTypeOK'
  BY <1>1 DEF worker, SystemTypeOK, WorkerTypeOK
<1>3. QueueFits'
  BY <1>1 DEF worker, QueueFits
<1>4. \A s : Waiting(s)' = Waiting(s) /\ Served(s)' = Served(s)
  BY DEF worker, Waiting, Served
<1>5. ASSUME NEW s \in Runs, s # r
      PROVE  CallInv(s)'
  <2>1. SameCaller(s)
    BY <1>5, OtherRuns DEF SameCaller
  <2>2. SameWorker(s)
    BY <1>4, <1>5 DEF worker, SameWorker
  <2> QED BY <1>1, <2>1, <2>2, FrameKeeps
<1> QED BY <1>2, <1>3, <1>5 DEF SystemInv

LEMMA CallSucceedsKeeps ==
  ASSUME Inv, SystemInv, TypeOK', NEW r \in Runs, CallSucceeds(r)
  PROVE  SystemInv'
<1>1. SystemTypeOK /\ CallInv(r)
  BY DEF SystemInv
<1>2. PICK c \in conn[r] : c.answer = "ok"
  BY DEF CallSucceeds, Answered
<1>3. /\ pc[r] = "execute" /\ job' = job /\ out' = out /\ UNCHANGED tables
      /\ executed' = [executed EXCEPT ![r] = executed[r] \cup {job[r].step}]
      /\ pc' = [pc EXCEPT ![r] = "complete"]
      /\ conn' = [conn EXCEPT ![r] = {}]
      /\ accepted' = [accepted EXCEPT ![r][job[r].step] = job[r].attempt]
      /\ UNCHANGED <<worker, source, gaveUp>>
  BY DEF CallSucceeds, ExecuteSucceeds, At, Goto, Close, worker
<1>4. /\ job[r] \in Job /\ job[r].step \in Keys /\ job[r].attempt \in Int
      /\ conn \in [Runs -> SUBSET Connection] /\ accepted \in [Runs -> [Keys -> Int]]
      /\ executed \in [Runs -> SUBSET Keys] /\ pc \in [Runs -> Pcs]
      /\ performed \in [Runs -> [Keys -> Nat]]
  BY <1>1 DEF SystemTypeOK, TypeOK, Job, WorkerTypeOK
<1>5. /\ pc'[r] = "complete" /\ conn'[r] = {}
      /\ executed'[r] = executed[r] \cup {job[r].step}
      /\ conn' \in [Runs -> SUBSET Connection] /\ \A s \in Runs : s # r => conn'[s] = conn[s]
  BY <1>3, <1>4
<1>6. /\ accepted' \in [Runs -> [Keys -> Int]]
      /\ \A s \in Runs : s # r => accepted'[s] = accepted[s]
      /\ accepted'[r][job[r].step] = job[r].attempt
      /\ \A k \in Keys : k # job[r].step => accepted'[r][k] = accepted[r][k]
  <2>1. accepted' = [accepted EXCEPT ![r] = [accepted[r] EXCEPT ![job[r].step] = job[r].attempt]]
    BY <1>3
  <2> QED BY <1>4, <2>1
<1>7. /\ RequestsOf(r) = {} /\ performed[r][job[r].step] > 0
      /\ artifacts[r][job[r].step].attempt = job[r].attempt \/ <<r, job[r].step>> \in wiped
      /\ job[r].step \notin executed[r] /\ job[r].attempt >= 0
  <2>1. c.answer # "pending"
    BY <1>2
  <2>2. /\ RequestsOf(r) = {} /\ performed[r][job[r].step] > 0
        /\ artifacts[r][job[r].step].attempt = job[r].attempt \/ <<r, job[r].step>> \in wiped
    BY <1>1, <1>2, <2>1 DEF CallInv, ConnFits
  <2>3. job[r].step \notin executed[r] /\ job[r].attempt \in 0 .. job[r].retries
    BY <1>1, <1>3 DEF CallInv, CallsFit
  <2>4. job[r].retries \in Int
    BY <1>4 DEF Job
  <2> QED BY <1>4, <2>2, <2>3, <2>4
<1>8. /\ Waiting(r)' = {} /\ Served(r)' = {} /\ RequestsOf(r)' = {}
  BY <1>3, <1>7 DEF worker, RequestsOf, Waiting, Served
<1>9. CallsFit(r)'
  BY <1>1, <1>3, <1>5, StepInHand DEF CallInv, CallsFit, Before, Executing
<1>10. RequestsFit(r)'
  BY <1>8 DEF RequestsFit
<1>11. ConnFits(r)'
  BY <1>5 DEF ConnFits
<1>12. WorkFits(r)'
  <2>1. ASSUME NEW k \in executed'[r]
        PROVE  /\ performed[r][k] \in 1 .. accepted'[r][k] + 1
               /\ artifacts[r][k].attempt = accepted'[r][k] \/ <<r, k>> \in wiped
               /\ accepted'[r][k] >= 0
               /\ DependsOn(job[r].plan, k) \subseteq executed'[r]
    <3>1. CASE k = job[r].step
      <4>1. performed[r][k] <= job[r].attempt + 1
        <5>1. performed[r][k] <= job[r].attempt + (IF conn[r] # {} THEN 1 ELSE 0)
          BY <1>1, <1>3, <1>4, <1>7, <3>1 DEF CallInv, WorkFits
        <5> QED BY <1>2, <5>1
      <4>2. DependsOn(job[r].plan, k) \subseteq executed[r]
        BY <1>1, <1>3, <3>1, StepInHand DEF CallInv, CallsFit
      <4>3. performed[r][k] \in Nat /\ performed[r][k] > 0
        BY <1>4, <1>7, <3>1
      <4> QED BY <1>4, <1>5, <1>6, <1>7, <3>1, <4>1, <4>2, <4>3
    <3>2. CASE k # job[r].step
      <4>1. k \in executed[r] /\ k \in Keys
        BY <1>4, <1>5, <2>1, <3>2
      <4>2. accepted'[r][k] = accepted[r][k]
        BY <1>6, <3>2, <4>1
      <4> QED BY <1>1, <1>5, <4>1, <4>2 DEF CallInv, WorkFits
    <3> QED BY <3>1, <3>2
  <2>2. \A k \in Keys \ executed'[r] : ~ (performed[r][k] > 0)
    BY <1>1, <1>5 DEF CallInv, WorkFits
  <2> QED BY <1>3, <1>8, <2>1, <2>2 DEF WorkFits, worker
<1>13. RefusalFits(r)'
  BY <1>1, <1>3, <1>5 DEF CallInv, RefusalFits, worker, tables, Before
<1>14. CallInv(r)'
  BY <1>9, <1>10, <1>11, <1>12, <1>13 DEF CallInv
<1>15. RunStep(r)
  BY DEF CallSucceeds, RunStep
<1> QED BY <1>3, <1>5, <1>6, <1>14, <1>15, RunFrame

\* A call that fails: nothing is left in the worker, or the run has given it up.
LEMMA FailedCallKeeps ==
  ASSUME Inv, SystemInv, TypeOK', NEW r \in Runs, ExecuteFails(r), Close(r),
         UNCHANGED <<source, accepted>>,
         (RequestsOf(r) = {} /\ gaveUp' = gaveUp) \/ gaveUp' = gaveUp \cup {r}
  PROVE  SystemInv'
<1>1. SystemTypeOK /\ CallInv(r)
  BY DEF SystemInv
<1>2. /\ pc[r] = "execute" /\ UNCHANGED <<tables, executed>>
      /\ job' = [job EXCEPT ![r].attempt = Increment(@)]
      /\ \/ pc' = [pc EXCEPT ![r] = "attempt"] /\ Increment(job[r].attempt) <= job[r].retries
         \/ pc' = [pc EXCEPT ![r] = "failing"]
      /\ conn' = [conn EXCEPT ![r] = {}]
      /\ UNCHANGED worker
  BY DEF ExecuteFails, At, Goto, Close, worker
<1>3. /\ job \in [Runs -> Job] /\ job[r] \in Job /\ job[r].step \in Keys
      /\ job[r].attempt \in Int /\ job[r].retries \in Int
      /\ conn \in [Runs -> SUBSET Connection] /\ accepted \in [Runs -> [Keys -> Int]]
      /\ pc \in [Runs -> Pcs] /\ performed \in [Runs -> [Keys -> Nat]]
  BY <1>1 DEF SystemTypeOK, TypeOK, Job, WorkerTypeOK
<1>4. /\ job[r].step \notin executed[r]
      /\ job[r].attempt \in 0 .. job[r].retries /\ job[r].retries < MaxInt
  BY <1>1, <1>2 DEF CallInv, CallsFit
<1>5. /\ job'[r] = [job[r] EXCEPT !.attempt = job[r].attempt + 1]
      /\ pc'[r] \in {"attempt", "failing"}
      /\ pc'[r] = "attempt" => job[r].attempt + 1 <= job[r].retries
      /\ conn'[r] = {}
      /\ conn' \in [Runs -> SUBSET Connection] /\ \A s \in Runs : s # r => conn'[s] = conn[s]
  <2>1. Increment(job[r].attempt) = job[r].attempt + 1
    BY <1>3, <1>4, MaxIntAssumption DEF Increment
  <2> QED BY <1>2, <1>3, <2>1
<1>6. /\ job'[r].attempt = job[r].attempt + 1 /\ job'[r].step = job[r].step
      /\ job'[r].plan = job[r].plan /\ job'[r].completed = job[r].completed
      /\ job'[r].queued = job[r].queued /\ job'[r].retries = job[r].retries
  BY <1>3, <1>5 DEF Job
<1>7. CallsFit(r)'
  <2>1. pc'[r] \notin Before /\ pc'[r] # "complete" /\ pc[r] \in Executing
    BY <1>2, <1>5 DEF Before, Executing
  <2>2. /\ job[r].plan \in Definitions \cup {<<>>}
        /\ executed[r] \subseteq job[r].queued /\ job[r].completed \subseteq executed[r]
    BY <1>1, <2>1 DEF CallInv, CallsFit
  <2>3. pc'[r] \in {"attempt", "execute"} => job'[r].attempt \in 0 .. job'[r].retries
    BY <1>3, <1>4, <1>5, <1>6
  <2> QED BY <1>2, <1>4, <1>6, <2>1, <2>2, <2>3 DEF CallsFit
<1>8. \A s : Waiting(s)' = Waiting(s) /\ Served(s)' = Served(s) /\ RequestsOf(s)' = RequestsOf(s)
  BY <1>2 DEF worker, RequestsOf, Waiting, Served
<1>9. RequestsFit(r)'
  <2> SUFFICES ASSUME NEW request \in RequestsOf(r)
               PROVE  /\ pc'[r] \in Calling
                      /\ request.step = job'[r].step
                      /\ request.source = source'[target'[r]][job'[r].step]
                      /\ job'[r].step \notin executed'[r]
                      /\ request.attempt \in 0 .. job'[r].attempt
                      /\ request.attempt # job'[r].attempt
                      /\ DependsOn(job'[r].plan, job'[r].step) \subseteq job'[r].completed
                      /\ job'[r].completed \subseteq KeysOf(job'[r].plan)
                      /\ \A k \in job'[r].completed :
                           DependsOn(job'[r].plan, k) \subseteq job'[r].completed
                      /\ runStatus'[r] # "completed"
                      /\ r \in gaveUp'
    BY <1>8 DEF RequestsFit
  <2>1. /\ request.step = job[r].step /\ request.source = source[target[r]][job[r].step]
        /\ request.attempt \in 0 .. job[r].attempt
    BY <1>1, RequestFacts
  <2>2. request.attempt \in 0 .. job'[r].attempt /\ request.attempt # job'[r].attempt
    BY <1>3, <1>6, <2>1
  <2>3. /\ DependsOn(job[r].plan, job[r].step) \subseteq job[r].completed
        /\ job[r].completed \subseteq KeysOf(job[r].plan)
        /\ \A k \in job[r].completed : DependsOn(job[r].plan, k) \subseteq job[r].completed
        /\ runStatus[r] # "completed"
    BY <1>2, StepInHand
  <2>4. pc'[r] \in Calling /\ r \in gaveUp'
    BY <1>5 DEF Calling
  <2> QED BY <1>2, <1>4, <1>6, <2>1, <2>2, <2>3, <2>4 DEF tables
<1>10. ConnFits(r)'
  BY <1>5 DEF ConnFits
<1>11. WorkFits(r)'
  <2>1. UNCHANGED <<performed, artifacts, wiped, accepted, executed, phase>>
    BY <1>2 DEF worker
  <2>2. \A k \in executed[r] :
          /\ performed[r][k] \in 1 .. accepted[r][k] + 1
          /\ artifacts[r][k].attempt = accepted[r][k] \/ <<r, k>> \in wiped
          /\ accepted[r][k] >= 0
          /\ DependsOn(job[r].plan, k) \subseteq executed[r]
    BY <1>1 DEF CallInv, WorkFits
  <2>3. ASSUME NEW k \in Keys \ executed[r], performed[r][k] > 0
        PROVE  /\ k = job'[r].step /\ pc'[r] \in Calling
               /\ DependsOn(job'[r].plan, k) \subseteq executed[r]
               /\ performed[r][k] <= job'[r].attempt + 0
    <3>1. k = job[r].step /\ DependsOn(job[r].plan, k) \subseteq executed[r]
      BY <1>1, <2>3 DEF CallInv, WorkFits
    <3>2. performed[r][k] <= job[r].attempt + (IF conn[r] # {} THEN 1 ELSE 0)
      BY <1>1, <1>2, <2>3 DEF CallInv, WorkFits
    <3>3. performed[r][k] \in Nat
      BY <1>3
    <3>4. performed[r][k] <= job'[r].attempt + 0
      <4>1. CASE conn[r] # {}
        BY <1>3, <1>6, <3>2, <3>3, <4>1
      <4>2. CASE conn[r] = {}
        BY <1>3, <1>6, <3>2, <3>3, <4>2
      <4> QED BY <4>1, <4>2
    <3>5. pc'[r] \in Calling
      BY <1>5 DEF Calling
    <3> QED BY <1>6, <3>1, <3>4, <3>5
  <2>4. \A request \in Waiting(r) : performed[r][request.step] <= request.attempt
    BY <1>1 DEF CallInv, WorkFits
  <2>5. \A request \in Served(r) :
          /\ phase = "executing" => performed[r][request.step] <= request.attempt
          /\ phase = "performed" => performed[r][request.step] \in 1 .. request.attempt + 1
    BY <1>1 DEF CallInv, WorkFits
  <2> QED BY <1>5, <1>6, <1>8, <2>1, <2>2, <2>3, <2>4, <2>5 DEF WorkFits
<1>12. RefusalFits(r)'
  BY <1>1, <1>2, <1>5, <1>6 DEF CallInv, RefusalFits, worker, tables, Before
<1>13. CallInv(r)'
  BY <1>7, <1>9, <1>10, <1>11, <1>12 DEF CallInv
<1>14. RunStep(r)
  BY DEF RunStep
<1> QED BY <1>2, <1>3, <1>5, <1>13, <1>14, RunFrame

LEMMA CallFailsKeeps ==
  ASSUME Inv, SystemInv, TypeOK', NEW r \in Runs, CallIsRefused(r) \/ CallTimesOut(r)
  PROVE  SystemInv'
<1>1. CASE CallIsRefused(r)
  <2>1. PICK c \in conn[r] : c.answer = "error"
    BY <1>1 DEF CallIsRefused, Answered
  <2>2. RequestsOf(r) = {}
    BY <2>1 DEF SystemInv, CallInv, ConnFits
  <2> QED BY <1>1, <2>2, FailedCallKeeps DEF CallIsRefused, history
<1>2. CASE CallTimesOut(r)
  BY <1>2, FailedCallKeeps DEF CallTimesOut
<1> QED BY <1>1, <1>2

--------------------------------------------------------------------------------
(* The other steps of a run.                                                  *)

\* They find no connection of the run.
LEMMA NoConnection ==
  ASSUME NEW r \in Runs, CallInv(r), ~ At(r, "execute")
  PROVE  conn[r] = {}
BY DEF CallInv, ConnFits, At

OwnFrame(r) ==
  /\ target' = target /\ UNCHANGED <<workerVars, source, history>>
  /\ executed'[r] = executed[r]

LEMMA FrameWorker ==
  ASSUME NEW r \in Runs, OwnFrame(r)
  PROVE  /\ UNCHANGED <<conn, performed, artifacts, wiped, refused, phase, source, accepted, gaveUp>>
         /\ Waiting(r)' = Waiting(r) /\ Served(r)' = Served(r) /\ RequestsOf(r)' = RequestsOf(r)
BY DEF OwnFrame, workerVars, worker, history, Waiting, Served, RequestsOf

\* Before the loops nothing has been asked of the worker.
LEMMA BeforeKeeps ==
  ASSUME NEW r \in Runs, CallInv(r), performed[r] \in [Keys -> Nat],
         pc[r] \in Before, OwnFrame(r),
         pc'[r] \in Before \cup {"loop", "rejected", "returned"},
         job'[r].plan \in Definitions \cup {<<>>}, job'[r].completed = {}
  PROVE  CallInv(r)'
<1>1. executed[r] = {} /\ executed'[r] = {}
  BY DEF CallInv, CallsFit, OwnFrame
<1>2. /\ UNCHANGED <<conn, performed, artifacts, wiped, refused, phase, source, accepted, gaveUp>>
      /\ Waiting(r)' = Waiting(r) /\ Served(r)' = Served(r) /\ RequestsOf(r)' = RequestsOf(r)
  BY FrameWorker
<1>3. pc[r] \notin Calling /\ pc[r] # "execute"
  BY DEF Before, Calling
<1>4. RequestsOf(r) = {} /\ Waiting(r) = {} /\ Served(r) = {} /\ conn[r] = {}
  BY <1>3, RequestFacts DEF RequestsOf, CallInv, ConnFits
<1>5. \A k \in Keys : ~ (performed[r][k] > 0) /\ <<r, k>> \notin refused
  BY <1>1, <1>3 DEF CallInv, WorkFits, RefusalFits
<1>6. CallsFit(r)'
  BY <1>1 DEF CallsFit, Before
<1>7. RequestsFit(r)'
  BY <1>2, <1>4 DEF RequestsFit
<1>8. ConnFits(r)'
  BY <1>2, <1>4 DEF ConnFits
<1>9. WorkFits(r)'
  BY <1>1, <1>2, <1>4, <1>5 DEF WorkFits
<1>10. RefusalFits(r)'
  BY <1>2, <1>5 DEF RefusalFits
<1> QED BY <1>6, <1>7, <1>8, <1>9, <1>10 DEF CallInv

\* Between the calls all that has been performed has succeeded.
LEMMA BetweenKeeps ==
  ASSUME NEW r \in Runs, CallInv(r), performed[r] \in [Keys -> Nat],
         pc[r] \notin Before \cup Calling, OwnFrame(r),
         pc'[r] \notin Before, job'[r].plan = job[r].plan, CallsFit(r)'
  PROVE  CallInv(r)'
<1>1. /\ UNCHANGED <<conn, performed, artifacts, wiped, refused, phase, source, accepted, gaveUp>>
      /\ Waiting(r)' = Waiting(r) /\ Served(r)' = Served(r) /\ RequestsOf(r)' = RequestsOf(r)
      /\ executed'[r] = executed[r] /\ target' = target
  BY FrameWorker DEF OwnFrame
<1>2. pc[r] \notin Calling /\ pc[r] # "execute"
  BY DEF Calling
<1>3. RequestsOf(r) = {} /\ Waiting(r) = {} /\ Served(r) = {} /\ conn[r] = {}
  BY <1>2, RequestFacts DEF RequestsOf, CallInv, ConnFits
<1>4. \A k \in Keys \ executed[r] : ~ (performed[r][k] > 0)
  BY <1>2 DEF CallInv, WorkFits
<1>5. RequestsFit(r)'
  BY <1>1, <1>3 DEF RequestsFit
<1>6. ConnFits(r)'
  BY <1>1, <1>3 DEF ConnFits
<1>7. WorkFits(r)'
  BY <1>1, <1>3, <1>4 DEF CallInv, WorkFits
<1>8. RefusalFits(r)'
  BY <1>1 DEF CallInv, RefusalFits
<1> QED BY <1>5, <1>6, <1>7, <1>8 DEF CallInv

\* A statement is executed while the call is prepared or given up.
LEMMA StatementKeeps ==
  ASSUME NEW r \in Runs, CallInv(r), conn[r] = {}, OwnFrame(r), job'[r] = job[r],
         \/ pc'[r] = pc[r]
         \/ pc[r] = "attempt" /\ pc'[r] \in {"execute", "failing"},
         runStatus'[r] = runStatus[r] \/ (pc[r] = "failing" /\ runStatus'[r] = "failed")
  PROVE  CallInv(r)'
<1>1. /\ UNCHANGED <<conn, performed, artifacts, wiped, refused, phase, source, accepted, gaveUp>>
      /\ Waiting(r)' = Waiting(r) /\ Served(r)' = Served(r) /\ RequestsOf(r)' = RequestsOf(r)
      /\ executed'[r] = executed[r] /\ target' = target
  BY FrameWorker DEF OwnFrame
<1>2. CallsFit(r)'
  BY <1>1 DEF CallInv, CallsFit, Before, Executing
<1>3. RequestsFit(r)'
  BY <1>1 DEF CallInv, RequestsFit, Calling
<1>4. ConnFits(r)'
  BY <1>1 DEF ConnFits
<1>5. WorkFits(r)'
  BY <1>1 DEF CallInv, WorkFits, Calling
<1>6. RefusalFits(r)'
  BY <1>1 DEF CallInv, RefusalFits, Before
<1> QED BY <1>2, <1>3, <1>4, <1>5, <1>6 DEF CallInv

\* The plans that are read are definitions.
LEMMA BeforeStepKeeps ==
  ASSUME Inv, ProgressInv, SystemInv, NEW r \in Runs, OwnFrame(r),
         \/ FindPipeline(r) \/ ReadSteps(r) \/ CreateRun(r) \/ Spawn(r)
         \/ Load(r) \/ LoadSteps(r) \/ StartRun(r)
  PROVE  CallInv(r)'
<1>1. CallInv(r) /\ performed[r] \in [Keys -> Nat]
  BY DEF SystemInv, SystemTypeOK, WorkerTypeOK
<1>2. /\ pc \in [Runs -> Pcs] /\ job \in [Runs -> Job] /\ job[r] \in Job
      /\ steps[target[r]] \in Definitions \cup {<<>>}
  <2>1. target[r] \in Pipelines
    BY DEF Inv, TypeOK, StoreTypeOK
  <2> QED BY <2>1 DEF Inv, TypeOK, ProgressInv
<1>3. pc[r] \in Before
  BY DEF FindPipeline, ReadSteps, CreateRun, Spawn, Load, LoadSteps, StartRun, At, Before
<1>4. pc'[r] \in Before \cup {"loop", "rejected", "returned"}
  BY <1>2 DEF FindPipeline, ReadSteps, CreateRun, Spawn, Load, LoadSteps, StartRun, Goto, Before
<1>5. job[r].plan \in Definitions \cup {<<>>} /\ job[r].completed = {}
  BY <1>1, <1>3 DEF CallInv, CallsFit
<1>6. job' \in {job, [job EXCEPT ![r].plan = steps[target[r]]], [job EXCEPT ![r] = NoJob]}
  BY DEF FindPipeline, ReadSteps, CreateRun, Spawn, Load, LoadSteps, StartRun
<1>7. job'[r].plan \in Definitions \cup {<<>>} /\ job'[r].completed = {}
  <2>1. CASE job' = job
    BY <1>5, <2>1
  <2>2. CASE job' = [job EXCEPT ![r].plan = steps[target[r]]]
    BY <1>2, <1>5, <2>2 DEF Job
  <2>3. CASE job' = [job EXCEPT ![r] = NoJob]
    BY <1>2, <2>3 DEF NoJob
  <2> QED BY <1>6, <2>1, <2>2, <2>3
<1> QED BY <1>1, <1>3, <1>4, <1>7, BeforeKeeps

LEMMA ScheduleFits ==
  ASSUME Inv, SystemInv, NEW r \in Runs, OwnFrame(r), Schedule(r)
  PROVE  CallInv(r)'
<1>1. CallInv(r) /\ performed[r] \in [Keys -> Nat]
  BY DEF SystemInv, SystemTypeOK, WorkerTypeOK
<1>2. pc \in [Runs -> Pcs] /\ job \in [Runs -> Job] /\ job[r] \in Job
  BY DEF Inv, TypeOK
<1>3. pc[r] = "loop" /\ pc'[r] \in {"finish", "failing", "pick"}
  BY <1>2 DEF Schedule, At, Goto
<1>4. /\ job'[r].plan = job[r].plan /\ job'[r].completed = job[r].completed
      /\ job'[r].queued = job[r].queued
  <2>1. CASE job' = job
    BY <2>1
  <2>2. CASE job' = [job EXCEPT ![r].batch = Ready(job[r])]
    BY <1>2, <2>2 DEF Job
  <2> QED BY <2>1, <2>2 DEF Schedule
<1>5. CallsFit(r)'
  BY <1>1, <1>3, <1>4 DEF OwnFrame, CallInv, CallsFit, Before, Executing
<1> QED BY <1>1, <1>3, <1>4, <1>5, BetweenKeeps DEF Before, Calling

LEMMA PickFits ==
  ASSUME Inv, SystemInv, RetriesEnd, NEW r \in Runs, OwnFrame(r), Pick(r)
  PROVE  CallInv(r)'
<1>1. CallInv(r) /\ performed[r] \in [Keys -> Nat]
  BY DEF SystemInv, SystemTypeOK, WorkerTypeOK
<1>2. pc \in [Runs -> Pcs] /\ job \in [Runs -> Job] /\ job[r] \in Job /\ pc[r] = "pick"
  BY DEF Inv, TypeOK, Pick, At
<1>3. PICK k \in job[r].batch :
        \E n \in MaxRetriesForStep(RetryCount(job[r].plan, k)) :
          /\ job' = [job EXCEPT ![r] = TakeInHand(@, k, n)]
          /\ Goto(r, IF 0 <= n THEN "attempt" ELSE "complete")
  BY DEF Pick
<1>4. PICK n \in MaxRetriesForStep(RetryCount(job[r].plan, k)) :
        /\ job' = [job EXCEPT ![r] = TakeInHand(@, k, n)]
        /\ Goto(r, IF 0 <= n THEN "attempt" ELSE "complete")
  BY <1>3
<1>5. k \in KeysOf(job[r].plan) /\ k \notin job[r].queued /\ job[r].queued = job[r].completed
  BY <1>2, <1>3 DEF Inv, RunInv, LoopsFit
<1>6. job[r].plan \in Definitions
  <2>1. job[r].plan # <<>>
    BY <1>5 DEF KeysOf
  <2> QED BY <1>1, <2>1 DEF CallInv, CallsFit
<1>7. n \in Nat /\ n < MaxInt
  <2>1. n \in Nat
    BY <1>4, <1>5, <1>6, RetriesEndWithinInt, RetriesAreNatural
  <2>2. job[r].plan \in Seq(Step) /\ StepOrder(job[r].plan, k) \in DOMAIN job[r].plan
    BY <1>5, <1>6, DefinitionsAssumption DEF KeysOf, StepOrder
  <2>3. /\ RetryCount(job[r].plan, k) \in Int \cup {NotANumber}
        /\ RetryCount(job[r].plan, k) \in Int => RetryCount(job[r].plan, k) < MaxInt
    <3>1. RetryCount(job[r].plan, k) \in Int \cup {NotANumber}
      BY <1>5, <2>2, KeysOfSteps
    <3> QED BY <1>6, <2>2, <3>1 DEF RetriesEnd, RetryCount
  <2> QED BY <1>4, <2>1, <2>3, MaxIntAssumption DEF MaxRetriesForStep
<1>8. pc'[r] = "attempt"
  BY <1>2, <1>4, <1>7 DEF Goto
<1>9. /\ job'[r].plan = job[r].plan /\ job'[r].completed = job[r].completed
      /\ job'[r].queued = job[r].queued \cup {k} /\ job'[r].step = k
      /\ job'[r].attempt = 0 /\ job'[r].retries = n
  <2>1. job'[r] = TakeInHand(job[r], k, n)
    BY <1>2, <1>4
  <2> QED BY <1>2, <2>1 DEF TakeInHand, Job
<1>10. CallsFit(r)'
  <2>1. executed[r] \subseteq job[r].queued /\ job[r].completed \subseteq executed[r]
    BY <1>1, <1>2 DEF CallInv, CallsFit, Executing
  <2>2. k \notin executed[r]
    BY <1>5, <2>1
  <2> QED BY <1>1, <1>6, <1>7, <1>8, <1>9, <2>1, <2>2 DEF OwnFrame, CallsFit, Before
<1> QED BY <1>1, <1>2, <1>8, <1>9, <1>10, BetweenKeeps DEF Before, Calling

LEMMA CompleteStepFits ==
  ASSUME Inv, SystemInv, NEW r \in Runs, OwnFrame(r), CompleteStep(r)
  PROVE  CallInv(r)'
<1>1. CallInv(r) /\ performed[r] \in [Keys -> Nat]
  BY DEF SystemInv, SystemTypeOK, WorkerTypeOK
<1>2. pc \in [Runs -> Pcs] /\ job \in [Runs -> Job] /\ job[r] \in Job /\ pc[r] = "complete"
  BY DEF Inv, TypeOK, CompleteStep, At
<1>3. pc'[r] \in {"loop", "pick", "failing"}
  BY <1>2 DEF CompleteStep, Goto
<1>4. /\ job'[r].plan = job[r].plan /\ job'[r].queued = job[r].queued
      /\ job'[r].completed \subseteq job[r].completed \cup {job[r].step}
  <2>1. CASE job' = job
    BY <2>1
  <2>2. CASE job' = [job EXCEPT ![r].completed = @ \cup {job[r].step}]
    BY <1>2, <2>2 DEF Job
  <2> QED BY <2>1, <2>2 DEF CompleteStep
<1>5. CallsFit(r)'
  BY <1>1, <1>2, <1>3, <1>4 DEF OwnFrame, CallInv, CallsFit, Before, Executing
<1> QED BY <1>1, <1>2, <1>3, <1>4, <1>5, BetweenKeeps DEF Before, Calling

LEMMA FinishRunFits ==
  ASSUME Inv, SystemInv, NEW r \in Runs, OwnFrame(r), FinishRun(r)
  PROVE  CallInv(r)'
<1>1. CallInv(r) /\ performed[r] \in [Keys -> Nat]
  BY DEF SystemInv, SystemTypeOK, WorkerTypeOK
<1>2. pc \in [Runs -> Pcs] /\ pc[r] = "finish" /\ pc'[r] = "returned" /\ job' = job
  BY DEF Inv, TypeOK, FinishRun, At, Goto
<1>3. CallsFit(r)'
  BY <1>1, <1>2 DEF OwnFrame, CallInv, CallsFit, Before, Executing
<1> QED BY <1>1, <1>2, <1>3, BetweenKeeps DEF Before, Calling

LEMMA WritingFits ==
  ASSUME Inv, SystemInv, NEW r \in Runs, OwnFrame(r), BeginAttempt(r) \/ Write(r)
  PROVE  CallInv(r)'
<1>1. CallInv(r) /\ pc \in [Runs -> Pcs]
  BY DEF SystemInv, Inv, TypeOK
<1>2. conn[r] = {}
  BY <1>1, NoConnection DEF BeginAttempt, Write, At
<1>3. CASE BeginAttempt(r)
  <2>1. pc[r] = "attempt" /\ pc'[r] \in {"execute", "failing"} /\ job' = job
    BY <1>1, <1>3 DEF BeginAttempt, At, Goto
  <2>2. runStatus' = runStatus
    BY <1>3 DEF BeginAttempt, ErrorOf, UpdateStepRunStatus, tables
  <2> QED BY <1>1, <1>2, <2>1, <2>2, StatementKeeps
<1>4. CASE Write(r)
  <2>1. pc' = pc /\ job' = job /\ out[r] # <<>>
    BY <1>4 DEF Write
  <2>2. Effect(r)
    BY <1>4, WriteEffect
  <2>3. runStatus'[r] = runStatus[r] \/ (pc[r] = "failing" /\ runStatus'[r] = "failed")
    <3>1. runStatus \in [Runs -> RunStatuses \cup {"absent"}]
      BY DEF Inv, TypeOK, StoreTypeOK
    <3> QED BY <2>1, <2>2, <3>1 DEF Effect, At, SameRows, RunMoves, StepMoves
  <2> QED BY <1>1, <1>2, <2>1, <2>3, StatementKeeps
<1> QED BY <1>3, <1>4

LEMMA OwnStepKeeps ==
  ASSUME Inv, ProgressInv, SystemInv, TypeOK', RetriesEnd, NEW r \in Runs,
         \/ OwnStep(r)
         \/ FindPipeline(r) /\ UNCHANGED <<workerVars, source, history>>
  PROVE  SystemInv'
<1>1. FindPipeline(r) \/ RunStep(r)
  BY DEF OwnStep, RunStep
<1>2. UNCHANGED <<workerVars, source, history>>
  BY DEF OwnStep
<1>3. Local(r) /\ TypeOK
  BY <1>1, RunStepIsLocal DEF Inv
<1>4. target' = target
  BY <1>3 DEF Local, Statement, tables, UpdatePipelineRunStatus, UpdateStepRunStatus,
              CreateRunEvent, InsertRun
<1>5. executed' = executed
  BY DEF OwnStep, FindPipeline, ReadSteps, CreateRun, Spawn, Load, LoadSteps, StartRun,
         Schedule, Pick, BeginAttempt, CompleteStep, FinishRun, Write
<1>6. OwnFrame(r)
  BY <1>2, <1>4, <1>5 DEF OwnFrame
<1>7. CallInv(r)'
  BY <1>6, BeforeStepKeeps, ScheduleFits, PickFits, CompleteStepFits, FinishRunFits, WritingFits
     DEF OwnStep
<1>8. /\ UNCHANGED <<worker, source, conn, accepted, gaveUp>>
      /\ conn' \in [Runs -> SUBSET Connection] /\ accepted' \in [Runs -> [Keys -> Int]]
  BY <1>2 DEF workerVars, history, SystemInv, SystemTypeOK, WorkerTypeOK
<1> QED BY <1>1, <1>7, <1>8, RunFrame

--------------------------------------------------------------------------------
(* Pipelines and crashes.                                                     *)

LEMMA PipelineKeeps ==
  ASSUME SystemInv, TypeOK', NEW p \in Pipelines, CreatePipeline(p) \/ DeletePipeline(p),
         UNCHANGED <<workerVars, source, history>>
  PROVE  SystemInv'
<1>1. SystemTypeOK /\ QueueFits /\ \A s \in Runs : CallInv(s)
  BY DEF SystemInv
<1>2. UNCHANGED <<target, pc, out, job, executed>>
  BY DEF CreatePipeline, DeletePipeline, InsertPipeline, RemovePipeline, control
<1>3. ASSUME NEW s \in Runs
      PROVE  runStatus'[s] \in {runStatus[s], "absent"}
  <2>1. CASE CreatePipeline(p)
    BY <2>1, CreatePipelineEffect
  <2>2. CASE DeletePipeline(p)
    BY <2>2, DeletePipelineEffect
  <2> QED BY <2>1, <2>2
<1>4. SystemTypeOK' /\ QueueFits'
  BY <1>1 DEF workerVars, worker, history, SystemTypeOK, WorkerTypeOK, QueueFits
<1>5. ASSUME NEW s \in Runs
      PROVE  CallInv(s)'
  <2>1. SameCaller(s)
    BY <1>2, <1>3 DEF SameCaller, history
  <2>2. SameWorker(s)
    BY DEF SameWorker, workerVars, worker, Waiting, Served
  <2> QED BY <1>1, <2>1, <2>2, FrameKeeps
<1> QED BY <1>4, <1>5 DEF SystemInv

\* Requests outlive the orchestrator, which is lost while they are in the worker.
LEMMA CrashKeepsSystem ==
  ASSUME SystemInv, TypeOK', OrchestratorCrash
  PROVE  SystemInv'
<1>1. SystemTypeOK /\ QueueFits /\ \A s \in Runs : CallInv(s)
  BY DEF SystemInv
<1>2. /\ UNCHANGED <<tables, job, executed, worker, source, history>>
      /\ conn' = [r \in Runs |-> {}] /\ out' = [r \in Runs |-> <<>>]
      /\ pc' = [r \in Runs |-> IF UnderWay(r) THEN "lost" ELSE pc[r]]
  BY DEF OrchestratorCrash, Crash
<1>3. SystemTypeOK' /\ QueueFits'
  BY <1>1, <1>2 DEF worker, history, SystemTypeOK, WorkerTypeOK, QueueFits
<1>4. ASSUME NEW r \in Runs
      PROVE  CallInv(r)'
  <2>0. CallInv(r)
    BY <1>1
  <2>1. /\ UNCHANGED <<target, runStatus, job, executed, source, accepted, gaveUp>>
        /\ UNCHANGED <<performed, artifacts, wiped, refused, phase>>
        /\ Waiting(r)' = Waiting(r) /\ Served(r)' = Served(r) /\ RequestsOf(r)' = RequestsOf(r)
        /\ conn'[r] = {}
    BY <1>2 DEF tables, worker, history, Waiting, Served, RequestsOf
  <2>2. /\ pc'[r] = "lost" \/ pc'[r] = pc[r]
        /\ pc[r] \in Calling => pc'[r] = "lost" \/ (pc'[r] = pc[r] /\ pc[r] = "failing")
        /\ pc'[r] \notin {"attempt", "execute", "complete"}
        /\ pc[r] \in {"execute", "lost"} => pc'[r] = "lost"
    BY <1>2 DEF UnderWay, EndPcs, Calling
  <2>3. CallsFit(r)'
    BY <2>0, <2>1, <2>2 DEF CallInv, CallsFit, Before, Executing
  <2>4. RequestsFit(r)'
    BY <2>0, <2>1, <2>2 DEF CallInv, RequestsFit, Calling
  <2>5. ConnFits(r)'
    BY <2>1 DEF ConnFits
  <2>6. WorkFits(r)'
    BY <2>0, <2>1, <2>2 DEF CallInv, WorkFits, Calling
  <2>7. RefusalFits(r)'
    BY <2>0, <2>1, <2>2 DEF CallInv, RefusalFits, Before
  <2> QED BY <2>3, <2>4, <2>5, <2>6, <2>7 DEF CallInv
<1> QED BY <1>3, <1>4 DEF SystemInv

--------------------------------------------------------------------------------
(* SystemInv is inductive.                                                    *)

LEMMA SystemInvInit ==
  ASSUME SystemInit
  PROVE  SystemInv
<1>1. TypeOK
  BY InvInit DEF SystemInit, Inv
<1>2. /\ backlog = <<>> /\ serving = <<>> /\ DOMAIN backlog = {} /\ DOMAIN serving = {}
      /\ backlog \in Seq(Request) /\ serving \in Seq(Request)
      /\ Len(backlog) = 0 /\ Len(serving) = 0 /\ Backlog \in Nat /\ MaxRestarts \in Nat
  BY WorkerBoundsAssumption DEF SystemInit, WorkerInit
<1>3. NoArtifact \in Artifact
  BY DEF NoArtifact, Artifact
<1>4. WorkerTypeOK
  BY <1>2, <1>3 DEF SystemInit, WorkerInit, WorkerTypeOK
<1>5. SystemTypeOK
  BY <1>1, <1>4 DEF SystemInit, SystemTypeOK, NoAttempt
<1>6. QueueFits
  BY <1>2 DEF QueueFits
<1>7. ASSUME NEW r \in Runs
      PROVE  CallInv(r)
  <2>1. /\ pc[r] = "idle" /\ job[r] = NoJob /\ executed[r] = {} /\ conn[r] = {}
        /\ \A k \in Keys : ~ (performed[r][k] > 0)
        /\ refused = {} /\ Waiting(r) = {} /\ Served(r) = {} /\ RequestsOf(r) = {}
    BY <1>2 DEF SystemInit, WorkerInit, Init, Waiting, Served, RequestsOf
  <2>2. CallsFit(r)
    BY <2>1 DEF CallsFit, NoJob, Executing
  <2>3. RequestsFit(r) /\ ConnFits(r) /\ WorkFits(r) /\ RefusalFits(r)
    BY <2>1 DEF RequestsFit, ConnFits, WorkFits, RefusalFits
  <2> QED BY <2>2, <2>3 DEF CallInv
<1> QED BY <1>5, <1>6, <1>7 DEF SystemInv

LEMMA SystemInvStep ==
  ASSUME Inv, ProgressInv, SystemInv, RetriesEnd, [SystemNext]_systemVars
  PROVE  SystemInv'
<1>1. TypeOK'
  BY StepsAreSchedulerSteps, InvStep DEF Inv
<1>2. CASE UNCHANGED systemVars
  <2>1. \A r : SameCaller(r)
    BY <1>2, WorkerIsElsewhere DEF systemVars
  <2>2. \A r : SameWorker(r)
    BY <1>2 DEF systemVars, workerVars, worker, SameWorker, Waiting, Served
  <2>3. SystemTypeOK' /\ QueueFits'
    BY <1>1, <1>2 DEF systemVars, workerVars, worker, history, SystemInv, SystemTypeOK,
                      WorkerTypeOK, QueueFits
  <2> QED BY <2>1, <2>2, <2>3, FrameKeeps DEF SystemInv
<1>3. ASSUME NEW p \in Pipelines, CreatePipeline(p) \/ DeletePipeline(p),
             UNCHANGED <<workerVars, source, history>>
      PROVE  SystemInv'
  BY <1>1, <1>3, PipelineKeeps
<1>4. ASSUME NEW r \in Runs, FindPipeline(r), UNCHANGED <<workerVars, source, history>>
      PROVE  SystemInv'
  BY <1>1, <1>4, OwnStepKeeps
<1>5. ASSUME NEW r \in Runs, SystemRunStep(r)
      PROVE  SystemInv'
  BY <1>1, <1>5, OwnStepKeeps, CallWorkerKeeps, CallSucceedsKeeps, CallFailsKeeps
     DEF SystemRunStep
<1>6. CASE OrchestratorCrash
  BY <1>1, <1>6, CrashKeepsSystem
<1>7. CASE WorkerStep /\ UNCHANGED <<vars, source, history>>
  BY <1>1, <1>7, WorkerKeeps
<1> QED BY <1>2, <1>3, <1>4, <1>5, <1>6, <1>7 DEF SystemNext

(* Whatever the worker does, the orchestrator only takes the steps of         *)
(* Scheduler: the safety part of ImplementsScheduler, and with it everything  *)
(* that has been proved of the steps of Scheduler.                            *)
THEOREM SystemTakesSchedulerSteps == SystemSpec => Init /\ [][Next]_vars
<1>1. SystemInit => Init
  BY DEF SystemInit
<1>2. [SystemNext]_systemVars => [Next]_vars
  BY StepsAreSchedulerSteps
<1> QED BY <1>1, <1>2, PTL DEF SystemSpec

(* Requests, connections and artifacts agree with the runs, as long as no     *)
(* retry_count reaches the largest int.                                       *)
THEOREM SystemConsistency == ASSUME RetriesEnd PROVE SystemSpec => [](Inv /\ SystemInv)
<1>1. Init => Inv /\ ProgressInv
  BY InvInit, ProgressInit
<1>2. Inv /\ ProgressInv /\ [Next]_vars => Inv' /\ ProgressInv'
  BY InvStep, ProgressStep, RetriesEndWithinInt
<1>3. Inv /\ ProgressInv /\ SystemInv /\ [SystemNext]_systemVars => SystemInv'
  BY SystemInvStep
<1>4. SystemInit => SystemInv
  BY SystemInvInit
<1> QED BY <1>1, <1>2, <1>3, <1>4, SystemTakesSchedulerSteps, PTL DEF SystemSpec

(* The variables of the orchestrator and of the worker have their types.      *)
THEOREM SystemTypes == ASSUME RetriesEnd PROVE SystemSpec => []SystemTypeOK
<1>1. SystemInv => SystemTypeOK
  BY DEF SystemInv
<1> QED BY <1>1, SystemConsistency, PTL

(* The worker only does the work of a step whose dependencies it has done,    *)
(* and nothing in its socket can repeat theirs: neither timeouts nor retries, *)
(* restarts or a crash of the orchestrator break the order of effects.        *)
THEOREM EffectsAreOrdered == ASSUME RetriesEnd PROVE SystemSpec => []EffectsFollowGraph
<1>1. ASSUME SystemInv
      PROVE  EffectsFollowGraph
  <2> SUFFICES ASSUME NEW r \in Runs, NEW k \in Keys, InWorker(r, k) \/ performed[r][k] > 0,
                      NEW d \in DependsOn(job[r].plan, k)
               PROVE  performed[r][d] > 0 /\ ~ InWorker(r, d)
    BY DEF EffectsFollowGraph
  <2>1. CallInv(r) /\ performed[r] \in [Keys -> Nat] /\ d \in Keys
    BY <1>1 DEF SystemInv, SystemTypeOK, WorkerTypeOK, DependsOn
  <2>2. \A l : InWorker(r, l) =>
          /\ l = job[r].step /\ l \notin executed[r]
          /\ DependsOn(job[r].plan, l) \subseteq executed[r]
    BY <2>1, InWorkerRequests, RequestFacts
  <2>3. d \in executed[r]
    BY <2>1, <2>2 DEF CallInv, WorkFits
  <2>4. performed[r][d] \in 1 .. accepted[r][d] + 1
    BY <2>1, <2>3 DEF CallInv, WorkFits
  <2> QED BY <2>1, <2>2, <2>3, <2>4
<1> QED BY <1>1, SystemConsistency, PTL

(* A late answer to an attempt that was given up never replaces the artifact  *)
(* of the accepted attempt.                                                   *)
THEOREM ArtifactsStand == ASSUME RetriesEnd PROVE SystemSpec => []AcceptedResultStands
<1>1. SystemInv => AcceptedResultStands
  BY DEF SystemInv, CallInv, WorkFits, AcceptedResultStands
<1> QED BY <1>1, SystemConsistency, PTL

(* A step never lacks its input because of a retry, a timeout or another run. *)
THEOREM InputsAreThere == ASSUME RetriesEnd PROVE SystemSpec => []RefusalIsExplained
<1>1. ASSUME SystemInv
      PROVE  RefusalIsExplained
  <2> SUFFICES ASSUME NEW r \in Runs, NEW k \in Keys, <<r, k>> \in refused
               PROVE  LET input == source[target[r]][k] IN
                      \/ input \notin Upstream(job[r].plan, k)
                      \/ <<r, input>> \in wiped
                      \/ artifacts[r][input] # NoArtifact /\ artifacts[r][input].none
    BY DEF RefusalIsExplained
  <2> DEFINE input == source[target[r]][k]
  <2>1. CallInv(r)
    BY <1>1 DEF SystemInv
  <2>2. \/ input \notin Upstream(job[r].plan, k)
        \/ <<r, input>> \in wiped
        \/ input \in executed[r] /\ artifacts[r][input].none
    BY <2>1 DEF CallInv, RefusalFits
  <2>3. ASSUME input \in executed[r], <<r, input>> \notin wiped
        PROVE  artifacts[r][input] # NoArtifact
    <3>1. artifacts[r][input].attempt = accepted[r][input] /\ accepted[r][input] >= 0
      BY <2>1, <2>3 DEF CallInv, WorkFits
    <3>2. NoArtifact.attempt = -1
      BY DEF NoArtifact
    <3> QED BY <3>1, <3>2
  <2> QED BY <2>2, <2>3
<1> QED BY <1>1, SystemConsistency, PTL

(* A step that has succeeded was done at least once and at most once for each *)
(* attempt up to the accepted one.                                            *)
THEOREM EffectsAreCounted == ASSUME RetriesEnd PROVE SystemSpec => []EffectsPerAttempt
<1>1. SystemInv => EffectsPerAttempt
  BY DEF SystemInv, CallInv, WorkFits, EffectsPerAttempt
<1> QED BY <1>1, SystemConsistency, PTL

(* A completed run leaves no request in the worker, and a failed run only one *)
(* that it gave up.                                                           *)
THEOREM CompletedRunsAreQuiet == ASSUME RetriesEnd PROVE SystemSpec => []QuietAfterwards
<1>1. ASSUME SystemInv
      PROVE  QuietAfterwards
  <2> SUFFICES ASSUME NEW r \in Runs, NEW k \in Keys, runStatus[r] \in Terminal, InWorker(r, k)
               PROVE  runStatus[r] = "failed" /\ r \in gaveUp
    BY DEF QuietAfterwards
  <2>1. PICK request \in RequestsOf(r) : request.step = k
    BY InWorkerRequests
  <2>2. RequestsFit(r)
    BY <1>1 DEF SystemInv, CallInv
  <2> QED BY <2>1, <2>2 DEF RequestsFit, Terminal
<1> QED BY <1>1, SystemConsistency, PTL
================================================================================

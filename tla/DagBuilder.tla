------------------------------ MODULE DagBuilder -------------------------------
(******************************************************************************)
(* dag.BuildFromCreateSteps and dag.BuildFromStoredSteps, which are the same  *)
(* algorithm on two row types: collect the nodes, collect the edges, look for *)
(* self dependencies, then sort topologically with Kahn's algorithm.  One     *)
(* behaviour of this module is one call on one list of steps.  Loops are one  *)
(* step per iteration, so that what holds between two iterations can be said. *)
(******************************************************************************)
EXTENDS Dag, FiniteSets, SequencesExt

CONSTANT Inputs         \* the lists of steps the builder is called with

ASSUME InputsAssumption == Inputs \subseteq Seq(Step)

VARIABLES
  steps,        \* the argument
  pc,           \* "nodes", "edges", "seed", "sort", "relax", "done"
  i, j,         \* loop indices: a step or a node, and a dependency or a dependent
  insertOrder,  \* Graph.insertOrder; the keys of Graph.nodes are its elements
  dependsOn,    \* Graph.dependsOn
  dependents,   \* Graph.dependents
  inDegree,     \* Node.InDegree
  selfDep,      \* Validate has found a self dependency
  inDeg, queue, order,  \* the locals of TopologicalSort
  verdict       \* "none" until the call returns, then "ok" or the error

vars == <<steps, pc, i, j, insertOrder, dependsOn, dependents, inDegree,
          selfDep, inDeg, queue, order, verdict>>

graph == <<insertOrder, dependsOn, dependents, inDegree>>
sorting == <<inDeg, queue, order>>

Verdicts == {"none", "ok", "missing_key", "duplicate_key", "unknown_key",
             "self_dependency", "cycle"}

TypeOK ==
  /\ steps \in Seq(Step)
  /\ pc \in {"nodes", "edges", "seed", "sort", "relax", "done"}
  /\ i \in Nat /\ j \in Nat
  /\ insertOrder \in Seq(Keys)
  /\ dependsOn \in [Keys -> Seq(Keys)]
  /\ dependents \in [Keys -> Seq(Keys)]
  /\ inDegree \in [Keys -> Nat]
  /\ selfDep \in BOOLEAN
  /\ inDeg \in [Keys -> Nat]
  /\ queue \in Seq(Keys) /\ order \in Seq(Keys)
  /\ verdict \in Verdicts

Nodes == ToSet(insertOrder)

Init ==
  /\ steps \in Inputs
  /\ pc = "nodes" /\ i = 1 /\ j = 1
  /\ insertOrder = <<>>
  /\ dependsOn = [k \in Keys |-> <<>>]
  /\ dependents = [k \in Keys |-> <<>>]
  /\ inDegree = [k \in Keys |-> 0]
  /\ selfDep = FALSE
  /\ inDeg = [k \in Keys |-> 0]
  /\ queue = <<>> /\ order = <<>>
  /\ verdict = "none"

Return(v) == pc' = "done" /\ verdict' = v

--------------------------------------------------------------------------------
(* Building the graph.                                                        *)

\* Mutant: the duplicate check of the node loop is forgotten.
AddNodeWithoutDuplicateCheck ==
  /\ pc = "nodes" /\ i <= Len(steps)
  /\ LET k == steps[i].key IN
     \/ k = EmptyKey /\ Return("missing_key") /\ UNCHANGED <<i, insertOrder>>
     \/ /\ k # EmptyKey
        /\ insertOrder' = IF k \in Nodes THEN insertOrder ELSE Append(insertOrder, k)
        /\ i' = i + 1
        /\ UNCHANGED <<pc, verdict>>
  /\ UNCHANGED <<steps, j, dependsOn, dependents, inDegree, selfDep, sorting>>

\* One iteration of the loop over the steps that calls Graph.AddNode.
AddNode ==
  /\ pc = "nodes" /\ i <= Len(steps)
  /\ LET k == steps[i].key IN
     \/ k = EmptyKey /\ Return("missing_key") /\ UNCHANGED <<i, insertOrder>>
     \/ k # EmptyKey /\ k \in Nodes /\ Return("duplicate_key")
                     /\ UNCHANGED <<i, insertOrder>>
     \/ /\ k # EmptyKey /\ k \notin Nodes
        /\ insertOrder' = Append(insertOrder, k)
        /\ i' = i + 1
        /\ UNCHANGED <<pc, verdict>>
  /\ UNCHANGED <<steps, j, dependsOn, dependents, inDegree, selfDep, sorting>>

NodesAdded ==
  /\ pc = "nodes" /\ i > Len(steps)
  /\ pc' = "edges" /\ i' = 1 /\ j' = 1
  /\ UNCHANGED <<steps, graph, selfDep, sorting, verdict>>

\* Mutant: a dependency that is listed twice is one edge for the sort but counts
\* twice in the in-degree.
AddEdgeOnce(k, d) ==
  /\ dependsOn' = [dependsOn EXCEPT ![k] = Append(@, d)]
  /\ dependents' = [dependents EXCEPT ![d] = IF k \in ToSet(@) THEN @ ELSE Append(@, k)]
  /\ inDegree' = [inDegree EXCEPT ![k] = @ + 1]

\* Mutant: the in-degree of the node is not counted.
AddEdgeUncounted(k, d) ==
  /\ dependsOn' = [dependsOn EXCEPT ![k] = Append(@, d)]
  /\ dependents' = [dependents EXCEPT ![d] = Append(@, k)]
  /\ UNCHANGED inDegree

\* Graph.AddDependency
AddEdge(k, d) ==
  /\ dependsOn' = [dependsOn EXCEPT ![k] = Append(@, d)]
  /\ dependents' = [dependents EXCEPT ![d] = Append(@, k)]
  /\ inDegree' = [inDegree EXCEPT ![k] = @ + 1]

\* One iteration of the nested loops over the dependencies of the steps.
AddDependency ==
  /\ pc = "edges" /\ i <= Len(steps) /\ j <= Len(steps[i].dependsOn)
  /\ LET d == steps[i].dependsOn[j] IN
     \/ /\ d \in Nodes
        /\ AddEdge(steps[i].key, d)
        /\ j' = j + 1
        /\ UNCHANGED <<pc, verdict>>
     \/ d \notin Nodes /\ Return("unknown_key")
                       /\ UNCHANGED <<j, dependsOn, dependents, inDegree>>
  /\ UNCHANGED <<steps, i, insertOrder, selfDep, sorting>>

NextStep ==
  /\ pc = "edges" /\ i <= Len(steps) /\ j > Len(steps[i].dependsOn)
  /\ i' = i + 1 /\ j' = 1
  /\ UNCHANGED <<steps, pc, graph, selfDep, sorting, verdict>>

--------------------------------------------------------------------------------
(* Validating it.                                                             *)

\* Validate up to the first loop of TopologicalSort.
StartSort ==
  /\ pc = "edges" /\ i > Len(steps)
  /\ selfDep' = (\E k \in Nodes : k \in ToSet(dependsOn[k]))
  /\ inDeg' = inDegree
  /\ pc' = "seed" /\ i' = 1
  /\ UNCHANGED <<steps, j, graph, queue, order, verdict>>

\* One iteration of the loop that queues the nodes without dependencies.
Seed ==
  /\ pc = "seed" /\ i <= Len(insertOrder)
  /\ queue' = IF inDeg[insertOrder[i]] = 0 THEN Append(queue, insertOrder[i]) ELSE queue
  /\ i' = i + 1
  /\ UNCHANGED <<steps, pc, j, graph, selfDep, inDeg, order, verdict>>

Seeded ==
  /\ pc = "seed" /\ i > Len(insertOrder)
  /\ pc' = "sort"
  /\ UNCHANGED <<steps, i, j, graph, selfDep, sorting, verdict>>

Dequeue ==
  /\ pc = "sort" /\ queue # <<>>
  /\ order' = Append(order, Head(queue))
  /\ queue' = Tail(queue)
  /\ pc' = "relax" /\ j' = 1
  /\ UNCHANGED <<steps, i, graph, selfDep, inDeg, verdict>>

\* Mutant: a dependent is queued as soon as one of its dependencies is sorted.
RelaxEagerly ==
  LET cur == Last(order)
      d   == dependents[cur][j]
  IN /\ pc = "relax" /\ j <= Len(dependents[cur])
     /\ inDeg' = [inDeg EXCEPT ![d] = @ - 1]
     /\ queue' = IF d \notin ToSet(queue) \cup ToSet(order) THEN Append(queue, d) ELSE queue
     /\ j' = j + 1
     /\ UNCHANGED <<steps, pc, i, graph, selfDep, order, verdict>>

\* One iteration of the loop over the dependents of the node just sorted.
Relax ==
  LET cur == Last(order)
      d   == dependents[cur][j]
  IN /\ pc = "relax" /\ j <= Len(dependents[cur])
     /\ inDeg' = [inDeg EXCEPT ![d] = @ - 1]
     /\ queue' = IF inDeg[d] = 1 THEN Append(queue, d) ELSE queue
     /\ j' = j + 1
     /\ UNCHANGED <<steps, pc, i, graph, selfDep, order, verdict>>

Relaxed ==
  /\ pc = "relax" /\ j > Len(dependents[Last(order)])
  /\ pc' = "sort"
  /\ UNCHANGED <<steps, i, j, graph, selfDep, sorting, verdict>>

\* Mutant: the sort goes on until every node is sorted.
FinishWhenAllSorted ==
  /\ pc = "sort" /\ queue = <<>> /\ Len(order) = Len(insertOrder)
  /\ Return(IF selfDep THEN "self_dependency" ELSE "ok")
  /\ UNCHANGED <<steps, i, j, graph, selfDep, sorting>>

\* The end of TopologicalSort, and the first of Validate's errors if any.
Finish ==
  /\ pc = "sort" /\ queue = <<>>
  /\ Return(IF selfDep THEN "self_dependency"
            ELSE IF Len(order) # Len(insertOrder) THEN "cycle" ELSE "ok")
  /\ UNCHANGED <<steps, i, j, graph, selfDep, sorting>>

Next == \/ AddNode \/ NodesAdded \/ AddDependency \/ NextStep
        \/ StartSort \/ Seed \/ Seeded \/ Dequeue \/ Relax \/ Relaxed \/ Finish

\* A call runs to its end on the caller's goroutine and waits for nothing.
Spec == Init /\ [][Next]_vars /\ WF_vars(Next)

--------------------------------------------------------------------------------
(* The verdict is the right one: the builder accepts exactly the definitions  *)
(* with non-empty unique keys, known dependencies and no cycle, whatever the  *)
(* order of the steps and however often a dependency is listed; and "cycle"   *)
(* and "self_dependency" are reported for what they name.                     *)
VerdictIsRight ==
  pc = "done" =>
    /\ verdict = "ok" <=> Accepts(steps)
    /\ verdict = "self_dependency" <=>
         /\ EmptyKey \notin KeysOf(steps) /\ UniqueKeys(steps) /\ KnownDependencies(steps)
         /\ \E k \in KeysOf(steps) : k \in DependsOn(steps, k)
    /\ verdict = "cycle" => /\ ~ Acyclic(steps)
                            /\ \A k \in KeysOf(steps) : k \notin DependsOn(steps, k)

(* The list TopologicalSort builds is, at every moment, free of repetitions   *)
(* and closed under dependencies: no node comes before one it depends on.     *)
OrderIsTopological ==
  \A x \in DOMAIN order :
    /\ DependsOn(steps, order[x]) \subseteq {order[y] : y \in 1 .. x - 1}
    /\ order[x] \notin {order[y] : y \in 1 .. x - 1}

(* The loop invariant of Kahn's algorithm: at the head of the outer loop the  *)
(* queue holds exactly the nodes that are not sorted and wait for no node that*)
(* is not sorted, each of them once.                                          *)
QueueIsTheFrontier ==
  pc = "sort" =>
    /\ ToSet(queue) = {k \in Nodes \ ToSet(order) : DependsOn(steps, k) \subseteq ToSet(order)}
    /\ \A x, y \in DOMAIN queue : queue[x] = queue[y] => x = y

(* Building a graph ends, on definitions with cycles too.                     *)
BuildReturns == <>(pc = "done")
================================================================================

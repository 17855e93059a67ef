---------------------------- MODULE DagBuilderProofs ----------------------------
(******************************************************************************)
(* The builder and its sort are right for every list of steps: BuilderInv is  *)
(* inductive.  It says what has been read of the definition at each point of  *)
(* the loops, and that the in-degrees of the sort count the edges whose       *)
(* source is not sorted, an edge as often as it is listed.                    *)
(******************************************************************************)
EXTENDS DagBuilder, SequenceTheorems, FiniteSetTheorems, TLAPS

--------------------------------------------------------------------------------
(* The inductive invariant.                                                   *)

Sorting == pc \in {"seed", "sort", "relax"}

\* The nodes are the keys of the steps read so far, and these are legal.
NodesFit ==
  /\ Len(insertOrder) <= Len(steps)
  /\ \A x \in DOMAIN insertOrder : insertOrder[x] = steps[x].key /\ insertOrder[x] # EmptyKey
  /\ \A x, y \in DOMAIN insertOrder : insertOrder[x] = insertOrder[y] => x = y
  /\ pc = "nodes" => i = Len(insertOrder) + 1
  /\ pc = "edges" \/ Sorting => Len(insertOrder) = Len(steps)

\* The y-th dependency of step x has been read.
Read(x, y) == Sorting \/ (pc = "edges" /\ (x < i \/ (x = i /\ y < j)))

ReadDependencies(k) ==
  {d \in Keys : \E x \in DOMAIN steps : \E y \in DOMAIN steps[x].dependsOn :
     Read(x, y) /\ steps[x].key = k /\ steps[x].dependsOn[y] = d}

\* The edges into k: its places in the lists of dependents.
Edges(k) ==
  UNION {{<<d, n>> : n \in {m \in DOMAIN dependents[d] : dependents[d][m] = k}} : d \in Keys}

\* The graph has the edges read so far, and counts them.
EdgesFit ==
  pc # "done" =>
    /\ \A k \in Keys :
         /\ ToSet(dependsOn[k]) = ReadDependencies(k)
         /\ {e[1] : e \in Edges(k)} = ReadDependencies(k)
         /\ IsFiniteSet(Edges(k)) /\ inDegree[k] = Cardinality(Edges(k))
         /\ ReadDependencies(k) \subseteq Nodes
    /\ pc = "edges" => i >= 1 /\ j >= 1

\* The edges whose target still waits for their source.
Open(k) ==
  {e \in Edges(k) : e[1] \in ToSet(order) => pc = "relax" /\ e[1] = Last(order) /\ e[2] >= j}

\* The locals of TopologicalSort.
SortFit ==
  /\ Sorting =>
       /\ selfDep <=> \E k \in KeysOf(steps) : k \in DependsOn(steps, k)
       /\ \A k \in Keys : inDeg[k] = Cardinality(Open(k))
  /\ pc \in {"nodes", "edges"} => queue = <<>>
  /\ pc \in {"nodes", "edges", "seed"} => order = <<>>
  /\ pc = "seed" =>
       /\ i >= 1
       /\ ToSet(queue) = {insertOrder[x] : x \in {y \in DOMAIN insertOrder :
                                                  y < i /\ inDeg[insertOrder[y]] = 0}}
  /\ pc \in {"sort", "relax"} => ToSet(queue) \cup ToSet(order) = {k \in Nodes : inDeg[k] = 0}
  /\ pc = "relax" => order # <<>> /\ j >= 1
  /\ \A x, y \in DOMAIN queue : queue[x] = queue[y] => x = y
  /\ ToSet(queue) \cap ToSet(order) = {}

\* What is sorted has no cycle.
OrderFit ==
  /\ ToSet(order) \subseteq Nodes
  /\ OrderIsTopological
  /\ \A S \in SUBSET ToSet(order) : S # {} => \E k \in S : DependsOn(steps, k) \cap S = {}

\* What the errors report.
VerdictFits ==
  /\ verdict = "none" <=> pc # "done"
  /\ verdict = "missing_key" => EmptyKey \in KeysOf(steps)
  /\ verdict = "duplicate_key" => ~ UniqueKeys(steps)
  /\ verdict \in {"unknown_key", "self_dependency", "cycle", "ok"} =>
       EmptyKey \notin KeysOf(steps) /\ UniqueKeys(steps)
  /\ verdict = "unknown_key" => ~ KnownDependencies(steps)
  /\ verdict \in {"self_dependency", "cycle", "ok"} => KnownDependencies(steps)
  /\ verdict = "self_dependency" => \E k \in KeysOf(steps) : k \in DependsOn(steps, k)
  /\ verdict = "cycle" =>
       ~ Acyclic(steps) /\ \A k \in KeysOf(steps) : k \notin DependsOn(steps, k)
  /\ verdict = "ok" => Acyclic(steps)

BuilderInv == TypeOK /\ NodesFit /\ EdgesFit /\ SortFit /\ OrderFit /\ VerdictFits

--------------------------------------------------------------------------------
(* Lists and edges.                                                           *)

Distinct(s) == \A x, y \in DOMAIN s : s[x] = s[y] => x = y

LEMMA ToSetAppend ==
  ASSUME NEW S, NEW s \in Seq(S), NEW e \in S
  PROVE  /\ ToSet(Append(s, e)) = ToSet(s) \cup {e}
         /\ Distinct(s) /\ e \notin ToSet(s) => Distinct(Append(s, e))
<1>1. /\ Len(s) \in Nat /\ DOMAIN s = 1 .. Len(s) /\ DOMAIN Append(s, e) = 1 .. Len(s) + 1
      /\ \A x \in 1 .. Len(s) : Append(s, e)[x] = s[x]
      /\ Append(s, e)[Len(s) + 1] = e
  OBVIOUS
<1>2. \A x \in DOMAIN Append(s, e) : x \in DOMAIN s \/ x = Len(s) + 1
  BY <1>1
<1>3. DOMAIN s \subseteq DOMAIN Append(s, e) /\ Len(s) + 1 \in DOMAIN Append(s, e)
  BY <1>1
<1> HIDE DEF ToSet
<1>4. ToSet(Append(s, e)) = ToSet(s) \cup {e}
  BY <1>1, <1>2, <1>3 DEF ToSet
<1>5. Distinct(s) /\ e \notin ToSet(s) => Distinct(Append(s, e))
  BY <1>1, <1>2 DEF ToSet, Distinct
<1> QED BY <1>4, <1>5

LEMMA ToSetTail ==
  ASSUME NEW S, NEW s \in Seq(S), s # <<>>
  PROVE  /\ ToSet(s) = ToSet(Tail(s)) \cup {Head(s)}
         /\ Distinct(s) => Distinct(Tail(s)) /\ Head(s) \notin ToSet(Tail(s))
<1>1. /\ Tail(s) \in Seq(S) /\ Len(s) \in Nat \ {0} /\ DOMAIN s = 1 .. Len(s)
      /\ DOMAIN Tail(s) = 1 .. Len(s) - 1 /\ \A x \in 1 .. Len(s) - 1 : Tail(s)[x] = s[x + 1]
      /\ Head(s) = s[1]
  OBVIOUS
<1>2. \A x \in DOMAIN s : x = 1 \/ (x - 1 \in DOMAIN Tail(s) /\ Tail(s)[x - 1] = s[x])
  BY <1>1
<1>3. ToSet(s) = ToSet(Tail(s)) \cup {Head(s)}
  <2>1. \A x \in DOMAIN s : s[x] \in ToSet(Tail(s)) \cup {Head(s)}
    BY <1>1, <1>2 DEF ToSet
  <2>2. \A x \in DOMAIN Tail(s) : Tail(s)[x] \in ToSet(s)
    BY <1>1 DEF ToSet
  <2> QED BY <1>1, <2>1, <2>2 DEF ToSet
<1>4. Distinct(s) => Distinct(Tail(s)) /\ Head(s) \notin ToSet(Tail(s))
  BY <1>1 DEF ToSet, Distinct
<1> QED BY <1>3, <1>4

LEMMA StepFacts ==
  ASSUME TypeOK
  PROVE  /\ Len(steps) \in Nat /\ DOMAIN steps = 1 .. Len(steps)
         /\ Len(insertOrder) \in Nat /\ DOMAIN insertOrder = 1 .. Len(insertOrder)
         /\ \A x \in DOMAIN steps :
              /\ x \in Nat /\ steps[x].key \in Keys
              /\ Len(steps[x].dependsOn) \in Nat
              /\ DOMAIN steps[x].dependsOn = 1 .. Len(steps[x].dependsOn)
              /\ \A y \in DOMAIN steps[x].dependsOn :
                   y \in Nat \ {0} /\ y <= Len(steps[x].dependsOn) /\ steps[x].dependsOn[y] \in Keys
<1>1. steps \in Seq(Step) /\ insertOrder \in Seq(Keys)
  BY DEF TypeOK
<1>2. \A x \in DOMAIN steps : steps[x] \in Step
  BY <1>1
<1>3. \A x \in DOMAIN steps : steps[x].key \in Keys /\ steps[x].dependsOn \in Seq(Keys)
  BY <1>2 DEF Step
<1>4. \A s \in Seq(Keys) : Len(s) \in Nat /\ DOMAIN s = 1 .. Len(s) /\ \A y \in 1 .. Len(s) : s[y] \in Keys
  OBVIOUS
<1>5. \A n \in Nat : \A y \in 1 .. n : y \in Nat \ {0} /\ y <= n
  OBVIOUS
<1>6. Len(steps) \in Nat /\ DOMAIN steps = 1 .. Len(steps)
  BY <1>1
<1> QED BY <1>1, <1>3, <1>4, <1>5, <1>6

LEMMA EdgeElements ==
  ASSUME NEW k
  PROVE  \A e : e \in Edges(k) <=>
           \E d \in Keys : \E n \in DOMAIN dependents[d] : e = <<d, n>> /\ dependents[d][n] = k
BY DEF Edges

LEMMA SortReadsAll ==
  ASSUME Sorting, NEW k
  PROVE  ReadDependencies(k) = DependsOn(steps, k)
BY DEF ReadDependencies, Read, DependsOn

LEMMA NodesAreKeys ==
  ASSUME TypeOK, NodesFit, pc = "edges" \/ Sorting
  PROVE  /\ Nodes = KeysOf(steps) /\ EmptyKey \notin KeysOf(steps) /\ UniqueKeys(steps)
<1>1. DOMAIN insertOrder = DOMAIN steps /\ \A x \in DOMAIN steps : insertOrder[x] = steps[x].key
  BY DEF TypeOK, NodesFit
<1>2. Nodes = KeysOf(steps)
  BY <1>1 DEF Nodes, ToSet, KeysOf
<1>3. EmptyKey \notin KeysOf(steps)
  BY <1>1 DEF NodesFit, KeysOf
<1>4. UniqueKeys(steps)
  BY <1>1 DEF NodesFit, UniqueKeys
<1> QED BY <1>2, <1>3, <1>4

\* What the invariant says of the graph and of the order depends on no more than this.
LEMMA SameEdges ==
  ASSUME UNCHANGED dependents, NEW k
  PROVE  Edges(k)' = Edges(k)
BY DEF Edges

LEMMA SameOrder ==
  ASSUME OrderFit, UNCHANGED <<steps, order>>, Nodes \subseteq Nodes'
  PROVE  OrderFit'
BY DEF OrderFit, OrderIsTopological, DependsOn

--------------------------------------------------------------------------------
(* Building the graph.                                                        *)

LEMMA InitHolds == Init => BuilderInv
<1> SUFFICES ASSUME Init PROVE BuilderInv
  OBVIOUS
<1>1. TypeOK
  <2>1. steps \in Seq(Step)
    BY InputsAssumption DEF Init
  <2>2. <<>> \in Seq(Keys)
    OBVIOUS
  <2> QED BY <2>1, <2>2 DEF Init, TypeOK, Verdicts
<1>2. NodesFit
  BY <1>1 DEF Init, NodesFit, Sorting, TypeOK
<1>3. EdgesFit
  <2> SUFFICES ASSUME NEW k \in Keys
               PROVE  /\ ToSet(dependsOn[k]) = ReadDependencies(k)
                      /\ {e[1] : e \in Edges(k)} = ReadDependencies(k)
                      /\ IsFiniteSet(Edges(k)) /\ inDegree[k] = Cardinality(Edges(k))
                      /\ ReadDependencies(k) \subseteq Nodes
    BY DEF EdgesFit, Init
  <2>1. ReadDependencies(k) = {}
    BY DEF ReadDependencies, Read, Init, Sorting
  <2>2. Edges(k) = {}
    BY EdgeElements DEF Init
  <2>3. ToSet(dependsOn[k]) = {} /\ inDegree[k] = 0
    BY DEF ToSet, Init
  <2> QED BY <2>1, <2>2, <2>3, FS_EmptySet
<1>4. SortFit
  BY <1>1 DEF Init, SortFit, Sorting, ToSet
<1>5. OrderFit
  BY DEF Init, OrderFit, OrderIsTopological, ToSet
<1>6. VerdictFits
  BY DEF Init, VerdictFits
<1> QED BY <1>1, <1>2, <1>3, <1>4, <1>5, <1>6 DEF BuilderInv

LEMMA AddNodeKeeps ==
  ASSUME BuilderInv, AddNode
  PROVE  BuilderInv'
<1> DEFINE k == steps[i].key
<1>1. TypeOK /\ NodesFit /\ EdgesFit /\ SortFit /\ OrderFit /\ VerdictFits
  BY DEF BuilderInv
<1>2. /\ pc = "nodes" /\ i \in DOMAIN steps /\ i = Len(insertOrder) + 1 /\ k \in Keys
      /\ UNCHANGED <<steps, j, dependsOn, dependents, inDegree, selfDep, sorting>>
  <2>1. /\ pc = "nodes" /\ i <= Len(steps) /\ i = Len(insertOrder) + 1
        /\ UNCHANGED <<steps, j, dependsOn, dependents, inDegree, selfDep, sorting>>
    BY <1>1 DEF AddNode, NodesFit
  <2>2. i \in DOMAIN steps
    BY <1>1, <2>1, StepFacts
  <2> QED BY <1>1, <2>1, <2>2, StepFacts
<1> HIDE DEF k
<1>3. CASE k = EmptyKey
  <2>1. pc' = "done" /\ verdict' = "missing_key" /\ UNCHANGED <<i, insertOrder>>
    BY <1>3 DEF AddNode, Return, k
  <2>2. EmptyKey \in KeysOf(steps)
    BY <1>2, <1>3 DEF KeysOf, k
  <2>3. TypeOK'
    BY <1>1, <1>2, <2>1 DEF TypeOK, Verdicts, sorting
  <2>4. NodesFit' /\ EdgesFit' /\ VerdictFits'
    BY <1>1, <1>2, <2>1, <2>2 DEF NodesFit, EdgesFit, VerdictFits, Sorting
  <2>5. SortFit'
    BY <1>1, <1>2, <2>1 DEF SortFit, Sorting, sorting
  <2>6. OrderFit'
    BY <1>1, <1>2, <2>1, SameOrder DEF Nodes, sorting
  <2> QED BY <2>3, <2>4, <2>5, <2>6 DEF BuilderInv
<1>4. CASE k # EmptyKey /\ k \in Nodes
  <2>1. pc' = "done" /\ verdict' = "duplicate_key" /\ UNCHANGED <<i, insertOrder>>
    BY <1>4 DEF AddNode, Return, k
  <2>2. ~ UniqueKeys(steps)
    <3>1. PICK x \in DOMAIN insertOrder : insertOrder[x] = k
      BY <1>4 DEF Nodes, ToSet
    <3>2. x \in DOMAIN steps /\ x # i
      <4>1. Len(insertOrder) <= Len(steps)
        BY <1>1 DEF NodesFit
      <4>2. x \in 1 .. Len(insertOrder) /\ Len(insertOrder) \in Nat /\ Len(steps) \in Nat
        BY <1>1, <3>1, StepFacts
      <4>3. x \in 1 .. Len(steps) /\ x # Len(insertOrder) + 1
        BY <4>1, <4>2
      <4> QED BY <1>1, <1>2, <4>3, StepFacts
    <3>3. steps[x].key = k
      BY <1>1, <3>1 DEF NodesFit
    <3> QED BY <1>2, <3>2, <3>3 DEF UniqueKeys, k
  <2>3. TypeOK'
    BY <1>1, <1>2, <2>1 DEF TypeOK, Verdicts, sorting
  <2>4. NodesFit' /\ EdgesFit' /\ VerdictFits'
    BY <1>1, <1>2, <2>1, <2>2 DEF NodesFit, EdgesFit, VerdictFits, Sorting
  <2>5. SortFit'
    BY <1>1, <1>2, <2>1 DEF SortFit, Sorting, sorting
  <2>6. OrderFit'
    BY <1>1, <1>2, <2>1, SameOrder DEF Nodes, sorting
  <2> QED BY <2>3, <2>4, <2>5, <2>6 DEF BuilderInv
<1>5. CASE k # EmptyKey /\ k \notin Nodes
  <2>1. insertOrder' = Append(insertOrder, k) /\ i' = i + 1 /\ UNCHANGED <<pc, verdict>>
    BY <1>5 DEF AddNode, Return, k
  <2>2. TypeOK'
    <3>1. insertOrder' \in Seq(Keys) /\ i' \in Nat
      BY <1>1, <1>2, <2>1 DEF TypeOK
    <3> QED BY <1>1, <1>2, <2>1, <3>1 DEF TypeOK, sorting
  <2>3. /\ DOMAIN insertOrder' = 1 .. Len(insertOrder) + 1 /\ Len(insertOrder') = Len(insertOrder) + 1
        /\ \A x \in 1 .. Len(insertOrder) : insertOrder'[x] = insertOrder[x]
        /\ insertOrder'[Len(insertOrder) + 1] = k
    BY <1>1, <1>2, <2>1 DEF TypeOK
  <2>4. NodesFit'
    <3>1. Distinct(insertOrder) /\ insertOrder \in Seq(Keys)
      BY <1>1 DEF NodesFit, Distinct, TypeOK
    <3>2. Distinct(Append(insertOrder, k))
      BY <1>2, <1>5, <3>1, ToSetAppend DEF Nodes
    <3>3. k = steps[i].key
      BY DEF k
    <3>4. \A x \in DOMAIN insertOrder' : insertOrder'[x] = steps[x].key /\ insertOrder'[x] # EmptyKey
      <4> SUFFICES ASSUME NEW x \in DOMAIN insertOrder'
                   PROVE  insertOrder'[x] = steps[x].key /\ insertOrder'[x] # EmptyKey
        OBVIOUS
      <4>1. CASE x \in 1 .. Len(insertOrder)
        BY <1>1, <2>3, <4>1, StepFacts DEF NodesFit
      <4>2. CASE x = Len(insertOrder) + 1
        BY <1>2, <1>5, <2>3, <3>3, <4>2
      <4> QED BY <1>1, <2>3, <4>1, <4>2, StepFacts
    <3>5. Len(insertOrder') <= Len(steps)
      BY <1>1, <1>2, <2>3, StepFacts
    <3>6. /\ i' = Len(insertOrder') + 1 /\ steps' = steps
          /\ \A x, y \in DOMAIN insertOrder' : insertOrder'[x] = insertOrder'[y] => x = y
      BY <1>2, <2>1, <2>3, <3>2 DEF Distinct
    <3> QED BY <1>2, <2>1, <3>4, <3>5, <3>6 DEF NodesFit, Sorting
  <2>5. Nodes \subseteq Nodes'
    BY <1>1, <1>2, <2>1, ToSetAppend DEF TypeOK, Nodes
  <2>6. EdgesFit'
    <3>1. \A l \in Keys : ReadDependencies(l)' = {} /\ ReadDependencies(l) = {}
      BY <1>2, <2>1 DEF ReadDependencies, Read, Sorting
    <3> QED BY <1>1, <1>2, <2>1, <3>1, SameEdges DEF EdgesFit
  <2>7. SortFit' /\ VerdictFits'
    BY <1>1, <1>2, <2>1 DEF SortFit, Sorting, VerdictFits, sorting
  <2>8. OrderFit'
    BY <1>1, <1>2, <2>5, SameOrder DEF sorting
  <2> QED BY <2>2, <2>4, <2>6, <2>7, <2>8 DEF BuilderInv
<1> QED BY <1>3, <1>4, <1>5

LEMMA NodesAddedKeeps ==
  ASSUME BuilderInv, NodesAdded
  PROVE  BuilderInv'
<1>1. TypeOK /\ NodesFit /\ EdgesFit /\ SortFit /\ OrderFit /\ VerdictFits
  BY DEF BuilderInv
<1>2. /\ pc = "nodes" /\ i > Len(steps) /\ pc' = "edges" /\ i' = 1 /\ j' = 1
      /\ UNCHANGED <<steps, insertOrder, dependsOn, dependents, inDegree, selfDep, sorting, verdict>>
  BY DEF NodesAdded, graph
<1>3. TypeOK'
  BY <1>1, <1>2 DEF TypeOK, sorting
<1>4. NodesFit'
  BY <1>1, <1>2 DEF NodesFit, TypeOK, Sorting
<1>5. EdgesFit'
  <2>1. \A l \in Keys : ReadDependencies(l)' = {} /\ ReadDependencies(l) = {}
    <3>1. \A x \in DOMAIN steps : ~ (x < 1) /\ \A y \in DOMAIN steps[x].dependsOn : ~ (y < 1)
      BY <1>1, StepFacts
    <3> QED BY <1>2, <3>1 DEF ReadDependencies, Read, Sorting
  <2> QED BY <1>1, <1>2, <2>1, SameEdges DEF EdgesFit
<1>6. SortFit' /\ VerdictFits'
  BY <1>1, <1>2 DEF SortFit, Sorting, VerdictFits, sorting
<1>7. OrderFit'
  BY <1>1, <1>2, SameOrder DEF sorting, Nodes
<1> QED BY <1>3, <1>4, <1>5, <1>6, <1>7 DEF BuilderInv

LEMMA AddEdgeKeeps ==
  ASSUME BuilderInv, pc = "edges", i \in DOMAIN steps, j \in DOMAIN steps[i].dependsOn,
         NEW k, k = steps[i].key, NEW d, d = steps[i].dependsOn[j], d \in Nodes,
         AddEdge(k, d), i' = i, j' = j + 1,
         UNCHANGED <<steps, pc, insertOrder, selfDep, sorting, verdict>>
  PROVE  EdgesFit' /\ TypeOK'
<1>1. TypeOK /\ EdgesFit /\ k \in Keys /\ d \in Keys
  BY StepFacts DEF BuilderInv
<1>2. /\ dependsOn' = [dependsOn EXCEPT ![k] = Append(@, d)]
      /\ dependents' = [dependents EXCEPT ![d] = Append(@, k)]
      /\ inDegree' = [inDegree EXCEPT ![k] = @ + 1]
  BY DEF AddEdge
<1>3. TypeOK'
  <2>1. /\ dependsOn \in [Keys -> Seq(Keys)] /\ dependents \in [Keys -> Seq(Keys)]
        /\ inDegree \in [Keys -> Nat] /\ j \in Nat
    BY <1>1 DEF TypeOK
  <2>2. /\ dependsOn[k] \in Seq(Keys) /\ dependents[d] \in Seq(Keys) /\ inDegree[k] \in Nat
    BY <1>1, <2>1
  <2>3. Append(dependsOn[k], d) \in Seq(Keys) /\ Append(dependents[d], k) \in Seq(Keys)
    BY <1>1, <2>2
  <2>4. dependsOn' \in [Keys -> Seq(Keys)]
    BY <1>2, <2>1, <2>3
  <2>5. dependents' \in [Keys -> Seq(Keys)]
    BY <1>2, <2>1, <2>3
  <2>6. inDegree' \in [Keys -> Nat] /\ j' \in Nat
    <3>1. inDegree[k] + 1 \in Nat /\ j + 1 \in Nat
      BY <2>1, <2>2
    <3> QED BY <1>2, <2>1, <3>1
  <2> QED BY <1>1, <2>4, <2>5, <2>6 DEF TypeOK, sorting
<1> DEFINE n == Len(dependents[d]) + 1
<1>4. /\ dependents[d] \in Seq(Keys) /\ n \in Nat \ {0} /\ DOMAIN dependents[d] = 1 .. n - 1
      /\ DOMAIN dependents'[d] = 1 .. n /\ dependents'[d][n] = k
      /\ \A m \in 1 .. n - 1 : dependents'[d][m] = dependents[d][m]
      /\ \A c \in Keys : c # d => dependents'[c] = dependents[c]
  <2>1. dependents \in [Keys -> Seq(Keys)] /\ dependents[d] \in Seq(Keys)
    BY <1>1 DEF TypeOK
  <2>2. dependents'[d] = Append(dependents[d], k) /\ \A c \in Keys : c # d => dependents'[c] = dependents[c]
    BY <1>1, <1>2, <2>1
  <2>3. \A s \in Seq(Keys) :
          /\ Len(s) \in Nat /\ DOMAIN s = 1 .. Len(s)
          /\ DOMAIN Append(s, k) = 1 .. Len(s) + 1 /\ Append(s, k)[Len(s) + 1] = k
          /\ \A m \in 1 .. Len(s) : Append(s, k)[m] = s[m]
    BY <1>1
  <2>4. Len(dependents[d]) \in Nat => n - 1 = Len(dependents[d]) /\ n \in Nat \ {0}
    OBVIOUS
  <2> QED BY <2>1, <2>2, <2>3, <2>4
<1> HIDE DEF n
<1>5. \A l \in Keys : Edges(l)' = IF l = k THEN Edges(k) \cup {<<d, n>>} ELSE Edges(l)
  <2> SUFFICES ASSUME NEW l \in Keys
               PROVE  Edges(l)' = IF l = k THEN Edges(k) \cup {<<d, n>>} ELSE Edges(l)
    OBVIOUS
  <2>1. \A e : e \in Edges(l)' <=>
           \E c \in Keys : \E m \in DOMAIN dependents'[c] : e = <<c, m>> /\ dependents'[c][m] = l
    BY DEF Edges
  <2>2. \A c \in Keys : \A m :
          m \in DOMAIN dependents'[c] /\ dependents'[c][m] = l <=>
            \/ m \in DOMAIN dependents[c] /\ dependents[c][m] = l
            \/ c = d /\ m = n /\ l = k
    <3> SUFFICES ASSUME NEW c \in Keys, NEW m
                 PROVE  m \in DOMAIN dependents'[c] /\ dependents'[c][m] = l <=>
                          \/ m \in DOMAIN dependents[c] /\ dependents[c][m] = l
                          \/ c = d /\ m = n /\ l = k
      OBVIOUS
    <3>1. CASE c # d
      BY <1>4, <3>1
    <3>2. CASE c = d
      <4>3. m \in 1 .. n <=> m \in 1 .. n - 1 \/ m = n
        BY <1>4
      <4>2. ~ (n \in 1 .. n - 1)
        BY <1>4
      <4> QED BY <1>4, <3>2, <4>2, <4>3
    <3> QED BY <3>1, <3>2
  <2>3. \A e : e \in Edges(l)' <=> e \in Edges(l) \/ (l = k /\ e = <<d, n>>)
    BY <1>1, <2>1, <2>2, EdgeElements
  <2>4. CASE l = k
    BY <2>3, <2>4
  <2>5. CASE l # k
    BY <2>3, <2>5
  <2> QED BY <2>4, <2>5
<1>6. <<d, n>> \notin Edges(k)
  BY <1>1, <1>4, EdgeElements
<1>7. \A l \in Keys : ReadDependencies(l)' = IF l = k THEN ReadDependencies(k) \cup {d} ELSE ReadDependencies(l)
  <2>1. i \in Nat /\ j \in Nat /\ \A x \in DOMAIN steps : x \in Nat /\ \A y \in DOMAIN steps[x].dependsOn : y \in Nat
    BY <1>1, StepFacts DEF TypeOK
  <2>2. \A x \in DOMAIN steps : \A y \in DOMAIN steps[x].dependsOn :
           Read(x, y)' <=> Read(x, y) \/ (x = i /\ y = j)
    BY <2>1 DEF Read, Sorting
  <2> SUFFICES ASSUME NEW l \in Keys
               PROVE  ReadDependencies(l)' = IF l = k THEN ReadDependencies(k) \cup {d} ELSE ReadDependencies(l)
    OBVIOUS
  <2>3. \A c : c \in ReadDependencies(l)' <=>
           c \in Keys /\ \E x \in DOMAIN steps : \E y \in DOMAIN steps[x].dependsOn :
              Read(x, y)' /\ steps[x].key = l /\ steps[x].dependsOn[y] = c
    BY DEF ReadDependencies
  <2>4. \A c : c \in ReadDependencies(l)' <=> c \in ReadDependencies(l) \/ (l = k /\ c = d)
    BY <1>1, <2>2, <2>3 DEF ReadDependencies
  <2>5. CASE l = k
    BY <2>4, <2>5
  <2>6. CASE l # k
    BY <2>4, <2>6
  <2> QED BY <2>5, <2>6
<1>8. EdgesFit'
  <2>4. pc' = "edges" /\ i' >= 1 /\ j' >= 1
    BY <1>1 DEF EdgesFit, TypeOK
  <2> SUFFICES ASSUME NEW l \in Keys
               PROVE  /\ ToSet(dependsOn'[l]) = ReadDependencies(l)'
                      /\ {e[1] : e \in Edges(l)'} = ReadDependencies(l)'
                      /\ IsFiniteSet(Edges(l)') /\ inDegree'[l] = Cardinality(Edges(l)')
                      /\ ReadDependencies(l)' \subseteq Nodes'
    BY <2>4 DEF EdgesFit
  <2>1. /\ ToSet(dependsOn[l]) = ReadDependencies(l) /\ {e[1] : e \in Edges(l)} = ReadDependencies(l)
        /\ IsFiniteSet(Edges(l)) /\ inDegree[l] = Cardinality(Edges(l))
        /\ ReadDependencies(l) \subseteq Nodes /\ Nodes' = Nodes
    BY <1>1 DEF EdgesFit, Nodes
  <2>2. CASE l # k
    <3>1. dependsOn'[l] = dependsOn[l] /\ inDegree'[l] = inDegree[l]
      BY <1>1, <1>2, <2>2 DEF TypeOK
    <3>2. Edges(l)' = Edges(l) /\ ReadDependencies(l)' = ReadDependencies(l)
      BY <1>5, <1>7, <2>2
    <3> QED BY <2>1, <3>1, <3>2
  <2>3. CASE l = k
    <3>1. dependsOn'[l] = Append(dependsOn[l], d) /\ inDegree'[l] = inDegree[l] + 1
      BY <1>1, <1>2, <2>3 DEF TypeOK
    <3>2. Edges(l)' = Edges(l) \cup {<<d, n>>} /\ ReadDependencies(l)' = ReadDependencies(l) \cup {d}
      BY <1>5, <1>7, <2>3
    <3>3. ToSet(Append(dependsOn[l], d)) = ToSet(dependsOn[l]) \cup {d}
      <4>1. dependsOn[l] \in Seq(Keys)
        BY <1>1 DEF TypeOK
      <4> QED BY <1>1, <4>1, ToSetAppend
    <3>4. IsFiniteSet(Edges(l)') /\ Cardinality(Edges(l)') = Cardinality(Edges(l)) + 1
      <4>1. <<d, n>> \notin Edges(l)
        BY <1>6, <2>3
      <4> DEFINE E == Edges(l)  e == <<d, n>>
      <4>2. IsFiniteSet(E) /\ e \notin E /\ Edges(l)' = E \cup {e}
        BY <2>1, <3>2, <4>1, <2>3
      <4> HIDE DEF E, e
      <4>3. IsFiniteSet(E \cup {e}) /\ Cardinality(E \cup {e}) = Cardinality(E) + 1
        BY <4>2, FS_AddElement
      <4> QED BY <4>2, <4>3 DEF E
    <3>5. {e[1] : e \in Edges(l) \cup {<<d, n>>}} = {e[1] : e \in Edges(l)} \cup {d}
      <4>1. <<d, n>>[1] = d
        OBVIOUS
      <4> QED BY <4>1
    <3> QED BY <2>1, <3>1, <3>2, <3>3, <3>4, <3>5
  <2> QED BY <2>2, <2>3
<1> QED BY <1>3, <1>8

LEMMA AddDependencyKeeps ==
  ASSUME BuilderInv, AddDependency
  PROVE  BuilderInv'
<1>1. TypeOK /\ NodesFit /\ EdgesFit /\ SortFit /\ OrderFit /\ VerdictFits
  BY DEF BuilderInv
<1>2. /\ pc = "edges" /\ UNCHANGED <<steps, i, insertOrder, selfDep, sorting>>
      /\ i \in DOMAIN steps /\ j \in DOMAIN steps[i].dependsOn
  <2>1. /\ pc = "edges" /\ UNCHANGED <<steps, i, insertOrder, selfDep, sorting>>
        /\ i <= Len(steps) /\ j <= Len(steps[i].dependsOn) /\ i \in Nat /\ j \in Nat
        /\ i >= 1 /\ j >= 1
    BY <1>1 DEF AddDependency, EdgesFit, TypeOK
  <2>2. i \in DOMAIN steps
    BY <1>1, <2>1, StepFacts
  <2> QED BY <1>1, <2>1, <2>2, StepFacts
<1>3. NodesFit' /\ OrderFit'
  <2>1. NodesFit'
    BY <1>1, <1>2 DEF NodesFit, AddDependency, Return, Sorting
  <2>2. OrderFit'
    BY <1>1, <1>2, SameOrder DEF Nodes, sorting
  <2> QED BY <2>1, <2>2
<1>4. CASE steps[i].dependsOn[j] \in Nodes
  <2>1. /\ AddEdge(steps[i].key, steps[i].dependsOn[j])
        /\ j' = j + 1 /\ UNCHANGED <<pc, verdict>>
    BY <1>4 DEF AddDependency
  <2>2. EdgesFit' /\ TypeOK'
    BY <1>2, <1>4, <2>1, AddEdgeKeeps
  <2>3. SortFit' /\ VerdictFits'
    BY <1>1, <1>2, <2>1 DEF SortFit, Sorting, VerdictFits, sorting
  <2> QED BY <1>3, <2>2, <2>3 DEF BuilderInv
<1>5. CASE steps[i].dependsOn[j] \notin Nodes
  <2>1. pc' = "done" /\ verdict' = "unknown_key" /\ UNCHANGED <<j, dependsOn, dependents, inDegree>>
    BY <1>5 DEF AddDependency, Return
  <2>2. TypeOK' /\ EdgesFit'
    BY <1>1, <1>2, <2>1 DEF TypeOK, Verdicts, sorting, EdgesFit
  <2>3. SortFit'
    BY <1>1, <1>2, <2>1 DEF SortFit, Sorting, sorting
  <2>4. Nodes = KeysOf(steps) /\ EmptyKey \notin KeysOf(steps) /\ UniqueKeys(steps)
    BY <1>1, <1>2, NodesAreKeys
  <2>5. ~ KnownDependencies(steps)
    <3>1. steps[i].key \in KeysOf(steps) /\ steps[i].dependsOn[j] \in DependsOn(steps, steps[i].key)
      BY <1>1, <1>2, StepFacts DEF KeysOf, DependsOn
    <3> QED BY <1>5, <2>4, <3>1 DEF KnownDependencies
  <2>6. VerdictFits'
    BY <1>2, <2>1, <2>4, <2>5 DEF VerdictFits
  <2> QED BY <1>3, <2>2, <2>3, <2>6 DEF BuilderInv
<1> QED BY <1>4, <1>5

LEMMA NextStepKeeps ==
  ASSUME BuilderInv, NextStep
  PROVE  BuilderInv'
<1>1. TypeOK /\ NodesFit /\ EdgesFit /\ SortFit /\ OrderFit /\ VerdictFits
  BY DEF BuilderInv
<1>2. /\ pc = "edges" /\ i <= Len(steps) /\ j > Len(steps[i].dependsOn) /\ i' = i + 1 /\ j' = 1
      /\ UNCHANGED <<steps, pc, insertOrder, dependsOn, dependents, inDegree, selfDep, sorting, verdict>>
  BY DEF NextStep, graph
<1>3. TypeOK' /\ NodesFit'
  BY <1>1, <1>2 DEF TypeOK, sorting, NodesFit, Sorting
<1>4. EdgesFit'
  <2>1. i \in Nat /\ j \in Nat /\ \A x \in DOMAIN steps : x \in Nat /\ Len(steps[x].dependsOn) \in Nat
           /\ \A y \in DOMAIN steps[x].dependsOn : y \in Nat \ {0} /\ y <= Len(steps[x].dependsOn)
    BY <1>1, StepFacts DEF TypeOK
  <2>2. \A x \in DOMAIN steps : \A y \in DOMAIN steps[x].dependsOn : Read(x, y)' <=> Read(x, y)
    BY <1>2, <2>1 DEF Read, Sorting
  <2>3. \A l \in Keys : ReadDependencies(l)' = ReadDependencies(l)
    BY <1>2, <2>2 DEF ReadDependencies
  <2>4. \A l \in Keys : Edges(l)' = Edges(l)
    BY <1>2, SameEdges
  <2> QED BY <1>1, <1>2, <2>1, <2>3, <2>4 DEF EdgesFit, Nodes
<1>5. SortFit' /\ VerdictFits'
  BY <1>1, <1>2 DEF SortFit, Sorting, VerdictFits, sorting
<1>6. OrderFit'
  BY <1>1, <1>2, SameOrder DEF sorting, Nodes
<1> QED BY <1>3, <1>4, <1>5, <1>6 DEF BuilderInv

--------------------------------------------------------------------------------
(* Sorting it.                                                                *)

LEMMA EdgeFacts ==
  ASSUME TypeOK, NEW k \in Keys, NEW e \in Edges(k)
  PROVE  /\ e[1] \in Keys /\ e = <<e[1], e[2]>> /\ e[2] \in Nat \ {0}
         /\ e[2] <= Len(dependents[e[1]]) /\ dependents[e[1]][e[2]] = k
<1>1. PICK d \in Keys : \E n \in DOMAIN dependents[d] : e = <<d, n>> /\ dependents[d][n] = k
  BY EdgeElements
<1>2. PICK n \in DOMAIN dependents[d] : e = <<d, n>> /\ dependents[d][n] = k
  BY <1>1
<1>3. dependents[d] \in Seq(Keys)
  BY DEF TypeOK
<1>4. n \in Nat \ {0} /\ n <= Len(dependents[d])
  BY <1>2, <1>3
<1> QED BY <1>2, <1>4

\* The edges of the graph are those of the definition.
LEMMA SortKnowsGraph ==
  ASSUME BuilderInv, Sorting, NEW k \in Keys
  PROVE  /\ {e[1] : e \in Edges(k)} = DependsOn(steps, k) /\ IsFiniteSet(Edges(k))
         /\ DependsOn(steps, k) \subseteq Nodes
         /\ DependsOn(steps, k) # {} => k \in Nodes
         /\ inDegree[k] = Cardinality(Edges(k)) /\ ToSet(dependsOn[k]) = DependsOn(steps, k)
<1>1. TypeOK /\ NodesFit /\ EdgesFit /\ pc # "done"
  BY DEF BuilderInv, Sorting
<1>2. ReadDependencies(k) = DependsOn(steps, k)
  BY SortReadsAll
<1>3. DependsOn(steps, k) # {} => k \in Nodes
  BY <1>1, NodesAreKeys DEF DependsOn, KeysOf
<1> QED BY <1>1, <1>2, <1>3 DEF EdgesFit

LEMMA SortKeepsGraph ==
  ASSUME BuilderInv, Sorting, Sorting', UNCHANGED <<steps, graph>>
  PROVE  NodesFit' /\ EdgesFit'
<1>1. NodesFit /\ EdgesFit /\ pc # "done"
  BY DEF BuilderInv, Sorting
<1>2. NodesFit'
  BY <1>1 DEF NodesFit, Sorting, graph
<1>3. \A k \in Keys : ReadDependencies(k)' = ReadDependencies(k) /\ Edges(k)' = Edges(k)
  BY SameEdges DEF ReadDependencies, Read, graph
<1>4. EdgesFit'
  BY <1>1, <1>3 DEF EdgesFit, Sorting, graph, Nodes
<1> QED BY <1>2, <1>4

LEMMA StartSortKeeps ==
  ASSUME BuilderInv, StartSort
  PROVE  BuilderInv'
<1>1. TypeOK /\ NodesFit /\ EdgesFit /\ SortFit /\ OrderFit /\ VerdictFits
  BY DEF BuilderInv
<1>2. /\ pc = "edges" /\ i > Len(steps) /\ pc' = "seed" /\ i' = 1 /\ inDeg' = inDegree
      /\ selfDep' = (\E k \in Nodes : k \in ToSet(dependsOn[k]))
      /\ UNCHANGED <<steps, j, insertOrder, dependsOn, dependents, inDegree, queue, order, verdict>>
  BY DEF StartSort, graph
<1>3. TypeOK'
  BY <1>1, <1>2 DEF TypeOK
<1>4. NodesFit'
  BY <1>1, <1>2 DEF NodesFit, Sorting
<1>5. \A k \in Keys : /\ ReadDependencies(k)' = ReadDependencies(k) /\ Edges(k)' = Edges(k)
                      /\ ReadDependencies(k) = DependsOn(steps, k)
  <2>1. i \in Nat /\ Len(steps) \in Nat /\ \A x \in DOMAIN steps : x \in Nat /\ x <= Len(steps)
    BY <1>1, StepFacts DEF TypeOK
  <2>2. \A x, y : x \in DOMAIN steps => Read(x, y) /\ Read(x, y)'
    BY <1>2, <2>1 DEF Read, Sorting
  <2> QED BY <1>2, <2>2, SameEdges DEF ReadDependencies, DependsOn
<1>6. EdgesFit'
  BY <1>1, <1>2, <1>5 DEF EdgesFit, Nodes
<1>7. SortFit'
  <2>1. Nodes = KeysOf(steps) /\ Nodes \subseteq Keys
    BY <1>1, <1>2, NodesAreKeys, StepFacts DEF KeysOf
  <2>2. selfDep' <=> \E k \in KeysOf(steps) : k \in DependsOn(steps, k)
    BY <1>1, <1>2, <1>5, <2>1 DEF EdgesFit
  <2>3. order' = <<>> /\ queue' = <<>> /\ ToSet(order)' = {} /\ ToSet(queue)' = {}
    BY <1>1, <1>2 DEF SortFit, ToSet
  <2>4. \A k \in Keys : Open(k)' = Edges(k)
    BY <1>2, <1>5, <2>3 DEF Open
  <2>5. \A k \in Keys : inDeg'[k] = Cardinality(Open(k)')
    BY <1>1, <1>2, <2>4 DEF EdgesFit
  <2>6. \A y \in DOMAIN insertOrder : ~ (y < 1)
    BY <1>1, StepFacts
  <2> QED BY <1>2, <2>2, <2>3, <2>5, <2>6 DEF SortFit, Sorting
<1>8. OrderFit' /\ VerdictFits'
  BY <1>1, <1>2, SameOrder DEF Nodes, VerdictFits
<1> QED BY <1>3, <1>4, <1>6, <1>7, <1>8 DEF BuilderInv

LEMMA SeedKeeps ==
  ASSUME BuilderInv, Seed
  PROVE  BuilderInv'
<1>1. TypeOK /\ NodesFit /\ EdgesFit /\ SortFit /\ OrderFit /\ VerdictFits /\ Sorting /\ Sorting'
  BY DEF BuilderInv, Seed, Sorting
<1> DEFINE k == insertOrder[i]
<1>2. /\ pc = "seed" /\ i \in DOMAIN insertOrder /\ i \in Nat /\ i' = i + 1 /\ k \in Keys
      /\ queue' = IF inDeg[k] = 0 THEN Append(queue, k) ELSE queue
      /\ UNCHANGED <<steps, pc, j, graph, selfDep, inDeg, order, verdict>>
  <2>1. i >= 1 /\ i <= Len(insertOrder) /\ i \in Nat /\ insertOrder \in Seq(Keys)
    BY <1>1 DEF Seed, SortFit, TypeOK
  <2>2. i \in DOMAIN insertOrder /\ k \in Keys
    BY <2>1
  <2> QED BY <2>1, <2>2 DEF Seed
<1>3. queue \in Seq(Keys) /\ Append(queue, k) \in Seq(Keys)
  BY <1>1, <1>2 DEF TypeOK
<1>4. TypeOK'
  <2>1. queue' \in Seq(Keys) /\ i' \in Nat
    BY <1>2, <1>3
  <2> QED BY <1>1, <1>2, <2>1 DEF TypeOK, graph
<1>5. NodesFit' /\ EdgesFit'
  BY <1>1, <1>2, SortKeepsGraph
<1> DEFINE Zero(n) == {insertOrder[x] : x \in {y \in DOMAIN insertOrder : y < n /\ inDeg[insertOrder[y]] = 0}}
<1>6. ToSet(queue) = Zero(i)
  BY <1>1, <1>2 DEF SortFit
<1>7. Zero(i + 1) = IF inDeg[k] = 0 THEN Zero(i) \cup {k} ELSE Zero(i)
  <2>1. \A y \in DOMAIN insertOrder : y < i + 1 <=> y < i \/ y = i
    BY <1>1, <1>2, StepFacts
  <2> QED BY <1>2, <2>1
<1>8. k \notin Zero(i)
  <2>1. \A x \in DOMAIN insertOrder : insertOrder[x] = k => x = i
    BY <1>1, <1>2 DEF NodesFit
  <2> QED BY <1>2, <2>1
<1>9. ToSet(queue') = Zero(i + 1) /\ Distinct(queue')
  <2> HIDE DEF Zero, k
  <2>1. Distinct(queue)
    BY <1>1 DEF SortFit, Distinct
  <2>2. CASE inDeg[k] = 0
    <3>1. queue' = Append(queue, k) /\ k \notin ToSet(queue) /\ Zero(i + 1) = ToSet(queue) \cup {k}
      BY <1>2, <1>6, <1>7, <1>8, <2>2
    <3>2. /\ ToSet(Append(queue, k)) = ToSet(queue) \cup {k}
          /\ Distinct(queue) /\ k \notin ToSet(queue) => Distinct(Append(queue, k))
      <4>1. k \in Keys /\ queue \in Seq(Keys)
        BY <1>2, <1>3
      <4> QED BY <4>1, ToSetAppend
    <3> QED BY <2>1, <3>1, <3>2
  <2>3. CASE inDeg[k] # 0
    BY <1>2, <1>6, <1>7, <2>1, <2>3
  <2> QED BY <2>2, <2>3
<1>10. SortFit'
  <2>1. order' = <<>> /\ ToSet(order)' = {}
    BY <1>1, <1>2 DEF SortFit, ToSet
  <2>2. \A l \in Keys : Open(l)' = Open(l)
    BY <1>2, SameEdges DEF Open, graph
  <2>3. Zero(i + 1) = {insertOrder'[x] : x \in {y \in DOMAIN insertOrder' : y < i' /\ inDeg'[insertOrder'[y]] = 0}}
    BY <1>2 DEF graph
  <2> HIDE DEF Zero
  <2> QED BY <1>1, <1>2, <1>9, <2>1, <2>2, <2>3 DEF SortFit, Sorting, Distinct
<1>11. OrderFit' /\ VerdictFits'
  BY <1>1, <1>2, SameOrder DEF Nodes, VerdictFits, graph
<1> QED BY <1>4, <1>5, <1>10, <1>11 DEF BuilderInv

LEMMA SeededKeeps ==
  ASSUME BuilderInv, Seeded
  PROVE  BuilderInv'
<1>1. TypeOK /\ NodesFit /\ EdgesFit /\ SortFit /\ OrderFit /\ VerdictFits /\ Sorting /\ Sorting'
  BY DEF BuilderInv, Seeded, Sorting
<1>2. /\ pc = "seed" /\ i > Len(insertOrder) /\ pc' = "sort"
      /\ UNCHANGED <<steps, i, j, graph, selfDep, inDeg, queue, order, verdict>>
  BY DEF Seeded, sorting
<1>3. TypeOK' /\ NodesFit' /\ EdgesFit'
  BY <1>1, <1>2, SortKeepsGraph DEF TypeOK, graph
<1>4. SortFit'
  <2>1. order = <<>> /\ ToSet(order) = {}
    BY <1>1, <1>2 DEF SortFit, ToSet
  <2>2. \A l \in Keys : Open(l)' = Open(l)
    BY <1>2, <2>1, SameEdges DEF Open, graph
  <2>3. \A y \in DOMAIN insertOrder : y < i
    BY <1>1, <1>2, StepFacts DEF TypeOK
  <2>4. ToSet(queue) = {l \in Nodes : inDeg[l] = 0}
    <3>1. ToSet(queue) = {insertOrder[x] : x \in {y \in DOMAIN insertOrder : y < i /\ inDeg[insertOrder[y]] = 0}}
      BY <1>1, <1>2 DEF SortFit
    <3>2. {y \in DOMAIN insertOrder : y < i /\ inDeg[insertOrder[y]] = 0}
            = {y \in DOMAIN insertOrder : inDeg[insertOrder[y]] = 0}
      BY <2>3
    <3>3. Nodes = {insertOrder[x] : x \in DOMAIN insertOrder}
      BY DEF Nodes, ToSet
    <3> QED BY <3>1, <3>2, <3>3
  <2> QED BY <1>1, <1>2, <2>1, <2>2, <2>4 DEF SortFit, Sorting, Nodes, graph
<1>5. OrderFit' /\ VerdictFits'
  BY <1>1, <1>2, SameOrder DEF Nodes, VerdictFits, graph
<1> QED BY <1>3, <1>4, <1>5 DEF BuilderInv

LEMMA DequeueKeeps ==
  ASSUME BuilderInv, Dequeue
  PROVE  BuilderInv'
<1>1. TypeOK /\ NodesFit /\ EdgesFit /\ SortFit /\ OrderFit /\ VerdictFits /\ Sorting /\ Sorting'
  BY DEF BuilderInv, Dequeue, Sorting
<1> DEFINE k == Head(queue)
<1>2. /\ pc = "sort" /\ queue # <<>> /\ queue' = Tail(queue) /\ order' = Append(order, k)
      /\ pc' = "relax" /\ j' = 1 /\ UNCHANGED <<steps, i, graph, selfDep, inDeg, verdict>>
  BY DEF Dequeue
<1>3. queue \in Seq(Keys) /\ order \in Seq(Keys) /\ k \in Keys /\ Tail(queue) \in Seq(Keys)
      /\ Append(order, k) \in Seq(Keys)
  <2>1. queue \in Seq(Keys) /\ order \in Seq(Keys)
    BY <1>1 DEF TypeOK
  <2> QED BY <1>2, <2>1
<1>4. TypeOK'
  BY <1>1, <1>2, <1>3 DEF TypeOK, graph
<1>5. NodesFit' /\ EdgesFit'
  BY <1>1, <1>2, SortKeepsGraph
<1> HIDE DEF k
<1>6. /\ ToSet(queue) = ToSet(queue') \cup {k} /\ k \notin ToSet(queue') /\ Distinct(queue')
  <2>1. Distinct(queue)
    BY <1>1 DEF SortFit, Distinct
  <2> QED BY <1>2, <1>3, <2>1, ToSetTail DEF k
<1>7. ToSet(order') = ToSet(order) \cup {k} /\ k \notin ToSet(order) /\ Last(order') = k
  <2>1. k \notin ToSet(order)
    BY <1>1, <1>6 DEF SortFit
  <2>2. ToSet(Append(order, k)) = ToSet(order) \cup {k}
    BY <1>3, ToSetAppend
  <2>3. Last(Append(order, k)) = k
    BY <1>3 DEF Last
  <2> QED BY <1>2, <2>1, <2>2, <2>3
<1>8. \A l \in Keys : Open(l)' = Open(l)
  <2> SUFFICES ASSUME NEW l \in Keys PROVE Open(l)' = Open(l)
    OBVIOUS
  <2>1. Edges(l)' = Edges(l)
    BY <1>2, SameEdges DEF graph
  <2>2. \A e \in Edges(l) : e[2] >= 1
    BY <1>1, EdgeFacts
  <2> QED BY <1>2, <1>7, <2>1, <2>2 DEF Open
<1>9. SortFit'
  <2>1. ToSet(queue) \cup ToSet(order) = {l \in Nodes : inDeg[l] = 0}
    BY <1>1, <1>2 DEF SortFit
  <2>2. ToSet(queue') \cup ToSet(order') = {l \in Nodes : inDeg[l] = 0}
    BY <1>6, <1>7, <2>1
  <2>3. ToSet(queue') \cap ToSet(order') = {}
    BY <1>1, <1>6, <1>7 DEF SortFit
  <2>4. order' # <<>>
    BY <1>2, <1>3
  <2> QED BY <1>1, <1>2, <1>6, <1>8, <2>2, <2>3, <2>4 DEF SortFit, Sorting, Distinct, Nodes, graph
<1>10. k \in Nodes /\ DependsOn(steps, k) \subseteq ToSet(order)
  <2>1. k \in Nodes /\ inDeg[k] = 0
    BY <1>1, <1>2, <1>6 DEF SortFit
  <2>2. IsFiniteSet(Edges(k)) /\ {e[1] : e \in Edges(k)} = DependsOn(steps, k)
    BY <1>1, <1>3, SortKnowsGraph DEF BuilderInv
  <2>3. Open(k) = {}
    <3>1. IsFiniteSet(Open(k))
      BY <2>2, FS_Subset DEF Open
    <3>2. Cardinality(Open(k)) = 0
      BY <1>1, <1>3, <2>1 DEF SortFit
    <3> QED BY <3>1, <3>2, FS_EmptySet
  <2>4. \A e \in Edges(k) : e[1] \in ToSet(order)
    BY <1>2, <2>3 DEF Open
  <2> QED BY <2>1, <2>2, <2>4
<1>11. OrderFit'
  <2>1. ToSet(order') \subseteq Nodes'
    BY <1>1, <1>2, <1>7, <1>10 DEF OrderFit, Nodes, graph
  <2>2. OrderIsTopological'
    <3>1. /\ Len(order) \in Nat /\ DOMAIN order = 1 .. Len(order) /\ DOMAIN order' = 1 .. Len(order) + 1
          /\ \A x \in 1 .. Len(order) : order'[x] = order[x]
          /\ order'[Len(order) + 1] = k
      BY <1>2, <1>3
    <3> SUFFICES ASSUME NEW x \in DOMAIN order'
                 PROVE  /\ DependsOn(steps, order'[x]) \subseteq {order'[y] : y \in 1 .. x - 1}
                        /\ order'[x] \notin {order'[y] : y \in 1 .. x - 1}
      BY <1>2 DEF OrderIsTopological
    <3>2. CASE x \in 1 .. Len(order)
      <4>1. 1 .. x - 1 \subseteq 1 .. Len(order)
        BY <3>1, <3>2
      <4>2. {order'[y] : y \in 1 .. x - 1} = {order[y] : y \in 1 .. x - 1}
        BY <3>1, <4>1
      <4> QED BY <1>1, <3>1, <3>2, <4>2 DEF OrderFit, OrderIsTopological
    <3>3. CASE x = Len(order) + 1
      <4>1. 1 .. x - 1 = 1 .. Len(order)
        BY <3>1, <3>3
      <4>2. {order'[y] : y \in 1 .. x - 1} = ToSet(order)
        BY <3>1, <4>1 DEF ToSet
      <4> QED BY <1>7, <1>10, <3>1, <3>3, <4>2
    <3> QED BY <3>1, <3>2, <3>3
  <2>3. ASSUME NEW S \in SUBSET ToSet(order'), S # {}
        PROVE  \E l \in S : DependsOn(steps, l) \cap S = {}
    <3>1. CASE S = {k}
      BY <1>7, <1>10, <3>1
    <3>2. CASE S # {k}
      <4>1. S \ {k} \in SUBSET ToSet(order) /\ S \ {k} # {}
        BY <1>7, <2>3, <3>2
      <4>2. PICK l \in S \ {k} : DependsOn(steps, l) \cap (S \ {k}) = {}
        BY <1>1, <4>1 DEF OrderFit
      <4>3. DependsOn(steps, l) \subseteq ToSet(order)
        <5>1. l \in ToSet(order)
          BY <4>1
        <5>2. PICK x \in DOMAIN order : l = order[x]
          BY <5>1 DEF ToSet
        <5>3. DependsOn(steps, l) \subseteq {order[y] : y \in 1 .. x - 1} /\ 1 .. x - 1 \subseteq DOMAIN order
          BY <1>1, <1>3, <5>2 DEF OrderFit, OrderIsTopological
        <5> QED BY <5>3 DEF ToSet
      <4> QED BY <1>7, <4>2, <4>3
    <3> QED BY <3>1, <3>2
  <2> QED BY <1>2, <2>1, <2>2, <2>3 DEF OrderFit
<1>12. VerdictFits'
  BY <1>1, <1>2 DEF VerdictFits
<1> QED BY <1>4, <1>5, <1>9, <1>11, <1>12 DEF BuilderInv

LEMMA RelaxKeeps ==
  ASSUME BuilderInv, Relax
  PROVE  BuilderInv'
<1>1. TypeOK /\ NodesFit /\ EdgesFit /\ SortFit /\ OrderFit /\ VerdictFits /\ Sorting /\ Sorting'
  BY DEF BuilderInv, Relax, Sorting
<1> DEFINE cur == Last(order)
           d   == dependents[cur][j]
           ed  == <<cur, j>>
<1>2. /\ pc = "relax" /\ j <= Len(dependents[cur])
      /\ inDeg' = [inDeg EXCEPT ![d] = @ - 1]
      /\ queue' = IF inDeg[d] = 1 THEN Append(queue, d) ELSE queue
      /\ j' = j + 1 /\ UNCHANGED <<steps, pc, i, graph, selfDep, order, verdict>>
  BY DEF Relax
<1>3. cur \in ToSet(order) /\ cur \in Keys
  <2>1. order \in Seq(Keys) /\ order # <<>>
    BY <1>1, <1>2 DEF TypeOK, SortFit
  <2> QED BY <2>1 DEF ToSet, Last
<1> HIDE DEF cur
<1>4. j \in Nat \ {0} /\ j \in DOMAIN dependents[cur] /\ d \in Keys
  <2>1. dependents[cur] \in Seq(Keys) /\ j \in Nat /\ j >= 1
    BY <1>1, <1>2, <1>3 DEF TypeOK, SortFit
  <2> QED BY <1>2, <2>1
<1>5. ed \in Edges(d) /\ ed[1] = cur /\ ed[2] = j
  BY <1>3, <1>4, EdgeElements
<1> HIDE DEF d, ed
<1>6. \A l \in Keys : Open(l)' = Open(l) \ {ed}
  <2> SUFFICES ASSUME NEW l \in Keys PROVE Open(l)' = Open(l) \ {ed}
    OBVIOUS
  <2>1. Edges(l)' = Edges(l) /\ Last(order') = cur /\ Last(order) = cur
    BY <1>2, SameEdges DEF graph, cur
  <2>2. \A e \in Edges(l) : e[2] \in Nat /\ (e = ed <=> e[1] = cur /\ e[2] = j)
    BY <1>1, <1>5, EdgeFacts DEF ed
  <2>3. \A e \in Edges(l) : e[2] >= j + 1 <=> e[2] >= j /\ e[2] # j
    BY <1>4, <2>2
  <2> QED BY <1>2, <1>3, <2>1, <2>2, <2>3 DEF Open
<1>7. /\ ed \in Open(d)
      /\ \A l \in Keys : l # d => ed \notin Open(l)
  <2>1. ed \in Open(d)
    BY <1>2, <1>4, <1>5 DEF Open, cur
  <2>2. \A l \in Keys : ed \in Edges(l) => l = d
    BY <1>1, <1>5, EdgeFacts DEF d
  <2> QED BY <2>1, <2>2 DEF Open
<1>8. \A l \in Keys : IsFiniteSet(Open(l)) /\ inDeg[l] = Cardinality(Open(l)) /\ inDeg[l] \in Nat
  <2> SUFFICES ASSUME NEW l \in Keys
               PROVE  IsFiniteSet(Open(l)) /\ inDeg[l] = Cardinality(Open(l)) /\ inDeg[l] \in Nat
    OBVIOUS
  <2>1. IsFiniteSet(Edges(l)) /\ Open(l) \in SUBSET Edges(l)
    BY <1>1, SortKnowsGraph DEF BuilderInv, Open
  <2>2. IsFiniteSet(Open(l))
    BY <2>1, FS_Subset
  <2> QED BY <1>1, <2>2 DEF SortFit, TypeOK
<1>9. inDeg[d] >= 1
  <2>1. Open(d) # {}
    BY <1>7
  <2> QED BY <1>4, <1>8, <2>1, FS_EmptySet
<1>10. \A l \in Keys : inDeg'[l] = Cardinality(Open(l)') /\ inDeg'[l] = IF l = d THEN inDeg[d] - 1 ELSE inDeg[l]
  <2> SUFFICES ASSUME NEW l \in Keys
               PROVE  /\ inDeg'[l] = Cardinality(Open(l)')
                      /\ inDeg'[l] = IF l = d THEN inDeg[d] - 1 ELSE inDeg[l]
    OBVIOUS
  <2>1. inDeg'[l] = IF l = d THEN inDeg[d] - 1 ELSE inDeg[l]
    BY <1>1, <1>2 DEF TypeOK
  <2>2. CASE l = d
    <3>1. Cardinality(Open(l) \ {ed}) = Cardinality(Open(l)) - 1
      BY <1>7, <1>8, <2>2, FS_RemoveElement
    <3> QED BY <1>6, <1>8, <2>1, <2>2, <3>1
  <2>3. CASE l # d
    <3>1. Open(l)' = Open(l)
      BY <1>6, <1>7, <2>3
    <3> QED BY <1>8, <2>1, <2>3, <3>1
  <2> QED BY <2>2, <2>3, <2>1
<1>11. queue \in Seq(Keys) /\ queue' \in Seq(Keys)
  <2>1. queue \in Seq(Keys)
    BY <1>1 DEF TypeOK
  <2>2. Append(queue, d) \in Seq(Keys)
    BY <1>4, <2>1
  <2> QED BY <1>2, <2>1, <2>2
<1>12. TypeOK'
  <2>1. inDeg[d] - 1 \in Nat /\ j' \in Nat
    BY <1>2, <1>4, <1>8, <1>9
  <2>2. inDeg' \in [Keys -> Nat]
    BY <1>1, <1>2, <2>1 DEF TypeOK
  <2> QED BY <1>1, <1>2, <1>11, <2>1, <2>2 DEF TypeOK, graph
<1>13. NodesFit' /\ EdgesFit'
  BY <1>1, <1>2, SortKeepsGraph
<1>14. d \in Nodes
  <2>1. cur \in DependsOn(steps, d)
    BY <1>1, <1>4, <1>5, SortKnowsGraph
  <2> QED BY <1>1, <1>4, <2>1, SortKnowsGraph
<1>15. ToSet(queue) \cup ToSet(order) = {l \in Nodes : inDeg[l] = 0}
  BY <1>1, <1>2 DEF SortFit
<1>16. d \notin ToSet(queue) /\ d \notin ToSet(order)
  BY <1>4, <1>8, <1>9, <1>15
<1>17. Nodes \subseteq Keys /\ Nodes' = Nodes /\ ToSet(order') = ToSet(order)
  BY <1>1, <1>2 DEF Nodes, ToSet, TypeOK, graph
<1>18. /\ ToSet(queue') \cup ToSet(order') = {l \in Nodes : inDeg'[l] = 0}
       /\ Distinct(queue') /\ ToSet(queue') \cap ToSet(order') = {}
  <2>1. Distinct(queue) /\ ToSet(queue) \cap ToSet(order) = {}
    BY <1>1 DEF SortFit, Distinct
  <2>2. CASE inDeg[d] = 1
    <3>1. queue' = Append(queue, d)
      BY <1>2, <2>2
    <3>2. ToSet(queue') = ToSet(queue) \cup {d}
      BY <1>4, <1>11, <3>1, ToSetAppend
    <3>3. Distinct(queue')
      BY <1>4, <1>11, <1>16, <2>1, <3>1, ToSetAppend
    <3>4. {l \in Nodes : inDeg'[l] = 0} = {l \in Nodes : inDeg[l] = 0} \cup {d}
      <4>1. inDeg'[d] = 0
        BY <1>4, <1>8, <1>10, <2>2
      <4>2. \A l \in Nodes : l # d => inDeg'[l] = inDeg[l]
        BY <1>10, <1>17
      <4> QED BY <1>14, <4>1, <4>2
    <3> QED BY <1>15, <1>16, <1>17, <2>1, <3>2, <3>3, <3>4
  <2>3. CASE inDeg[d] # 1
    <3>1. queue' = queue
      BY <1>2, <2>3
    <3>2. inDeg'[d] # 0 /\ inDeg[d] # 0
      BY <1>4, <1>8, <1>9, <1>10, <2>3
    <3>3. {l \in Nodes : inDeg'[l] = 0} = {l \in Nodes : inDeg[l] = 0}
      BY <1>10, <1>17, <3>2
    <3> QED BY <1>15, <1>17, <2>1, <3>1, <3>3
  <2> QED BY <2>2, <2>3
<1>19. SortFit'
  <2>1. j' >= 1 /\ order' # <<>> /\ UNCHANGED <<steps, selfDep, pc>>
    BY <1>1, <1>2, <1>4 DEF SortFit
  <2> QED BY <1>1, <1>2, <1>10, <1>17, <1>18, <2>1 DEF SortFit, Sorting, Distinct
<1>20. OrderFit' /\ VerdictFits'
  BY <1>1, <1>2, <1>17, SameOrder DEF VerdictFits
<1> QED BY <1>12, <1>13, <1>19, <1>20 DEF BuilderInv

LEMMA RelaxedKeeps ==
  ASSUME BuilderInv, Relaxed
  PROVE  BuilderInv'
<1>1. TypeOK /\ NodesFit /\ EdgesFit /\ SortFit /\ OrderFit /\ VerdictFits /\ Sorting /\ Sorting'
  BY DEF BuilderInv, Relaxed, Sorting
<1>2. /\ pc = "relax" /\ j > Len(dependents[Last(order)]) /\ pc' = "sort"
      /\ UNCHANGED <<steps, i, j, graph, selfDep, inDeg, queue, order, verdict>>
  BY DEF Relaxed, sorting
<1>3. TypeOK' /\ NodesFit' /\ EdgesFit'
  BY <1>1, <1>2, SortKeepsGraph DEF TypeOK, graph
<1>4. Last(order) \in ToSet(order) /\ Last(order) \in Keys
  <2>1. order \in Seq(Keys) /\ order # <<>>
    BY <1>1, <1>2 DEF TypeOK, SortFit
  <2> QED BY <2>1 DEF ToSet, Last
<1>5. \A l \in Keys : Open(l)' = Open(l)
  <2> SUFFICES ASSUME NEW l \in Keys PROVE Open(l)' = Open(l)
    OBVIOUS
  <2>1. Edges(l)' = Edges(l)
    BY <1>2, SameEdges DEF graph
  <2>2. j \in Nat /\ Len(dependents[Last(order)]) \in Nat
    BY <1>1, <1>4 DEF TypeOK
  <2>3. \A e \in Edges(l) : e[1] = Last(order) => ~ (e[2] >= j)
    BY <1>1, <1>2, <2>2, EdgeFacts
  <2> QED BY <1>2, <2>1, <2>3 DEF Open
<1>6. SortFit'
  BY <1>1, <1>2, <1>5 DEF SortFit, Sorting, Nodes, graph
<1>7. OrderFit' /\ VerdictFits'
  BY <1>1, <1>2, SameOrder DEF Nodes, VerdictFits, graph
<1> QED BY <1>3, <1>6, <1>7 DEF BuilderInv

\* A list without repetitions has as many entries as elements.
LEMMA DistinctCount ==
  ASSUME NEW S, NEW s \in Seq(S), Distinct(s)
  PROVE  IsFiniteSet(ToSet(s)) /\ Cardinality(ToSet(s)) = Len(s)
<1>1. Len(s) \in Nat /\ DOMAIN s = 1 .. Len(s) /\ s \in [1 .. Len(s) -> ToSet(s)]
  BY DEF ToSet
<1>2. s \in Bijection(1 .. Len(s), ToSet(s))
  BY <1>1 DEF Bijection, Injection, Surjection, IsInjective, Distinct, ToSet
<1>3. ExistsBijection(1 .. Len(s), ToSet(s))
  BY <1>2 DEF ExistsBijection
<1>4. IsFiniteSet(ToSet(s))
  BY <1>1, <1>3, FS_NatBijection
<1>5. Cardinality(ToSet(s)) = Len(s)
  BY <1>1, <1>3, FS_CountingElements
<1> QED BY <1>4, <1>5

\* The sort has covered all nodes exactly if its list is as long as theirs.
LEMMA OrderCovers ==
  ASSUME BuilderInv, pc = "sort"
  PROVE  Len(order) = Len(insertOrder) <=> ToSet(order) = Nodes
<1>1. order \in Seq(Keys) /\ insertOrder \in Seq(Keys) /\ ToSet(order) \subseteq Nodes
  BY DEF BuilderInv, TypeOK, OrderFit
<1>2. Distinct(insertOrder)
  BY DEF BuilderInv, NodesFit, Distinct
<1>3. Distinct(order)
  <2> SUFFICES ASSUME NEW x \in DOMAIN order, NEW y \in DOMAIN order, order[x] = order[y], x # y
               PROVE  FALSE
    BY DEF Distinct
  <2>1. \A u, v \in DOMAIN order : u < v => order[v] # order[u]
    <3>1. \A u, v \in DOMAIN order : u < v => u \in 1 .. v - 1
      BY <1>1
    <3> QED BY <3>1 DEF BuilderInv, OrderFit, OrderIsTopological
  <2>2. x < y \/ y < x
    BY <1>1
  <2> QED BY <2>1, <2>2
<1>4. /\ IsFiniteSet(ToSet(order)) /\ Cardinality(ToSet(order)) = Len(order)
      /\ IsFiniteSet(Nodes) /\ Cardinality(Nodes) = Len(insertOrder)
  BY <1>1, <1>2, <1>3, DistinctCount DEF Nodes
<1>5. Cardinality(ToSet(order)) = Cardinality(Nodes) => ToSet(order) = Nodes
  BY <1>1, <1>4, FS_Subset
<1> QED BY <1>4, <1>5

\* What a step that is not sorted waits for, when nothing is queued.
LEMMA RestWaits ==
  ASSUME BuilderInv, pc = "sort", queue = <<>>, NEW k \in Nodes \ ToSet(order)
  PROVE  DependsOn(steps, k) \cap (Nodes \ ToSet(order)) # {}
<1>1. TypeOK /\ SortFit /\ Sorting /\ k \in Keys
  BY DEF BuilderInv, Sorting, TypeOK, Nodes, ToSet
<1>2. inDeg[k] # 0
  <2>1. ToSet(queue) = {}
    BY DEF ToSet
  <2> QED BY <1>1, <2>1 DEF SortFit
<1>3. Open(k) # {}
  BY <1>1, <1>2, FS_EmptySet DEF SortFit
<1>4. PICK e \in Edges(k) : e[1] \notin ToSet(order)
  BY <1>3 DEF Open
<1>5. e[1] \in DependsOn(steps, k) /\ DependsOn(steps, k) \subseteq Nodes
  BY <1>1, SortKnowsGraph
<1> QED BY <1>4, <1>5

LEMMA FinishKeeps ==
  ASSUME BuilderInv, Finish
  PROVE  BuilderInv'
<1>1. TypeOK /\ NodesFit /\ EdgesFit /\ SortFit /\ OrderFit /\ VerdictFits /\ Sorting
  BY DEF BuilderInv, Finish, Sorting
<1>2. /\ pc = "sort" /\ queue = <<>> /\ pc' = "done"
      /\ verdict' = IF selfDep THEN "self_dependency"
                    ELSE IF Len(order) # Len(insertOrder) THEN "cycle" ELSE "ok"
      /\ UNCHANGED <<steps, i, j, graph, selfDep, inDeg, queue, order>>
  BY DEF Finish, Return, sorting
<1>3. TypeOK' /\ NodesFit' /\ EdgesFit' /\ SortFit'
  <2>1. TypeOK'
    BY <1>1, <1>2 DEF TypeOK, Verdicts, graph
  <2>2. NodesFit' /\ EdgesFit'
    BY <1>1, <1>2 DEF NodesFit, EdgesFit, Sorting, graph
  <2>3. SortFit'
    BY <1>1, <1>2 DEF SortFit, Sorting
  <2> QED BY <2>1, <2>2, <2>3
<1>4. OrderFit'
  BY <1>1, <1>2, SameOrder DEF Nodes, graph
<1>5. Nodes = KeysOf(steps) /\ EmptyKey \notin KeysOf(steps) /\ UniqueKeys(steps) /\ Nodes \subseteq Keys
  <2>1. Nodes \subseteq Keys
    BY <1>1 DEF Nodes, ToSet, TypeOK
  <2> QED BY <1>1, <2>1, NodesAreKeys
<1>6. KnownDependencies(steps)
  BY <1>1, <1>5, SortKnowsGraph DEF KnownDependencies
<1>7. selfDep <=> \E k \in KeysOf(steps) : k \in DependsOn(steps, k)
  BY <1>1 DEF SortFit
<1>8. Len(order) # Len(insertOrder) => ~ Acyclic(steps)
  <2> SUFFICES ASSUME Len(order) # Len(insertOrder), Acyclic(steps)
               PROVE  FALSE
    OBVIOUS
  <2> DEFINE R == Nodes \ ToSet(order)
  <2>1. R # {} /\ R \in SUBSET KeysOf(steps)
    BY <1>1, <1>2, <1>5, OrderCovers DEF OrderFit
  <2>2. PICK k \in R : DependsOn(steps, k) \cap R = {}
    BY <2>1 DEF Acyclic
  <2> QED BY <1>2, <2>2, RestWaits
<1>9. Len(order) = Len(insertOrder) => Acyclic(steps)
  BY <1>1, <1>2, <1>5, OrderCovers DEF Acyclic, OrderFit
<1>10. VerdictFits'
  BY <1>1, <1>2, <1>5, <1>6, <1>7, <1>8, <1>9 DEF VerdictFits
<1> QED BY <1>3, <1>4, <1>10 DEF BuilderInv

--------------------------------------------------------------------------------
(* The theorems.                                                              *)

LEMMA BuilderStep ==
  ASSUME BuilderInv, [Next]_vars
  PROVE  BuilderInv'
<1>1. CASE UNCHANGED vars
  <2>1. UNCHANGED <<steps, pc, i, j, graph, selfDep, inDeg, queue, order, verdict>>
    BY <1>1 DEF vars, graph, sorting
  <2>2. TypeOK' /\ NodesFit'
    BY <2>1 DEF BuilderInv, TypeOK, NodesFit, Sorting, graph
  <2>3. \A k : Edges(k)' = Edges(k) /\ ReadDependencies(k)' = ReadDependencies(k)
    BY <2>1 DEF Edges, ReadDependencies, Read, Sorting, graph
  <2>4. EdgesFit'
    BY <2>1, <2>3 DEF BuilderInv, EdgesFit, Nodes, graph
  <2>5. \A k : Open(k)' = Open(k)
    BY <2>1, <2>3 DEF Open
  <2>6. SortFit'
    BY <2>1, <2>5 DEF BuilderInv, SortFit, Sorting, Nodes, graph
  <2>7. OrderFit' /\ VerdictFits'
    BY <2>1, SameOrder DEF BuilderInv, Nodes, VerdictFits, graph
  <2> QED BY <2>2, <2>4, <2>6, <2>7 DEF BuilderInv
<1> QED BY <1>1, AddNodeKeeps, NodesAddedKeeps, AddDependencyKeeps, NextStepKeeps, StartSortKeeps,
           SeedKeeps, SeededKeeps, DequeueKeeps, RelaxKeeps, RelaxedKeeps, FinishKeeps DEF Next

(* The loops of the builder and of the sort keep BuilderInv, for any input.   *)
THEOREM BuilderConsistency == Spec => []BuilderInv
BY InitHolds, BuilderStep, PTL DEF Spec

(* Every variable has its type: the in-degrees of the sort never go below 0.  *)
THEOREM BuilderTypes == Spec => []TypeOK
<1>1. BuilderInv => TypeOK
  BY DEF BuilderInv
<1> QED BY <1>1, BuilderConsistency, PTL

(* The list of the sort is dependency-closed and without repetitions at every *)
(* moment.                                                                    *)
THEOREM SortIsTopological == Spec => []OrderIsTopological
<1>1. BuilderInv => OrderIsTopological
  BY DEF BuilderInv, OrderFit
<1> QED BY <1>1, BuilderConsistency, PTL

(* Kahn's loop invariant: the queue is exactly the frontier of the sort,      *)
(* without repetitions, however often a dependency is listed.                 *)
THEOREM FrontierIsQueued == Spec => []QueueIsTheFrontier
<1>1. ASSUME BuilderInv, pc = "sort"
      PROVE  ToSet(queue) = {k \in Nodes \ ToSet(order) : DependsOn(steps, k) \subseteq ToSet(order)}
  <2>1. TypeOK /\ SortFit /\ Sorting /\ Nodes \subseteq Keys
    BY <1>1 DEF BuilderInv, Sorting, Nodes, ToSet, TypeOK
  <2>2. ASSUME NEW k \in Nodes
        PROVE  inDeg[k] = 0 <=> DependsOn(steps, k) \subseteq ToSet(order)
    <3>1. IsFiniteSet(Edges(k)) /\ {e[1] : e \in Edges(k)} = DependsOn(steps, k)
      BY <1>1, <2>1, SortKnowsGraph
    <3>2. IsFiniteSet(Open(k))
      BY <3>1, FS_Subset DEF Open
    <3>3. inDeg[k] = 0 <=> Open(k) = {}
      BY <2>1, <3>2, FS_EmptySet DEF SortFit
    <3>4. Open(k) = {} <=> \A e \in Edges(k) : e[1] \in ToSet(order)
      BY <1>1 DEF Open
    <3> QED BY <3>1, <3>3, <3>4
  <2>3. /\ ToSet(queue) \cup ToSet(order) = {k \in Nodes : inDeg[k] = 0}
        /\ ToSet(queue) \cap ToSet(order) = {}
    BY <1>1, <2>1 DEF SortFit
  <2> QED BY <2>2, <2>3
<1>2. ASSUME BuilderInv, pc = "sort"
      PROVE  \A x, y \in DOMAIN queue : queue[x] = queue[y] => x = y
  BY <1>2 DEF BuilderInv, Sorting, SortFit
<1>3. BuilderInv => QueueIsTheFrontier
  BY <1>1, <1>2 DEF QueueIsTheFrontier
<1> QED BY <1>3, BuilderConsistency, PTL

(* The builder accepts exactly the acyclic definitions with unique non-empty  *)
(* keys and known dependencies, and its cycle errors are about a cycle.       *)
THEOREM VerdictsAreRight == Spec => []VerdictIsRight
<1>1. BuilderInv => VerdictIsRight
  <2> SUFFICES ASSUME BuilderInv, pc = "done" PROVE VerdictIsRight
    BY DEF VerdictIsRight
  <2>1. VerdictFits /\ verdict \in Verdicts \ {"none"}
    BY DEF BuilderInv, TypeOK, VerdictFits
  <2>2. Acyclic(steps) => \A k \in KeysOf(steps) : k \notin DependsOn(steps, k)
    <3> SUFFICES ASSUME Acyclic(steps), NEW k \in KeysOf(steps)
                 PROVE  k \notin DependsOn(steps, k)
      OBVIOUS
    <3>1. {k} \in SUBSET KeysOf(steps) /\ {k} # {}
      OBVIOUS
    <3> QED BY <3>1 DEF Acyclic
  <2>3. verdict = "ok" <=> Accepts(steps)
    BY <2>1, <2>2 DEF VerdictFits, Verdicts, Accepts
  <2>4. verdict = "self_dependency" <=>
          /\ EmptyKey \notin KeysOf(steps) /\ UniqueKeys(steps) /\ KnownDependencies(steps)
          /\ \E k \in KeysOf(steps) : k \in DependsOn(steps, k)
    BY <2>1, <2>2 DEF VerdictFits, Verdicts
  <2>5. verdict = "cycle" => /\ ~ Acyclic(steps)
                             /\ \A k \in KeysOf(steps) : k \notin DependsOn(steps, k)
    BY <2>1 DEF VerdictFits
  <2> QED BY <2>3, <2>4, <2>5 DEF VerdictIsRight
<1> QED BY <1>1, BuilderConsistency, PTL
================================================================================

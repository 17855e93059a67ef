---------------------------------- MODULE Dag ----------------------------------
(******************************************************************************)
(* Pipeline definitions and the dependency graphs that the package            *)
(* orchestrator/internal/dag accepts.  A definition is the list of steps of a *)
(* create request (models.CreateStepRequest), which is also the list of rows  *)
(* that getSteps reads back in step_order (models.Step).  Names, types and    *)
(* configurations do not influence scheduling and are left out, except        *)
(* config.retry_count.                                                        *)
(******************************************************************************)
EXTENDS Integers, Sequences

CONSTANTS
  Keys,         \* step keys, the empty string included
  EmptyKey,     \* the key "": refused for a step, and "no step" in an event
  NotANumber    \* a retry_count that is absent, malformed or not a number

ASSUME KeysAssumption == EmptyKey \in Keys

ASSUME RetryAssumption == NotANumber \notin Int

Step == [key: Keys, dependsOn: Seq(Keys), retryCount: Int \cup {NotANumber}]

KeysOf(steps) == {steps[i].key : i \in DOMAIN steps}

\* Graph.DependsOn: the duplicates and the sorting of the list do not matter to
\* its readers, which only test membership.
DependsOn(steps, k) ==
  {d \in Keys : \E i \in DOMAIN steps :
     /\ steps[i].key = k
     /\ \E j \in DOMAIN steps[i].dependsOn : d = steps[i].dependsOn[j]}

StepOrder(steps, k) == CHOOSE i \in DOMAIN steps : steps[i].key = k

RetryCount(steps, k) == steps[StepOrder(steps, k)].retryCount

(******************************************************************************)
(* What BuildFromCreateSteps and BuildFromStoredSteps are meant to accept.    *)
(* Acyclic is the textbook definition: no non-empty set of steps in which     *)
(* every step waits for another one of the set.  DagBuilder models the code   *)
(* that decides it and is checked against this definition.                    *)
(******************************************************************************)
Acyclic(steps) ==
  \A S \in SUBSET KeysOf(steps) :
    S # {} => \E k \in S : DependsOn(steps, k) \cap S = {}

UniqueKeys(steps) ==
  \A i, j \in DOMAIN steps : steps[i].key = steps[j].key => i = j

KnownDependencies(steps) ==
  \A k \in KeysOf(steps) : DependsOn(steps, k) \subseteq KeysOf(steps)

\* Mutant: the graph is not sorted.
AcceptsCycles(steps) ==
  /\ EmptyKey \notin KeysOf(steps)
  /\ UniqueKeys(steps)
  /\ KnownDependencies(steps)

Accepts(steps) ==
  /\ EmptyKey \notin KeysOf(steps)
  /\ UniqueKeys(steps)
  /\ KnownDependencies(steps)
  /\ Acyclic(steps)
================================================================================

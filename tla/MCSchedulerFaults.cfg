CONSTANTS
  none = none
  a = a
  b = b
  c = c
  d = d
  nan = nan
  Keys <- MCKeys
  EmptyKey = none
  NotANumber = nan
  MaxInt = 7
  Pipelines = {p1}
  Runs = {r1}
  Definitions <- MCDefinitions
  MaxDbErrors = 2
  MaxCrashes = 1

SPECIFICATION Spec

INVARIANTS
  Inv
  ProgressInv
  DependencyOrder
  OneStepAtATime
  CompletedStepsWereExecuted
  CompletedRunIsWhole
  FailureIsExhaustion
  NeverStuck
  TimelineIsTrue
  TimelineIsOrdered

PROPERTIES
  TerminalIsFinal
  ImplementsLifecycle
  AcceptedRunEnds

\* The server idles when no request is under way.
CHECK_DEADLOCK FALSE

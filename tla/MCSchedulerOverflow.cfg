CONSTANTS
  none = none
  a = a
  b = b
  c = c
  d = d
  nan = nan
  Keys <- MCKeys
  EmptyKey = none
  NotANumber = nan
  MaxInt = 7
  Pipelines = {p1}
  Runs = {r1}
  Definitions <- MCHugeRetry
  MaxDbErrors = 0
  MaxCrashes = 0

SPECIFICATION Spec

INVARIANTS
  CompletedStepsWereExecuted

\* The server idles when no request is under way.
CHECK_DEADLOCK FALSE

CONSTANTS
  none = none
  a = a
  b = b
  c = c
  d = d
  nan = nan
  Keys <- MCKeys
  EmptyKey = none
  NotANumber = nan
  MaxInt = 7
  Pipelines = {p1}
  Runs = {r1, r2}
  Definitions <- MCPlainChain
  MaxDbErrors = 1
  MaxCrashes = 0
  TopLimit = 2

SPECIFICATION MetricsSpec

CONSTRAINT MCFaultsInOneRun

SYMMETRY MCSymmetry

INVARIANTS
  CountsAddUp
  FailuresAreExplained
  FailuresAreListed

\* The server idles when no request is under way.
CHECK_DEADLOCK FALSE

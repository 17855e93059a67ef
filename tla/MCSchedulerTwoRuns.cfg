CONSTANTS
  none = none
  a = a
  b = b
  c = c
  d = d
  nan = nan
  Keys <- MCKeys
  EmptyKey = none
  NotANumber = nan
  MaxInt = 7
  Pipelines = {p1, p2}
  Runs = {r1, r2}
  Definitions <- MCChain
  MaxDbErrors = 1
  MaxCrashes = 1

SPECIFICATION Spec

SYMMETRY MCSymmetry

INVARIANTS
  OneStepAtATime
  StrandedOnlyByFault
  DeletedLeavesNothing

\* The server idles when no request is under way.
CHECK_DEADLOCK FALSE

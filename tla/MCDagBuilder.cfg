CONSTANTS
  none = none
  a = a
  b = b
  c = c
  absent = absent
  nan = nan
  Keys <- MCKeys
  EmptyKey = none
  NotANumber = nan
  Inputs <- MCInputs

SPECIFICATION Spec

INVARIANTS
  TypeOK
  VerdictIsRight
  OrderIsTopological
  QueueIsTheFrontier

PROPERTY BuildReturns

\* A call that has returned takes no further step.
CHECK_DEADLOCK FALSE

CONSTANTS
  none = none
  a = a
  b = b
  c = c
  nan = nan
  Keys <- MCKeys
  EmptyKey = none
  NotANumber = nan
  MaxInt = 7
  Pipelines = {p1}
  Runs = {r1, r2}
  Definitions <- MCChain
  MaxDbErrors = 0
  MaxCrashes = 0
  NoSource = NoSource
  Sources <- MCPlain
  Backlog = 3
  MaxRestarts = 0

SPECIFICATION SystemSpec

INVARIANTS
  AcceptedResultStands

PROPERTIES
  ImplementsScheduler

\* The server idles when no request is under way.
CHECK_DEADLOCK FALSE

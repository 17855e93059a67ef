CONSTANTS
  none = none
  a = a
  b = b
  c = c
  nan = nan
  Keys <- MCKeys
  EmptyKey = none
  NotANumber = nan
  MaxInt = 7
  Pipelines = {p1}
  Runs = {r1}
  Definitions <- MCShapes
  MaxDbErrors = 1
  MaxCrashes = 1
  NoSource = NoSource
  Sources <- MCSources
  Backlog = 3
  MaxRestarts = 1

SPECIFICATION SystemSpec

INVARIANTS
  SystemInv
  EffectsFollowGraph
  AcceptedResultStands
  RefusalIsExplained
  EffectsPerAttempt
  QuietAfterwards

\* The server idles when no request is under way.
CHECK_DEADLOCK FALSE

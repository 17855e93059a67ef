CONSTANTS
  none = none
  a = a
  b = b
  c = c
  d = d
  nan = nan
  Keys <- MCKeys
  EmptyKey = none
  NotANumber = nan
  MaxInt = 7
  Pipelines = {p1}
  Runs = {r1}
  Definitions <- MCChain
  MaxDbErrors = 1
  MaxCrashes = 0
  PageSize = 2

SPECIFICATION ReaderSpec

INVARIANTS
  ShownCompletionIsWhole
  ShownFailureHasCulprit
  HistoryAddsUp
  PagesMissNothing

PROPERTIES
  PollsGoForward

\* The server idles when no request is under way.
CHECK_DEADLOCK FALSE

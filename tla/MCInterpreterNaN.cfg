CONSTANTS
  nan = nan
  Keys <- MCKeys
  EmptyKey = ""
  NotANumber = nan
  Trim <- MCTrim
  Null = Null
  NaN = NaN
  One = 10
  Default = 7
  Thresholds <- MCThresholds
  Envelopes <- MCEnvelopes
  Slug = "slug"

SPECIFICATION Spec

INVARIANTS
  AutoTakesConfidence

\* One request: a session ends when its draft is posted.
CHECK_DEADLOCK FALSE

CONSTANTS
  nan = nan
  Keys <- MCKeys
  EmptyKey = ""
  NotANumber = nan
  Trim <- MCTrim
  Null = Null
  NaN = NaN
  One = 10
  Default = 7
  Thresholds = {7}
  Envelopes <- MCEnvelopes
  Slug = "slug"

SPECIFICATION Spec

INVARIANTS
  AutoDraftIsCreatable

\* One request: a session ends when its draft is posted.
CHECK_DEADLOCK FALSE

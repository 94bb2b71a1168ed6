SPECIFICATION Spec
CONSTANTS
  Writers = {w1, w2}
  Followers = {f1}
  StoreOutcomes = {"ok"}
  RunProjected = FALSE
  Limit = 2
  MaxAppends = 1
  MaxBreaks = 0
CHECK_DEADLOCK FALSE
INVARIANT FeedIsAppendOnly

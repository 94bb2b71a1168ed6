SPECIFICATION FairSpec
CONSTANTS
  Writers = {w1, w2}
  Followers = {f1}
  StoreOutcomes = {"ok", "lost"}
  RunProjected = FALSE
  Limit = 2
  MaxAppends = 3
  MaxBreaks = 2
CHECK_DEADLOCK FALSE
INVARIANTS
  SequencesGapFree
  FollowersInOrder
PROPERTIES
  FollowersCatchUp

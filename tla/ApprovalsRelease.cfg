CONSTANTS
  Runs = {r1}
  Deciders = {d1, d2}
  NoRun = NoRun
SPECIFICATION DeskSpec
INVARIANT ReviewReleasesHold
CHECK_DEADLOCK FALSE

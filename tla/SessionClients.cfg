CONSTANTS
  h1 = h1
  h2 = h2
  Slots <- MCSlots
  Buttons <- ServedButtons
  MaxTasks = 2
  MaxSessions = 1
  MaxEvents = 6
  ListLimit = 2
  MaxClicks = 3
  MaxOthers = 1
  s1 = s1
  s2 = s2
  ThreadSessions = {s1, s2}
  NoSession = NoSession
  Jobs = {j1}
  MaxChanges = 3
  MaxFollows = 3
SPECIFICATION MCSpec
CONSTRAINT MCBound
INVARIANTS
  CopiesAgree
  DecidedOnce
  OneFollower
  QuietHistoryIsCurrent
  ToldWasRecorded
  OnePanelFollower
  QuietPanelIsCurrent
PROPERTIES
  OnlyHandlersOpenThreads
SYMMETRY MCSymmetry
CHECK_DEADLOCK FALSE

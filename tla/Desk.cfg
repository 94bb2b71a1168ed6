CONSTANTS
  Calls = {c1}
  Runs = {r1}
  Deciders = {k1, k2}
  NoRun = NoRun
  Drafts = {draft1}
  Tasks = {k1, k2}
  Tabs = {k1, k2}
  Incidents = {r1}
  NoIncident = NoIncident
  MaxQueue = 2
  MaxWrites = 3
  Callers = {k1, k2}
  Items = {1, 2}
  LiveLimit = 1
  IncidentLimit = 1
  QueueLimit = 1
  Openers = {k1, k2}
  NoRequest = NoRequest
  Asks = {k1, k2}
  Texts = {text1}
  NoText = NoText
  Profiles = {profile1}
  EarlierRun = EarlierRun
  NoRunId = NoRunId
  Overlays = {overlay1}
  NoOverlay = NoOverlay
  HistoryLimit = 2
SPECIFICATION MCSpec
CONSTRAINT MCBound
SYMMETRY MCSymmetry
VIEW MCView
INVARIANTS
  AnswersAreTrue
  GrantFollowsDecision
  PageTellsTheTruth
  AppliedThroughRuntimeWasWritten
  QuietSnapshotIsCurrent
  QuietTabsAgree
  ClosedWasFiled
  QuietShellIsLaunchers
  HomeIsReliable
PROPERTIES
  TokenClearedByChoice
  WaitingRunsShown
CHECK_DEADLOCK FALSE

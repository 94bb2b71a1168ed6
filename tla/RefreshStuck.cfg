CONSTANTS
  Drafts = {draft1}
  Tasks = {k1}
SPECIFICATION SettingsSpec
INVARIANT AppliedIsReviewed
CHECK_DEADLOCK FALSE

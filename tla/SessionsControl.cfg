SPECIFICATION Spec
CONSTANTS
  h1 = h1
  h2 = h2
  c1 = c1
  c2 = c2
  NoWorker = NoWorker
  Handlers = {h1, h2}
  Checkpoints = {c1, c2}
  Workers = {w1}
  WorkerReports = {"BLOCKED"}
  CloseStatuses = {"COMPLETED"}
  OtherStatuses = {"FAILED"}
CONSTRAINT SessionBound
SYMMETRY SessionSymmetry
INVARIANTS
  CalmSessionAgrees
PROPERTIES
  ReopenedOncePerApproval

SPECIFICATION Spec
CONSTANTS
  NoWorker = NoWorker
  Handlers = {h1}
  Checkpoints = {c1}
  Workers = {w1}
  WorkerReports = {"RUNNING", "COMPLETED"}
  CloseStatuses = {"COMPLETED"}
  OtherStatuses = {"FAILED"}
PROPERTIES
  WorkersRespectCheckpoints

SPECIFICATION Spec
CONSTANTS
  Runs = {r1}
  Approvers = {a1}
  Requests <- HighRiskRequests
  Decisions = {"ALLOW", "DEFER", "DENY"}
  RequirePolicyGrant = TRUE
  StoreOutcomes = {"ok"}
  ApprovalTTL = 1
  PruneLimit = 1
  MaxTime = 2
  MaxCrashes = 0
CHECK_DEADLOCK FALSE
INVARIANTS
  AppliedDenialHolds

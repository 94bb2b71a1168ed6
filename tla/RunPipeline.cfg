SPECIFICATION FairSpec
CONSTANTS
  Runs = {r1}
  Approvers = {a1, a2}
  Requests <- AllRequests
  Decisions = {"ALLOW", "DEFER", "DENY"}
  RequirePolicyGrant = TRUE
  StoreOutcomes = {"ok", "lost", "unacked"}
  ApprovalTTL = 1
  PruneLimit = 1
  MaxTime = 2
  MaxCrashes = 1
CHECK_DEADLOCK FALSE
INVARIANTS
  EffectsAuthorized
  ActsOnDurableDecision
  StoredRowsAreTrue
PROPERTIES
  OrdinaryRowsMoveOn
  GovernedSpec
  HandlerReturns

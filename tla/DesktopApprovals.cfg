SPECIFICATION MCSpec
CONSTANTS
  None = None
  q1 = q1
  q2 = q2
  h1 = h1
  h2 = h2
  Requests = {q1, q2}
  Holds = {h1, h2}
  Plans <- AllPlans
  Operators = {o1}
  Pollers = {p1}
  Decisions = {"ALLOW", "DEFER", "DENY"}
  MaxEvents = 2
  a = a
  b = b
  Contents <- MCContents
  Unset = Unset
  Fallback = a
  Offers <- MCOffers
  MaxChanges = 2
  MaxApprovals = 2
CHECK_DEADLOCK FALSE
CONSTRAINT MCBound
SYMMETRY GatewaySymmetry
INVARIANTS
  HeldForwardedOnlyIfGranted
  FilesClaimOnlyWhatHappened
  AppliedAsApproved
  ReceiptChain
  RoutedPolicyVerified
  PreviewDescribesChange
PROPERTIES
  ApprovalSpentOnce

---------------------------- MODULE GovernanceDesk ----------------------------
(***************************************************************************)
(* The governance workspace and the six owner workspaces together: owners  *)
(* route proposals, governance approves, denies, defers or escalates them, *)
(* and the owners execute what was approved and roll it back.              *)
(***************************************************************************)
EXTENDS IdentityOps, PlatformOps, GuardrailOps, PolicyOps, ComplianceOps, NetworkOps

\* What the review board of governance offers for a proposal.
AdminProposal(c) == [owner |-> Owner[queue[c].kind], status |-> queue[c].status,
                     approval |-> queue[c].approval, receipt |-> queue[c].receipt]
AdminReview(c) ==
  LET item == AdminProposal(c) IN
  [canDecide |-> item.status = "routed",
   canRoute |-> item.status = "routed" /\ routingLive,
   canCopy |-> item.approval # 0]

\* The desk looks a proposal up in all six queues.
DeskItem(c) == Queued(c) /\ queue[c].kind \in inUse

\* A decision: an approval draws a fresh approval receipt.
AdminDecision(c, s) ==
  IF s = "approved" THEN /\ Len(approvals) < MaxApprovals
                         /\ DecideAs(c, s, Len(approvals) + 1)
  ELSE DecideAs(c, s, 0)

AdminDecide(c, s) ==
  /\ DeskItem(c) /\ AdminReview(c).canDecide
  /\ s \in {"approved", "denied"}
  /\ AdminDecision(c, s)

AdminRoutingAction(c, s) ==
  /\ DeskItem(c) /\ AdminReview(c).canRoute
  /\ s \in {"deferred", "escalated"}
  /\ AdminDecision(c, s)

\* From the board to the workspace that owns the proposal.
OpenOwner(c) ==
  \/ IdentityOpen(c) \/ PlatformOpen(c) \/ GuardrailOpen(c)
  \/ PolicyOpen(c) \/ ComplianceOpen(c) \/ NetworkOpen(c)

DeskClick(c) ==
  \/ \E s \in {"approved", "denied"} : AdminDecide(c, s)
  \/ \E s \in {"deferred", "escalated"} : AdminRoutingAction(c, s)
  \/ OpenOwner(c)

\* The receipt the desk copies for a proposal that was approved.
DeskReceipts(c) == IF AdminReview(c).canCopy THEN {DecisionReceipt(c)} ELSE {}

AdminNext ==
  \/ LoadContext
  \/ IdentityNext \/ PlatformNext \/ GuardrailNext
  \/ PolicyNext \/ ComplianceNext \/ NetworkNext
  \/ \E c \in Changes : DeskClick(c)

AdminSpec == AdminInit /\ [][AdminNext]_adminVars

-----------------------------------------------------------------------------
(* Properties *)

\* Whatever is executed was approved: the approval its execution names was given to this
\* very change with this very content.
AppliedAsApproved ==
  \A e \in executions :
    /\ e.approval \in DOMAIN approvals
    /\ approvals[e.approval] = [change |-> e.change, content |-> e.content]

\* An approval is spent at most once, however often a proposal is saved, simulated and
\* routed again between its approval and its execution.
ApprovalSpentOnce ==
  [][\A c \in Changes : Queued(c) /\ queue[c].status = "approved" /\ queue'[c].status = "applied"
       => \A e \in executions : e.approval # queue[c].approval]_adminVars

Standing == {"approved", "applied", "rolled_back", "expired", "renewed"}

\* The receipts the desk and the owner hand out for a proposal that stands approved say
\* the truth: the decision they name was given to this content, and what they say was
\* executed or rolled back was executed under that decision.  (A proposal that was saved
\* or simulated again still hands out its old receipts, with its new content.)
CopiedReceipts(c) ==
  LET w == Owner[queue[c].kind] IN
  CASE w = "identity" -> IdentityCopied(c)
    [] w = "platform" -> PlatformCopied(c)
    [] w = "guardrail" -> GuardrailCopied(c)
    [] w = "policy" -> PolicyCopied(c)
    [] w = "compliance" -> ComplianceCopied(c)
    [] w = "network" -> NetworkCopied(c)

ReceiptChain ==
  \A c \in Changes : Queued(c) /\ queue[c].status \in Standing =>
    \A r \in CopiedReceipts(c) \cup DeskReceipts(c) :
      /\ r.approval \in DOMAIN approvals
      /\ approvals[r.approval] = [change |-> c, content |-> r.content]
      /\ r.what # "decision" =>
           [change |-> c, content |-> r.content, approval |-> r.approval] \in executions

\* A policy proposal reaches governance only with a verify gate passed on the content it
\* is routed with, although the verdict is kept apart from the content in two places.
RoutedPolicyVerified ==
  \A c \in Changes :
    Queued(c) /\ queue[c].kind = "policy" /\ queue[c].status \in {"routed"} \cup Standing =>
      LET check == queue[c].checked IN
      check.passing /\ check.change = c /\ check.content = queue[c].content

PreviewsShown ==
  [identity |-> IdentityPreviewShown, policy |-> PolicyPreviewShown,
   compliance |-> CompliancePreviewShown, network |-> NetworkPreviewShown,
   platform |-> PlatformPreviewShown, guardrail |-> GuardrailPreviewShown]

\* The dry-run a preview board shows is of a proposal still in the queue, and is about
\* what that proposal says now. The platform and guardrail boards promise only the
\* first: their toolbars rebuild the selected proposal from the draft when they route.
PreviewDescribesChange ==
  \A w \in DOMAIN PreviewsShown :
    LET p == PreviewsShown[w] IN
    p.change # 0 =>
      /\ Queued(p.change)
      /\ w \in {"platform", "guardrail"} \/ queue[p.change].content = p.content
=============================================================================

---------------------------- MODULE PlatformOps -----------------------------
(***************************************************************************)
(* The platform workspace: proposals to promote a release or to roll one   *)
(* back. The release comes from the pipeline's last gate when the operator *)
(* leaves it empty, so the same draft can come to mean another release.    *)
(***************************************************************************)
EXTENDS AdminQueue

PlatformView == adminView["platform"]

\* The release of the environment's last gate; there may be none.
PlatformDefault == IF offered["platform"] = <<>> THEN Unset ELSE Head(offered["platform"])
PlatformDraft(d) == [d EXCEPT !.content = IF @ = Unset THEN PlatformDefault ELSE @]

\* The proposals the boards list, and the one they show: the selected one, else the first.
PlatformQueue == QueuedIn("platform")
PlatformSelected ==
  IF PlatformView.selected \in PlatformQueue THEN PlatformView.selected ELSE FirstOf(PlatformQueue)

\* The board's fields take any text.
PlatformFields == Typed("platform")

PlatformEdit ==
  \E d \in PlatformFields : EditAs("platform", PlatformDraft(d), TRUE, PlatformView)

PlatformItem(c, d, s) == Rebuilt("platform", c, PlatformDraft(d).content, s)
PlatformValid(d) ==
  d.content # Unset /\ d.reason
PlatformSimulation(c, d) == PreviewOf("platform", c, d.content)

\* What the preview board shows: the workspace's last simulation, whatever is selected.
PlatformPreviewShown == PlatformView.preview

\* The receipts of a proposal, and those that its copy buttons hand out.
PlatformReceipts(c) == {DecisionReceipt(c), ExecutionReceipt(c), RecoveryReceipt(c)}
PlatformCopied(c) == {r \in PlatformReceipts(c) : HasReceipt(c, r.what)}

PlatformLoad(c) == LoadAs("platform", c, PlatformDraft(DraftOf(c)), LoadedView("platform", c))

PlatformSave ==
  LET d == PlatformDraft(adminDraft["platform"]) IN
  /\ PlatformValid(d)
  /\ SaveAs("platform", PlatformItem(SelectedOf("platform"), d, "draft"), PlatformView)

\* A card's proposal is loaded over the draft first, and loads into a valid one.  The
\* toolbar's button names no proposal: it takes the draft as it stands, under the
\* selected number.
PlatformSimulate(card) ==
  LET c == IF card # 0 THEN card ELSE SelectedOf("platform")
      view == IF card = 0 THEN PlatformView ELSE LoadedView("platform", card)
      stored == IF card = 0 THEN adminDraft["platform"] ELSE PlatformDraft(DraftOf(card))
      d == PlatformDraft(stored)
  IN  /\ PlatformValid(d)
      /\ SimulateAs("platform", c, PlatformItem(c, d, "simulated"), stored,
                     PlatformSimulation(c, d).content, view)

\* A card hands over its proposal; the toolbar rebuilds the selected one from the draft.
PlatformRoute(card) ==
  LET c == IF card # 0 THEN card ELSE SelectedOf("platform")
      sim == PlatformView.preview
  IN  /\ sim.kind = "platform" /\ (card # 0 => sim.change = card)
      /\ RouteAs("platform", c, IF card # 0 THEN queue[card]
                            ELSE PlatformItem(c, adminDraft["platform"], "simulated"), PlatformView)

PlatformOpen(c) == PlatformLoad(c)

PlatformApply(c) == queue[c].receipt = 0 /\ ApplyAs("platform", c, PlatformView)

PlatformRecover(c) ==
  /\ Recoverable(queue[c])
  /\ RecoverAs("platform", c, "rolled_back", "rollback")

\* Which buttons the cards and the boards of the workspace enable for a proposal.
PlatformCardRoutes(item) ==
  item.status \notin {"routed", "approved", "applied", "rolled_back", "deferred", "escalated"}
PlatformCanApply(item) == Appliable(item) /\ item.receipt = 0
PlatformCanRecover(item) == Recoverable(item)

PlatformClick ==
  \/ PlatformSave
  \/ PlatformSimulate(0) \/ PlatformRoute(0)
  \/ \E c \in PlatformQueue :
       \/ PlatformLoad(c)
       \/ PlatformSimulate(c)
       \/ PlatformCardRoutes(queue[c]) /\ PlatformRoute(c)
       \/ /\ c = PlatformSelected
          /\ \/ PlatformCanApply(queue[c]) /\ PlatformApply(c)
             \/ PlatformCanRecover(queue[c]) /\ PlatformRecover(c)

PlatformNext == PlatformEdit \/ TypeReason("platform") \/ PlatformClick
=============================================================================

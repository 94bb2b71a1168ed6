---------------------------- MODULE GuardrailOps ----------------------------
(***************************************************************************)
(* The guardrail workspace: proposals to tighten or relax the boundary of  *)
(* an execution profile.                                                   *)
(***************************************************************************)
EXTENDS AdminQueue

GuardrailView == adminView["guardrail"]

\* The scope, profile and boundary of the last run, or constants of the code.
GuardrailDefault == IF offered["guardrail"] = <<>> THEN Fallback ELSE Head(offered["guardrail"])
GuardrailDraft(d) == [d EXCEPT !.content = IF @ = Unset THEN GuardrailDefault ELSE @]

\* The proposals the boards list, and the one they show: the selected one, else the first.
GuardrailQueue == QueuedIn("guardrail")
GuardrailSelected ==
  IF GuardrailView.selected \in GuardrailQueue THEN GuardrailView.selected ELSE FirstOf(GuardrailQueue)

\* The board's fields take any text.
GuardrailFields == Typed("guardrail")

GuardrailEdit ==
  \E d \in GuardrailFields : EditAs("guardrail", GuardrailDraft(d), TRUE, GuardrailView)

GuardrailItem(c, d, s) == Rebuilt("guardrail", c, GuardrailDraft(d).content, s)
GuardrailValid(d) ==
  d.content # Unset /\ d.reason
GuardrailSimulation(c, d) == PreviewOf("guardrail", c, d.content)

\* What the preview board shows: the workspace's last simulation, whatever is selected.
GuardrailPreviewShown == GuardrailView.preview

\* The receipts of a proposal, and those that its copy buttons hand out.
GuardrailReceipts(c) == {DecisionReceipt(c), ExecutionReceipt(c), RecoveryReceipt(c)}
GuardrailCopied(c) == {r \in GuardrailReceipts(c) : HasReceipt(c, r.what)}

GuardrailLoad(c) == LoadAs("guardrail", c, GuardrailDraft(DraftOf(c)), LoadedView("guardrail", c))

GuardrailSave ==
  LET d == GuardrailDraft(adminDraft["guardrail"]) IN
  /\ GuardrailValid(d)
  /\ SaveAs("guardrail", GuardrailItem(SelectedOf("guardrail"), d, "draft"), GuardrailView)

\* A card's proposal is loaded over the draft first; the toolbar's button names none
\* and takes the draft as it stands, under the selected number.  What was queued loads
\* into a valid draft.
GuardrailSimulate(card) ==
  LET c == IF card # 0 THEN card ELSE SelectedOf("guardrail")
      view == IF card = 0 THEN GuardrailView ELSE LoadedView("guardrail", card)
      stored == IF card = 0 THEN adminDraft["guardrail"] ELSE GuardrailDraft(DraftOf(card))
      d == GuardrailDraft(stored)
  IN  /\ GuardrailValid(d)
      /\ SimulateAs("guardrail", c, GuardrailItem(c, d, "simulated"), stored,
                     GuardrailSimulation(c, d).content, view)

\* A card hands over its proposal; the toolbar rebuilds the selected one from the draft.
GuardrailRoute(card) ==
  LET c == IF card # 0 THEN card ELSE SelectedOf("guardrail")
      sim == GuardrailView.preview
  IN  /\ sim.kind = "guardrail" /\ (card # 0 => sim.change = card)
      /\ RouteAs("guardrail", c, IF card # 0 THEN queue[card]
                            ELSE GuardrailItem(c, adminDraft["guardrail"], "simulated"), GuardrailView)

GuardrailOpen(c) == GuardrailLoad(c)

GuardrailApply(c) == queue[c].receipt = 0 /\ ApplyAs("guardrail", c, [GuardrailView EXCEPT !.reason = FALSE])

GuardrailRecover(c) ==
  /\ Recoverable(queue[c])
  /\ RecoverAs("guardrail", c, "rolled_back", "rollback")

\* Which buttons the cards and the boards of the workspace enable for a proposal.
GuardrailCardRoutes(item) ==
  item.status \notin {"routed", "approved", "applied", "denied", "deferred", "escalated", "rolled_back"}
GuardrailCanApply(item) == Appliable(item) /\ item.receipt = 0
GuardrailCanRecover(item) == Recoverable(item)

GuardrailClick ==
  \/ GuardrailSave
  \/ GuardrailSimulate(0) \/ GuardrailRoute(0)
  \/ \E c \in GuardrailQueue :
       \/ GuardrailLoad(c)
       \/ GuardrailSimulate(c)
       \/ GuardrailCardRoutes(queue[c]) /\ GuardrailRoute(c)
       \/ /\ c = GuardrailSelected
          /\ \/ GuardrailCanApply(queue[c]) /\ GuardrailApply(c)
             \/ GuardrailCanRecover(queue[c]) /\ GuardrailRecover(c)

GuardrailNext == GuardrailEdit \/ TypeReason("guardrail") \/ GuardrailClick
=============================================================================

------------------------------ MODULE PolicyOps ------------------------------
(***************************************************************************)
(* The policy workspace: proposals to load or to activate a policy pack.   *)
(* Between the simulation and the routing there is a verify gate; its      *)
(* verdict is kept with the proposal and in the workspace.                 *)
(***************************************************************************)
EXTENDS AdminQueue

PolicyView == adminView["policy"]

\* The current pack; there may be none.
PolicyDefault == IF offered["policy"] = <<>> THEN Unset ELSE Head(offered["policy"])
PolicyDraft(d) == [d EXCEPT !.content = IF @ = Unset THEN PolicyDefault ELSE @]

\* The proposals the boards list, and the one they show: the selected one.
PolicyQueue == QueuedIn("policy")
PolicySelected ==
  IF PolicyView.selected \in PolicyQueue THEN PolicyView.selected ELSE FirstOf(PolicyQueue)

\* The board offers the loaded packs and the empty choice.
PolicyFields ==
  {d \in Typed("policy") : \/ d.content \in {adminDraft["policy"].content, Unset}
                    \/ \E i \in DOMAIN offered["policy"] : offered["policy"][i] = d.content}

\* Typing drops the simulation and the verdict of the workspace, not the proposal's.
PolicyEdit ==
  \E d \in PolicyFields :
    EditAs("policy", PolicyDraft(d), TRUE, [PolicyView EXCEPT !.checked = NoCheck])

PolicyItem(c, d, s) == Rebuilt("policy", c, PolicyDraft(d).content, s)
\* Mutant: a changed proposal keeps its verdict.
KeepsCheck(item) == item

Unchecked(item) == [item EXCEPT !.checked = NoCheck]

\* A pack must be one of the loaded catalog, when a catalog is loaded.
PolicyValid(d) ==
  /\ d.content # Unset /\ d.reason
  /\ offered["policy"] # <<>> => \E i \in DOMAIN offered["policy"] : offered["policy"][i] = d.content
PolicySimulation(c, d) == PreviewOf("policy", c, d.content)

\* What the preview board shows: the workspace's last simulation, whatever is selected.
PolicyPreviewShown == PolicyView.preview

\* The receipts of a proposal, and those that its copy buttons hand out.
PolicyReceipts(c) == {DecisionReceipt(c), ExecutionReceipt(c), RecoveryReceipt(c)}
PolicyCopied(c) == {r \in PolicyReceipts(c) : HasReceipt(c, r.what)}

\* The verdict that counts for a proposal: the workspace's if it is about it, else its own.
CheckFor(c) ==
  CASE c = 0 -> NoCheck
    [] c # 0 /\ PolicyView.checked.change = c -> PolicyView.checked
    [] OTHER -> IF Queued(c) THEN queue[c].checked ELSE NoCheck

\* Compile and lint readiness come from the loaded catalog; the golden cases fail when
\* the simulation is another proposal's.
Verification(c, d, sim, ready) ==
  [change |-> c, content |-> d.content, passing |-> ready /\ sim.change = c]

PolicyLoadedView(c) == [LoadedView("policy", c) EXCEPT !.checked = CheckFor(c)]
PolicyLoad(c) == LoadAs("policy", c, PolicyDraft(DraftOf(c)), PolicyLoadedView(c))

PolicySave ==
  LET d == PolicyDraft(adminDraft["policy"]) IN
  /\ PolicyValid(d)
  /\ SaveAs("policy", Unchecked(PolicyItem(SelectedOf("policy"), d, "draft")),
            [PolicyView EXCEPT !.checked = NoCheck])

\* The toolbar names the selected proposal, as a card does: it is loaded over the draft.
PolicySimulate(card) ==
  LET view == IF card = 0 THEN PolicyView ELSE PolicyLoadedView(card)
      stored == IF card = 0 THEN adminDraft["policy"] ELSE PolicyDraft(DraftOf(card))
      d == PolicyDraft(stored)
  IN  \/ /\ PolicyValid(d)
         /\ SimulateAs("policy", card, Unchecked(PolicyItem(card, d, "simulated")), stored,
                       PolicySimulation(card, d).content, [view EXCEPT !.checked = NoCheck])
      \/ /\ ~PolicyValid(d) /\ card # 0
         /\ LoadAs("policy", card, stored, view)

\* The verify gate: it needs the simulation of the very proposal, which it rebuilds.
PolicyVerify(card, ready) ==
  LET view == PolicyLoadedView(card)
      stored == PolicyDraft(DraftOf(card))
      d == PolicyDraft(stored)
      check == Verification(card, d, view.preview, ready)
      status == IF check.passing THEN "verified" ELSE "verification_failed"
  IN  \/ /\ PolicyValid(d) /\ view.preview.change = card
         /\ WriteAs("policy", card, [PolicyItem(card, d, status) EXCEPT !.simulated = TRUE,
                                                                       !.checked = check],
                    stored, [view EXCEPT !.checked = check])
      \/ /\ ~(PolicyValid(d) /\ view.preview.change = card)
         /\ LoadAs("policy", card, stored, view)

\* A simulation, of the workspace or kept with the proposal, and a passing verdict.
PolicyRoute(card) ==
  LET check == CheckFor(card) IN
  /\ PolicyView.preview.change = card \/ queue[card].simulated
  /\ check.passing
  /\ RouteAs("policy", card, [queue[card] EXCEPT !.checked = check],
             [PolicyView EXCEPT !.checked = check])

PolicyOpen(c) == PolicyLoad(c)

PolicyApply(c) ==
  queue[c].receipt = 0 /\ ApplyAs("policy", c, [PolicyView EXCEPT !.reason = FALSE])

PolicyRecover(c) ==
  /\ Recoverable(queue[c])
  /\ RecoverAs("policy", c, "rolled_back", "rollback")

\* Which buttons the cards and the boards of the workspace enable for a proposal.
PolicyCardRoutes(c) == CheckFor(c).passing
PolicyCanApply(item) == Appliable(item) /\ item.receipt = 0
PolicyCanRecover(item) == Recoverable(item)

PolicyClick ==
  \/ PolicySave
  \/ PolicySimulate(SelectedOf("policy"))
  \/ \E c \in PolicyQueue :
       \/ PolicyLoad(c)
       \/ PolicySimulate(c)
       \/ \E ready \in BOOLEAN : PolicyVerify(c, ready)
       \/ PolicyCardRoutes(c) /\ PolicyRoute(c)
       \/ /\ c = PolicySelected
          /\ \/ PolicyCanApply(queue[c]) /\ PolicyApply(c)
             \/ PolicyCanRecover(queue[c]) /\ PolicyRecover(c)

PolicyNext == PolicyEdit \/ TypeReason("policy") \/ PolicyClick
=============================================================================

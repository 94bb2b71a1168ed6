----------------------------- MODULE NetworkOps -----------------------------
(***************************************************************************)
(* The network workspace: requests to probe an endpoint across a boundary  *)
(* path.                                                                   *)
(***************************************************************************)
EXTENDS AdminQueue

NetworkView == adminView["network"]

\* The first endpoint of the loaded scope; there may be none.
NetworkDefault == IF offered["network"] = <<>> THEN Unset ELSE Head(offered["network"])
NetworkDraft(d) == [d EXCEPT !.content = IF @ = Unset THEN NetworkDefault ELSE @]

\* The proposals the boards list, and the one they show: the selected one, else the first.
NetworkQueue == QueuedIn("network")
NetworkSelected ==
  IF NetworkView.selected \in NetworkQueue THEN NetworkView.selected ELSE FirstOf(NetworkQueue)

\* The board offers the loaded endpoints and the empty choice.
NetworkFields ==
  {d \in Typed("network") : \/ d.content \in {adminDraft["network"].content, Unset}
                    \/ \E i \in DOMAIN offered["network"] : offered["network"][i] = d.content}

NetworkEdit ==
  \E d \in NetworkFields : EditAs("network", NetworkDraft(d), TRUE, NetworkView)

NetworkItem(c, d, s) == Rebuilt("network", c, NetworkDraft(d).content, s)
\* The endpoint must be one the loaded scope offers, when it offers any.
NetworkValid(d) ==
  /\ d.content # Unset /\ d.reason
  /\ offered["network"] # <<>> =>
       \E i \in DOMAIN offered["network"] : offered["network"][i] = d.content
\* Mutant: the dry-run is about the stored draft, not the loaded one.
NetworkSimulationOfDraft(c, d) == PreviewOf("network", c, adminDraft["network"].content)
NetworkSimulation(c, d) == PreviewOf("network", c, d.content)

\* What the preview board shows: the workspace's last simulation, whatever is selected.
NetworkPreviewShown == NetworkView.preview

\* The receipts of a proposal, and those that its copy buttons hand out.
NetworkReceipts(c) == {DecisionReceipt(c), ExecutionReceipt(c), RecoveryReceipt(c)}
NetworkCopied(c) == {r \in NetworkReceipts(c) : HasReceipt(c, r.what)}

\* Loading a request keeps the rollback reason that was typed for another one.
NetworkLoadedView(c) == [LoadedView("network", c) EXCEPT !.reason = NetworkView.reason]
NetworkLoad(c) == LoadAs("network", c, NetworkDraft(DraftOf(c)), NetworkLoadedView(c))

NetworkSave ==
  LET d == NetworkDraft(adminDraft["network"]) IN
  /\ NetworkValid(d)
  /\ SaveAs("network", NetworkItem(SelectedOf("network"), d, "draft"), NetworkView)

\* The toolbar names the selected proposal, as a card does: it is loaded over the draft.
NetworkSimulate(card) ==
  LET c == IF card # 0 THEN card ELSE SelectedOf("network")
      view == IF card = 0 THEN NetworkView ELSE NetworkLoadedView(card)
      stored == IF card = 0 THEN adminDraft["network"] ELSE NetworkDraft(DraftOf(card))
      d == NetworkDraft(stored)
  IN  \/ /\ NetworkValid(d)
         /\ SimulateAs("network", c, NetworkItem(c, d, "simulated"), stored,
                       NetworkSimulation(c, d).content, view)
      \/ /\ ~NetworkValid(d) /\ card # 0
         /\ LoadAs("network", card, stored, view)

\* Only with an empty queue is there no proposal to hand over.
NetworkRoute(card) ==
  LET c == IF card # 0 THEN card ELSE SelectedOf("network")
      sim == NetworkView.preview
  IN  /\ sim.kind = "network" /\ (card # 0 => sim.change = card)
      /\ RouteAs("network", c, IF card # 0 THEN queue[card]
                            ELSE NetworkItem(c, adminDraft["network"], "simulated"), NetworkView)

NetworkOpen(c) == NetworkLoad(c)

NetworkApply(c) ==
  queue[c].receipt = 0 /\ ApplyAs("network", c, [NetworkView EXCEPT !.reason = FALSE])

NetworkRecover(c) ==
  /\ Recoverable(queue[c])
  /\ RecoverAs("network", c, "rolled_back", "rollback")

\* Which buttons the cards and the boards of the workspace enable for a proposal.
NetworkCardRoutes(item) ==
  item.status \notin {"routed", "approved", "applied", "denied", "deferred", "escalated"}
NetworkCanApply(item) == Appliable(item) /\ item.receipt = 0
NetworkCanRecover(item) == Recoverable(item)

NetworkClick ==
  \/ NetworkSave
  \/ LET s == SelectedOf("network") IN NetworkSimulate(s) \/ NetworkRoute(s)
  \/ \E c \in NetworkQueue :
       \/ NetworkLoad(c)
       \/ NetworkSimulate(c)
       \/ NetworkCardRoutes(queue[c]) /\ NetworkRoute(c)
       \/ /\ c = NetworkSelected
          /\ \/ NetworkCanApply(queue[c]) /\ NetworkApply(c)
             \/ NetworkCanRecover(queue[c]) /\ NetworkRecover(c)

NetworkNext == NetworkEdit \/ TypeReason("network") \/ NetworkClick
=============================================================================

----------------------------- MODULE IdentityOps -----------------------------
(***************************************************************************)
(* The identity workspace: proposals to change an authority tier and       *)
(* proposals to issue, change or revoke a grant.  It is the only workspace *)
(* with two editors and one selection, and its route button hands over the *)
(* selected proposal of its kind, not the draft.                           *)
(***************************************************************************)
EXTENDS AdminQueue

IdentityKinds == {"authority", "grant"}
IdentityView == adminView["identity"]

\* The subject and scope of the active identity; there may be none.
IdentityDefault(k) == IF offered[k] = <<>> THEN Unset ELSE Head(offered[k])
IdentityDraft(k, d) == [d EXCEPT !.content = IF @ = Unset THEN IdentityDefault(k) ELSE @]

\* The proposals the boards list, and the one they show: the selected one, else the first.
IdentityQueue == QueuedIn("identity")
IdentitySelected ==
  IF IdentityView.selected \in IdentityQueue THEN IdentityView.selected ELSE FirstOf(IdentityQueue)

\* The board's fields take any text.
IdentityFields(k) == Typed(k)

\* Typing in one editor leaves a simulation of the other kind in place.
IdentityEdit ==
  \E k \in IdentityKinds : \E d \in IdentityFields(k) :
    EditAs(k, IdentityDraft(k, d), IdentityView.preview.kind = k, IdentityView)

IdentityItem(k, c, d, s) == Rebuilt(k, c, IdentityDraft(k, d).content, s)
IdentityValid(d) == d.content # Unset /\ d.reason
IdentitySimulation(k, c, d) == PreviewOf(k, c, d.content)

\* What the preview board shows: the workspace's last simulation, whatever is selected.
IdentityPreviewShown == IdentityView.preview

\* The receipts of a proposal, and those that its copy buttons hand out.
IdentityReceipts(c) == {DecisionReceipt(c), ExecutionReceipt(c), RecoveryReceipt(c)}
IdentityCopied(c) == {r \in IdentityReceipts(c) : HasReceipt(c, r.what)}

IdentityLoad(c) ==
  \E k \in IdentityKinds : LoadAs(k, c, IdentityDraft(k, DraftOf(c)), LoadedView("identity", c))

IdentitySave ==
  \E k \in IdentityKinds :
    LET d == IdentityDraft(k, adminDraft[k]) IN
    /\ IdentityValid(d)
    /\ SaveAs(k, IdentityItem(k, SelectedOf(k), d, "draft"), IdentityView)

\* With a card's proposal, or with the selected proposal of the kind, its content is
\* loaded over the draft first; what was queued loads into a valid draft.
IdentitySimulate(k, card) ==
  LET c == IF card # 0 THEN card ELSE SelectedOf(k)
      view == IF c = 0 THEN IdentityView ELSE LoadedView("identity", c)
      stored == IF c = 0 THEN adminDraft[k] ELSE IdentityDraft(k, DraftOf(c))
      d == IdentityDraft(k, stored)
  IN  /\ IdentityValid(d)
      /\ SimulateAs(k, c, IdentityItem(k, c, d, "simulated"), stored,
                     IdentitySimulation(k, c, d).content, view)

\* The draft is routed only when no proposal of the kind is selected.
IdentityRoute(k, card) ==
  LET c == IF card # 0 THEN card ELSE SelectedOf(k)
      sim == IdentityView.preview
  IN  /\ sim.kind = k /\ (c # 0 => sim.change = c)
      /\ RouteAs(k, c, IF c # 0 THEN queue[c] ELSE IdentityItem(k, 0, adminDraft[k], "simulated"),
                 IdentityView)

\* Governance opens the owner's workspace on a proposal: it is selected, not loaded.
IdentityOpen(c) ==
  /\ \E k \in IdentityKinds : LoadAs(k, c, adminDraft[k], [IdentityView EXCEPT !.selected = c])

IdentityApply(c) == \E k \in IdentityKinds : ApplyAs(k, c, IdentityView)

IdentityRecover(c, r) ==
  /\ Recoverable(queue[c])
  /\ r = "expiry" => queue[c].kind = "grant"
  /\ \E k \in IdentityKinds :
       RecoverAs(k, c, IF r = "expiry" THEN "expired" ELSE "rolled_back", r)

\* Which buttons the cards and the boards of the workspace enable for a proposal.
IdentityCardRoutes(item) == item.status \in {"simulated", "deferred", "escalated"}
IdentityCanApply(item) == Appliable(item) /\ item.receipt = 0
IdentityCanRecover(item, r) ==
  Recoverable(item) /\ (r = "rollback" \/ (r = "expiry" /\ item.kind = "grant"))

IdentityClick ==
  \/ IdentitySave
  \/ \E k \in IdentityKinds : IdentitySimulate(k, 0) \/ IdentityRoute(k, 0)
  \/ \E c \in IdentityQueue :
       \/ IdentityLoad(c)
       \/ IdentitySimulate(queue[c].kind, c)
       \/ IdentityCardRoutes(queue[c]) /\ IdentityRoute(queue[c].kind, c)
       \/ /\ c = IdentitySelected
          /\ \/ IdentityCanApply(queue[c]) /\ IdentityApply(c)
             \/ \E r \in {"rollback", "expiry"} :
                  IdentityCanRecover(queue[c], r) /\ IdentityRecover(c, r)

IdentityNext == IdentityEdit \/ TypeReason("identity") \/ IdentityClick
=============================================================================

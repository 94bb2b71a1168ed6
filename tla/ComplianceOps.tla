--------------------------- MODULE ComplianceOps ----------------------------
(***************************************************************************)
(* The compliance workspace: proposals for an attestation or an exception. *)
(* An applied change expires, and an expired one can be renewed.           *)
(***************************************************************************)
EXTENDS AdminQueue

ComplianceView == adminView["compliance"]

\* The first candidate the loaded scope offers; there may be none.
ComplianceDefault == IF offered["compliance"] = <<>> THEN Unset ELSE Head(offered["compliance"])
ComplianceDraft(d) == [d EXCEPT !.content = IF @ = Unset THEN ComplianceDefault ELSE @]

\* The proposals the boards list, and the one they show: the selected one, else the first.
ComplianceQueue == QueuedIn("compliance")
ComplianceSelected ==
  IF ComplianceView.selected \in ComplianceQueue THEN ComplianceView.selected ELSE FirstOf(ComplianceQueue)

\* The board offers the loaded candidates and the empty choice.
ComplianceFields ==
  {d \in Typed("compliance") : \/ d.content \in {adminDraft["compliance"].content, Unset}
                    \/ \E i \in DOMAIN offered["compliance"] : offered["compliance"][i] = d.content}

ComplianceEdit ==
  \E d \in ComplianceFields : EditAs("compliance", ComplianceDraft(d), TRUE, ComplianceView)

ComplianceItem(c, d, s) == Rebuilt("compliance", c, ComplianceDraft(d).content, s)
\* A subject must be one the loaded scope offers, when it offers any.
ComplianceValid(d) ==
  /\ d.content # Unset /\ d.reason
  /\ offered["compliance"] # <<>> =>
       \E i \in DOMAIN offered["compliance"] : offered["compliance"][i] = d.content
ComplianceSimulation(c, d) == PreviewOf("compliance", c, d.content)

\* What the preview board shows: the workspace's last simulation, whatever is selected.
CompliancePreviewShown == ComplianceView.preview

\* The receipts of a proposal, and those that its copy buttons hand out.
ComplianceReceipts(c) == {DecisionReceipt(c), ExecutionReceipt(c), RecoveryReceipt(c)}
ComplianceCopied(c) == {r \in ComplianceReceipts(c) : HasReceipt(c, r.what)}

ComplianceLoad(c) == LoadAs("compliance", c, ComplianceDraft(DraftOf(c)), LoadedView("compliance", c))

ComplianceSave ==
  LET d == ComplianceDraft(adminDraft["compliance"]) IN
  /\ ComplianceValid(d)
  /\ SaveAs("compliance", ComplianceItem(SelectedOf("compliance"), d, "draft"),
            [ComplianceView EXCEPT !.reason = FALSE])

\* The toolbar names the selected proposal, as a card does: it is loaded over the draft.
ComplianceSimulate(card) ==
  LET c == IF card # 0 THEN card ELSE SelectedOf("compliance")
      view == IF card = 0 THEN ComplianceView ELSE LoadedView("compliance", card)
      stored == IF card = 0 THEN adminDraft["compliance"] ELSE ComplianceDraft(DraftOf(card))
      d == ComplianceDraft(stored)
  IN  \/ /\ ComplianceValid(d)
         /\ SimulateAs("compliance", c, ComplianceItem(c, d, "simulated"), stored,
                       ComplianceSimulation(c, d).content, [view EXCEPT !.reason = FALSE])
      \/ /\ ~ComplianceValid(d) /\ card # 0
         /\ LoadAs("compliance", card, stored, view)

\* Only with an empty queue is there no proposal to hand over.
ComplianceRoute(card) ==
  LET c == IF card # 0 THEN card ELSE SelectedOf("compliance")
      sim == ComplianceView.preview
  IN  /\ sim.kind = "compliance" /\ (card # 0 => sim.change = card)
      /\ RouteAs("compliance", c, IF card # 0 THEN queue[card]
                            ELSE ComplianceItem(c, adminDraft["compliance"], "simulated"),
                 [ComplianceView EXCEPT !.reason = FALSE])

ComplianceOpen(c) == ComplianceLoad(c)

ComplianceApply(c) ==
  queue[c].receipt = 0 /\ ApplyAs("compliance", c, [ComplianceView EXCEPT !.reason = FALSE])

\* Expiry is for an applied change, renewal for one that was expired.
ComplianceRecover(c, r) ==
  /\ queue[c].receipt # 0
  /\ r = "expiry" => Recoverable(queue[c])
  /\ r = "renew" => queue[c].status = "expired" /\ queue[c].recovery = "expiry"
  /\ RecoverAs("compliance", c, IF r = "renew" THEN "renewed" ELSE "expired", r)

\* Which buttons the cards and the boards of the workspace enable for a proposal.
ComplianceCardRoutes(item) ==
  item.status \notin {"routed", "approved", "applied", "denied", "deferred", "escalated"}
ComplianceCanApply(item) == Appliable(item) /\ item.receipt = 0
ComplianceCanRecover(item, r) ==
  \/ r = "expiry" /\ Recoverable(item)
  \/ r = "renew" /\ item.status = "expired" /\ item.recovery = "expiry"

ComplianceClick ==
  \/ ComplianceSave
  \/ LET s == SelectedOf("compliance") IN ComplianceSimulate(s) \/ ComplianceRoute(s)
  \/ \E c \in ComplianceQueue :
       \/ ComplianceLoad(c)
       \/ ComplianceSimulate(c)
       \/ ComplianceCardRoutes(queue[c]) /\ ComplianceRoute(c)
       \/ /\ c = ComplianceSelected
          /\ \/ ComplianceCanApply(queue[c]) /\ ComplianceApply(c)
             \/ \E r \in {"expiry", "renew"} :
                  ComplianceCanRecover(queue[c], r) /\ ComplianceRecover(c, r)

ComplianceNext == ComplianceEdit \/ TypeReason("compliance") \/ ComplianceClick
=============================================================================

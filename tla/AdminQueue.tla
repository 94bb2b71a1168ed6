------------------------------ MODULE AdminQueue ------------------------------
(***************************************************************************)
(* The admin change proposals of the desktop: what the six owner           *)
(* workspaces (identity, platform, guardrail, policy, compliance, network) *)
(* share.  Each of them keeps a queue of proposals, a draft per kind of    *)
(* proposal, the proposal that is selected and the last simulation it ran. *)
(* A proposal is drafted, simulated, routed to governance, decided there,  *)
(* applied and possibly rolled back; all of it is state of the page.       *)
(*                                                                         *)
(* The fields that say what a change does (subject, scope, tier, pack,     *)
(* endpoint, ...) are one value of Contents.  Identifiers of changes and   *)
(* of approval receipts are numbered in the order they are drawn.          *)
(* `approvals` and `executions` record what governance approved and what   *)
(* was executed: every receipt the page hands out names an entry of them.  *)
(***************************************************************************)
EXTENDS Naturals, Sequences

CONSTANTS Contents,      \* what a change may do
          Unset,         \* a field the operator has not filled in
          Fallback,      \* the content the guardrail code falls back on
          Offers,        \* the option lists the loaded context may hold
          MaxChanges,    \* bound: proposals drawn in a behaviour
          MaxApprovals   \* bound: approval receipts drawn in a behaviour

ASSUME ContentsAssumption == Unset \notin Contents /\ Fallback \in Contents
ASSUME OffersAssumption == Offers \subseteq Seq(Contents)
ASSUME BoundsAssumption == MaxChanges \in Nat /\ MaxApprovals \in Nat

Kinds == {"authority", "grant", "platform", "guardrail", "policy", "compliance", "network"}

\* The workspace that owns a kind: identity owns two, the others one each.
Owner == [authority |-> "identity", grant |-> "identity", platform |-> "platform",
          guardrail |-> "guardrail", policy |-> "policy", compliance |-> "compliance",
          network |-> "network"]
Workspaces == {"identity", "platform", "guardrail", "policy", "compliance", "network"}

Statuses == {"draft", "simulated", "verified", "verification_failed", "routed", "approved",
             "denied", "deferred", "escalated", "applied", "rolled_back", "expired", "renewed"}

VARIABLES queue,         \* change -> its proposal, or NoItem while the number is free
          adminDraft,    \* kind -> the draft in its editor
          adminView,     \* workspace -> [selected, preview, checked, reason]
          offered,       \* kind -> the options its current context offers
          routingLive,   \* whether provider routing is live (defer and escalate are offered)
          inUse,         \* the kinds the operator works on in this behaviour
          approvals,     \* the approvals governance gave, in order
          executions     \* the executions that were recorded

adminVars == <<queue, adminDraft, adminView, offered, routingLive, inUse, approvals, executions>>

Changes == 1..MaxChanges
NoPreview == [change |-> 0, content |-> Unset, kind |-> "none"]
NoCheck == [change |-> 0, content |-> Unset, passing |-> FALSE]

Blank(k, x) == [kind |-> k, content |-> x, status |-> "draft", simulated |-> FALSE,
                checked |-> NoCheck, verdict |-> "none", approval |-> 0, receipt |-> 0,
                recovery |-> "none"]
NoItem == Blank("none", Unset)

Drafts == [content : Contents \cup {Unset}, reason : BOOLEAN]
Previews == [change : 0..MaxChanges, content : Contents \cup {Unset}, kind : Kinds \cup {"none"}]
Checks == [change : 0..MaxChanges, content : Contents \cup {Unset}, passing : BOOLEAN]
Items == [kind : Kinds, content : Contents \cup {Unset}, status : Statuses, simulated : BOOLEAN,
          checked : Checks, verdict : {"none", "approved", "denied", "deferred", "escalated"},
          approval : 0..MaxApprovals, receipt : 0..MaxApprovals,
          recovery : {"none", "rollback", "expiry", "renew"}]
Views == [selected : 0..MaxChanges, preview : Previews, checked : Checks, reason : BOOLEAN]

AdminTypeOK ==
  /\ queue \in [Changes -> Items \cup {NoItem}]
  /\ adminDraft \in [Kinds -> Drafts]
  /\ adminView \in [Workspaces -> Views]
  /\ offered \in [Kinds -> Offers]
  /\ routingLive \in BOOLEAN
  /\ inUse \subseteq Kinds
  /\ approvals \in Seq([change : Changes, content : Contents \cup {Unset}])
  /\ Len(approvals) <= MaxApprovals
  /\ executions \subseteq [change : Changes, content : Contents \cup {Unset}, approval : 1..MaxApprovals]

AdminInit ==
  /\ queue = [c \in Changes |-> NoItem]
  /\ adminDraft = [k \in Kinds |-> [content |-> Unset, reason |-> FALSE]]
  /\ adminView = [w \in Workspaces |-> [selected |-> 0, preview |-> NoPreview,
                                        checked |-> NoCheck, reason |-> FALSE]]
  /\ offered \in [Kinds -> Offers] /\ \A j, k \in Kinds : offered[j] = offered[k]
  /\ routingLive \in BOOLEAN
  /\ inUse \in SUBSET Kinds
  /\ approvals = <<>> /\ executions = {}

-----------------------------------------------------------------------------
(* Queues *)

Queued(c) == c \in Changes /\ queue[c] # NoItem
QueuedIn(w) == {c \in Changes : Queued(c) /\ Owner[queue[c].kind] = w}
FreeChange(c) == c \in Changes /\ queue[c] = NoItem /\ \A b \in Changes : b < c => queue[b] # NoItem

FirstOf(S) == IF S = {} THEN 0 ELSE CHOOSE c \in S : \A b \in S : c <= b

\* The proposal a workspace has selected, when it is of this kind; 0 when there is none.
SelectedOf(k) ==
  LET s == adminView[Owner[k]].selected IN IF Queued(s) /\ queue[s].kind = k THEN s ELSE 0

\* The number a proposal built under c gets: c itself, a fresh one when c is 0.
Numbered(c, id) == IF c # 0 THEN id = c ELSE FreeChange(id)

\* A proposal rebuilt from a draft keeps everything the queued one has recorded
\* (simulation, decision, execution, receipt, recovery) but its content and status.
Rebuilt(k, c, x, s) ==
  IF Queued(c) THEN [queue[c] EXCEPT !.kind = k, !.content = x, !.status = s]
               ELSE [Blank(k, x) EXCEPT !.status = s]

PreviewOf(k, c, x) == [change |-> c, content |-> x, kind |-> k]
Latest(w, c) == IF adminView[w].preview.change = c THEN adminView[w].preview ELSE NoPreview

-----------------------------------------------------------------------------
(* Editing *)

\* The context (catalogs, runs, settings) is loaded again.
LoadContext ==
  /\ \E o \in Offers : offered' = [k \in Kinds |-> o]
  /\ routingLive' \in BOOLEAN
  /\ UNCHANGED <<queue, adminDraft, adminView, inUse, approvals, executions>>

\* What an editor may hold after one of its fields was typed.
Typed(k) == {d \in Drafts : d.content = adminDraft[k].content \/ d.reason = adminDraft[k].reason}

\* A field of a draft is typed: the whole draft is stored as it normalises now, and the
\* simulation of the workspace is dropped when `drops` says so.
EditAs(k, d, drops, view) ==
  /\ k \in inUse
  /\ adminDraft' = [adminDraft EXCEPT ![k] = d]
  /\ adminView' = [adminView EXCEPT ![Owner[k]] =
                     IF drops THEN [view EXCEPT !.preview = NoPreview] ELSE view]
  /\ UNCHANGED <<queue, offered, routingLive, inUse, approvals, executions>>

TypeReason(w) ==
  /\ \E k \in inUse : Owner[k] = w
  /\ \E r \in BOOLEAN : adminView' = [adminView EXCEPT ![w].reason = r]
  /\ UNCHANGED <<queue, adminDraft, offered, routingLive, inUse, approvals, executions>>

\* A view after the proposal c was loaded into the editor.
LoadedView(w, c) ==
  [adminView[w] EXCEPT !.selected = c, !.reason = FALSE, !.preview = Latest(w, c)]

\* The draft a queued proposal loads into; a queued proposal always has its reason.
DraftOf(c) == [content |-> queue[c].content, reason |-> TRUE]

LoadAs(k, c, d, view) ==
  /\ k \in inUse /\ Queued(c) /\ queue[c].kind = k
  /\ adminDraft' = [adminDraft EXCEPT ![k] = d]
  /\ adminView' = [adminView EXCEPT ![Owner[k]] = view]
  /\ UNCHANGED <<queue, offered, routingLive, inUse, approvals, executions>>

\* A proposal is written to the queue under id and its editor and view become draft, view.
WriteAs(k, id, item, draft, view) ==
  /\ k \in inUse
  /\ queue' = [queue EXCEPT ![id] = item]
  /\ adminDraft' = [adminDraft EXCEPT ![k] = draft]
  /\ adminView' = [adminView EXCEPT ![Owner[k]] = view]
  /\ UNCHANGED <<offered, routingLive, inUse, approvals, executions>>

\* Save: the selected proposal of the kind, or a new one, becomes a draft with content
\* d; the simulation of the workspace is dropped.
SaveAs(k, item, view) ==
  \E id \in Changes :
    /\ Numbered(SelectedOf(k), id)
    /\ WriteAs(k, id, item, adminDraft[k], [view EXCEPT !.selected = id, !.preview = NoPreview])

\* Simulate: proposal t (0: a new one) is rebuilt from the draft d and marked simulated,
\* and its simulation becomes the workspace's.
SimulateAs(k, t, item, stored, content, view) ==
  \E id \in Changes :
    /\ Numbered(t, id)
    /\ WriteAs(k, id, [item EXCEPT !.simulated = TRUE], stored,
               [view EXCEPT !.selected = id, !.preview = PreviewOf(k, id, content)])

-----------------------------------------------------------------------------
(* Routing, decision, execution, recovery *)

\* Mutant: routing keeps the old recovery.
RoutedAgain(item) == [item EXCEPT !.status = "routed", !.simulated = TRUE, !.verdict = "none",
                                  !.approval = 0, !.receipt = 0]

\* Routing forgets the decision, the execution and the recovery of an earlier round.
Routed(item) == [item EXCEPT !.status = "routed", !.simulated = TRUE, !.verdict = "none",
                             !.approval = 0, !.receipt = 0, !.recovery = "none"]

RouteAs(k, t, item, view) ==
  \E id \in Changes :
    /\ Numbered(t, id)
    /\ WriteAs(k, id, Routed(item), adminDraft[k], [view EXCEPT !.selected = id])

\* A decision by governance: an approval draws a fresh approval receipt.
Decided(item, s, a) == [item EXCEPT !.status = s, !.verdict = s, !.approval = a, !.receipt = 0]

\* The recorded decision also selects the proposal in its owner's workspace, whose draft
\* and simulation stay as they are.
DecideAs(c, s, a) ==
  /\ queue' = [queue EXCEPT ![c] = Decided(@, s, a)]
  /\ adminView' = [adminView EXCEPT ![Owner[queue[c].kind]].selected = c]
  /\ approvals' = IF a = 0 THEN approvals
                  ELSE Append(approvals, [change |-> c, content |-> queue[c].content])
  /\ UNCHANGED <<adminDraft, offered, routingLive, inUse, executions>>

Appliable(item) == item.status = "approved" /\ item.approval # 0
Applied(item) == [item EXCEPT !.status = "applied", !.receipt = item.approval]

\* Mutant: what is executed is the draft.
ApplyDraft(k, c, view) ==
  /\ k \in inUse /\ Queued(c) /\ queue[c].kind = k
  /\ Appliable(queue[c])
  /\ queue' = [queue EXCEPT ![c] = Applied(@)]
  /\ executions' = executions \cup
       {[change |-> c, content |-> adminDraft[k].content, approval |-> queue[c].approval]}
  /\ adminView' = [adminView EXCEPT ![Owner[k]] = [view EXCEPT !.selected = c]]
  /\ UNCHANGED <<adminDraft, offered, routingLive, inUse, approvals>>

ApplyAs(k, c, view) ==
  /\ k \in inUse /\ Queued(c) /\ queue[c].kind = k
  /\ Appliable(queue[c])
  /\ queue' = [queue EXCEPT ![c] = Applied(@)]
  /\ executions' = executions \cup
       {[change |-> c, content |-> queue[c].content, approval |-> queue[c].approval]}
  /\ adminView' = [adminView EXCEPT ![Owner[k]] = [view EXCEPT !.selected = c]]
  /\ UNCHANGED <<adminDraft, offered, routingLive, inUse, approvals>>

Recoverable(item) == item.status = "applied" /\ item.receipt # 0 /\ item.recovery = "none"
\* Mutant: a rolled back proposal goes back to approved.
RecoveredReopened(item, s, r) == [item EXCEPT !.status = "approved", !.receipt = 0]

Recovered(item, s, r) == [item EXCEPT !.status = s, !.recovery = r]

RecoverAs(k, c, s, r) ==
  /\ k \in inUse /\ Queued(c) /\ queue[c].kind = k
  /\ adminView[Owner[k]].reason
  /\ queue' = [queue EXCEPT ![c] = Recovered(@, s, r)]
  /\ adminView' = [adminView EXCEPT ![Owner[k]].selected = c, ![Owner[k]].reason = FALSE]
  /\ UNCHANGED <<adminDraft, offered, routingLive, inUse, approvals, executions>>

-----------------------------------------------------------------------------
(* The receipts a workspace prints for a proposal: a decision receipt, an execution
   receipt and a recovery receipt, each read from the proposal as it is now. *)

ReceiptOf(what, c, a) == [what |-> what, change |-> c, content |-> queue[c].content, approval |-> a]
DecisionReceipt(c) == ReceiptOf("decision", c, queue[c].approval)
ExecutionReceipt(c) == ReceiptOf("execution", c, queue[c].receipt)
RecoveryReceipt(c) == ReceiptOf("recovery", c, queue[c].approval)

HasReceipt(c, what) ==
  CASE what = "decision" -> queue[c].approval # 0
    [] what = "execution" -> queue[c].receipt # 0
    [] what = "recovery" -> queue[c].recovery # "none"
=============================================================================

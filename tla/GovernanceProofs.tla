--------------------------- MODULE GovernanceProofs ---------------------------
(***************************************************************************)
(* Proofs about the governance desk and the six owner workspaces, for any  *)
(* contents, option lists and numbers of proposals and approvals.          *)
(*                                                                         *)
(* The properties speak of a proposal at the moment it is executed or a    *)
(* receipt is handed out; what makes them hold is what is true of every    *)
(* queued proposal at every moment, and what a workspace's last simulation *)
(* and last verdict say of the queue.  AdminInv says both.  Each workspace *)
(* steps through the operators of AdminQueue, so that one lemma about each *)
(* of these carries the invariant, and a workspace has to show only what   *)
(* it passes to them.                                                      *)
(***************************************************************************)
EXTENDS GovernanceDesk, TLAPS

\* Statuses under which a proposal is being worked on by its owner.
Open == {"draft", "simulated", "verified", "verification_failed"}
Executed == {"applied", "rolled_back", "expired", "renewed"}

\* The approval a proposal names was given to this very change as it reads now.
Backed(c, item) ==
  /\ item.approval \in DOMAIN approvals
  /\ approvals[item.approval] = [change |-> c, content |-> item.content]

\* What the status of a queued proposal says of its receipts.
RoutedIsClean(item) ==
  item.status = "routed" => item.approval = 0 /\ item.receipt = 0 /\ item.recovery = "none"
ApprovedIsBacked(c, item) ==
  item.status = "approved" => /\ Backed(c, item)
                              /\ item.receipt = 0 /\ item.recovery = "none"
                              /\ \A e \in executions : e.approval # item.approval
ExecutedIsRecorded(c, item) ==
  item.status \in Executed =>
    /\ Backed(c, item) /\ item.receipt = item.approval
    /\ [change |-> c, content |-> item.content, approval |-> item.approval] \in executions

\* A verdict: it passes only for a change, and what it names is that policy proposal as q has it.
NamesPolicy(v, q) ==
  /\ v.passing => v.change # 0
  /\ v.change # 0 => /\ q[v.change] # NoItem /\ q[v.change].kind = "policy"
                     /\ v.content = q[v.change].content

\* A policy proposal has a content, and its own verdict is about it; it is routed with a
\* passing one.
PolicyIsVerified(c, item) ==
  item.kind = "policy" =>
    /\ item.content # Unset
    /\ item.checked.change # 0 => item.checked.change = c /\ item.checked.content = item.content
    /\ item.checked.passing => item.checked.change # 0
    /\ item.status \in {"routed"} \cup Standing => item.checked.passing

ItemTrue(c, item) ==
  /\ RoutedIsClean(item) /\ ApprovedIsBacked(c, item) /\ ExecutedIsRecorded(c, item)
  /\ PolicyIsVerified(c, item)

\* The proposal a simulation names is in the queue q, belongs to the workspace w and,
\* where routing does not rebuild it, reads as it was simulated.
PreviewTrue(w, p, q) ==
  p.change # 0 => /\ q[p.change] # NoItem /\ Owner[q[p.change].kind] = w
                  /\ w \in {"platform", "guardrail"} \/ q[p.change].content = p.content

QueueTrue == \A c \in Changes : queue[c] # NoItem => ItemTrue(c, queue[c])

AdminInv ==
  /\ QueueTrue
  /\ AppliedAsApproved
  /\ \A w \in Workspaces : PreviewTrue(w, adminView[w].preview, queue)
  /\ NamesPolicy(adminView["policy"].checked, queue)

-----------------------------------------------------------------------------
(* Types of what the workspaces compute *)

LEMMA OwnerType == \A k \in Kinds : Owner[k] \in Workspaces /\ (Owner[k] = "policy" <=> k = "policy")
  BY DEF Owner, Kinds, Workspaces

LEMMA NoItemKind == NoItem.kind \notin Kinds /\ NoItem \notin Items
  BY DEF NoItem, Blank, Kinds, Items

\* A queued proposal is an item.
LEMMA QueuedType ==
  ASSUME AdminTypeOK, NEW c \in Changes, queue[c] # NoItem
  PROVE  queue[c] \in Items /\ queue[c].kind \in Kinds
  BY DEF AdminTypeOK, Items

LEMMA SelectedOfType ==
  ASSUME AdminTypeOK, NEW k \in Kinds
  PROVE  /\ SelectedOf(k) \in 0..MaxChanges
         /\ SelectedOf(k) # 0 => /\ SelectedOf(k) \in Changes
                                 /\ queue[SelectedOf(k)] # NoItem /\ queue[SelectedOf(k)].kind = k
<1>1. MaxChanges \in Nat
  BY BoundsAssumption
<1> QED BY <1>1 DEF SelectedOf, Queued, Changes

\* The first of the options a context offers is a content.
LEMMA OfferedType ==
  ASSUME AdminTypeOK, NEW k \in Kinds, offered[k] # <<>>
  PROVE  Head(offered[k]) \in Contents
<1>1. offered[k] \in Seq(Contents)
  BY OffersAssumption DEF AdminTypeOK
<1> QED BY <1>1

LEMMA RebuiltType ==
  ASSUME AdminTypeOK, NEW k \in Kinds, NEW c, NEW x \in Contents \cup {Unset}, NEW s \in Statuses
  PROVE  /\ Rebuilt(k, c, x, s) \in Items
         /\ Rebuilt(k, c, x, s).kind = k /\ Rebuilt(k, c, x, s).content = x
         /\ Rebuilt(k, c, x, s).status = s
<1>1. CASE Queued(c)
  <2>1. c \in Changes /\ queue[c] \in Items
    BY <1>1, QueuedType DEF Queued
  <2> QED BY <1>1, <2>1 DEF Rebuilt, Items
<1>2. CASE ~Queued(c)
  <2>1. NoCheck \in Checks /\ 0 \in 0..MaxApprovals
    BY BoundsAssumption DEF NoCheck, Checks
  <2> QED BY <1>2, <2>1 DEF Rebuilt, Items, Blank
<1> QED BY <1>1, <1>2

LEMMA ViewType ==
  ASSUME AdminTypeOK, NEW w \in Workspaces
  PROVE  adminView[w] \in Views
  BY DEF AdminTypeOK

LEMMA NoPreviewType == NoPreview \in Previews /\ NoCheck \in Checks
  BY BoundsAssumption DEF NoPreview, NoCheck, Previews, Checks

LEMMA NoPreviewTrue == \A w, q : PreviewTrue(w, NoPreview, q) /\ NamesPolicy(NoCheck, q)
  BY DEF NoPreview, PreviewTrue, NamesPolicy, NoCheck

\* The view after a proposal was loaded: its simulation is the workspace's, or none.
LEMMA LoadedViewType ==
  ASSUME AdminTypeOK, AdminInv, NEW w \in Workspaces, NEW c \in Changes
  PROVE  /\ LoadedView(w, c) \in Views
         /\ PreviewTrue(w, LoadedView(w, c).preview, queue)
         /\ LoadedView(w, c).checked = adminView[w].checked
<1>1. adminView[w] \in Views /\ c \in 0..MaxChanges
  BY ViewType, BoundsAssumption DEF Changes
<1>2. Latest(w, c) \in Previews /\ PreviewTrue(w, Latest(w, c), queue)
  BY <1>1, NoPreviewType, NoPreviewTrue DEF Latest, Views, AdminInv
<1> QED BY <1>1, <1>2 DEF LoadedView, Views

\* What an editor holds after typing, and the draft a queued proposal loads into.
LEMMA TypedType == ASSUME NEW k \in Kinds PROVE Typed(k) \subseteq Drafts
  BY DEF Typed

LEMMA DraftOfType ==
  ASSUME AdminTypeOK, NEW c \in Changes, queue[c] # NoItem
  PROVE  DraftOf(c) \in Drafts /\ DraftOf(c).content = queue[c].content
  BY QueuedType DEF DraftOf, Drafts, Items

-----------------------------------------------------------------------------
(* The operators the workspaces step through *)

\* A proposal is written: the number is free or its owner's, the proposal is worked on or
\* routed clean, and the view is true of the queue that results.
LEMMA WriteKeeps ==
  ASSUME AdminTypeOK, AdminInv,
         NEW k \in Kinds, NEW id \in Changes, NEW item \in Items, NEW draft \in Drafts, NEW view \in Views,
         queue[id] # NoItem => Owner[queue[id].kind] = Owner[k],
         item.kind = k, item.status \in Open \cup {"routed"},
         RoutedIsClean(item), PolicyIsVerified(id, item),
         PreviewTrue(Owner[k], view.preview, [queue EXCEPT ![id] = item]),
         k = "policy" => NamesPolicy(view.checked, [queue EXCEPT ![id] = item]),
         WriteAs(k, id, item, draft, view)
  PROVE  AdminTypeOK' /\ AdminInv'
<1> USE DEF WriteAs
<1>1. Owner[k] \in Workspaces /\ item # NoItem
  BY OwnerType, NoItemKind
<1>2. AdminTypeOK'
  BY <1>1 DEF AdminTypeOK
<1>3. queue' = [queue EXCEPT ![id] = item] /\ queue'[id] = item /\ \A c \in Changes \ {id} : queue'[c] = queue[c]
  BY DEF AdminTypeOK
<1>4. ASSUME NEW c \in Changes, queue'[c] # NoItem PROVE ItemTrue(c, queue[c])'
  <2>1. CASE c = id
    <3>1. item.status \notin {"approved"} \cup Executed
      BY DEF Open, Executed
    <3> QED BY <2>1, <1>3, <3>1 DEF ItemTrue, RoutedIsClean, ApprovedIsBacked, ExecutedIsRecorded,
                                    PolicyIsVerified, Standing, Executed
  <2>2. CASE c # id
    <3>1. queue[c] # NoItem /\ queue'[c] = queue[c] /\ ItemTrue(c, queue[c])
      BY <1>3, <1>4, <2>2 DEF AdminInv, QueueTrue
    <3> QED BY <3>1 DEF ItemTrue, RoutedIsClean, ApprovedIsBacked, ExecutedIsRecorded, PolicyIsVerified, Backed
  <2> QED BY <2>1, <2>2
<1>5. AppliedAsApproved'
  BY DEF AdminInv, AppliedAsApproved
<1>6. ASSUME NEW w \in Workspaces PROVE PreviewTrue(w, adminView[w].preview, queue)'
  <2>1. CASE w = Owner[k]
    BY <1>3, <2>1 DEF AdminTypeOK
  <2>2. CASE w # Owner[k]
    <3>1. adminView'[w] = adminView[w] /\ adminView[w] \in Views /\ PreviewTrue(w, adminView[w].preview, queue)
      BY <2>2, ViewType DEF AdminInv, AdminTypeOK
    <3>2. ASSUME adminView[w].preview.change # 0
          PROVE  adminView[w].preview.change \in Changes \ {id}
      BY <2>2, <3>1, <3>2, BoundsAssumption DEF Views, Previews, Changes, PreviewTrue
    <3> QED BY <3>1, <3>2, <1>3 DEF PreviewTrue
  <2> QED BY <2>1, <2>2
<1>7. NamesPolicy(adminView["policy"].checked, queue)'
  <2>1. CASE k = "policy"
    BY <1>3, <2>1 DEF AdminTypeOK, Owner, Workspaces
  <2>2. CASE k # "policy"
    <3> DEFINE v == adminView["policy"].checked
    <3>1. "policy" \in Workspaces /\ Owner[k] # "policy" /\ Owner["policy"] = "policy"
      BY <2>2, OwnerType DEF Workspaces, Owner
    <3>2. adminView'["policy"] = adminView["policy"] /\ v \in Checks /\ NamesPolicy(v, queue)
      BY <3>1, ViewType DEF AdminInv, AdminTypeOK, Views
    <3>3. ASSUME v.change # 0 PROVE v.change \in Changes \ {id}
      BY <3>1, <3>2, <3>3, BoundsAssumption DEF Checks, Changes, NamesPolicy
    <3> QED BY <3>2, <3>3, <1>3 DEF NamesPolicy
  <2> QED BY <2>1, <2>2
<1> QED BY <1>2, <1>4, <1>5, <1>6, <1>7 DEF AdminInv, QueueTrue
\* The queue, the approvals and the executions are left alone: what the new view says is
\* all there is to show.
LEMMA ViewKeeps ==
  ASSUME AdminTypeOK, AdminInv,
         NEW w \in Workspaces, NEW view \in Views,
         PreviewTrue(w, view.preview, queue),
         w = "policy" => NamesPolicy(view.checked, queue),
         adminView' = [adminView EXCEPT ![w] = view],
         UNCHANGED <<queue, approvals, executions>>
  PROVE  AdminInv'
<1>1. \A u \in Workspaces : adminView'[u] = IF u = w THEN view ELSE adminView[u]
  BY DEF AdminTypeOK
<1>2. \A u \in Workspaces : PreviewTrue(u, adminView[u].preview, queue)'
  BY <1>1 DEF AdminInv
<1>3. NamesPolicy(adminView["policy"].checked, queue)'
  BY <1>1 DEF AdminInv, Workspaces
<1>4. \A c \in Changes : queue[c] # NoItem => ItemTrue(c, queue[c])'
  BY DEF AdminInv, QueueTrue, ItemTrue, RoutedIsClean, ApprovedIsBacked, ExecutedIsRecorded, PolicyIsVerified, Backed
<1>5. AppliedAsApproved'
  BY DEF AdminInv, AppliedAsApproved
<1> QED BY <1>2, <1>3, <1>4, <1>5 DEF AdminInv, QueueTrue

LEMMA EditKeeps ==
  ASSUME AdminTypeOK, AdminInv,
         NEW k \in Kinds, NEW d \in Drafts, NEW drops \in BOOLEAN, NEW view \in Views,
         view.preview = adminView[Owner[k]].preview,
         k = "policy" => NamesPolicy(view.checked, queue),
         EditAs(k, d, drops, view)
  PROVE  AdminTypeOK' /\ AdminInv'
<1> DEFINE w == Owner[k]
           shown == IF drops THEN [view EXCEPT !.preview = NoPreview] ELSE view
<1>1. w \in Workspaces /\ (w = "policy" => k = "policy")
  BY OwnerType
<1>2. shown \in Views /\ PreviewTrue(w, shown.preview, queue) /\ shown.checked = view.checked
  BY <1>1, NoPreviewType, NoPreviewTrue DEF Views, AdminInv
<1>3. AdminInv'
  <2>1. adminView' = [adminView EXCEPT ![w] = shown] /\ UNCHANGED <<queue, approvals, executions>>
    BY DEF EditAs
  <2> HIDE DEF shown, w
  <2> QED BY <1>1, <1>2, <2>1, ViewKeeps
<1> QED BY <1>1, <1>2, <1>3 DEF EditAs, AdminTypeOK

LEMMA TypeReasonKeeps ==
  ASSUME AdminTypeOK, AdminInv, NEW w \in Workspaces, TypeReason(w)
  PROVE  AdminTypeOK' /\ AdminInv'
<1>1. PICK r \in BOOLEAN : adminView' = [adminView EXCEPT ![w].reason = r]
  BY DEF TypeReason
<1> DEFINE view == [adminView[w] EXCEPT !.reason = r]
<1>2. view \in Views /\ view.preview = adminView[w].preview /\ view.checked = adminView[w].checked
  BY ViewType DEF Views
<1>3. adminView' = [adminView EXCEPT ![w] = view]
  BY <1>1
<1>4. PreviewTrue(w, view.preview, queue) /\ (w = "policy" => NamesPolicy(view.checked, queue))
  BY <1>2 DEF AdminInv
<1> HIDE DEF view
<1>5. AdminInv'
  BY <1>2, <1>3, <1>4, ViewKeeps DEF TypeReason
<1> QED BY <1>2, <1>3, <1>5 DEF TypeReason, AdminTypeOK

LEMMA LoadKeeps ==
  ASSUME AdminTypeOK, AdminInv,
         NEW k \in Kinds, NEW c, NEW d \in Drafts, NEW view \in Views,
         PreviewTrue(Owner[k], view.preview, queue),
         k = "policy" => NamesPolicy(view.checked, queue),
         LoadAs(k, c, d, view)
  PROVE  AdminTypeOK' /\ AdminInv'
<1>1. Owner[k] \in Workspaces /\ (Owner[k] = "policy" => k = "policy")
  BY OwnerType
<1>2. AdminInv'
  BY <1>1, ViewKeeps DEF LoadAs
<1> QED BY <1>1, <1>2 DEF LoadAs, AdminTypeOK

\* The number a proposal is written under: its own, or a free one.
LEMMA NumberedType ==
  ASSUME AdminTypeOK, NEW k \in Kinds, NEW t \in 0..MaxChanges, NEW id \in Changes,
         t # 0 => queue[t] # NoItem /\ queue[t].kind \in Kinds /\ Owner[queue[t].kind] = Owner[k],
         Numbered(t, id)
  PROVE  /\ queue[id] # NoItem => Owner[queue[id].kind] = Owner[k]
         /\ queue[id] # NoItem => t = id
         /\ t # 0 => t = id
  BY DEF Numbered, FreeChange

LEMMA SaveKeeps ==
  ASSUME AdminTypeOK, AdminInv,
         NEW k \in Kinds, NEW item \in Items, NEW view \in Views,
         item.kind = k, item.status = "draft",
         k = "policy" => item.content # Unset /\ item.checked = NoCheck /\ view.checked = NoCheck,
         SaveAs(k, item, view)
  PROVE  AdminTypeOK' /\ AdminInv'
<1>1. PICK id \in Changes :
        /\ Numbered(SelectedOf(k), id)
        /\ WriteAs(k, id, item, adminDraft[k], [view EXCEPT !.selected = id, !.preview = NoPreview])
  BY DEF SaveAs
<1> DEFINE shown == [view EXCEPT !.selected = id, !.preview = NoPreview]
<1>2. shown \in Views /\ shown.preview = NoPreview /\ shown.checked = view.checked
  <2>1. id \in 0..MaxChanges /\ NoPreview \in Previews
    BY NoPreviewType, BoundsAssumption DEF Changes
  <2> QED BY <2>1 DEF Views
<1>3. queue[id] # NoItem => Owner[queue[id].kind] = Owner[k]
  BY <1>1, SelectedOfType, NumberedType
<1>4. item.status \in Open \cup {"routed"} /\ RoutedIsClean(item) /\ PolicyIsVerified(id, item)
  BY DEF Open, RoutedIsClean, PolicyIsVerified, Standing, NoCheck
<1>5. PreviewTrue(Owner[k], shown.preview, [queue EXCEPT ![id] = item])
  BY <1>2, NoPreviewTrue
<1>6. k = "policy" => NamesPolicy(shown.checked, [queue EXCEPT ![id] = item])
  BY <1>2, NoPreviewTrue
<1>7. adminDraft[k] \in Drafts /\ WriteAs(k, id, item, adminDraft[k], shown)
  BY <1>1 DEF AdminTypeOK
<1> HIDE DEF shown
<1> QED BY <1>2, <1>3, <1>4, <1>5, <1>6, <1>7, WriteKeeps

LEMMA SimulateKeeps ==
  ASSUME AdminTypeOK, AdminInv,
         NEW k \in Kinds, NEW t \in 0..MaxChanges, NEW item \in Items, NEW stored \in Drafts,
         NEW content \in Contents \cup {Unset}, NEW view \in Views,
         t # 0 => queue[t] # NoItem /\ queue[t].kind \in Kinds /\ Owner[queue[t].kind] = Owner[k],
         item.kind = k, item.status = "simulated", item.content = content,
         k = "policy" => content # Unset /\ item.checked = NoCheck /\ view.checked = NoCheck,
         SimulateAs(k, t, item, stored, content, view)
  PROVE  AdminTypeOK' /\ AdminInv'
<1>1. PICK id \in Changes :
        /\ Numbered(t, id)
        /\ WriteAs(k, id, [item EXCEPT !.simulated = TRUE], stored,
                   [view EXCEPT !.selected = id, !.preview = PreviewOf(k, id, content)])
  BY DEF SimulateAs
<1> DEFINE shown == [view EXCEPT !.selected = id, !.preview = PreviewOf(k, id, content)]
           kept == [item EXCEPT !.simulated = TRUE]
<1>2. id \in 0..MaxChanges /\ PreviewOf(k, id, content) \in Previews
  BY BoundsAssumption DEF Changes, PreviewOf, Previews
<1>3. shown \in Views /\ shown.preview = PreviewOf(k, id, content) /\ shown.checked = view.checked
  BY <1>2 DEF Views
<1>4. kept \in Items /\ kept.kind = k /\ kept.status = "simulated" /\ kept.content = content
      /\ kept.checked = item.checked
  BY DEF Items
<1>5. queue[id] # NoItem => Owner[queue[id].kind] = Owner[k]
  BY <1>1, NumberedType
<1>6. kept.status \in Open \cup {"routed"} /\ RoutedIsClean(kept) /\ PolicyIsVerified(id, kept)
  BY <1>4 DEF Open, RoutedIsClean, PolicyIsVerified, Standing, NoCheck
<1>7. PreviewTrue(Owner[k], shown.preview, [queue EXCEPT ![id] = kept])
  <2>1. [queue EXCEPT ![id] = kept][id] = kept /\ kept # NoItem
    BY <1>4, NoItemKind DEF AdminTypeOK
  <2>2. shown.preview.change = id /\ shown.preview.content = content
    BY <1>3 DEF PreviewOf
  <2> HIDE DEF kept, shown
  <2> QED BY <1>4, <2>1, <2>2 DEF PreviewTrue
<1>8. k = "policy" => NamesPolicy(shown.checked, [queue EXCEPT ![id] = kept])
  BY <1>3, NoPreviewTrue
<1>9. WriteAs(k, id, kept, stored, shown)
  BY <1>1
<1> HIDE DEF shown, kept
<1> QED BY <1>3, <1>4, <1>5, <1>6, <1>7, <1>8, <1>9, WriteKeeps

\* Routing: a queued proposal is routed with the content it has, unless the workspace
\* rebuilds it, in which case nothing is promised of its simulation.
LEMMA RouteKeeps ==
  ASSUME AdminTypeOK, AdminInv,
         NEW k \in Kinds, NEW t \in 0..MaxChanges, NEW item \in Items, NEW view \in Views,
         t # 0 => queue[t] # NoItem /\ queue[t].kind \in Kinds /\ Owner[queue[t].kind] = Owner[k],
         item.kind = k,
         t # 0 /\ Owner[k] \notin {"platform", "guardrail"} => item.content = queue[t].content,
         view.preview = adminView[Owner[k]].preview,
         k = "policy" => /\ t # 0 /\ item.content # Unset /\ item.checked = view.checked
                         /\ item.checked.passing /\ item.checked.change = t
                         /\ item.checked.content = item.content,
         RouteAs(k, t, item, view)
  PROVE  AdminTypeOK' /\ AdminInv'
<1>1. PICK id \in Changes :
        Numbered(t, id) /\ WriteAs(k, id, Routed(item), adminDraft[k], [view EXCEPT !.selected = id])
  BY DEF RouteAs
<1> DEFINE shown == [view EXCEPT !.selected = id]
           sent == Routed(item)
           p == adminView[Owner[k]].preview
<1>2. id \in 0..MaxChanges /\ 0 \in 0..MaxApprovals
  BY BoundsAssumption DEF Changes
<1>3. shown \in Views /\ shown.preview = p /\ shown.checked = view.checked
  BY <1>2 DEF Views
<1>4. /\ sent \in Items /\ sent.kind = k /\ sent.status = "routed" /\ sent.content = item.content
      /\ sent.checked = item.checked /\ RoutedIsClean(sent)
  BY <1>2 DEF Items, Routed, RoutedIsClean, Statuses
<1>5. /\ queue[id] # NoItem => Owner[queue[id].kind] = Owner[k]
      /\ queue[id] # NoItem => t = id
      /\ t # 0 => t = id
  BY <1>1, NumberedType
<1>6. PolicyIsVerified(id, sent)
  BY <1>4, <1>5 DEF PolicyIsVerified
<1>7. PreviewTrue(Owner[k], shown.preview, [queue EXCEPT ![id] = sent])
  <2>1. Owner[k] \in Workspaces
    BY OwnerType
  <2>2. PreviewTrue(Owner[k], p, queue) /\ adminView[Owner[k]] \in Views
    BY <2>1, ViewType DEF AdminInv
  <2>3. p.change # 0 => p.change \in Changes
    BY <2>2, BoundsAssumption DEF Views, Previews, Changes
  <2>4. sent # NoItem
    BY <1>4, NoItemKind
  <2>5. CASE p.change # id
    BY <1>3, <2>2, <2>3, <2>5 DEF PreviewTrue, AdminTypeOK
  <2>6. CASE p.change = id
    <3>1. p.change # 0
      BY <2>6, BoundsAssumption DEF Changes
    <3>2. queue[id] # NoItem /\ t = id /\ t # 0
      BY <1>5, <2>2, <2>6, <3>1 DEF PreviewTrue
    <3> QED BY <1>3, <1>4, <2>2, <2>3, <2>4, <2>6, <3>2 DEF PreviewTrue, AdminTypeOK
  <2> QED BY <2>5, <2>6
<1>8. k = "policy" => NamesPolicy(shown.checked, [queue EXCEPT ![id] = sent])
  BY <1>3, <1>4, <1>5, NoItemKind DEF NamesPolicy, AdminTypeOK
<1>9. adminDraft[k] \in Drafts /\ WriteAs(k, id, sent, adminDraft[k], shown)
  BY <1>1 DEF AdminTypeOK
<1> HIDE DEF shown, sent
<1> QED BY <1>3, <1>4, <1>5, <1>6, <1>7, <1>8, <1>9, WriteKeeps DEF Open
\* A proposal that keeps its kind and content leaves true what previews and verdicts say.
LEMMA SameWork ==
  ASSUME AdminTypeOK, NEW c \in Changes, queue[c] # NoItem, NEW item \in Items,
         item.kind = queue[c].kind, item.content = queue[c].content
  PROVE  /\ \A w \in Workspaces, p \in Previews :
              PreviewTrue(w, p, queue) => PreviewTrue(w, p, [queue EXCEPT ![c] = item])
         /\ \A v \in Checks : NamesPolicy(v, queue) => NamesPolicy(v, [queue EXCEPT ![c] = item])
<1> DEFINE q == [queue EXCEPT ![c] = item]
<1>1. \A b \in Changes : queue[b] # NoItem => q[b] # NoItem /\ q[b].kind = queue[b].kind /\ q[b].content = queue[b].content
  BY NoItemKind DEF AdminTypeOK
<1>2. \A b \in 0..MaxChanges : b # 0 => b \in Changes
  BY BoundsAssumption DEF Changes
<1> HIDE DEF q
<1>3. \A w \in Workspaces, p \in Previews : PreviewTrue(w, p, queue) => PreviewTrue(w, p, q)
  BY <1>1, <1>2 DEF PreviewTrue, Previews
<1>4. \A v \in Checks : NamesPolicy(v, queue) => NamesPolicy(v, q)
  BY <1>1, <1>2 DEF NamesPolicy, Checks
<1> QED BY <1>3, <1>4 DEF q

\* A queued proposal is marked (decided, executed, recovered): its kind, content and
\* verdict stay, and so does the simulation its workspace shows.
LEMMA MarkKeeps ==
  ASSUME AdminTypeOK, AdminInv,
         NEW c \in Changes, queue[c] # NoItem, NEW item \in Items,
         item.kind = queue[c].kind, item.content = queue[c].content,
         queue' = [queue EXCEPT ![c] = item],
         NEW view \in Views,
         view.preview = adminView[Owner[queue[c].kind]].preview,
         queue[c].kind = "policy" => view.checked = adminView["policy"].checked,
         adminView' = [adminView EXCEPT ![Owner[queue[c].kind]] = view],
         QueueTrue', AppliedAsApproved'
  PROVE  /\ queue' \in [Changes -> Items \cup {NoItem}] /\ adminView' \in [Workspaces -> Views]
         /\ AdminInv'
<1> DEFINE w == Owner[queue[c].kind]
<1>1. w \in Workspaces /\ (w = "policy" => queue[c].kind = "policy") /\ "policy" \in Workspaces
  BY QueuedType, OwnerType DEF Workspaces
<1>2. queue' \in [Changes -> Items \cup {NoItem}] /\ adminView' \in [Workspaces -> Views]
  BY <1>1 DEF AdminTypeOK
<1>3. \A u \in Workspaces : adminView'[u].preview = adminView[u].preview /\ adminView[u].preview \in Previews
  BY <1>1, ViewType DEF AdminTypeOK, Views
<1>4. adminView'["policy"].checked = adminView["policy"].checked /\ adminView["policy"].checked \in Checks
  BY <1>1, ViewType DEF AdminTypeOK, Views
<1>5. \A u \in Workspaces : PreviewTrue(u, adminView[u].preview, queue)'
  BY <1>3, SameWork DEF AdminInv
<1>6. NamesPolicy(adminView["policy"].checked, queue)'
  BY <1>4, SameWork DEF AdminInv
<1> QED BY <1>2, <1>5, <1>6 DEF AdminInv

\* An execution: the approval it spends was given to this change and to no other.
LEMMA ApplyKeeps ==
  ASSUME AdminTypeOK, AdminInv,
         NEW k \in Kinds, NEW c, NEW view \in Views,
         view.preview = adminView[Owner[k]].preview,
         k = "policy" => view.checked = adminView["policy"].checked,
         ApplyAs(k, c, view)
  PROVE  AdminTypeOK' /\ AdminInv'
<1> DEFINE item == queue[c]
           e == [change |-> c, content |-> item.content, approval |-> item.approval]
           shown == [view EXCEPT !.selected = c]
<1>1. /\ c \in Changes /\ item # NoItem /\ item.kind = k /\ Appliable(item)
      /\ queue' = [queue EXCEPT ![c] = Applied(item)] /\ executions' = executions \cup {e}
      /\ adminView' = [adminView EXCEPT ![Owner[item.kind]] = shown]
      /\ UNCHANGED <<adminDraft, offered, routingLive, inUse, approvals>>
  BY DEF ApplyAs, Queued
<1>2. item \in Items /\ c \in 0..MaxChanges
  BY <1>1, QueuedType, BoundsAssumption DEF Changes
<1>3. item.status = "approved" /\ ItemTrue(c, item) /\ Backed(c, item)
  BY <1>1 DEF Appliable, AdminInv, QueueTrue, ItemTrue, ApprovedIsBacked
<1>4. shown \in Views /\ shown.preview = view.preview /\ shown.checked = view.checked
  BY <1>2 DEF Views
<1>5. /\ Applied(item) \in Items /\ Applied(item).kind = item.kind /\ Applied(item).content = item.content
      /\ Applied(item).status = "applied" /\ Applied(item).receipt = item.approval
      /\ Applied(item).approval = item.approval /\ Applied(item).checked = item.checked
  BY <1>2 DEF Applied, Items, Statuses
<1>6. AppliedAsApproved'
  <2>1. AppliedAsApproved /\ e.approval \in DOMAIN approvals /\ approvals[e.approval] = [change |-> e.change, content |-> e.content]
    BY <1>3 DEF AdminInv, Backed
  <2>2. executions' = executions \cup {e} /\ approvals' = approvals
    BY <1>1
  <2> HIDE DEF e
  <2> QED BY <2>1, <2>2 DEF AppliedAsApproved
<1>7. ItemTrue(c, queue[c])'
  <2>1. queue'[c] = Applied(item)
    BY <1>1 DEF AdminTypeOK
  <2>2. Backed(c, queue[c])' /\ e \in executions'
    BY <1>1, <1>3, <1>5, <2>1 DEF Backed
  <2> QED BY <1>3, <1>5, <2>1, <2>2 DEF ItemTrue, RoutedIsClean, ApprovedIsBacked, ExecutedIsRecorded, PolicyIsVerified, Standing
<1>8. ASSUME NEW b \in Changes \ {c}, queue'[b] # NoItem PROVE ItemTrue(b, queue[b])'
  <2>1. queue'[b] = queue[b] /\ ItemTrue(b, queue[b])
    BY <1>1, <1>8 DEF AdminTypeOK, AdminInv, QueueTrue
  <2>2. Backed(b, queue[b]) => queue[b].approval # item.approval
    BY <1>3 DEF Backed
  <2>3. ApprovedIsBacked(b, queue[b])'
    BY <1>1, <2>1, <2>2 DEF ItemTrue, ApprovedIsBacked, Backed
  <2>4. ExecutedIsRecorded(b, queue[b])'
    BY <1>1, <2>1 DEF ItemTrue, ExecutedIsRecorded, Backed
  <2> QED BY <2>1, <2>3, <2>4 DEF ItemTrue, RoutedIsClean, PolicyIsVerified
<1>9. queue' \in [Changes -> Items \cup {NoItem}] /\ adminView' \in [Workspaces -> Views] /\ AdminInv'
  <2>1. QueueTrue'
    BY <1>7, <1>8 DEF QueueTrue
  <2> HIDE DEF shown
  <2> QED BY <1>1, <1>4, <1>5, <1>6, <2>1, MarkKeeps
<1>10. executions' \subseteq [change : Changes, content : Contents \cup {Unset}, approval : 1..MaxApprovals]
  BY <1>1, <1>2, BoundsAssumption DEF AdminTypeOK, Items, Appliable
<1> QED BY <1>1, <1>9, <1>10 DEF AdminTypeOK

\* A rollback, expiry or renewal of an executed proposal.
LEMMA RecoverKeeps ==
  ASSUME AdminTypeOK, AdminInv,
         NEW k \in Kinds, NEW c, NEW s \in Executed, NEW r \in {"rollback", "expiry", "renew"},
         queue[c].status \in Executed,
         RecoverAs(k, c, s, r)
  PROVE  AdminTypeOK' /\ AdminInv'
<1> DEFINE item == queue[c]
           shown == [adminView[Owner[k]] EXCEPT !.selected = c, !.reason = FALSE]
<1>1. /\ c \in Changes /\ item # NoItem /\ item.kind = k
      /\ queue' = [queue EXCEPT ![c] = Recovered(item, s, r)]
      /\ UNCHANGED <<adminDraft, offered, routingLive, inUse, approvals, executions>>
  BY DEF RecoverAs, Queued
<1>2. item \in Items /\ c \in 0..MaxChanges /\ Owner[k] \in Workspaces /\ adminView[Owner[k]] \in Views
  BY <1>1, QueuedType, OwnerType, ViewType, BoundsAssumption DEF Changes
<1>3. adminView' = [adminView EXCEPT ![Owner[item.kind]] = shown]
  BY <1>1, <1>2 DEF RecoverAs, AdminTypeOK
<1>4. /\ shown \in Views /\ shown.preview = adminView[Owner[k]].preview
      /\ shown.checked = adminView[Owner[k]].checked
  BY <1>2 DEF Views
<1>5. /\ Recovered(item, s, r) \in Items
      /\ Recovered(item, s, r) = [item EXCEPT !.status = s, !.recovery = r]
      /\ s # "routed" /\ s # "approved" /\ s \in Standing /\ item.status \in Standing
  BY <1>2 DEF Recovered, Items, Statuses, Executed, Standing
<1>6. ItemTrue(c, queue[c])'
  <2>1. queue'[c] = Recovered(item, s, r) /\ ItemTrue(c, item)
    BY <1>1 DEF AdminTypeOK, AdminInv, QueueTrue
  <2>2. /\ queue'[c].kind = item.kind /\ queue'[c].content = item.content /\ queue'[c].approval = item.approval
        /\ queue'[c].receipt = item.receipt /\ queue'[c].checked = item.checked /\ queue'[c].status = s
    BY <1>2, <1>5, <2>1 DEF Items
  <2> QED BY <1>1, <1>5, <2>1, <2>2 DEF ItemTrue, RoutedIsClean, ApprovedIsBacked, ExecutedIsRecorded, PolicyIsVerified, Backed
<1>7. ASSUME NEW b \in Changes \ {c}, queue'[b] # NoItem PROVE ItemTrue(b, queue[b])'
  BY <1>1, <1>7 DEF AdminTypeOK, AdminInv, QueueTrue, ItemTrue, RoutedIsClean, ApprovedIsBacked, ExecutedIsRecorded, PolicyIsVerified, Backed
<1>8. AppliedAsApproved'
  BY <1>1 DEF AdminInv, AppliedAsApproved
<1>9. queue' \in [Changes -> Items \cup {NoItem}] /\ adminView' \in [Workspaces -> Views] /\ AdminInv'
  <2>1. /\ Recovered(item, s, r).kind = item.kind /\ Recovered(item, s, r).content = item.content
        /\ k = "policy" => Owner[k] = "policy"
    BY <1>2, <1>5, OwnerType DEF Items
  <2>2. QueueTrue'
    BY <1>6, <1>7 DEF QueueTrue
  <2> HIDE DEF shown
  <2> QED BY <1>1, <1>3, <1>4, <1>5, <1>8, <2>1, <2>2, MarkKeeps
<1> QED BY <1>1, <1>9 DEF AdminTypeOK

\* A decision: an approval is a fresh entry that names the change and its content, and
\* nothing was executed under it.
LEMMA DecideKeeps ==
  ASSUME AdminTypeOK, AdminInv,
         NEW c \in Changes, NEW s \in {"approved", "denied", "deferred", "escalated"},
         DeskItem(c), queue[c].status = "routed", AdminDecision(c, s)
  PROVE  AdminTypeOK' /\ AdminInv'
<1> DEFINE item == queue[c]
           a == IF s = "approved" THEN Len(approvals) + 1 ELSE 0
           entry == [change |-> c, content |-> item.content]
           w == Owner[item.kind]
           shown == [adminView[w] EXCEPT !.selected = c]
           done == Decided(item, s, a)
<1>1. /\ DecideAs(c, s, a) /\ item # NoItem
      /\ s = "approved" => Len(approvals) < MaxApprovals
  BY DEF AdminDecision, DeskItem, Queued
<1>2. item \in Items /\ item.kind \in Kinds /\ c \in 0..MaxChanges /\ w \in Workspaces /\ adminView[w] \in Views
  BY <1>1, QueuedType, OwnerType, ViewType, BoundsAssumption DEF Changes
<1>3. /\ approvals \in Seq([change : Changes, content : Contents \cup {Unset}])
      /\ Len(approvals) \in Nat /\ MaxApprovals \in Nat /\ Len(approvals) <= MaxApprovals
  BY BoundsAssumption DEF AdminTypeOK
<1>4. a \in 0..MaxApprovals /\ (a = 0 <=> s # "approved")
  BY <1>1, <1>3
<1>5. /\ queue' = [queue EXCEPT ![c] = done]
      /\ approvals' = IF a = 0 THEN approvals ELSE Append(approvals, entry)
      /\ UNCHANGED <<adminDraft, offered, routingLive, inUse, executions>>
  BY <1>1 DEF DecideAs
<1>6. adminView' = [adminView EXCEPT ![w] = shown]
  BY <1>1, <1>2 DEF DecideAs, AdminTypeOK
<1>7. shown \in Views /\ shown.preview = adminView[w].preview /\ shown.checked = adminView[w].checked
  BY <1>2 DEF Views
<1>8. /\ done \in Items /\ done.kind = item.kind /\ done.content = item.content /\ done.status = s
      /\ done.approval = a /\ done.receipt = 0 /\ done.recovery = item.recovery /\ done.checked = item.checked
  <2>1. s \in Statuses /\ s \in {"none", "approved", "denied", "deferred", "escalated"} /\ 0 \in 0..MaxApprovals
    BY <1>3 DEF Statuses
  <2> HIDE DEF a
  <2> QED BY <1>2, <1>4, <2>1 DEF Decided, Items
<1>9. /\ DOMAIN approvals \subseteq DOMAIN approvals'
      /\ \A i \in DOMAIN approvals : approvals'[i] = approvals[i]
      /\ a # 0 => a \notin DOMAIN approvals /\ a \in DOMAIN approvals' /\ approvals'[a] = entry
      /\ approvals' \in Seq([change : Changes, content : Contents \cup {Unset}])
      /\ Len(approvals') <= MaxApprovals
  <2>1. entry \in [change : Changes, content : Contents \cup {Unset}]
    BY <1>2 DEF Items
  <2>2. CASE a = 0
    BY <1>3, <1>5, <2>2
  <2>3. CASE a # 0
    <3>1. approvals' = Append(approvals, entry) /\ a = Len(approvals) + 1 /\ Len(approvals) < MaxApprovals
      BY <1>1, <1>4, <1>5, <2>3
    <3> HIDE DEF entry, a
    <3> QED BY <1>3, <2>1, <3>1
  <2> QED BY <2>2, <2>3
<1> HIDE DEF done, a, entry
<1>10. AppliedAsApproved'
  BY <1>5, <1>9 DEF AdminInv, AppliedAsApproved
<1>11. ASSUME NEW b \in Changes, NEW i, Backed(b, i) PROVE Backed(b, i)'
  BY <1>9, <1>11 DEF Backed
<1>12. ItemTrue(c, queue[c])'
  <2>1. queue'[c] = done /\ ItemTrue(c, item)
    BY <1>1, <1>5 DEF AdminTypeOK, AdminInv, QueueTrue
  <2>2. s = "approved" => Backed(c, queue[c])' /\ \A e \in executions : e.approval # a
    BY <1>4, <1>8, <1>9, <2>1 DEF Backed, entry, AdminInv, AppliedAsApproved
  <2>3. s # "routed" /\ s \notin Executed /\ (s = "approved" => item.recovery = "none")
    BY <2>1 DEF Executed, ItemTrue, RoutedIsClean
  <2>4. item.kind = "policy" => item.checked.passing
    BY <2>1 DEF ItemTrue, PolicyIsVerified
  <2> QED BY <1>5, <1>8, <2>1, <2>2, <2>3, <2>4 DEF ItemTrue, RoutedIsClean, ApprovedIsBacked, ExecutedIsRecorded, PolicyIsVerified
<1>13. ASSUME NEW b \in Changes \ {c}, queue'[b] # NoItem PROVE ItemTrue(b, queue[b])'
  <2>1. queue'[b] = queue[b] /\ ItemTrue(b, queue[b])
    BY <1>5, <1>13 DEF AdminTypeOK, AdminInv, QueueTrue
  <2>2. Backed(b, queue[b]) => Backed(b, queue[b])'
    BY <1>5, <1>9, <2>1 DEF Backed
  <2> QED BY <1>5, <2>1, <2>2 DEF ItemTrue, RoutedIsClean, ApprovedIsBacked, ExecutedIsRecorded, PolicyIsVerified
<1>14. queue' \in [Changes -> Items \cup {NoItem}] /\ adminView' \in [Workspaces -> Views] /\ AdminInv'
  <2>1. queue[c].kind = "policy" => w = "policy"
    BY <1>2, OwnerType
  <2>2. QueueTrue'
    BY <1>12, <1>13 DEF QueueTrue
  <2> HIDE DEF shown
  <2> QED BY <1>1, <1>5, <1>6, <1>7, <1>8, <1>10, <2>1, <2>2, MarkKeeps
<1> QED BY <1>5, <1>9, <1>14 DEF AdminTypeOK
-----------------------------------------------------------------------------
(* The identity workspace: two editors, one selection *)

LEMMA IdentityDraftType ==
  ASSUME AdminTypeOK, NEW k \in IdentityKinds
  PROVE  /\ \A d \in Drafts : IdentityDraft(k, d) \in Drafts
         /\ k \in Kinds /\ Owner[k] = "identity" /\ k # "policy"
<1>1. k \in Kinds /\ Owner[k] = "identity" /\ k # "policy"
  BY DEF IdentityKinds, Kinds, Owner
<1>2. offered[k] = <<>> \/ Head(offered[k]) \in Contents
  BY <1>1, OfferedType
<1> QED BY <1>1, <1>2 DEF IdentityDraft, IdentityDefault, Drafts

LEMMA IdentityViewType ==
  ASSUME AdminTypeOK, AdminInv
  PROVE  /\ IdentityView \in Views /\ PreviewTrue("identity", IdentityView.preview, queue)
         /\ \A c \in Changes : [IdentityView EXCEPT !.selected = c] \in Views
  BY ViewType, BoundsAssumption DEF IdentityView, Workspaces, Views, AdminInv, Changes

\* A card's proposal is one of the workspace.
LEMMA IdentityCard ==
  ASSUME AdminTypeOK, NEW c \in IdentityQueue
  PROVE  c \in Changes /\ queue[c] # NoItem /\ queue[c].kind \in IdentityKinds /\ queue[c] \in Items
  BY QueuedType DEF IdentityQueue, QueuedIn, Queued, Owner, Kinds, IdentityKinds

\* The proposal a button works on: the card's, or the selected one of its kind.
LEMMA IdentityTarget ==
  ASSUME AdminTypeOK, NEW k \in IdentityKinds, NEW card,
         card # 0 => card \in IdentityQueue /\ queue[card].kind = k
  PROVE  LET t == IF card # 0 THEN card ELSE SelectedOf(k) IN
         /\ t \in 0..MaxChanges
         /\ t # 0 => /\ t \in Changes /\ queue[t] # NoItem /\ queue[t] \in Items /\ queue[t].kind = k
                     /\ queue[t].kind \in Kinds /\ Owner[queue[t].kind] = Owner[k]
<1>1. k \in Kinds
  BY IdentityDraftType
<1> QED BY <1>1, SelectedOfType, IdentityCard, QueuedType, BoundsAssumption DEF Changes

LEMMA IdentityLoadKeeps ==
  ASSUME AdminTypeOK, AdminInv, NEW c, IdentityLoad(c)
  PROVE  AdminTypeOK' /\ AdminInv'
<1>1. PICK k \in IdentityKinds : LoadAs(k, c, IdentityDraft(k, DraftOf(c)), LoadedView("identity", c))
  BY DEF IdentityLoad
<1>2. c \in Changes /\ queue[c] # NoItem
  BY <1>1 DEF LoadAs, Queued
<1>3. IdentityDraft(k, DraftOf(c)) \in Drafts /\ k \in Kinds /\ Owner[k] = "identity" /\ k # "policy" /\ "identity" \in Workspaces
  BY <1>2, DraftOfType, IdentityDraftType DEF Workspaces
<1> QED BY <1>1, <1>2, <1>3, LoadedViewType, LoadKeeps

\* Governance only selects the proposal.
LEMMA IdentityOpenKeeps ==
  ASSUME AdminTypeOK, AdminInv, NEW c, IdentityOpen(c)
  PROVE  AdminTypeOK' /\ AdminInv'
<1> DEFINE view == [IdentityView EXCEPT !.selected = c]
<1>1. PICK k \in IdentityKinds : LoadAs(k, c, adminDraft[k], view)
  BY DEF IdentityOpen
<1>2. c \in Changes /\ k \in Kinds /\ Owner[k] = "identity" /\ k # "policy" /\ adminDraft[k] \in Drafts
  BY <1>1, IdentityDraftType DEF LoadAs, Queued, AdminTypeOK
<1>3. view \in Views /\ PreviewTrue("identity", view.preview, queue)
  BY <1>2, IdentityViewType DEF Views
<1> HIDE DEF view
<1> QED BY <1>1, <1>2, <1>3, LoadKeeps

LEMMA IdentitySaveKeeps ==
  ASSUME AdminTypeOK, AdminInv, IdentitySave
  PROVE  AdminTypeOK' /\ AdminInv'
<1>1. PICK k \in IdentityKinds :
        SaveAs(k, IdentityItem(k, SelectedOf(k), IdentityDraft(k, adminDraft[k]), "draft"), IdentityView)
  BY DEF IdentitySave
<1> DEFINE d == IdentityDraft(k, adminDraft[k])
           item == IdentityItem(k, SelectedOf(k), d, "draft")
<1>2. k \in Kinds /\ k # "policy" /\ d \in Drafts /\ IdentityDraft(k, d) \in Drafts /\ "draft" \in Statuses
  BY IdentityDraftType DEF AdminTypeOK, Statuses
<1>3. item \in Items /\ item.kind = k /\ item.status = "draft"
  BY <1>2, RebuiltType DEF IdentityItem, Drafts
<1>4. SaveAs(k, item, IdentityView)
  BY <1>1
<1> HIDE DEF item
<1> QED BY <1>2, <1>3, <1>4, IdentityViewType, SaveKeeps

LEMMA IdentitySimulateKeeps ==
  ASSUME AdminTypeOK, AdminInv, NEW k \in IdentityKinds, NEW card,
         card # 0 => card \in IdentityQueue /\ queue[card].kind = k,
         IdentitySimulate(k, card)
  PROVE  AdminTypeOK' /\ AdminInv'
<1> DEFINE t == IF card # 0 THEN card ELSE SelectedOf(k)
           view == IF t = 0 THEN IdentityView ELSE LoadedView("identity", t)
           stored == IF t = 0 THEN adminDraft[k] ELSE IdentityDraft(k, DraftOf(t))
           d == IdentityDraft(k, stored)
           item == IdentityItem(k, t, d, "simulated")
<1>1. /\ t \in 0..MaxChanges
      /\ t # 0 => /\ t \in Changes /\ queue[t] # NoItem /\ queue[t].kind \in Kinds
                  /\ Owner[queue[t].kind] = Owner[k]
  BY IdentityTarget
<1>2. IdentityValid(d) /\ SimulateAs(k, t, item, stored, IdentitySimulation(k, t, d).content, view)
  BY DEF IdentitySimulate
<1> HIDE DEF t
<1>3. stored \in Drafts /\ d \in Drafts /\ IdentityDraft(k, d) \in Drafts /\ k \in Kinds /\ k # "policy" /\ "simulated" \in Statuses
  BY <1>1, IdentityDraftType, DraftOfType DEF AdminTypeOK, Statuses
<1>4. view \in Views
  BY <1>1, IdentityViewType, LoadedViewType DEF Workspaces
<1>5. item \in Items /\ item.kind = k /\ item.status = "simulated" /\ item.content = IdentityDraft(k, d).content
  BY <1>3, RebuiltType DEF IdentityItem, Drafts
<1>6. IdentityDraft(k, d).content = d.content /\ IdentitySimulation(k, t, d).content = d.content
  BY <1>2 DEF IdentityDraft, IdentityValid, IdentitySimulation, PreviewOf
<1>7. d.content \in Contents \cup {Unset}
  BY <1>3 DEF Drafts
<1> HIDE DEF view, stored, d, item
<1> QED BY <1>1, <1>2, <1>3, <1>4, <1>5, <1>6, <1>7, SimulateKeeps

LEMMA IdentityRouteKeeps ==
  ASSUME AdminTypeOK, AdminInv, NEW k \in IdentityKinds, NEW card,
         card # 0 => card \in IdentityQueue /\ queue[card].kind = k,
         IdentityRoute(k, card)
  PROVE  AdminTypeOK' /\ AdminInv'
<1> DEFINE t == IF card # 0 THEN card ELSE SelectedOf(k)
           item == IF t # 0 THEN queue[t] ELSE IdentityItem(k, 0, adminDraft[k], "simulated")
<1>1. /\ t \in 0..MaxChanges
      /\ t # 0 => /\ t \in Changes /\ queue[t] # NoItem /\ queue[t] \in Items /\ queue[t].kind = k
                  /\ queue[t].kind \in Kinds /\ Owner[queue[t].kind] = Owner[k]
  BY IdentityTarget
<1>2. RouteAs(k, t, item, IdentityView)
  BY DEF IdentityRoute
<1> HIDE DEF t
<1>3. item \in Items /\ item.kind = k /\ (t # 0 => item.content = queue[t].content) /\ k \in Kinds /\ k # "policy"
  <2>1. IdentityDraft(k, adminDraft[k]) \in Drafts /\ k \in Kinds /\ "simulated" \in Statuses /\ k # "policy"
    BY IdentityDraftType DEF AdminTypeOK, Statuses
  <2> QED BY <1>1, <2>1, RebuiltType DEF IdentityItem, Drafts
<1>4. IdentityView \in Views /\ IdentityView.preview = adminView[Owner[k]].preview
  BY IdentityViewType, IdentityDraftType DEF IdentityView
<1> HIDE DEF item
<1> QED BY <1>1, <1>2, <1>3, <1>4, RouteKeeps

\* Every step of the workspace.
LEMMA IdentityKeeps ==
  ASSUME AdminTypeOK, AdminInv, IdentityNext
  PROVE  AdminTypeOK' /\ AdminInv'
<1>1. /\ IdentityView \in Views
      /\ \A k \in IdentityKinds : IdentityView.preview = adminView[Owner[k]].preview /\ k \in Kinds /\ k # "policy"
  BY IdentityViewType, IdentityDraftType DEF IdentityView
<1>2. CASE IdentityEdit
  <2>1. PICK k \in IdentityKinds : \E d \in IdentityFields(k) :
          EditAs(k, IdentityDraft(k, d), IdentityView.preview.kind = k, IdentityView)
    BY <1>2 DEF IdentityEdit
  <2>2. PICK d \in IdentityFields(k) :
          EditAs(k, IdentityDraft(k, d), IdentityView.preview.kind = k, IdentityView)
    BY <2>1
  <2>3. d \in Drafts /\ (IdentityView.preview.kind = k) \in BOOLEAN
    BY <1>1, <2>2, TypedType DEF IdentityFields
  <2> QED BY <1>1, <2>2, <2>3, IdentityDraftType, EditKeeps
<1>3. CASE TypeReason("identity")
  BY <1>3, TypeReasonKeeps DEF Workspaces
<1>4. ASSUME NEW c \in IdentityQueue, IdentityApply(c) PROVE AdminTypeOK' /\ AdminInv'
  <2>1. PICK k \in IdentityKinds : ApplyAs(k, c, IdentityView)
    BY <1>4 DEF IdentityApply
  <2> QED BY <1>1, <2>1, ApplyKeeps
<1>5. ASSUME NEW c \in IdentityQueue, NEW r \in {"rollback", "expiry"}, IdentityRecover(c, r)
      PROVE  AdminTypeOK' /\ AdminInv'
  <2>1. PICK k \in IdentityKinds : RecoverAs(k, c, IF r = "expiry" THEN "expired" ELSE "rolled_back", r)
    BY <1>5 DEF IdentityRecover
  <2>2. queue[c].status \in Executed
    BY <1>5 DEF IdentityRecover, Recoverable, Executed
  <2> QED BY <1>1, <2>1, <2>2, RecoverKeeps DEF Executed
<1>6. ASSUME NEW c \in IdentityQueue, IdentitySimulate(queue[c].kind, c) \/ IdentityRoute(queue[c].kind, c)
      PROVE  AdminTypeOK' /\ AdminInv'
  BY <1>6, IdentityCard, IdentitySimulateKeeps, IdentityRouteKeeps
<1>7. ASSUME NEW k \in IdentityKinds, IdentitySimulate(k, 0) \/ IdentityRoute(k, 0)
      PROVE  AdminTypeOK' /\ AdminInv'
  BY <1>7, IdentitySimulateKeeps, IdentityRouteKeeps
<1> QED
  BY <1>2, <1>3, <1>4, <1>5, <1>6, <1>7, IdentityLoadKeeps, IdentitySaveKeeps DEF IdentityNext, IdentityClick

-----------------------------------------------------------------------------
(* The platform workspace *)

LEMMA PlatformDraftType ==
  ASSUME AdminTypeOK
  PROVE  \A d \in Drafts : PlatformDraft(d) \in Drafts
<1>1. offered["platform"] = <<>> \/ Head(offered["platform"]) \in Contents
  BY OfferedType DEF Kinds
<1> QED BY <1>1 DEF PlatformDraft, PlatformDefault, Drafts

LEMMA PlatformViewType ==
  ASSUME AdminTypeOK, AdminInv
  PROVE  /\ PlatformView \in Views /\ PreviewTrue("platform", PlatformView.preview, queue)
         /\ [PlatformView EXCEPT !.reason = FALSE] \in Views
  BY ViewType DEF PlatformView, Workspaces, Views, AdminInv

\* A card's proposal is one of the workspace.
LEMMA PlatformCard ==
  ASSUME AdminTypeOK, NEW c \in PlatformQueue
  PROVE  c \in Changes /\ queue[c] # NoItem /\ queue[c].kind = "platform" /\ queue[c] \in Items
  BY QueuedType DEF PlatformQueue, QueuedIn, Queued, Owner, Kinds

LEMMA PlatformLoadKeeps ==
  ASSUME AdminTypeOK, AdminInv, NEW c, PlatformLoad(c)
  PROVE  AdminTypeOK' /\ AdminInv'
<1>1. LoadAs("platform", c, PlatformDraft(DraftOf(c)), LoadedView("platform", c)) /\ c \in Changes /\ queue[c] # NoItem
  BY DEF PlatformLoad, LoadAs, Queued
<1>2. PlatformDraft(DraftOf(c)) \in Drafts /\ "platform" \in Kinds /\ Owner["platform"] = "platform"
  BY <1>1, DraftOfType, PlatformDraftType DEF Kinds, Owner
<1> QED BY <1>1, <1>2, LoadedViewType, LoadKeeps DEF Workspaces

LEMMA PlatformSaveKeeps ==
  ASSUME AdminTypeOK, AdminInv, PlatformSave
  PROVE  AdminTypeOK' /\ AdminInv'
<1> DEFINE d == PlatformDraft(adminDraft["platform"])
           item == PlatformItem(SelectedOf("platform"), d, "draft")
<1>1. "platform" \in Kinds /\ d \in Drafts /\ PlatformDraft(d) \in Drafts /\ "draft" \in Statuses
  BY PlatformDraftType DEF Kinds, AdminTypeOK, Statuses
<1>2. item \in Items /\ item.kind = "platform" /\ item.status = "draft"
  BY <1>1, RebuiltType DEF PlatformItem, Drafts
<1>3. SaveAs("platform", item, PlatformView)
  BY DEF PlatformSave
<1> HIDE DEF item
<1> QED BY <1>1, <1>2, <1>3, PlatformViewType, SaveKeeps

LEMMA PlatformSimulateKeeps ==
  ASSUME AdminTypeOK, AdminInv, NEW card \in PlatformQueue \cup {0}, PlatformSimulate(card)
  PROVE  AdminTypeOK' /\ AdminInv'
<1> DEFINE t == IF card # 0 THEN card ELSE SelectedOf("platform")
           view == IF card = 0 THEN PlatformView ELSE LoadedView("platform", card)
           stored == IF card = 0 THEN adminDraft["platform"] ELSE PlatformDraft(DraftOf(card))
           d == PlatformDraft(stored)
           item == PlatformItem(t, d, "simulated")
<1>1. /\ t \in 0..MaxChanges
      /\ t # 0 => queue[t] # NoItem /\ queue[t].kind \in Kinds /\ Owner[queue[t].kind] = Owner["platform"]
      /\ card # 0 => card \in Changes /\ queue[card] # NoItem
  BY SelectedOfType, PlatformCard, BoundsAssumption DEF Kinds, Owner, Changes
<1>2. stored \in Drafts /\ d \in Drafts /\ "platform" \in Kinds /\ "simulated" \in Statuses
  BY <1>1, PlatformDraftType, DraftOfType DEF AdminTypeOK, Kinds, Statuses
<1>3. view \in Views /\ [view EXCEPT !.reason = FALSE] \in Views
  BY <1>1, PlatformViewType, LoadedViewType DEF Views, Workspaces
<1>4. item \in Items /\ item.kind = "platform" /\ item.status = "simulated" /\ item.content = PlatformDraft(d).content
  BY <1>2, RebuiltType, PlatformDraftType DEF PlatformItem, Drafts
<1>5. CASE PlatformValid(d) /\ SimulateAs("platform", t, item, stored, PlatformSimulation(t, d).content, view)
  <2>1. PlatformDraft(d).content = d.content /\ PlatformSimulation(t, d).content = d.content
    BY <1>5 DEF PlatformDraft, PlatformValid, PlatformSimulation, PreviewOf
  <2>2. d.content \in Contents \cup {Unset}
    BY <1>2 DEF Drafts
  <2> HIDE DEF t, view, stored, d, item
  <2> QED BY <1>1, <1>2, <1>3, <1>4, <1>5, <2>1, <2>2, SimulateKeeps
<1> QED BY <1>5 DEF PlatformSimulate

LEMMA PlatformRouteKeeps ==
  ASSUME AdminTypeOK, AdminInv, NEW card \in PlatformQueue \cup {0}, PlatformRoute(card)
  PROVE  AdminTypeOK' /\ AdminInv'
<1> DEFINE t == IF card # 0 THEN card ELSE SelectedOf("platform")
           item == IF card # 0 THEN queue[card] ELSE PlatformItem(t, adminDraft["platform"], "simulated")
           view == PlatformView
<1>1. /\ t \in 0..MaxChanges
      /\ t # 0 => queue[t] # NoItem /\ queue[t].kind \in Kinds /\ Owner[queue[t].kind] = Owner["platform"]
  BY SelectedOfType, PlatformCard, BoundsAssumption DEF Kinds, Owner, Changes
<1>2. item \in Items /\ item.kind = "platform"
  <2>1. PlatformDraft(adminDraft["platform"]) \in Drafts /\ "platform" \in Kinds /\ "simulated" \in Statuses
    BY PlatformDraftType DEF AdminTypeOK, Kinds, Statuses
  <2> QED BY <2>1, PlatformCard, RebuiltType DEF PlatformItem, Drafts
<1>3. view \in Views /\ view.preview = adminView[Owner["platform"]].preview
  BY PlatformViewType DEF PlatformView, Views, Owner
<1>4. t # 0 /\ Owner["platform"] \notin {"platform", "guardrail"} => item.content = queue[t].content
  BY DEF Owner
<1>5. RouteAs("platform", t, item, view)
  BY DEF PlatformRoute
<1>6. "platform" \in Kinds
  BY DEF Kinds
<1> HIDE DEF t, item, view
<1> QED BY <1>1, <1>2, <1>3, <1>4, <1>5, <1>6, RouteKeeps

\* Every step of the workspace.
LEMMA PlatformKeeps ==
  ASSUME AdminTypeOK, AdminInv, PlatformNext
  PROVE  AdminTypeOK' /\ AdminInv'
<1>1. CASE PlatformEdit
  <2>1. PICK d \in PlatformFields : EditAs("platform", PlatformDraft(d), TRUE, PlatformView)
    BY <1>1 DEF PlatformEdit
  <2>2. d \in Drafts /\ "platform" \in Kinds
    BY <2>1, TypedType DEF PlatformFields, Kinds
  <2>3. PlatformView \in Views /\ PlatformView.preview = adminView[Owner["platform"]].preview
    BY PlatformViewType DEF PlatformView, Owner, Views
  <2> QED BY <2>1, <2>2, <2>3, PlatformDraftType, PlatformViewType, EditKeeps
<1>2. CASE TypeReason("platform")
  BY <1>2, TypeReasonKeeps DEF Workspaces
<1>3. ASSUME NEW c \in PlatformQueue, PlatformApply(c) PROVE AdminTypeOK' /\ AdminInv'
  <2> DEFINE view == PlatformView
  <2>1. ApplyAs("platform", c, view)
    BY <1>3 DEF PlatformApply
  <2>2. /\ view \in Views /\ view.preview = adminView[Owner["platform"]].preview
        /\ view.checked = adminView["platform"].checked /\ "platform" \in Kinds
    BY PlatformViewType DEF PlatformView, Owner, Views, Kinds
  <2> HIDE DEF view
  <2> QED BY <2>1, <2>2, ApplyKeeps
<1>4. ASSUME NEW c \in PlatformQueue, PlatformRecover(c) PROVE AdminTypeOK' /\ AdminInv'
  <2>1. RecoverAs("platform", c, "rolled_back", "rollback") /\ queue[c].status \in Executed
    BY <1>4 DEF PlatformRecover, Recoverable, Executed
  <2> QED BY <2>1, RecoverKeeps DEF Kinds, Executed
<1> QED
  BY <1>1, <1>2, <1>3, <1>4, PlatformLoadKeeps, PlatformSaveKeeps, PlatformSimulateKeeps, PlatformRouteKeeps
  DEF PlatformNext, PlatformClick

-----------------------------------------------------------------------------
(* The guardrail workspace *)

LEMMA GuardrailDraftType ==
  ASSUME AdminTypeOK
  PROVE  \A d \in Drafts : GuardrailDraft(d) \in Drafts
<1>1. offered["guardrail"] = <<>> \/ Head(offered["guardrail"]) \in Contents
  BY OfferedType DEF Kinds
<1> QED BY <1>1, ContentsAssumption DEF GuardrailDraft, GuardrailDefault, Drafts

LEMMA GuardrailViewType ==
  ASSUME AdminTypeOK, AdminInv
  PROVE  /\ GuardrailView \in Views /\ PreviewTrue("guardrail", GuardrailView.preview, queue)
         /\ [GuardrailView EXCEPT !.reason = FALSE] \in Views
  BY ViewType DEF GuardrailView, Workspaces, Views, AdminInv

\* A card's proposal is one of the workspace.
LEMMA GuardrailCard ==
  ASSUME AdminTypeOK, NEW c \in GuardrailQueue
  PROVE  c \in Changes /\ queue[c] # NoItem /\ queue[c].kind = "guardrail" /\ queue[c] \in Items
  BY QueuedType DEF GuardrailQueue, QueuedIn, Queued, Owner, Kinds

LEMMA GuardrailLoadKeeps ==
  ASSUME AdminTypeOK, AdminInv, NEW c, GuardrailLoad(c)
  PROVE  AdminTypeOK' /\ AdminInv'
<1>1. LoadAs("guardrail", c, GuardrailDraft(DraftOf(c)), LoadedView("guardrail", c)) /\ c \in Changes /\ queue[c] # NoItem
  BY DEF GuardrailLoad, LoadAs, Queued
<1>2. GuardrailDraft(DraftOf(c)) \in Drafts /\ "guardrail" \in Kinds /\ Owner["guardrail"] = "guardrail"
  BY <1>1, DraftOfType, GuardrailDraftType DEF Kinds, Owner
<1> QED BY <1>1, <1>2, LoadedViewType, LoadKeeps DEF Workspaces

LEMMA GuardrailSaveKeeps ==
  ASSUME AdminTypeOK, AdminInv, GuardrailSave
  PROVE  AdminTypeOK' /\ AdminInv'
<1> DEFINE d == GuardrailDraft(adminDraft["guardrail"])
           item == GuardrailItem(SelectedOf("guardrail"), d, "draft")
<1>1. "guardrail" \in Kinds /\ d \in Drafts /\ GuardrailDraft(d) \in Drafts /\ "draft" \in Statuses
  BY GuardrailDraftType DEF Kinds, AdminTypeOK, Statuses
<1>2. item \in Items /\ item.kind = "guardrail" /\ item.status = "draft"
  BY <1>1, RebuiltType DEF GuardrailItem, Drafts
<1>3. SaveAs("guardrail", item, GuardrailView)
  BY DEF GuardrailSave
<1> HIDE DEF item
<1> QED BY <1>1, <1>2, <1>3, GuardrailViewType, SaveKeeps

LEMMA GuardrailSimulateKeeps ==
  ASSUME AdminTypeOK, AdminInv, NEW card \in GuardrailQueue \cup {0}, GuardrailSimulate(card)
  PROVE  AdminTypeOK' /\ AdminInv'
<1> DEFINE t == IF card # 0 THEN card ELSE SelectedOf("guardrail")
           view == IF card = 0 THEN GuardrailView ELSE LoadedView("guardrail", card)
           stored == IF card = 0 THEN adminDraft["guardrail"] ELSE GuardrailDraft(DraftOf(card))
           d == GuardrailDraft(stored)
           item == GuardrailItem(t, d, "simulated")
<1>1. /\ t \in 0..MaxChanges
      /\ t # 0 => queue[t] # NoItem /\ queue[t].kind \in Kinds /\ Owner[queue[t].kind] = Owner["guardrail"]
      /\ card # 0 => card \in Changes /\ queue[card] # NoItem
  BY SelectedOfType, GuardrailCard, BoundsAssumption DEF Kinds, Owner, Changes
<1>2. stored \in Drafts /\ d \in Drafts /\ "guardrail" \in Kinds /\ "simulated" \in Statuses
  BY <1>1, GuardrailDraftType, DraftOfType DEF AdminTypeOK, Kinds, Statuses
<1>3. view \in Views /\ [view EXCEPT !.reason = FALSE] \in Views
  BY <1>1, GuardrailViewType, LoadedViewType DEF Views, Workspaces
<1>4. item \in Items /\ item.kind = "guardrail" /\ item.status = "simulated" /\ item.content = GuardrailDraft(d).content
  BY <1>2, RebuiltType, GuardrailDraftType DEF GuardrailItem, Drafts
<1>5. CASE GuardrailValid(d) /\ SimulateAs("guardrail", t, item, stored, GuardrailSimulation(t, d).content, view)
  <2>1. GuardrailDraft(d).content = d.content /\ GuardrailSimulation(t, d).content = d.content
    BY <1>5 DEF GuardrailDraft, GuardrailValid, GuardrailSimulation, PreviewOf
  <2>2. d.content \in Contents \cup {Unset}
    BY <1>2 DEF Drafts
  <2> HIDE DEF t, view, stored, d, item
  <2> QED BY <1>1, <1>2, <1>3, <1>4, <1>5, <2>1, <2>2, SimulateKeeps
<1> QED BY <1>5 DEF GuardrailSimulate

LEMMA GuardrailRouteKeeps ==
  ASSUME AdminTypeOK, AdminInv, NEW card \in GuardrailQueue \cup {0}, GuardrailRoute(card)
  PROVE  AdminTypeOK' /\ AdminInv'
<1> DEFINE t == IF card # 0 THEN card ELSE SelectedOf("guardrail")
           item == IF card # 0 THEN queue[card] ELSE GuardrailItem(t, adminDraft["guardrail"], "simulated")
           view == GuardrailView
<1>1. /\ t \in 0..MaxChanges
      /\ t # 0 => queue[t] # NoItem /\ queue[t].kind \in Kinds /\ Owner[queue[t].kind] = Owner["guardrail"]
  BY SelectedOfType, GuardrailCard, BoundsAssumption DEF Kinds, Owner, Changes
<1>2. item \in Items /\ item.kind = "guardrail"
  <2>1. GuardrailDraft(adminDraft["guardrail"]) \in Drafts /\ "guardrail" \in Kinds /\ "simulated" \in Statuses
    BY GuardrailDraftType DEF AdminTypeOK, Kinds, Statuses
  <2> QED BY <2>1, GuardrailCard, RebuiltType DEF GuardrailItem, Drafts
<1>3. view \in Views /\ view.preview = adminView[Owner["guardrail"]].preview
  BY GuardrailViewType DEF GuardrailView, Views, Owner
<1>4. t # 0 /\ Owner["guardrail"] \notin {"platform", "guardrail"} => item.content = queue[t].content
  BY DEF Owner
<1>5. RouteAs("guardrail", t, item, view)
  BY DEF GuardrailRoute
<1>6. "guardrail" \in Kinds
  BY DEF Kinds
<1> HIDE DEF t, item, view
<1> QED BY <1>1, <1>2, <1>3, <1>4, <1>5, <1>6, RouteKeeps

\* Every step of the workspace.
LEMMA GuardrailKeeps ==
  ASSUME AdminTypeOK, AdminInv, GuardrailNext
  PROVE  AdminTypeOK' /\ AdminInv'
<1>1. CASE GuardrailEdit
  <2>1. PICK d \in GuardrailFields : EditAs("guardrail", GuardrailDraft(d), TRUE, GuardrailView)
    BY <1>1 DEF GuardrailEdit
  <2>2. d \in Drafts /\ "guardrail" \in Kinds
    BY <2>1, TypedType DEF GuardrailFields, Kinds
  <2>3. GuardrailView \in Views /\ GuardrailView.preview = adminView[Owner["guardrail"]].preview
    BY GuardrailViewType DEF GuardrailView, Owner, Views
  <2> QED BY <2>1, <2>2, <2>3, GuardrailDraftType, GuardrailViewType, EditKeeps
<1>2. CASE TypeReason("guardrail")
  BY <1>2, TypeReasonKeeps DEF Workspaces
<1>3. ASSUME NEW c \in GuardrailQueue, GuardrailApply(c) PROVE AdminTypeOK' /\ AdminInv'
  <2> DEFINE view == [GuardrailView EXCEPT !.reason = FALSE]
  <2>1. ApplyAs("guardrail", c, view)
    BY <1>3 DEF GuardrailApply
  <2>2. /\ view \in Views /\ view.preview = adminView[Owner["guardrail"]].preview
        /\ view.checked = adminView["guardrail"].checked /\ "guardrail" \in Kinds
    BY GuardrailViewType DEF GuardrailView, Owner, Views, Kinds
  <2> HIDE DEF view
  <2> QED BY <2>1, <2>2, ApplyKeeps
<1>4. ASSUME NEW c \in GuardrailQueue, GuardrailRecover(c) PROVE AdminTypeOK' /\ AdminInv'
  <2>1. RecoverAs("guardrail", c, "rolled_back", "rollback") /\ queue[c].status \in Executed
    BY <1>4 DEF GuardrailRecover, Recoverable, Executed
  <2> QED BY <2>1, RecoverKeeps DEF Kinds, Executed
<1> QED
  BY <1>1, <1>2, <1>3, <1>4, GuardrailLoadKeeps, GuardrailSaveKeeps, GuardrailSimulateKeeps, GuardrailRouteKeeps
  DEF GuardrailNext, GuardrailClick

-----------------------------------------------------------------------------
(* The policy workspace *)

LEMMA PolicyDraftType ==
  ASSUME AdminTypeOK
  PROVE  \A d \in Drafts : PolicyDraft(d) \in Drafts
<1>1. offered["policy"] = <<>> \/ Head(offered["policy"]) \in Contents
  BY OfferedType DEF Kinds
<1> QED BY <1>1 DEF PolicyDraft, PolicyDefault, Drafts

LEMMA PolicyViewType ==
  ASSUME AdminTypeOK, AdminInv
  PROVE  /\ PolicyView \in Views /\ PreviewTrue("policy", PolicyView.preview, queue)
         /\ [PolicyView EXCEPT !.reason = FALSE] \in Views /\ [PolicyView EXCEPT !.checked = NoCheck] \in Views
         /\ NamesPolicy(PolicyView.checked, queue)
  BY ViewType, NoPreviewType DEF PolicyView, Workspaces, Views, AdminInv

\* A card's proposal is one of the workspace.
LEMMA PolicyCard ==
  ASSUME AdminTypeOK, NEW c \in PolicyQueue
  PROVE  c \in Changes /\ queue[c] # NoItem /\ queue[c].kind = "policy" /\ queue[c] \in Items
  BY QueuedType DEF PolicyQueue, QueuedIn, Queued, Owner, Kinds

\* The verdict that counts for a proposal is about it, and about its content.
LEMMA CheckForNames ==
  ASSUME AdminTypeOK, AdminInv, NEW c \in PolicyQueue
  PROVE  /\ CheckFor(c) \in Checks /\ NamesPolicy(CheckFor(c), queue)
         /\ CheckFor(c).change # 0 => CheckFor(c).change = c /\ CheckFor(c).content = queue[c].content
<1>1. c \in Changes /\ c # 0 /\ Queued(c) /\ queue[c].kind = "policy" /\ queue[c] \in Items
  BY PolicyCard, BoundsAssumption DEF Changes, Queued
<1>2. PolicyView.checked \in Checks /\ NamesPolicy(PolicyView.checked, queue)
  BY PolicyViewType DEF Views
<1>3. CASE PolicyView.checked.change = c
  <2>1. CheckFor(c) = PolicyView.checked
    BY <1>1, <1>3 DEF CheckFor
  <2> QED BY <1>1, <1>2, <1>3, <2>1 DEF NamesPolicy
<1>4. CASE PolicyView.checked.change # c
  <2>1. CheckFor(c) = queue[c].checked
    BY <1>1, <1>4 DEF CheckFor
  <2>2. queue[c].checked \in Checks /\ PolicyIsVerified(c, queue[c])
    BY <1>1 DEF Items, AdminInv, QueueTrue, ItemTrue, Queued
  <2> QED BY <1>1, <2>1, <2>2 DEF NamesPolicy, PolicyIsVerified, Queued
<1> QED BY <1>3, <1>4

LEMMA PolicyLoadedViewType ==
  ASSUME AdminTypeOK, AdminInv, NEW c \in PolicyQueue
  PROVE  /\ PolicyLoadedView(c) \in Views /\ PreviewTrue("policy", PolicyLoadedView(c).preview, queue)
         /\ PolicyLoadedView(c).checked = CheckFor(c)
<1>1. "policy" \in Workspaces /\ c \in Changes
  BY PolicyCard DEF Workspaces
<1>2. LoadedView("policy", c) \in Views /\ PreviewTrue("policy", LoadedView("policy", c).preview, queue)
  BY <1>1, LoadedViewType
<1> QED BY <1>2, CheckForNames DEF PolicyLoadedView, Views

LEMMA PolicyLoadKeeps ==
  ASSUME AdminTypeOK, AdminInv, NEW c \in PolicyQueue, NEW d \in Drafts,
         LoadAs("policy", c, d, PolicyLoadedView(c))
  PROVE  AdminTypeOK' /\ AdminInv'
<1>1. "policy" \in Kinds /\ Owner["policy"] = "policy"
  BY DEF Kinds, Owner
<1> QED BY <1>1, PolicyLoadedViewType, CheckForNames, LoadKeeps

LEMMA PolicyOpenKeeps ==
  ASSUME AdminTypeOK, AdminInv, NEW c, PolicyLoad(c)
  PROVE  AdminTypeOK' /\ AdminInv'
<1>1. LoadAs("policy", c, PolicyDraft(DraftOf(c)), PolicyLoadedView(c)) /\ c \in PolicyQueue
  BY DEF PolicyLoad, LoadAs, Queued, PolicyQueue, QueuedIn, Owner
<1>2. PolicyDraft(DraftOf(c)) \in Drafts
  BY <1>1, PolicyCard, DraftOfType, PolicyDraftType
<1> QED BY <1>1, <1>2, PolicyLoadKeeps

LEMMA PolicySaveKeeps ==
  ASSUME AdminTypeOK, AdminInv, PolicySave
  PROVE  AdminTypeOK' /\ AdminInv'
<1> DEFINE d == PolicyDraft(adminDraft["policy"])
           built == PolicyItem(SelectedOf("policy"), d, "draft")
           item == Unchecked(built)
<1>1. "policy" \in Kinds /\ d \in Drafts /\ PolicyDraft(d) \in Drafts /\ "draft" \in Statuses
  BY PolicyDraftType DEF Kinds, AdminTypeOK, Statuses
<1>2. d.content # Unset /\ PolicyDraft(d).content = d.content
  BY DEF PolicySave, PolicyValid, PolicyDraft
<1>3. built \in Items /\ built.kind = "policy" /\ built.status = "draft" /\ built.content = d.content
  BY <1>1, <1>2, RebuiltType DEF PolicyItem, Drafts
<1>4. /\ item \in Items /\ item.kind = "policy" /\ item.status = "draft" /\ item.content = d.content
      /\ item.checked = NoCheck
  <2> HIDE DEF built, d
  <2> QED BY <1>3, NoPreviewType DEF Unchecked, Items
<1>5. SaveAs("policy", item, [PolicyView EXCEPT !.checked = NoCheck])
  BY DEF PolicySave
<1>6. [PolicyView EXCEPT !.checked = NoCheck].checked = NoCheck
  BY PolicyViewType DEF Views
<1> HIDE DEF item, d
<1> QED BY <1>1, <1>2, <1>4, <1>5, <1>6, PolicyViewType, SaveKeeps

LEMMA PolicySimulateKeeps ==
  ASSUME AdminTypeOK, AdminInv, NEW card \in PolicyQueue \cup {0}, PolicySimulate(card)
  PROVE  AdminTypeOK' /\ AdminInv'
<1> DEFINE view == IF card = 0 THEN PolicyView ELSE PolicyLoadedView(card)
           stored == IF card = 0 THEN adminDraft["policy"] ELSE PolicyDraft(DraftOf(card))
           d == PolicyDraft(stored)
           built == PolicyItem(card, d, "simulated")
           item == Unchecked(built)
           shown == [view EXCEPT !.checked = NoCheck]
<1>1. /\ card \in 0..MaxChanges
      /\ card # 0 => /\ queue[card] # NoItem /\ queue[card].kind \in Kinds
                     /\ Owner[queue[card].kind] = Owner["policy"] /\ card \in Changes /\ card \in PolicyQueue
  BY PolicyCard, BoundsAssumption DEF Kinds, Owner, Changes
<1>2. stored \in Drafts /\ d \in Drafts /\ PolicyDraft(d) \in Drafts /\ "policy" \in Kinds /\ "simulated" \in Statuses
  BY <1>1, PolicyDraftType, DraftOfType DEF AdminTypeOK, Kinds, Statuses
<1>3. view \in Views
  BY <1>1, PolicyViewType, PolicyLoadedViewType
<1>4. shown \in Views /\ shown.checked = NoCheck
  <2> HIDE DEF view
  <2> QED BY <1>3, NoPreviewType DEF Views
<1>5. built \in Items /\ built.kind = "policy" /\ built.status = "simulated" /\ built.content = PolicyDraft(d).content
  BY <1>2, RebuiltType DEF PolicyItem, Drafts
<1>6. /\ item \in Items /\ item.kind = "policy" /\ item.status = "simulated" /\ item.content = PolicyDraft(d).content
      /\ item.checked = NoCheck
  <2> HIDE DEF built, d
  <2> QED BY <1>5, NoPreviewType DEF Unchecked, Items
<1>7. CASE PolicyValid(d) /\ SimulateAs("policy", card, item, stored, PolicySimulation(card, d).content, shown)
  <2>1. PolicyDraft(d).content = d.content /\ PolicySimulation(card, d).content = d.content /\ d.content # Unset
    BY <1>7 DEF PolicyDraft, PolicyValid, PolicySimulation, PreviewOf
  <2>2. d.content \in Contents \cup {Unset}
    BY <1>2 DEF Drafts
  <2> HIDE DEF shown, stored, d, item
  <2> QED BY <1>1, <1>2, <1>4, <1>6, <1>7, <2>1, <2>2, SimulateKeeps
<1>8. CASE card # 0 /\ LoadAs("policy", card, stored, view)
  <2>1. view = PolicyLoadedView(card)
    BY <1>8
  <2> HIDE DEF view, stored
  <2> QED BY <1>1, <1>2, <1>8, <2>1, PolicyLoadKeeps
<1> QED BY <1>7, <1>8 DEF PolicySimulate

\* The gate rebuilds the very proposal that was simulated: its content is what it was.
LEMMA PolicyVerifyKeeps ==
  ASSUME AdminTypeOK, AdminInv, NEW card \in PolicyQueue, NEW ready \in BOOLEAN, PolicyVerify(card, ready)
  PROVE  AdminTypeOK' /\ AdminInv'
<1> DEFINE view == PolicyLoadedView(card)
           stored == PolicyDraft(DraftOf(card))
           d == PolicyDraft(stored)
           check == Verification(card, d, view.preview, ready)
           status == IF check.passing THEN "verified" ELSE "verification_failed"
           built == PolicyItem(card, d, status)
           item == [built EXCEPT !.simulated = TRUE, !.checked = check]
           shown == [view EXCEPT !.checked = check]
<1>1. /\ card \in Changes /\ card # 0 /\ card \in 0..MaxChanges /\ queue[card] # NoItem
      /\ queue[card].kind = "policy" /\ queue[card].content # Unset /\ "policy" \in Kinds /\ Owner["policy"] = "policy"
  BY PolicyCard, BoundsAssumption DEF Changes, Kinds, Owner, AdminInv, QueueTrue, ItemTrue, PolicyIsVerified
<1>2. stored \in Drafts /\ d \in Drafts /\ PolicyDraft(d) \in Drafts
  BY <1>1, PolicyDraftType, DraftOfType
<1>3. d.content = queue[card].content /\ PolicyDraft(d).content = d.content /\ d.content \in Contents \cup {Unset}
  BY <1>1, <1>2, DraftOfType DEF PolicyDraft, DraftOf, Drafts
<1>4. view \in Views /\ PreviewTrue("policy", view.preview, queue) /\ NamesPolicy(view.checked, queue)
  BY PolicyLoadedViewType, CheckForNames
<1>5. CASE PolicyValid(d) /\ view.preview.change = card /\ WriteAs("policy", card, item, stored, shown)
  <2>1. /\ check \in Checks /\ check.change = card /\ check.content = queue[card].content
        /\ status \in {"verified", "verification_failed"} /\ status \in Statuses
    <3> HIDE DEF d, view
    <3> QED BY <1>1, <1>3, <1>5 DEF Verification, Checks, Statuses
  <2>2. built \in Items /\ built.kind = "policy" /\ built.status = status /\ built.content = queue[card].content
    <3> HIDE DEF status
    <3> QED BY <1>1, <1>2, <1>3, <2>1, RebuiltType DEF PolicyItem, Drafts
  <2> HIDE DEF built, check, status, view, stored, d
  <2>3. /\ item \in Items /\ item.kind = "policy" /\ item.status = status /\ item.content = queue[card].content
        /\ item.checked = check
    BY <2>1, <2>2 DEF Items
  <2>4. shown \in Views /\ shown.preview = view.preview /\ shown.checked = check
    BY <1>4, <2>1 DEF Views
  <2> HIDE DEF item, shown
  <2>5. item.status \in Open \cup {"routed"} /\ RoutedIsClean(item) /\ PolicyIsVerified(card, item)
    BY <1>1, <2>1, <2>3 DEF Open, RoutedIsClean, PolicyIsVerified, Standing
  <2>6. PreviewTrue("policy", shown.preview, [queue EXCEPT ![card] = item])
    BY <1>1, <1>4, <2>3, <2>4, SameWork DEF Workspaces, Views
  <2>7. NamesPolicy(shown.checked, [queue EXCEPT ![card] = item])
    <3>1. [queue EXCEPT ![card] = item][card] = item /\ item # NoItem
      BY <1>1, <2>3, NoItemKind DEF AdminTypeOK
    <3> QED BY <1>1, <2>1, <2>3, <2>4, <3>1 DEF NamesPolicy
  <2> QED BY <1>1, <1>2, <1>5, <2>3, <2>4, <2>5, <2>6, <2>7, WriteKeeps
<1>6. CASE LoadAs("policy", card, stored, view)
  <2> HIDE DEF stored
  <2> QED BY <1>2, <1>6, PolicyLoadKeeps
<1> QED BY <1>5, <1>6 DEF PolicyVerify

LEMMA PolicyRouteKeeps ==
  ASSUME AdminTypeOK, AdminInv, NEW card \in PolicyQueue, PolicyRoute(card)
  PROVE  AdminTypeOK' /\ AdminInv'
<1> DEFINE check == CheckFor(card)
           item == [queue[card] EXCEPT !.checked = check]
           view == [PolicyView EXCEPT !.checked = check]
<1>1. /\ card \in Changes /\ card # 0 /\ card \in 0..MaxChanges /\ queue[card] # NoItem /\ queue[card] \in Items
      /\ queue[card].kind = "policy" /\ queue[card].content # Unset /\ "policy" \in Kinds /\ Owner["policy"] = "policy"
  BY PolicyCard, BoundsAssumption DEF Changes, Kinds, Owner, AdminInv, QueueTrue, ItemTrue, PolicyIsVerified
<1>2. /\ check \in Checks /\ check.passing /\ check.change = card /\ check.content = queue[card].content
      /\ RouteAs("policy", card, item, view)
  BY CheckForNames DEF PolicyRoute, NamesPolicy
<1> HIDE DEF check
<1>3. item \in Items /\ item.kind = "policy" /\ item.content = queue[card].content /\ item.checked = check
  BY <1>1, <1>2 DEF Items
<1>4. view \in Views /\ view.preview = adminView["policy"].preview /\ view.checked = check
  BY <1>2, PolicyViewType DEF Views, PolicyView
<1> HIDE DEF item, view
<1> QED BY <1>1, <1>2, <1>3, <1>4, RouteKeeps

\* Every step of the workspace.
LEMMA PolicyKeeps ==
  ASSUME AdminTypeOK, AdminInv, PolicyNext
  PROVE  AdminTypeOK' /\ AdminInv'
<1> DEFINE unchecked == [PolicyView EXCEPT !.checked = NoCheck]
           unreasoned == [PolicyView EXCEPT !.reason = FALSE]
<1>1. /\ unchecked \in Views /\ unchecked.preview = adminView["policy"].preview /\ unchecked.checked = NoCheck
      /\ unreasoned \in Views /\ unreasoned.preview = adminView["policy"].preview
      /\ unreasoned.checked = adminView["policy"].checked
      /\ "policy" \in Kinds /\ Owner["policy"] = "policy"
  BY PolicyViewType DEF PolicyView, Views, Kinds, Owner
<1>2. CASE PolicyEdit
  <2>1. PICK d \in PolicyFields : EditAs("policy", PolicyDraft(d), TRUE, unchecked)
    BY <1>2 DEF PolicyEdit
  <2>2. d \in Drafts
    BY <1>1, <2>1, TypedType DEF PolicyFields
  <2> HIDE DEF unchecked
  <2> QED BY <1>1, <2>1, <2>2, PolicyDraftType, NoPreviewTrue, EditKeeps
<1>3. CASE TypeReason("policy")
  BY <1>3, TypeReasonKeeps DEF Workspaces
<1>4. ASSUME NEW c \in PolicyQueue, PolicyApply(c) PROVE AdminTypeOK' /\ AdminInv'
  <2>1. ApplyAs("policy", c, unreasoned)
    BY <1>4 DEF PolicyApply
  <2> HIDE DEF unreasoned
  <2> QED BY <1>1, <2>1, ApplyKeeps
<1>5. ASSUME NEW c \in PolicyQueue, PolicyRecover(c) PROVE AdminTypeOK' /\ AdminInv'
  <2>1. RecoverAs("policy", c, "rolled_back", "rollback") /\ queue[c].status \in Executed
    BY <1>5 DEF PolicyRecover, Recoverable, Executed
  <2> QED BY <1>1, <2>1, RecoverKeeps DEF Executed
<1>6. SelectedOf("policy") \in PolicyQueue \cup {0}
  BY SelectedOfType DEF PolicyQueue, QueuedIn, Queued, Kinds, Owner
<1> QED
  BY <1>2, <1>3, <1>4, <1>5, <1>6, PolicyOpenKeeps, PolicySaveKeeps, PolicySimulateKeeps, PolicyVerifyKeeps, PolicyRouteKeeps
  DEF PolicyNext, PolicyClick

-----------------------------------------------------------------------------
(* The compliance workspace *)

LEMMA ComplianceDraftType ==
  ASSUME AdminTypeOK
  PROVE  \A d \in Drafts : ComplianceDraft(d) \in Drafts
<1>1. offered["compliance"] = <<>> \/ Head(offered["compliance"]) \in Contents
  BY OfferedType DEF Kinds
<1> QED BY <1>1 DEF ComplianceDraft, ComplianceDefault, Drafts

LEMMA ComplianceViewType ==
  ASSUME AdminTypeOK, AdminInv
  PROVE  /\ ComplianceView \in Views /\ PreviewTrue("compliance", ComplianceView.preview, queue)
         /\ [ComplianceView EXCEPT !.reason = FALSE] \in Views
  BY ViewType DEF ComplianceView, Workspaces, Views, AdminInv

\* A card's proposal is one of the workspace.
LEMMA ComplianceCard ==
  ASSUME AdminTypeOK, NEW c \in ComplianceQueue
  PROVE  c \in Changes /\ queue[c] # NoItem /\ queue[c].kind = "compliance" /\ queue[c] \in Items
  BY QueuedType DEF ComplianceQueue, QueuedIn, Queued, Owner, Kinds

LEMMA ComplianceLoadKeeps ==
  ASSUME AdminTypeOK, AdminInv, NEW c, ComplianceLoad(c)
  PROVE  AdminTypeOK' /\ AdminInv'
<1>1. LoadAs("compliance", c, ComplianceDraft(DraftOf(c)), LoadedView("compliance", c)) /\ c \in Changes /\ queue[c] # NoItem
  BY DEF ComplianceLoad, LoadAs, Queued
<1>2. ComplianceDraft(DraftOf(c)) \in Drafts /\ "compliance" \in Kinds /\ Owner["compliance"] = "compliance"
  BY <1>1, DraftOfType, ComplianceDraftType DEF Kinds, Owner
<1> QED BY <1>1, <1>2, LoadedViewType, LoadKeeps DEF Workspaces

LEMMA ComplianceSaveKeeps ==
  ASSUME AdminTypeOK, AdminInv, ComplianceSave
  PROVE  AdminTypeOK' /\ AdminInv'
<1> DEFINE d == ComplianceDraft(adminDraft["compliance"])
           item == ComplianceItem(SelectedOf("compliance"), d, "draft")
<1>1. "compliance" \in Kinds /\ d \in Drafts /\ ComplianceDraft(d) \in Drafts /\ "draft" \in Statuses
  BY ComplianceDraftType DEF Kinds, AdminTypeOK, Statuses
<1>2. item \in Items /\ item.kind = "compliance" /\ item.status = "draft"
  BY <1>1, RebuiltType DEF ComplianceItem, Drafts
<1>3. SaveAs("compliance", item, [ComplianceView EXCEPT !.reason = FALSE])
  BY DEF ComplianceSave
<1> HIDE DEF item
<1> QED BY <1>1, <1>2, <1>3, ComplianceViewType, SaveKeeps

LEMMA ComplianceSimulateKeeps ==
  ASSUME AdminTypeOK, AdminInv, NEW card \in ComplianceQueue \cup {0}, ComplianceSimulate(card)
  PROVE  AdminTypeOK' /\ AdminInv'
<1> DEFINE t == IF card # 0 THEN card ELSE SelectedOf("compliance")
           view == IF card = 0 THEN ComplianceView ELSE LoadedView("compliance", card)
           stored == IF card = 0 THEN adminDraft["compliance"] ELSE ComplianceDraft(DraftOf(card))
           d == ComplianceDraft(stored)
           item == ComplianceItem(t, d, "simulated")
<1>1. /\ t \in 0..MaxChanges
      /\ t # 0 => queue[t] # NoItem /\ queue[t].kind \in Kinds /\ Owner[queue[t].kind] = Owner["compliance"]
      /\ card # 0 => card \in Changes /\ queue[card] # NoItem
  BY SelectedOfType, ComplianceCard, BoundsAssumption DEF Kinds, Owner, Changes
<1>2. stored \in Drafts /\ d \in Drafts /\ "compliance" \in Kinds /\ "simulated" \in Statuses
  BY <1>1, ComplianceDraftType, DraftOfType DEF AdminTypeOK, Kinds, Statuses
<1>3. view \in Views /\ [view EXCEPT !.reason = FALSE] \in Views
  BY <1>1, ComplianceViewType, LoadedViewType DEF Views, Workspaces
<1>4. item \in Items /\ item.kind = "compliance" /\ item.status = "simulated" /\ item.content = ComplianceDraft(d).content
  BY <1>2, RebuiltType, ComplianceDraftType DEF ComplianceItem, Drafts
<1>5. CASE ComplianceValid(d) /\ SimulateAs("compliance", t, item, stored, ComplianceSimulation(t, d).content, [view EXCEPT !.reason = FALSE])
  <2>1. ComplianceDraft(d).content = d.content /\ ComplianceSimulation(t, d).content = d.content
    BY <1>5 DEF ComplianceDraft, ComplianceValid, ComplianceSimulation, PreviewOf
  <2>2. d.content \in Contents \cup {Unset}
    BY <1>2 DEF Drafts
  <2> HIDE DEF t, view, stored, d, item
  <2> QED BY <1>1, <1>2, <1>3, <1>4, <1>5, <2>1, <2>2, SimulateKeeps
<1>6. CASE card # 0 /\ LoadAs("compliance", card, stored, view)
  <2>1. PreviewTrue(Owner["compliance"], view.preview, queue)
    BY <1>1, <1>6, LoadedViewType DEF Owner, Workspaces
  <2> HIDE DEF view, stored
  <2> QED BY <1>2, <1>3, <1>6, <2>1, LoadKeeps
<1> QED BY <1>5, <1>6 DEF ComplianceSimulate

LEMMA ComplianceRouteKeeps ==
  ASSUME AdminTypeOK, AdminInv, NEW card \in ComplianceQueue \cup {0},
         card = 0 => SelectedOf("compliance") = 0, ComplianceRoute(card)
  PROVE  AdminTypeOK' /\ AdminInv'
<1> DEFINE t == IF card # 0 THEN card ELSE SelectedOf("compliance")
           item == IF card # 0 THEN queue[card] ELSE ComplianceItem(t, adminDraft["compliance"], "simulated")
           view == [ComplianceView EXCEPT !.reason = FALSE]
<1>1. /\ t \in 0..MaxChanges
      /\ t # 0 => queue[t] # NoItem /\ queue[t].kind \in Kinds /\ Owner[queue[t].kind] = Owner["compliance"]
  BY SelectedOfType, ComplianceCard, BoundsAssumption DEF Kinds, Owner, Changes
<1>2. item \in Items /\ item.kind = "compliance"
  <2>1. ComplianceDraft(adminDraft["compliance"]) \in Drafts /\ "compliance" \in Kinds /\ "simulated" \in Statuses
    BY ComplianceDraftType DEF AdminTypeOK, Kinds, Statuses
  <2> QED BY <2>1, ComplianceCard, RebuiltType DEF ComplianceItem, Drafts
<1>3. view \in Views /\ view.preview = adminView[Owner["compliance"]].preview
  BY ComplianceViewType DEF ComplianceView, Views, Owner
<1>4. t # 0 /\ Owner["compliance"] \notin {"platform", "guardrail"} => item.content = queue[t].content
  BY <1>1, SelectedOfType DEF Owner, Kinds
<1>5. RouteAs("compliance", t, item, view)
  BY DEF ComplianceRoute
<1>6. "compliance" \in Kinds
  BY DEF Kinds
<1> HIDE DEF t, item, view
<1> QED BY <1>1, <1>2, <1>3, <1>4, <1>5, <1>6, RouteKeeps

\* Every step of the workspace.
LEMMA ComplianceKeeps ==
  ASSUME AdminTypeOK, AdminInv, ComplianceNext
  PROVE  AdminTypeOK' /\ AdminInv'
<1>1. CASE ComplianceEdit
  <2>1. PICK d \in ComplianceFields : EditAs("compliance", ComplianceDraft(d), TRUE, ComplianceView)
    BY <1>1 DEF ComplianceEdit
  <2>2. d \in Drafts /\ "compliance" \in Kinds
    BY <2>1, TypedType DEF ComplianceFields, Kinds
  <2>3. ComplianceView \in Views /\ ComplianceView.preview = adminView[Owner["compliance"]].preview
    BY ComplianceViewType DEF ComplianceView, Owner, Views
  <2> QED BY <2>1, <2>2, <2>3, ComplianceDraftType, ComplianceViewType, EditKeeps
<1>2. CASE TypeReason("compliance")
  BY <1>2, TypeReasonKeeps DEF Workspaces
<1>3. ASSUME NEW c \in ComplianceQueue, ComplianceApply(c) PROVE AdminTypeOK' /\ AdminInv'
  <2> DEFINE view == [ComplianceView EXCEPT !.reason = FALSE]
  <2>1. ApplyAs("compliance", c, view)
    BY <1>3 DEF ComplianceApply
  <2>2. /\ view \in Views /\ view.preview = adminView[Owner["compliance"]].preview
        /\ view.checked = adminView["compliance"].checked /\ "compliance" \in Kinds
    BY ComplianceViewType DEF ComplianceView, Owner, Views, Kinds
  <2> HIDE DEF view
  <2> QED BY <2>1, <2>2, ApplyKeeps
<1>4. ASSUME NEW c \in ComplianceQueue, NEW r \in {"expiry", "renew"}, ComplianceRecover(c, r) PROVE AdminTypeOK' /\ AdminInv'
  <2>1. /\ RecoverAs("compliance", c, IF r = "renew" THEN "renewed" ELSE "expired", r)
        /\ queue[c].status \in Executed
    BY <1>4 DEF ComplianceRecover, Recoverable, Executed
  <2> QED BY <2>1, RecoverKeeps DEF Kinds, Executed
<1>5. SelectedOf("compliance") \in ComplianceQueue \cup {0}
  BY SelectedOfType DEF ComplianceQueue, QueuedIn, Queued, Kinds, Owner
<1>6. ASSUME NEW c \in ComplianceQueue \cup {SelectedOf("compliance")}, ComplianceRoute(c) PROVE AdminTypeOK' /\ AdminInv'
  BY <1>5, <1>6, ComplianceCard, ComplianceRouteKeeps DEF Changes
<1> QED
  BY <1>1, <1>2, <1>3, <1>4, <1>5, <1>6, ComplianceLoadKeeps, ComplianceSaveKeeps, ComplianceSimulateKeeps
  DEF ComplianceNext, ComplianceClick

-----------------------------------------------------------------------------
(* The network workspace *)

LEMMA NetworkDraftType ==
  ASSUME AdminTypeOK
  PROVE  \A d \in Drafts : NetworkDraft(d) \in Drafts
<1>1. offered["network"] = <<>> \/ Head(offered["network"]) \in Contents
  BY OfferedType DEF Kinds
<1> QED BY <1>1 DEF NetworkDraft, NetworkDefault, Drafts

LEMMA NetworkViewType ==
  ASSUME AdminTypeOK, AdminInv
  PROVE  /\ NetworkView \in Views /\ PreviewTrue("network", NetworkView.preview, queue)
         /\ [NetworkView EXCEPT !.reason = FALSE] \in Views
  BY ViewType DEF NetworkView, Workspaces, Views, AdminInv

\* A card's proposal is one of the workspace.
LEMMA NetworkCard ==
  ASSUME AdminTypeOK, NEW c \in NetworkQueue
  PROVE  c \in Changes /\ queue[c] # NoItem /\ queue[c].kind = "network" /\ queue[c] \in Items
  BY QueuedType DEF NetworkQueue, QueuedIn, Queued, Owner, Kinds

\* Loading a request keeps the reason typed for another one.
LEMMA NetworkLoadedViewType ==
  ASSUME AdminTypeOK, AdminInv, NEW c \in Changes
  PROVE  NetworkLoadedView(c) \in Views /\ PreviewTrue("network", NetworkLoadedView(c).preview, queue)
<1>1. "network" \in Workspaces
  BY DEF Workspaces
<1> QED BY <1>1, LoadedViewType, NetworkViewType DEF NetworkLoadedView, Views

LEMMA NetworkLoadKeeps ==
  ASSUME AdminTypeOK, AdminInv, NEW c, NetworkLoad(c)
  PROVE  AdminTypeOK' /\ AdminInv'
<1>1. LoadAs("network", c, NetworkDraft(DraftOf(c)), NetworkLoadedView(c)) /\ c \in Changes /\ queue[c] # NoItem
  BY DEF NetworkLoad, LoadAs, Queued
<1>2. NetworkDraft(DraftOf(c)) \in Drafts /\ "network" \in Kinds /\ Owner["network"] = "network"
  BY <1>1, DraftOfType, NetworkDraftType DEF Kinds, Owner
<1> QED BY <1>1, <1>2, NetworkLoadedViewType, LoadKeeps

LEMMA NetworkSaveKeeps ==
  ASSUME AdminTypeOK, AdminInv, NetworkSave
  PROVE  AdminTypeOK' /\ AdminInv'
<1> DEFINE d == NetworkDraft(adminDraft["network"])
           item == NetworkItem(SelectedOf("network"), d, "draft")
<1>1. "network" \in Kinds /\ d \in Drafts /\ NetworkDraft(d) \in Drafts /\ "draft" \in Statuses
  BY NetworkDraftType DEF Kinds, AdminTypeOK, Statuses
<1>2. item \in Items /\ item.kind = "network" /\ item.status = "draft"
  BY <1>1, RebuiltType DEF NetworkItem, Drafts
<1>3. SaveAs("network", item, NetworkView)
  BY DEF NetworkSave
<1> HIDE DEF item
<1> QED BY <1>1, <1>2, <1>3, NetworkViewType, SaveKeeps

LEMMA NetworkSimulateKeeps ==
  ASSUME AdminTypeOK, AdminInv, NEW card \in NetworkQueue \cup {0}, NetworkSimulate(card)
  PROVE  AdminTypeOK' /\ AdminInv'
<1> DEFINE t == IF card # 0 THEN card ELSE SelectedOf("network")
           view == IF card = 0 THEN NetworkView ELSE NetworkLoadedView(card)
           stored == IF card = 0 THEN adminDraft["network"] ELSE NetworkDraft(DraftOf(card))
           d == NetworkDraft(stored)
           item == NetworkItem(t, d, "simulated")
<1>1. /\ t \in 0..MaxChanges
      /\ t # 0 => queue[t] # NoItem /\ queue[t].kind \in Kinds /\ Owner[queue[t].kind] = Owner["network"]
      /\ card # 0 => card \in Changes /\ queue[card] # NoItem
  BY SelectedOfType, NetworkCard, BoundsAssumption DEF Kinds, Owner, Changes
<1>2. stored \in Drafts /\ d \in Drafts /\ "network" \in Kinds /\ "simulated" \in Statuses
  BY <1>1, NetworkDraftType, DraftOfType DEF AdminTypeOK, Kinds, Statuses
<1>3. view \in Views /\ [view EXCEPT !.reason = FALSE] \in Views
  BY <1>1, NetworkViewType, NetworkLoadedViewType DEF Views
<1>4. item \in Items /\ item.kind = "network" /\ item.status = "simulated" /\ item.content = NetworkDraft(d).content
  BY <1>2, RebuiltType, NetworkDraftType DEF NetworkItem, Drafts
<1>5. CASE NetworkValid(d) /\ SimulateAs("network", t, item, stored, NetworkSimulation(t, d).content, view)
  <2>1. NetworkDraft(d).content = d.content /\ NetworkSimulation(t, d).content = d.content
    BY <1>5 DEF NetworkDraft, NetworkValid, NetworkSimulation, PreviewOf
  <2>2. d.content \in Contents \cup {Unset}
    BY <1>2 DEF Drafts
  <2> HIDE DEF t, view, stored, d, item
  <2> QED BY <1>1, <1>2, <1>3, <1>4, <1>5, <2>1, <2>2, SimulateKeeps
<1>6. CASE card # 0 /\ LoadAs("network", card, stored, view)
  <2>1. PreviewTrue(Owner["network"], view.preview, queue)
    BY <1>1, <1>6, NetworkLoadedViewType DEF Owner
  <2> HIDE DEF view, stored
  <2> QED BY <1>2, <1>3, <1>6, <2>1, LoadKeeps
<1> QED BY <1>5, <1>6 DEF NetworkSimulate

LEMMA NetworkRouteKeeps ==
  ASSUME AdminTypeOK, AdminInv, NEW card \in NetworkQueue \cup {0},
         card = 0 => SelectedOf("network") = 0, NetworkRoute(card)
  PROVE  AdminTypeOK' /\ AdminInv'
<1> DEFINE t == IF card # 0 THEN card ELSE SelectedOf("network")
           item == IF card # 0 THEN queue[card] ELSE NetworkItem(t, adminDraft["network"], "simulated")
           view == NetworkView
<1>1. /\ t \in 0..MaxChanges
      /\ t # 0 => queue[t] # NoItem /\ queue[t].kind \in Kinds /\ Owner[queue[t].kind] = Owner["network"]
  BY SelectedOfType, NetworkCard, BoundsAssumption DEF Kinds, Owner, Changes
<1>2. item \in Items /\ item.kind = "network"
  <2>1. NetworkDraft(adminDraft["network"]) \in Drafts /\ "network" \in Kinds /\ "simulated" \in Statuses
    BY NetworkDraftType DEF AdminTypeOK, Kinds, Statuses
  <2> QED BY <2>1, NetworkCard, RebuiltType DEF NetworkItem, Drafts
<1>3. view \in Views /\ view.preview = adminView[Owner["network"]].preview
  BY NetworkViewType DEF NetworkView, Views, Owner
<1>4. t # 0 /\ Owner["network"] \notin {"platform", "guardrail"} => item.content = queue[t].content
  BY <1>1, SelectedOfType DEF Owner, Kinds
<1>5. RouteAs("network", t, item, view)
  BY DEF NetworkRoute
<1>6. "network" \in Kinds
  BY DEF Kinds
<1> HIDE DEF t, item, view
<1> QED BY <1>1, <1>2, <1>3, <1>4, <1>5, <1>6, RouteKeeps

\* Every step of the workspace.
LEMMA NetworkKeeps ==
  ASSUME AdminTypeOK, AdminInv, NetworkNext
  PROVE  AdminTypeOK' /\ AdminInv'
<1>1. CASE NetworkEdit
  <2>1. PICK d \in NetworkFields : EditAs("network", NetworkDraft(d), TRUE, NetworkView)
    BY <1>1 DEF NetworkEdit
  <2>2. d \in Drafts /\ "network" \in Kinds
    BY <2>1, TypedType DEF NetworkFields, Kinds
  <2>3. NetworkView \in Views /\ NetworkView.preview = adminView[Owner["network"]].preview
    BY NetworkViewType DEF NetworkView, Owner, Views
  <2> QED BY <2>1, <2>2, <2>3, NetworkDraftType, NetworkViewType, EditKeeps
<1>2. CASE TypeReason("network")
  BY <1>2, TypeReasonKeeps DEF Workspaces
<1>3. ASSUME NEW c \in NetworkQueue, NetworkApply(c) PROVE AdminTypeOK' /\ AdminInv'
  <2> DEFINE view == [NetworkView EXCEPT !.reason = FALSE]
  <2>1. ApplyAs("network", c, view)
    BY <1>3 DEF NetworkApply
  <2>2. /\ view \in Views /\ view.preview = adminView[Owner["network"]].preview
        /\ view.checked = adminView["network"].checked /\ "network" \in Kinds
    BY NetworkViewType DEF NetworkView, Owner, Views, Kinds
  <2> HIDE DEF view
  <2> QED BY <2>1, <2>2, ApplyKeeps
<1>4. ASSUME NEW c \in NetworkQueue, NetworkRecover(c) PROVE AdminTypeOK' /\ AdminInv'
  <2>1. RecoverAs("network", c, "rolled_back", "rollback") /\ queue[c].status \in Executed
    BY <1>4 DEF NetworkRecover, Recoverable, Executed
  <2> QED BY <2>1, RecoverKeeps DEF Kinds, Executed
<1>5. SelectedOf("network") \in NetworkQueue \cup {0}
  BY SelectedOfType DEF NetworkQueue, QueuedIn, Queued, Kinds, Owner
<1>6. ASSUME NEW c \in NetworkQueue \cup {SelectedOf("network")}, NetworkRoute(c) PROVE AdminTypeOK' /\ AdminInv'
  BY <1>5, <1>6, NetworkCard, NetworkRouteKeeps DEF Changes
<1> QED
  BY <1>1, <1>2, <1>3, <1>4, <1>5, <1>6, NetworkLoadKeeps, NetworkSaveKeeps, NetworkSimulateKeeps
  DEF NetworkNext, NetworkClick

-----------------------------------------------------------------------------
(* The whole desk *)

LEMMA AdminInitHolds == AdminInit => AdminTypeOK /\ AdminInv
<1> SUFFICES ASSUME AdminInit PROVE AdminTypeOK /\ AdminInv
  OBVIOUS
<1> USE DEF AdminInit
<1>1. 0 \in 0..MaxChanges /\ NoPreview \in Previews /\ NoCheck \in Checks
  BY NoPreviewType, BoundsAssumption
<1>2. adminView \in [Workspaces -> Views] /\ adminDraft \in [Kinds -> Drafts]
  BY <1>1 DEF Views, Drafts
<1>3. approvals \in Seq([change : Changes, content : Contents \cup {Unset}]) /\ Len(approvals) <= MaxApprovals
  BY BoundsAssumption
<1>4. AdminTypeOK
  BY <1>2, <1>3 DEF AdminTypeOK
<1>5. QueueTrue /\ AppliedAsApproved
  BY DEF QueueTrue, AppliedAsApproved
<1>6. \A w \in Workspaces : PreviewTrue(w, adminView[w].preview, queue)
  BY NoPreviewTrue
<1>7. NamesPolicy(adminView["policy"].checked, queue)
  BY NoPreviewTrue DEF Workspaces
<1> QED BY <1>4, <1>5, <1>6, <1>7 DEF AdminInv

LEMMA LoadContextKeeps ==
  ASSUME AdminTypeOK, AdminInv, LoadContext
  PROVE  AdminTypeOK' /\ AdminInv'
<1>1. AdminTypeOK'
  BY DEF LoadContext, AdminTypeOK
<1>2. QueueTrue' /\ AppliedAsApproved'
  BY DEF LoadContext, AdminInv, AppliedAsApproved, QueueTrue, ItemTrue, RoutedIsClean, ApprovedIsBacked,
         ExecutedIsRecorded, PolicyIsVerified, Backed
<1> QED BY <1>1, <1>2 DEF LoadContext, AdminInv

LEMMA DeskClickKeeps ==
  ASSUME AdminTypeOK, AdminInv, NEW c \in Changes, DeskClick(c)
  PROVE  AdminTypeOK' /\ AdminInv'
<1>1. ASSUME NEW s \in {"approved", "denied"}, AdminDecide(c, s) PROVE AdminTypeOK' /\ AdminInv'
  BY <1>1, DecideKeeps DEF AdminDecide, AdminReview, AdminProposal
<1>2. ASSUME NEW s \in {"deferred", "escalated"}, AdminRoutingAction(c, s) PROVE AdminTypeOK' /\ AdminInv'
  BY <1>2, DecideKeeps DEF AdminRoutingAction, AdminReview, AdminProposal
<1>3. CASE OpenOwner(c)
  BY <1>3, IdentityOpenKeeps, PlatformLoadKeeps, GuardrailLoadKeeps, PolicyOpenKeeps, ComplianceLoadKeeps, NetworkLoadKeeps
  DEF OpenOwner, PlatformOpen, GuardrailOpen, PolicyOpen, ComplianceOpen, NetworkOpen
<1> QED BY <1>1, <1>2, <1>3 DEF DeskClick

LEMMA AdminNextKeeps == AdminTypeOK /\ AdminInv /\ [AdminNext]_adminVars => AdminTypeOK' /\ AdminInv'
<1> SUFFICES ASSUME AdminTypeOK, AdminInv, [AdminNext]_adminVars PROVE AdminTypeOK' /\ AdminInv'
  OBVIOUS
<1>1. CASE UNCHANGED adminVars
  <2>1. AdminTypeOK'
    BY <1>1 DEF adminVars, AdminTypeOK
  <2>2. QueueTrue' /\ AppliedAsApproved'
    BY <1>1 DEF adminVars, AdminInv, AppliedAsApproved, QueueTrue, ItemTrue, RoutedIsClean, ApprovedIsBacked,
                ExecutedIsRecorded, PolicyIsVerified, Backed
  <2> QED BY <1>1, <2>1, <2>2 DEF adminVars, AdminInv
<1>2. CASE LoadContext
  BY <1>2, LoadContextKeeps
<1>3. CASE IdentityNext \/ PlatformNext \/ GuardrailNext
  BY <1>3, IdentityKeeps, PlatformKeeps, GuardrailKeeps
<1>4. CASE PolicyNext \/ ComplianceNext \/ NetworkNext
  BY <1>4, PolicyKeeps, ComplianceKeeps, NetworkKeeps
<1>5. ASSUME NEW c \in Changes, DeskClick(c) PROVE AdminTypeOK' /\ AdminInv'
  BY <1>5, DeskClickKeeps
<1> QED BY <1>1, <1>2, <1>3, <1>4, <1>5 DEF AdminNext

LEMMA AdminInvariant == AdminSpec => [](AdminTypeOK /\ AdminInv)
  BY AdminInitHolds, AdminNextKeeps, PTL DEF AdminSpec

-----------------------------------------------------------------------------
(* The theorems *)

\* The six queues, drafts and views, the approvals and the executions keep their types.
THEOREM AdminTypeCorrect == AdminSpec => []AdminTypeOK
  BY AdminInvariant, PTL

\* Whatever a workspace executes, governance approved for this very change and content,
\* however often the proposal was saved, simulated and routed again on the way.
THEOREM ExecutedAsApproved == AdminSpec => []AppliedAsApproved
<1>1. AdminInv => AppliedAsApproved
  BY DEF AdminInv
<1> QED BY <1>1, AdminInvariant, PTL

\* An execution spends an approval nothing was executed under before.
THEOREM ApprovalsSpentOnce == AdminSpec => ApprovalSpentOnce
<1> DEFINE Spends == \A c \in Changes : Queued(c) /\ queue[c].status = "approved" /\ queue'[c].status = "applied"
                       => \A e \in executions : e.approval # queue[c].approval
<1>1. AdminInv => Spends
  BY DEF AdminInv, QueueTrue, ItemTrue, ApprovedIsBacked, Queued
<1>2. AdminInv /\ [AdminNext]_adminVars => [Spends]_adminVars
  BY <1>1
<1> QED BY <1>2, AdminInvariant, PTL DEF AdminSpec, ApprovalSpentOnce

\* The receipts the desk and the owners hand out for a proposal that stands approved name
\* the decision given to its content and, past its execution, the execution under it.
THEOREM ReceiptsTellTheTruth == AdminSpec => []ReceiptChain
<1>1. AdminTypeOK /\ AdminInv => ReceiptChain
  <2> SUFFICES ASSUME AdminTypeOK, AdminInv, NEW c \in Changes, Queued(c), queue[c].status \in Standing,
                      NEW r \in CopiedReceipts(c) \cup DeskReceipts(c)
               PROVE  /\ r.approval \in DOMAIN approvals
                      /\ approvals[r.approval] = [change |-> c, content |-> r.content]
                      /\ r.what # "decision" =>
                           [change |-> c, content |-> r.content, approval |-> r.approval] \in executions
    BY DEF ReceiptChain
  <2>1. queue[c].kind \in Kinds /\ ItemTrue(c, queue[c])
    BY QueuedType DEF Queued, AdminInv, QueueTrue
  <2>2. Backed(c, queue[c])
    BY <2>1 DEF ItemTrue, ApprovedIsBacked, ExecutedIsRecorded, Standing, Executed
  <2>3. \/ r = DecisionReceipt(c)
        \/ r = ExecutionReceipt(c) /\ queue[c].receipt # 0
        \/ r = RecoveryReceipt(c) /\ queue[c].recovery # "none"
    <3>1. CASE r \in DeskReceipts(c)
      BY <3>1 DEF DeskReceipts
    <3>2. ASSUME r \in {x \in {DecisionReceipt(c), ExecutionReceipt(c), RecoveryReceipt(c)} : HasReceipt(c, x.what)}
          PROVE  \/ r = DecisionReceipt(c)
                 \/ r = ExecutionReceipt(c) /\ queue[c].receipt # 0
                 \/ r = RecoveryReceipt(c) /\ queue[c].recovery # "none"
      <4>1. HasReceipt(c, r.what) /\ r \in {DecisionReceipt(c), ExecutionReceipt(c), RecoveryReceipt(c)}
        BY <3>2
      <4>2. ExecutionReceipt(c).what = "execution" /\ RecoveryReceipt(c).what = "recovery"
        BY DEF ExecutionReceipt, RecoveryReceipt, ReceiptOf
      <4>3. /\ HasReceipt(c, "execution") => queue[c].receipt # 0
            /\ HasReceipt(c, "recovery") => queue[c].recovery # "none"
        BY DEF HasReceipt
      <4> QED BY <4>1, <4>2, <4>3
    <3>3. CASE r \in CopiedReceipts(c)
      <4> DEFINE w == Owner[queue[c].kind]
      <4>1. w \in Workspaces
        BY <2>1, OwnerType
      <4>2. CopiedReceipts(c) = CASE w = "identity" -> IdentityCopied(c)
                                  [] w = "platform" -> PlatformCopied(c)
                                  [] w = "guardrail" -> GuardrailCopied(c)
                                  [] w = "policy" -> PolicyCopied(c)
                                  [] w = "compliance" -> ComplianceCopied(c)
                                  [] w = "network" -> NetworkCopied(c)
        BY DEF CopiedReceipts
      <4> HIDE DEF w
      <4>3. CopiedReceipts(c) \in {IdentityCopied(c), PlatformCopied(c), GuardrailCopied(c), PolicyCopied(c),
                                   ComplianceCopied(c), NetworkCopied(c)}
        BY <4>1, <4>2 DEF Workspaces
      <4>4. r \in {x \in {DecisionReceipt(c), ExecutionReceipt(c), RecoveryReceipt(c)} : HasReceipt(c, x.what)}
        BY <3>3, <4>3
        DEF IdentityCopied, PlatformCopied, GuardrailCopied, PolicyCopied, ComplianceCopied, NetworkCopied,
            IdentityReceipts, PlatformReceipts, GuardrailReceipts, PolicyReceipts, ComplianceReceipts, NetworkReceipts
      <4> QED BY <3>2, <4>4
    <3> QED BY <3>1, <3>3
  <2>4. CASE queue[c].status = "approved"
    <3>1. r = DecisionReceipt(c)
      BY <2>1, <2>3, <2>4 DEF ItemTrue, ApprovedIsBacked
    <3> QED BY <2>2, <3>1 DEF DecisionReceipt, ReceiptOf, Backed
  <2>5. CASE queue[c].status \in Executed
    <3>1. /\ queue[c].receipt = queue[c].approval
          /\ [change |-> c, content |-> queue[c].content, approval |-> queue[c].approval] \in executions
      BY <2>1, <2>5 DEF ItemTrue, ExecutedIsRecorded
    <3> QED BY <2>2, <2>3, <3>1 DEF DecisionReceipt, ExecutionReceipt, RecoveryReceipt, ReceiptOf, Backed
  <2> QED BY <2>4, <2>5 DEF Standing, Executed
<1> QED BY <1>1, AdminInvariant, PTL

\* A policy proposal is routed, decided and executed only with a verify gate passed on the
\* content it has, although the verdict is kept in two places apart from it.
THEOREM PolicyRoutedVerified == AdminSpec => []RoutedPolicyVerified
<1>1. AdminInv => RoutedPolicyVerified
  BY DEF AdminInv, QueueTrue, ItemTrue, PolicyIsVerified, RoutedPolicyVerified, Queued
<1> QED BY <1>1, AdminInvariant, PTL

\* The simulation a preview board shows is of a proposal in the queue, about what it says
\* now; on the platform and guardrail boards only the first.
THEOREM PreviewsAreOfTheQueue == AdminSpec => []PreviewDescribesChange
<1>1. AdminTypeOK /\ AdminInv => PreviewDescribesChange
  <2> SUFFICES ASSUME AdminTypeOK, AdminInv, NEW w \in Workspaces, PreviewsShown[w].change # 0
               PROVE  /\ Queued(PreviewsShown[w].change)
                      /\ w \in {"platform", "guardrail"} \/ queue[PreviewsShown[w].change].content = PreviewsShown[w].content
    BY DEF PreviewDescribesChange, PreviewsShown, Workspaces
  <2>1. PreviewsShown[w] = adminView[w].preview
    BY DEF PreviewsShown, Workspaces, IdentityPreviewShown, PolicyPreviewShown, CompliancePreviewShown,
           NetworkPreviewShown, PlatformPreviewShown, GuardrailPreviewShown, IdentityView, PolicyView,
           ComplianceView, NetworkView, PlatformView, GuardrailView
  <2>2. adminView[w] \in Views /\ PreviewTrue(w, adminView[w].preview, queue)
    BY ViewType DEF AdminInv
  <2>3. adminView[w].preview.change \in Changes
    BY <2>1, <2>2, BoundsAssumption DEF Views, Previews, Changes
  <2> QED BY <2>1, <2>2, <2>3 DEF PreviewTrue, Queued
<1> QED BY <1>1, AdminInvariant, PTL
===============================================================================

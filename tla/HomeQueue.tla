------------------------------- MODULE HomeQueue -------------------------------
(***************************************************************************)
(* The companion home of the page: the queue of governed requests it draws  *)
(* from the holds and approvals that wait, the incidents and the runs it    *)
(* last read, each cut to its first few, and the handoff of an item to the  *)
(* workspace behind it.  A handoff that asks for fresh data refreshes the   *)
(* page first, but does not wait for a refresh that runs already; its       *)
(* banner keeps what it said on arrival.                                    *)
(***************************************************************************)
EXTENDS Naturals, FiniteSets

CONSTANTS Items,       \* the requests, numbered in the order in which they have come
          LiveLimit,      \* how many waiting reviews the home takes up (4 in the code)
          IncidentLimit,  \* how many incidents (3 in the code)
          QueueLimit,     \* how long the queue is (6 in the code)
          Openers,        \* the handoffs that may be under way at the same time
          NoRequest       \* none of them

ASSUME HomeAssumption == Items \subseteq Nat /\ NoRequest \notin Items /\ {LiveLimit, IncidentLimit, QueueLimit} \subseteq Nat

VARIABLES world,      \* request -> where it stands at the runtime
          lane,       \* request -> "hold" (the gateway's), "thread" (a checkpoint) or "run"
          near,       \* the requests whose deadline is near
          cases,      \* request -> its incident in the page's queue
          seen,       \* request -> where it stood when the page last read it
          reading,    \* a refresh runs
          openers,    \* the item each handoff under way is about
          banner      \* [target, receipt]: what the handoff banner says

homeVars == <<world, lane, near, cases, seen, reading, openers, banner>>

NoBanner == [target |-> NoRequest, receipt |-> "none"]
Stands == {"none", "waiting", "approved", "denied", "expired", "failed", "deferred"}

HomeTypeOK ==
  /\ world \in [Items -> Stands] /\ seen \in [Items -> Stands]
  /\ lane \in [Items -> {"hold", "thread", "run"}] /\ near \subseteq Items
  /\ cases \in [Items -> {"none", "drafted", "filed", "closed"}] /\ reading \in BOOLEAN
  /\ openers \in [Openers -> Items \cup {NoRequest}] /\ banner.target \in Items \cup {NoRequest}
  /\ banner.receipt \in {"none", "ready", "pending", "linked", "checkpoint"}

HomeInit ==
  /\ world = [r \in Items |-> "none"] /\ seen = world /\ near = {} /\ reading = FALSE
  /\ lane \in [Items -> {"hold", "thread", "run"}]
  /\ cases = [r \in Items |-> "none"]
  /\ openers = [o \in Openers |-> NoRequest] /\ banner = NoBanner

-----------------------------------------------------------------------------
(* The queue *)

\* The first n of a set in an order.
FirstOf(S, n, Before(_, _)) == {x \in S : Cardinality({y \in S : Before(y, x)}) < n}
Newer(a, b) == a > b

\* createLiveApprovalItems: the newest of the holds and checkpoints that wait.
Live == FirstOf({r \in Items : seen[r] = "waiting" /\ lane[r] \in {"hold", "thread"}}, LiveLimit, Newer)

\* The runs that failed, were denied or put off; that of a hold is put off until it is
\* decided, also when its time is over.  A checkpoint has no run.
Deferred(r) == seen[r] \in {"deferred", "waiting", "expired"}
Attention == {r \in Items : lane[r] # "thread" /\ (Deferred(r) \/ seen[r] \in {"failed", "denied"})}

\* deriveIncidentSeverity
Severity(r) ==
  IF cases[r] = "filed" \/ seen[r] = "denied" THEN "high"
  ELSE IF cases[r] = "drafted" \/ seen[r] = "waiting" THEN "medium" ELSE "low"

\* createIncidentEscalationItems: the newest incidents, or without any the latest run that
\* needs attention.
Escalated ==
  LET filed == {r \in Items : cases[r] # "none"}
  IN IF filed # {} THEN FirstOf(filed, IncidentLimit, Newer) ELSE FirstOf(Attention, 1, Newer)

\* A run is queued for the first of the three reasons there is.
ApprovalItems == {[kind |-> "approval", request |-> r, tone |-> IF r \in near THEN "danger" ELSE "warn"] : r \in Live}
IncidentItems ==
  {[kind |-> "incident", request |-> r,
    tone |-> IF cases[r] = "none" \/ Severity(r) = "high" THEN "danger" ELSE IF Severity(r) = "medium" THEN "warn" ELSE "ok"] :
     r \in Escalated \ Live}
RunItemsOfUnreviewed ==   \* Mutant: a run with an approval of its own is left to the reviews
  {[kind |-> "run", request |-> r, tone |-> IF Deferred(r) THEN "warn" ELSE "danger"] :
     r \in {q \in Attention \ (Live \cup Escalated) : lane[q] # "hold"}}

RunItems ==
  {[kind |-> "run", request |-> r, tone |-> IF Deferred(r) THEN "warn" ELSE "danger"] :
     r \in Attention \ (Live \cup Escalated)}

\* By tone, then by kind, then the newest first.
ToneWeight(tone) == CASE tone = "danger" -> 0 [] tone = "warn" -> 1 [] tone = "ok" -> 2
KindWeight(kind) == CASE kind = "approval" -> 0 [] kind = "incident" -> 1 [] kind = "run" -> 2
Sooner(a, b) ==
  \/ ToneWeight(a.tone) < ToneWeight(b.tone)
  \/ a.tone = b.tone /\ KindWeight(a.kind) < KindWeight(b.kind)
  \/ a.tone = b.tone /\ a.kind = b.kind /\ Newer(a.request, b.request)

Queue == FirstOf(ApprovalItems \cup IncidentItems \cup RunItems, QueueLimit, Sooner)
Queued(r) == \E item \in Queue : item.request = r

-----------------------------------------------------------------------------
(* The runtime, the gateway and the incidents *)

Arrives(r) ==
  /\ world[r] = "none" /\ \A q \in Items : q < r => world[q] # "none"
  /\ world' = [world EXCEPT ![r] = IF lane[r] = "run" THEN "deferred" ELSE "waiting"]
  /\ UNCHANGED <<lane, near, cases, seen, reading, openers, banner>>

Moves(r) ==
  /\ world[r] \in {"waiting", "deferred"}
  /\ \E next \in IF world[r] = "waiting" THEN {"approved", "denied", "expired"} ELSE {"failed"} :
       world' = [world EXCEPT ![r] = next]
  /\ UNCHANGED <<lane, near, cases, seen, reading, openers, banner>>

DeadlineNears(r) ==
  /\ world[r] = "waiting" /\ near' = near \cup {r}
  /\ UNCHANGED <<world, lane, cases, seen, reading, openers, banner>>

\* The operator puts an incident together, files it or closes it.
Incident(r) ==
  /\ seen[r] # "none" /\ lane[r] # "thread"
  /\ \/ cases[r] = "none" /\ cases' = [cases EXCEPT ![r] = "drafted"]
     \/ cases[r] = "drafted" /\ cases' = [cases EXCEPT ![r] = "filed"]
     \/ cases[r] = "filed" /\ cases' = [cases EXCEPT ![r] = "closed"]
  /\ UNCHANGED <<world, lane, near, seen, reading, openers, banner>>

-----------------------------------------------------------------------------
(* The refresh and the handoff *)

RefreshBegins ==
  /\ ~reading /\ reading' = TRUE
  /\ UNCHANGED <<world, lane, near, cases, seen, openers, banner>>

\* The holds, approvals and runs are read, or what was read before is kept.  Here they are
\* read in one step; ApprovalDesk takes the reads apart.
RefreshReads ==
  /\ reading /\ seen' \in {seen, world}
  /\ reading' = FALSE
  /\ UNCHANGED <<world, lane, near, cases, openers, banner>>

Receipt(r) ==
  IF lane[r] = "thread" THEN "checkpoint"
  ELSE IF seen[r] \in {"approved", "denied"} THEN "ready"
  ELSE IF seen[r] = "waiting" THEN "pending" ELSE "linked"

\* openCompanionWorkbenchTarget: the workspace opens on the item and the banner with it.
Lands(r) == banner' = [target |-> r, receipt |-> Receipt(r)]

\* The operator opens an item of the queue: as it is (a run, the diagnostics), or after a
\* refresh of the page (an approval, an incident, the evidence, the audit), for which it
\* does not wait when the page is just being refreshed.
OpenNow(r) ==
  /\ Queued(r) /\ Lands(r)
  /\ UNCHANGED <<world, lane, near, cases, seen, reading, openers>>

OpenFresh(o, r) ==
  /\ openers[o] = NoRequest /\ Queued(r) /\ ~reading
  /\ openers' = [openers EXCEPT ![o] = r] /\ reading' = TRUE
  /\ UNCHANGED <<world, lane, near, cases, seen, banner>>

\* Its refresh is over.
Arrive(o) ==
  /\ openers[o] # NoRequest /\ ~reading
  /\ Lands(openers[o]) /\ openers' = [openers EXCEPT ![o] = NoRequest]
  /\ UNCHANGED <<world, lane, near, cases, seen, reading>>

HomeNext ==
  \/ RefreshBegins \/ RefreshReads
  \/ \E r \in Items : Arrives(r) \/ Moves(r) \/ DeadlineNears(r) \/ Incident(r) \/ OpenNow(r)
  \/ \E o \in Openers : Arrive(o) \/ \E r \in Items : OpenFresh(o, r)

HomeSpec == HomeInit /\ [][HomeNext]_homeVars

-----------------------------------------------------------------------------
(* Properties *)

\* A request the page knows to wait, to have failed or to be denied is in the queue, or the
\* queue is full of others that are no less urgent, or it is a checkpoint, which has no run
\* to be queued for, and more have come after it than the home takes up: none is lost where
\* the holds, incidents and runs are put together (createGovernedRequestQueueItems).
UrgencyOf(r) ==
  IF r \in Live THEN IF r \in near THEN 0 ELSE 1
  ELSE IF r \in Escalated /\ cases[r] # "none" THEN IF Severity(r) = "high" THEN 0 ELSE IF Severity(r) = "medium" THEN 1 ELSE 2
  ELSE IF Deferred(r) THEN 1 ELSE 0
NoneLost ==
  \A r \in Items :
    r \in Attention \/ (seen[r] = "waiting" /\ lane[r] # "run") =>
      \/ Queued(r)
      \/ Cardinality(Queue) >= QueueLimit /\ \A item \in Queue : ToneWeight(item.tone) <= UrgencyOf(r)
      \/ lane[r] = "thread" /\ Cardinality({q \in Live : q > r}) >= LiveLimit

\* A banner that says the receipt of a decision is there is right, whatever has happened
\* since: it is drawn once, from data that may be old.
ReceiptsAreTrue == banner.receipt = "ready" => world[banner.target] \in {"approved", "denied"}

\* What the home shows and says can be relied on.
HomeIsReliable == NoneLost /\ ReceiptsAreTrue
=============================================================================

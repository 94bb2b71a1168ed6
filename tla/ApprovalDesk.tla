----------------------------- MODULE ApprovalDesk -----------------------------
(***************************************************************************)
(* The approvals of the desktop page.  A run of a high tier waits for a    *)
(* decision, which the operator takes from the approval queue (the review  *)
(* in its modal or the governance workspace).  For a request that the      *)
(* localhost gateway holds back there is the pinned review, which asks the *)
(* runtime to decide the run behind it and is to resolve the hold.  A      *)
(* decision is sent, decided or refused by the runtime, answered, and      *)
(* reported; refreshes read the queue and the holds again, one at a time.  *)
(* The queue endpoint is asked with the filter of the page; where the      *)
(* runtime has none the page derives the queue from the runs it has        *)
(* listed.  Each listing reaches back to a limit, and newer runs push the  *)
(* older ones out of it.                                                   *)
(***************************************************************************)
EXTENDS SampleRuns, RuntimeApi

CONSTANTS Runs,        \* the runs there may be
          Deciders,    \* the decisions of a behaviour
          NoRun        \* no run is selected

ASSUME RunsAssumption == NoRun \notin Runs

VARIABLES sample,     \* whether the page runs on sample data
          endpoints,  \* which of the endpoints "queue" and "decision" the runtime has
          rows,       \* run -> its row at the runtime
          pushed,     \* the runs that newer ones have pushed beyond the limit of a listing
          filter,     \* [status, runs]: the filter of the queue, the status and the runs of the scope
          holds,      \* run -> the state of the hold of its request
          queue,      \* run -> the status the page shows of its approval
          shownHolds, \* the runs whose hold the page shows as pending
          desk,       \* [selected, modal]: the run selected, and the review in the modal
          deciders,   \* the decisions: [kind, run, verdict, step, reply, done, told]
          reload      \* [phase, queued, filter, listed, candidates, due]: the refresh of the page

deskVars == <<sample, endpoints, rows, pushed, filter, holds, queue, shownHolds, desk, deciders, reload>>

NoDecision == [kind |-> "none", run |-> NoRun, verdict |-> "none", step |-> "none", reply |-> "none",
               done |-> FALSE, told |-> "none"]
NoReview == [run |-> NoRun, decidable |-> FALSE]
Over == {"APPROVED", "DENIED", "EXPIRED"}
Waiting(r) == rows[r].approval = "PENDING"
NoFilter == [status |-> "any", runs |-> Runs]

\* The rows of runs that are over, or that their handler has left, one of each kind that
\* the page or a decision tells apart.  Of a high tier and without a grant, a run waits
\* unless it was denied: undecided, allowed, failed for want of the approval, or deferred
\* and done.  One without a desktop part has no approval.
ArrivingRows ==
  {Row("PENDING", "none", FALSE, "PENDING"), Row("POLICY_EVALUATED", "ALLOW", FALSE, "PENDING"),
   Row("FAILED", "ALLOW", FALSE, "PENDING"), Row("COMPLETED", "DEFER", FALSE, "PENDING"),
   Row("COMPLETED", "ALLOW", TRUE, "APPROVED"), Row("COMPLETED", "DENY", FALSE, "DENIED"),
   Row("POLICY_EVALUATED", "ALLOW", FALSE, "none")}

\* The run of a request that the gateway holds back: it was deferred, and the gateway asks
\* for runs without a desktop part.
HeldRow == Row("COMPLETED", "DEFER", FALSE, "none")

DeskTypeOK ==
  /\ sample \in BOOLEAN /\ endpoints \subseteq {"queue", "decision"}
  /\ rows \in [Runs -> [status : {"none", "PENDING", "POLICY_EVALUATED", "COMPLETED", "FAILED"},
                        decision : {"none", "ALLOW", "DENY", "DEFER"}, grant : BOOLEAN, approval : {"none", "PENDING"} \cup Over]]
  /\ pushed \subseteq Runs /\ filter \in [status : {"any", "PENDING"} \cup Over, runs : SUBSET Runs]
  /\ holds \in [Runs -> {"none", "held", "granted", "denied", "timed_out"}]
  /\ queue \in [Runs -> {"none", "PENDING"} \cup Over]
  /\ shownHolds \subseteq Runs
  /\ desk \in [selected : Runs \cup {NoRun}, modal : [run : Runs \cup {NoRun}, decidable : BOOLEAN]]
  /\ \A d \in Deciders : deciders[d].told \in {"none", "no reason", "ok", "unchanged", "error"}
  /\ reload.listed \subseteq Runs /\ reload.candidates \subseteq Runs /\ reload.due \subseteq Runs

DeskInit ==
  /\ sample \in BOOLEAN
  /\ endpoints \in IF sample THEN {{}} ELSE SUBSET {"queue", "decision"}
  /\ rows \in [Runs -> IF sample THEN SampleSeeds ELSE {NoRow, HeldRow} \cup ArrivingRows]
  /\ pushed = {} /\ filter = NoFilter
  /\ holds = [r \in Runs |-> IF rows[r] = HeldRow /\ ~sample THEN "held" ELSE "none"]
  /\ queue = [r \in Runs |-> "none"] /\ shownHolds = {}
  /\ desk = [selected |-> NoRun, modal |-> NoReview]
  /\ deciders = [d \in Deciders |-> NoDecision]
  /\ reload = [phase |-> "reading runs", queued |-> FALSE, filter |-> NoFilter, listed |-> {}, candidates |-> {},
               due |-> {r \in Runs : Waiting(r)}]

-----------------------------------------------------------------------------
(* The runtime and the gateway *)

\* A run arrives at the runtime; its handler is done with it.
RunArrives(r) ==
  /\ rows[r] = NoRow /\ ~sample
  /\ \E row \in ArrivingRows : rows' = [rows EXCEPT ![r] = row]
  /\ UNCHANGED <<sample, endpoints, pushed, filter, holds, queue, shownHolds, desk, deciders, reload>>

\* One arrives that was deferred, and the gateway holds its request back.
HeldArrives(r) ==
  /\ rows[r] = NoRow /\ ~sample
  /\ rows' = [rows EXCEPT ![r] = HeldRow]
  /\ holds' = [holds EXCEPT ![r] = "held"]
  /\ UNCHANGED <<sample, endpoints, pushed, filter, queue, shownHolds, desk, deciders, reload>>

\* As many runs have been made since as a listing has room for.
PushedOut(r) ==
  /\ rows[r] # NoRow /\ ~sample
  /\ pushed' = pushed \cup {r}
  /\ UNCHANGED <<sample, endpoints, rows, filter, holds, queue, shownHolds, desk, deciders, reload>>

\* Its approval expires.
RunExpires(r) ==
  /\ Waiting(r) /\ ~sample
  /\ rows' = [rows EXCEPT ![r].approval = "EXPIRED"]
  /\ UNCHANGED <<sample, endpoints, pushed, filter, holds, queue, shownHolds, desk, deciders, reload>>

\* The gateway waits for the hold no longer.
HoldTimesOut(r) ==
  /\ holds[r] = "held"
  /\ holds' = [holds EXCEPT ![r] = "timed_out"]
  /\ UNCHANGED <<sample, endpoints, rows, pushed, filter, queue, shownHolds, desk, deciders, reload>>

\* The runtime's decision of a run: it is allowed and the grant is given, or it fails; the
\* status of an approved run stays as it is, unless it had failed.
Decided(row, verdict) ==
  IF sample THEN SampleDecided(row, verdict)
  ELSE IF verdict = "APPROVE" THEN Row(IF row.status = "FAILED" THEN "POLICY_EVALUATED" ELSE row.status, "ALLOW", TRUE, "APPROVED")
  ELSE Row("FAILED", "DENY", FALSE, "DENIED")

\* How the runtime answers: a run that waits is decided, the same decision again changes
\* nothing, another one, one that comes too late and one of a run that has no approval is
\* refused.  The sample data decides every run that has an approval.  The reply may be lost.
DecisionServed(d) ==
  LET r == deciders[d].run
      v == deciders[d].verdict
      decides == IF sample THEN rows[r].approval # "none" ELSE "decision" \in endpoints /\ Waiting(r)
      reply == IF sample THEN IF decides THEN {"ok"} ELSE {"error"}
               ELSE IF "decision" \notin endpoints THEN {"404"}
               ELSE IF decides \/ rows[r].approval = ApprovalOf(v) THEN {"ok", "network"} ELSE {"error"}
  IN /\ deciders[d].step = "sent"
     /\ \E answer \in reply : deciders' = [deciders EXCEPT ![d].step = "replied", ![d].reply = answer, ![d].done = decides]
     /\ rows' = IF decides THEN [rows EXCEPT ![r] = Decided(@, v)] ELSE rows
     /\ UNCHANGED <<sample, endpoints, pushed, filter, holds, queue, shownHolds, desk, reload>>

-----------------------------------------------------------------------------
(* The refresh *)

\* refresh() is called: it begins, or is queued behind the one that runs.  Each begins
\* with the holds of the gateway and then lists the runs.
Running == reload.phase # "none"
Begun == [phase |-> "reading runs", queued |-> FALSE, filter |-> NoFilter, listed |-> {}, candidates |-> {},
          due |-> {r \in Runs : Waiting(r)}]
Asked == IF Running THEN [reload EXCEPT !.queued = TRUE] ELSE Begun
HoldsSeen == {r \in Runs : holds[r] = "held"}
\* A caller that awaits it waits when the refresh is its own.
ThenAwaits(next) == IF Running THEN next ELSE IF next = "sent" THEN "refreshing" ELSE "finishing"

\* isPendingApprovalCandidate
CandidateByStatus(row) ==   \* Mutant: only a run of which nothing is known yet
  row.decision = "ALLOW" /\ ~row.grant /\ row.status = "none"

Candidate(row) == row.decision = "ALLOW" /\ ~row.grant /\ row.status \notin {"COMPLETED", "FAILED"}

\* What a listing may return: the runs there are, without some of those pushed out.
Reached(seen) == /\ seen \subseteq {r \in Runs : rows[r] # NoRow}
                 /\ {r \in Runs : rows[r] # NoRow} \ pushed \subseteq seen

\* The filter is read and the runs are listed, the holds with them; the list call may fail
\* as a whole, and the refresh with it.
ReadRuns ==
  /\ reload.phase = "reading runs"
  /\ \/ \E seen \in SUBSET Runs :
          /\ Reached(seen)
          /\ reload' = [reload EXCEPT !.phase = "reading queue", !.filter = filter, !.listed = seen,
                                      !.candidates = {r \in seen : Candidate(rows[r])}]
          /\ shownHolds' = HoldsSeen
     \/ /\ reload' = [reload EXCEPT !.phase = "failed"]
        /\ shownHolds' \in {shownHolds, HoldsSeen}
  /\ UNCHANGED <<sample, endpoints, rows, pushed, filter, holds, queue, desk, deciders>>

Passes(r) == reload.filter.status \in {"any", rows[r].approval} /\ r \in reload.filter.runs

\* What the queue endpoint says: of the runs it has fetched, those that have an approval
\* and pass the filter.
ServedQueue(seen) == [r \in Runs |-> IF r \in seen /\ Passes(r) THEN rows[r].approval ELSE "none"]

\* The queue derived from the runs that were listed, whatever the filter; a list that is
\* empty is read again.
DerivedQueue(seen) ==
  LET waiting == IF reload.listed # {} THEN reload.candidates ELSE {r \in seen : Candidate(rows[r])}
  IN [r \in Runs |-> IF r \in waiting THEN "PENDING" ELSE "none"]

\* A review is drawn from the queue the page shows, and may be decided where that says so.
ReviewOf(r) == [run |-> r, decidable |-> queue[r] = "PENDING"]

\* A refresh draws the review again before it takes over the queue it has read, so that it
\* shows what the refresh before has read.  A run that was in neither is selected no longer.
Redrawn(next) ==
  LET kept == desk.selected # NoRun /\ queue[desk.selected] # "none"
  IN [selected |-> IF kept /\ ((\E r \in Runs : next[r] # "none") \/ shownHolds # {}) THEN desk.selected ELSE NoRun,
      modal |-> IF kept /\ desk.modal # NoReview THEN ReviewOf(desk.selected) ELSE NoReview]

ReadQueue ==
  /\ reload.phase = "reading queue"
  /\ \/ /\ \E seen \in SUBSET Runs :
             /\ Reached(seen)
             /\ queue' = IF sample THEN [r \in Runs |-> rows[r].approval]
                         ELSE IF "queue" \in endpoints THEN ServedQueue(seen) ELSE DerivedQueue(seen)
        /\ desk' = Redrawn(queue')
        /\ reload' = [reload EXCEPT !.phase = "done", !.filter = NoFilter, !.listed = {}, !.candidates = {}]
     \/ /\ ~sample
        /\ reload' = [reload EXCEPT !.phase = "failed"] /\ UNCHANGED <<queue, desk>>
  /\ UNCHANGED <<sample, endpoints, rows, pushed, filter, holds, shownHolds, deciders>>

\* It ends, whoever waited for it goes on, and a queued one begins.
ReloadEnds ==
  /\ reload.phase \in {"done", "failed"}
  /\ deciders' = [d \in Deciders |->
       CASE deciders[d].step = "refreshing" -> [deciders[d] EXCEPT !.step = "sent"]
         [] deciders[d].step = "finishing" -> [deciders[d] EXCEPT !.step = "over"]
         [] OTHER -> deciders[d]]
  /\ reload' = IF reload.queued THEN Begun ELSE [Begun EXCEPT !.phase = "none", !.due = {}]
  /\ UNCHANGED <<sample, endpoints, rows, pushed, filter, holds, queue, shownHolds, desk>>

-----------------------------------------------------------------------------
(* The operator *)

\* The filter of the queue is changed, and perhaps a refresh asked for.
SetFilter ==
  /\ filter' \in [status : {"any", "PENDING"} \cup Over, runs : SUBSET Runs]
  /\ filter' # filter /\ reload' \in {reload, Asked}
  /\ UNCHANGED <<sample, endpoints, rows, pushed, holds, queue, shownHolds, desk, deciders>>

\* A run of the queue is selected, or put away when it is selected already; the modal is
\* put away with it.
SelectRun(r) ==
  /\ queue[r] # "none"
  /\ desk' = IF desk.selected = r THEN [selected |-> NoRun, modal |-> NoReview] ELSE [desk EXCEPT !.selected = r]
  /\ reload' = Asked
  /\ UNCHANGED <<sample, endpoints, rows, pushed, filter, holds, queue, shownHolds, deciders>>

OpenModal(r) ==
  /\ queue[r] # "none" /\ desk.selected = r
  /\ desk' = [desk EXCEPT !.modal = ReviewOf(r)]
  /\ UNCHANGED <<sample, endpoints, rows, pushed, filter, holds, queue, shownHolds, deciders, reload>>

CloseModal ==
  /\ desk.modal # NoReview
  /\ desk' = [desk EXCEPT !.modal = NoReview]
  /\ UNCHANGED <<sample, endpoints, rows, pushed, filter, holds, queue, shownHolds, deciders, reload>>

\* One of the forms makes a run of the sample data.
SubmitRun(r) ==
  /\ sample /\ rows[r] = NoRow
  /\ \E request \in Requests : rows' = [rows EXCEPT ![r] = SampleRow(request)]
  /\ reload' = Asked
  /\ UNCHANGED <<sample, endpoints, pushed, filter, holds, queue, shownHolds, desk, deciders>>

\* A decision from the review in the modal, which may show a run that waits no longer.
\* Without a reason it is not sent.
DecideInQueue(d, r, v) ==
  /\ deciders[d].step = "none" /\ desk.modal = [run |-> r, decidable |-> TRUE]
  /\ \/ deciders' = [deciders EXCEPT ![d] = [NoDecision EXCEPT !.kind = "queue", !.run = r, !.step = "over", !.told = "no reason"]]
     \/ deciders' = [deciders EXCEPT ![d] = [NoDecision EXCEPT !.kind = "queue", !.run = r, !.verdict = v, !.step = "sent"]]
  /\ UNCHANGED <<sample, endpoints, rows, pushed, filter, holds, queue, shownHolds, desk, reload>>

\* A decision from the governance workspace, whose own review shows the queue.  With the
\* provider routing live it may be deferred or escalated, which copies a packet and sends
\* nothing.
DecideInGovernance(d, r, v) ==
  /\ deciders[d].step = "none" /\ queue[r] = "PENDING"
  /\ deciders' = [deciders EXCEPT ![d] = [NoDecision EXCEPT !.kind = "governance", !.run = r, !.verdict = v, !.step = "sent"]]
  /\ UNCHANGED <<sample, endpoints, rows, pushed, filter, holds, queue, shownHolds, desk, reload>>

\* A decision from the pinned review of a held request; it waits for a refresh of its own.
DecideHold(d, r, v) ==
  /\ deciders[d].step = "none" /\ r \in shownHolds
  /\ deciders' = [deciders EXCEPT ![d] = [NoDecision EXCEPT !.kind = "hold", !.run = r, !.verdict = v, !.step = ThenAwaits("sent")]]
  /\ reload' = Asked
  /\ UNCHANGED <<sample, endpoints, rows, pushed, filter, holds, queue, shownHolds, desk>>

Answer(d) == AnswerTo(ApprovalDecision, deciders[d].reply, deciders[d].done)

Told(answer) == CASE answer = "value" -> "ok" [] answer = "refused" -> "unchanged" [] answer = "throws" -> "error"

\* The answer to a decision from the queue or the governance workspace: a decision that was
\* applied closes the modal; one that failed is not followed by a refresh.
QueueAnswered(d) ==
  /\ deciders[d].step = "replied" /\ deciders[d].kind \in {"queue", "governance"}
  /\ LET told == Told(Answer(d))
     IN /\ deciders' = [deciders EXCEPT ![d].told = told,
                                        ![d].step = IF told = "error" THEN "over" ELSE ThenAwaits("over")]
        /\ reload' = IF told = "error" THEN reload ELSE Asked
        /\ desk' = IF deciders[d].kind = "governance" \/ told = "error" THEN desk
                   ELSE [selected |-> deciders[d].run, modal |-> IF told = "ok" THEN NoReview ELSE desk.modal]
  /\ UNCHANGED <<sample, endpoints, rows, pushed, filter, holds, queue, shownHolds>>

\* The answer to a decision on a held request.  NativeGatewayHoldResolve would resolve the
\* hold after a decision that was applied, and the holds be listed again, but the runtime
\* applies none to the run of a held request.
HoldAnswered(d) ==
  /\ deciders[d].step = "replied" /\ deciders[d].kind = "hold"
  /\ LET told == Told(Answer(d))
     IN /\ holds' = IF told # "ok" THEN holds
                    ELSE [holds EXCEPT ![deciders[d].run] = IF deciders[d].verdict = "APPROVE" THEN "granted" ELSE "denied"]
        /\ deciders' = [deciders EXCEPT ![d].told = told, ![d].step = ThenAwaits("over")]
  /\ reload' = Asked
  /\ UNCHANGED <<sample, endpoints, rows, pushed, filter, queue, shownHolds, desk>>

DeskNext ==
  \/ \E r \in Runs : \/ RunArrives(r) \/ HeldArrives(r) \/ PushedOut(r) \/ RunExpires(r) \/ HoldTimesOut(r)
                     \/ SelectRun(r) \/ OpenModal(r) \/ SubmitRun(r)
  \/ SetFilter \/ CloseModal \/ ReadRuns \/ ReadQueue \/ ReloadEnds
  \/ \E d \in Deciders :
       \/ \E r \in Runs, v \in Verdicts : DecideInQueue(d, r, v) \/ DecideInGovernance(d, r, v) \/ DecideHold(d, r, v)
       \/ DecisionServed(d) \/ QueueAnswered(d) \/ HoldAnswered(d)

DeskSpec == DeskInit /\ [][DeskNext]_deskVars

-----------------------------------------------------------------------------
(* Properties *)

\* What a run says agrees with what was decided of it: one that was approved holds a
\* grant and one that waits, was denied or has expired holds none; a run that the operator
\* has denied at a runtime has failed, and one approved there is allowed.
GrantFollowsDecision ==
  /\ \A r \in Runs : /\ rows[r].approval = "APPROVED" => rows[r].grant
                     /\ rows[r].approval \in {"PENDING", "DENIED", "EXPIRED"} => ~rows[r].grant
                     /\ rows[r].approval = "DENIED" => rows[r].decision = "DENY"
  /\ \A d \in Deciders :
       deciders[d].done /\ ~sample => LET row == rows[deciders[d].run]
                                     IN IF deciders[d].verdict = "APPROVE" THEN row.decision = "ALLOW" ELSE row.status = "FAILED"

\* The operator is told the truth: "ok" when the run is decided as asked, "unchanged" when
\* this decision changed nothing.
ToldTheTruth ==
  \A d \in Deciders : /\ deciders[d].told = "ok" /\ ~sample => rows[deciders[d].run].approval = ApprovalOf(deciders[d].verdict)
                      /\ deciders[d].told = "unchanged" => ~deciders[d].done

\* A run that waits from the beginning of a refresh to its end, and that no limit cuts off,
\* is shown as waiting: where the queue is read, when it passes the filter; where it is
\* derived from runs listed before, when the policy has allowed it and it has not ended.
WaitingRunsShown ==
  [][reload.phase = "reading queue" /\ reload'.phase = "done" =>
       \A r \in reload.due \ pushed :
         /\ Waiting(r)
         /\ \/ sample
            \/ "queue" \in endpoints /\ Passes(r)
            \/ "queue" \notin endpoints /\ rows[r].decision = "ALLOW" /\ rows[r].status \notin {"COMPLETED", "FAILED"}
         => queue'[r] = "PENDING"]_deskVars

\* What the review of a held request says of itself: "Approving releases the held request
\* to continue. Denying closes it while preserving the review trail."  Once its approval has
\* been answered by the runtime and the page is done with it, the request is held no more.
ReviewReleasesHold ==
  \A d \in Deciders :
    /\ deciders[d].kind = "hold" /\ deciders[d].verdict = "APPROVE" /\ deciders[d].step = "over"
    /\ deciders[d].reply \in {"ok", "error"}
    => holds[deciders[d].run] # "held"
=============================================================================

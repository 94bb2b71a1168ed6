---------------------------- MODULE RunPipeline ----------------------------
(***************************************************************************)
(* Orchestrator.ExecuteRun and the two other writers of a run's row.       *)
(*                                                                         *)
(* A POST /runs request runs the whole pipeline inside its HTTP handler:   *)
(* profile, policy, connector, desktop, evidence, completion.  The handler *)
(* keeps the RunRecord in memory and, after each stage, upserts ALL of it: *)
(* no version, no lock, no transaction, the last writer wins.  The same    *)
(* rows are read, edited and upserted by the approval-decision handler and *)
(* selected and then deleted by the retention prune.                       *)
(*                                                                         *)
(* One action per call that leaves the process (provider or store) or that *)
(* another actor can observe.  Abstracted: provider payloads (only what a  *)
(* later guard looks at is kept), audit events and metrics, authorization, *)
(* and the copies the decision handler leaves in other tables (checkpoint  *)
(* projection, session event), which no handler of a run reads.            *)
(***************************************************************************)
EXTENDS Naturals, FiniteSets

CONSTANTS
  Runs,               \* runs that may be requested
  Requests,           \* the requests considered, a set of Request records
  Approvers,          \* concurrent approval-decision handlers
  Decisions,          \* decisions a policy provider may return
  RequirePolicyGrant, \* the orchestrator's RequirePolicyGrant switch
  StoreOutcomes,      \* what may become of a store write, see StoreWrite
  ApprovalTTL,        \* TTL an approval gives a run that has no expiry
  PruneLimit,         \* most rows one prune deletes
  MaxTime,            \* BOUND: the clock stops here
  MaxCrashes          \* BOUND: process crashes considered

ASSUME DecisionsAssumption ==
  {"ALLOW", "DENY"} \subseteq Decisions /\ "" \notin Decisions
ASSUME StoreAssumption ==
  "ok" \in StoreOutcomes /\ StoreOutcomes \subseteq {"ok", "lost", "unacked"}
ASSUME BoundsAssumption ==
  /\ ApprovalTTL \in Nat \ {0} /\ PruneLimit \in Nat \ {0}
  /\ MaxTime \in Nat \ {0} /\ MaxCrashes \in Nat
  /\ RequirePolicyGrant \in BOOLEAN

-----------------------------------------------------------------------------
(* Values *)

NoExpiry == 0          \* ExpiresAt is nil; the clock starts at 1
HighRisk == 3          \* desktopTierHighRisk
ConnectorsTier == 1    \* desktopTierConnectors

(* tier 0: the request has no desktop part.  ttl: the retention TTL of the *)
(* request's class, NoExpiry when that class keeps runs for ever.          *)
Request == [connector : BOOLEAN, tier : 0..HighRisk, human : BOOLEAN, ttl : Nat]

ASSUME RequestsAssumption == Requests \subseteq Request

RunStatus == {"PENDING", "PROFILE_RESOLVED", "POLICY_EVALUATED",
              "DESKTOP_VERIFIED", "EVIDENCE_RECORDED", "COMPLETED", "FAILED"}

(* The response columns a stage fills.  "desktop" is the three desktop     *)
(* responses, which are set together.                                      *)
Responses == {"profile", "policy", "desktop", "record", "bundle"}

(* RunRecord, in memory and as a row: what guards and readers look at.     *)
Row == [status : RunStatus, decision : Decisions \cup {""}, grant : BOOLEAN,
        expires : Nat, human : BOOLEAN, responses : SUBSET Responses]

BlankRow == [status |-> "PENDING", decision |-> "", grant |-> FALSE,
             expires |-> NoExpiry, human |-> FALSE, responses |-> {}]

Effects == {"connector", "desktop"}

(* Where a run's handler is.  The persist* stages are about to upsert.     *)
Active == {"profile", "persistProfile", "policy", "persistPolicy",
           "connector", "desktop", "actuate", "verify", "persistDesktop",
           "evidence", "persistEvidence", "finalize", "persistCompletion",
           "failing"}
Done == {"returned", "failed", "rejected", "crashed"}

Verdicts == {"APPROVED", "DENIED"}

(* A decision handler between its GetRun and its UpsertRun: the row it     *)
(* will write was computed from the row it read.                           *)
Review == [by : Approvers, run : Runs, verdict : Verdicts, row : Row]

Prune == [before : Nat, chosen : SUBSET Runs]
IdlePrune == [before |-> 0, chosen |-> {}]

VARIABLES
  req,       \* req[r]: the request
  pc,        \* pc[r]: the stage of r's handler
  mem,       \* mem[r]: the handler's in-memory RunRecord
  stored,    \* the runs that have a row
  rows,      \* rows[r]: the row of a stored run
  reviews,   \* decision handlers between read and write
  prune,     \* the retention prune between SELECT and DELETE
  now,       \* the clock
  crashes,   \* crashes so far
  \* History: what the outside world saw.
  effects,   \* effects[r]: effects r may have had
  evidence,  \* evidence[r]: the state of r's evidence at the provider
  acked,     \* acked[r]: statuses whose upsert the store acknowledged to r
  verdicts   \* verdicts[r]: operator decisions answered "applied"

pipelineVars == <<pc, mem, effects, evidence, acked>>
storeVars    == <<stored, rows>>
vars == <<req, pc, mem, stored, rows, reviews, prune, now, crashes,
          effects, evidence, acked, verdicts>>

Init ==
  /\ req \in [Runs -> Requests]
  /\ pc       = [r \in Runs |-> "new"]
  /\ mem      = [r \in Runs |-> BlankRow]
  /\ stored   = {}
  /\ rows     = [r \in Runs |-> BlankRow]
  /\ reviews  = {}
  /\ prune    = IdlePrune
  /\ now      = 1
  /\ crashes  = 0
  /\ effects  = [r \in Runs |-> {}]
  /\ evidence = [r \in Runs |-> "none"]
  /\ acked    = [r \in Runs |-> {}]
  /\ verdicts = [r \in Runs |-> {}]

-----------------------------------------------------------------------------
(* The store *)

StoreWriteKeepingPayload(r, row, o) ==   \* slip: request_payload not updated
  IF o = "lost"
  THEN UNCHANGED storeVars
  ELSE /\ stored' = stored \cup {r}
       /\ rows'   = [rows EXCEPT ![r] = IF r \in stored
                                        THEN [row EXCEPT !.human = rows[r].human]
                                        ELSE row]

(* PostgresRunStore.UpsertRun: insert, or overwrite every column.  "ok":   *)
(* committed and acknowledged; "lost": an error and nothing committed;     *)
(* "unacked": committed, but the caller sees an error (the connection or   *)
(* the request context ended first).                                       *)
StoreWrite(r, row, o) ==
  IF o = "lost"
  THEN UNCHANGED storeVars
  ELSE /\ stored' = stored \cup {r}
       /\ rows'   = [rows EXCEPT ![r] = row]

-----------------------------------------------------------------------------
(* The pipeline *)

(* failRun, up to its own upsert: memory turns FAILED.                     *)
Fail(r, record) ==
  /\ mem' = [mem EXCEPT ![r] = [record EXCEPT !.status = "FAILED"]]
  /\ pc'  = [pc EXCEPT ![r] = "failing"]

(* A stage that a provider refused, failed or answered unusably, and that  *)
(* changed nothing.                                                        *)
StageFails(r) ==
  /\ Fail(r, mem[r])
  /\ UNCHANGED <<storeVars, effects, evidence, acked>>

(* The result of a provider call becomes part of the record in memory.     *)
Advance(r, status, response, next) ==
  /\ mem' = [mem EXCEPT ![r].status = status,
                        ![r].responses = @ \cup {response}]
  /\ pc'  = [pc EXCEPT ![r] = next]

PersistRetrying(r, stage, next) ==   \* slip: a failed upsert is tried again
  /\ pc[r] = stage
  /\ \E o \in StoreOutcomes :
       /\ StoreWrite(r, mem[r], o)
       /\ IF o = "ok"
          THEN /\ pc'    = [pc EXCEPT ![r] = next]
               /\ acked' = [acked EXCEPT ![r] = @ \cup {mem[r].status}]
          ELSE UNCHANGED <<pc, acked>>
  /\ UNCHANGED <<mem, effects, evidence>>

PersistBestEffort(r, stage, next) == \* slip: the upsert's error is ignored
  /\ pc[r] = stage
  /\ \E o \in StoreOutcomes :
       /\ StoreWrite(r, mem[r], o)
       /\ acked' = IF o = "ok" THEN [acked EXCEPT ![r] = @ \cup {mem[r].status}]
                   ELSE acked
  /\ pc' = [pc EXCEPT ![r] = next]
  /\ UNCHANGED <<mem, effects, evidence>>

(* Upsert after a stage; any error sends the run to failRun. *)
Persist(r, stage, next) ==
  /\ pc[r] = stage
  /\ \E o \in StoreOutcomes :
       /\ StoreWrite(r, mem[r], o)
       /\ IF o = "ok"
          THEN /\ pc'    = [pc EXCEPT ![r] = next]
               /\ acked' = [acked EXCEPT ![r] = @ \cup {mem[r].status}]
               /\ UNCHANGED mem
          ELSE Fail(r, mem[r]) /\ UNCHANGED acked
  /\ UNCHANGED <<effects, evidence>>

(* Validation or an unsupported retention class: nothing is written. *)
Reject(r) ==
  /\ pc[r] = "new"
  /\ pc' = [pc EXCEPT ![r] = "rejected"]
  /\ UNCHANGED <<mem, storeVars, effects, evidence, acked>>

(* The PENDING row.  If its upsert errs the caller is told of no run at    *)
(* all, even when the row was committed.                                   *)
Accept(r) ==
  LET pending == [BlankRow EXCEPT
                    !.expires = IF req[r].ttl = NoExpiry THEN NoExpiry
                                ELSE now + req[r].ttl,
                    !.human = req[r].human]
  IN /\ pc[r] = "new"
     /\ mem' = [mem EXCEPT ![r] = pending]
     /\ \E o \in StoreOutcomes :
          /\ StoreWrite(r, pending, o)
          /\ pc' = [pc EXCEPT ![r] = IF o = "ok" THEN "profile" ELSE "rejected"]
          /\ acked' = IF o = "ok" THEN [acked EXCEPT ![r] = {"PENDING"}] ELSE acked
     /\ UNCHANGED <<effects, evidence>>

(* SelectProvider, the connector plan and the resolve call. *)
ResolveProfile(r) ==
  /\ pc[r] = "profile"
  /\ \/ /\ Advance(r, "PROFILE_RESOLVED", "profile", "persistProfile")
        /\ UNCHANGED <<storeVars, effects, evidence, acked>>
     \/ StageFails(r)

(* A decision other than DENY needs a grant when grants are required. *)
GrantMissing(d, granted) == RequirePolicyGrant /\ d # "DENY" /\ ~granted

(* The provider decides (or the entitlement check denies in its place).    *)
(* accepted: the policy-lifecycle check passes; it fails only when it is   *)
(* enforced.  The decision enters the record before both checks, the grant *)
(* only after the first.                                                   *)
EvaluatePolicy(r) ==
  /\ pc[r] = "policy"
  /\ UNCHANGED <<storeVars, effects, evidence, acked>>
  /\ \/ Fail(r, mem[r])
     \/ \E d \in Decisions : Fail(r, [mem[r] EXCEPT !.decision = d])
     \/ \E d \in Decisions, granted \in BOOLEAN :
          LET decided == [mem[r] EXCEPT !.decision = d, !.grant = granted]
          IN IF GrantMissing(d, granted)
             THEN Fail(r, decided)
             ELSE /\ mem' = [mem EXCEPT ![r] =
                       [decided EXCEPT !.status = "POLICY_EVALUATED",
                                       !.responses = @ \cup {"policy"}]]
                  /\ pc' = [pc EXCEPT ![r] = "persistPolicy"]

(* An external call that errs may have had its effect all the same. *)
Attempt(r, effect, next) ==
  \/ /\ effects' = [effects EXCEPT ![r] = @ \cup {effect}]
     /\ \/ pc' = [pc EXCEPT ![r] = next] /\ UNCHANGED mem
        \/ Fail(r, mem[r])
  \/ Fail(r, mem[r]) /\ UNCHANGED effects

Skip(r, next) ==
  /\ pc' = [pc EXCEPT ![r] = next]
  /\ UNCHANGED <<mem, effects>>

ConnectorDue(r) == req[r].connector /\ mem[r].decision = "ALLOW"

RunConnector(r) ==
  /\ pc[r] = "connector"
  /\ IF ConnectorDue(r) THEN Attempt(r, "connector", "desktop")
                        ELSE Skip(r, "desktop")
  /\ UNCHANGED <<storeVars, evidence, acked>>

DesktopDueUnlessDenied(r) ==   \* slip: DEFER treated as ALLOW
  req[r].tier > ConnectorsTier /\ mem[r].decision # "DENY"

DesktopDue(r) == req[r].tier > ConnectorsTier /\ mem[r].decision = "ALLOW"

HighRiskRefusedWithoutGrant(r) ==   \* slip: the human approval is not asked
  req[r].tier >= HighRisk /\ ~mem[r].grant

(* deriveDesktopExecutionPlan on a high-risk tier: the approval must be in *)
(* the request the handler holds, and the provider's grant beside it.      *)
HighRiskRefused(r) ==
  req[r].tier >= HighRisk /\ ~(mem[r].human /\ mem[r].grant)

(* Plan, provider selection and the observe call, or no desktop step. *)
ObserveDesktop(r) ==
  /\ pc[r] = "desktop"
  /\ \/ ~DesktopDue(r) /\ Skip(r, "evidence")
     \/ DesktopDue(r) /\ ~HighRiskRefused(r) /\ Skip(r, "actuate")
     \/ DesktopDue(r) /\ Fail(r, mem[r]) /\ UNCHANGED effects
  /\ UNCHANGED <<storeVars, evidence, acked>>

ActuateDesktop(r) ==
  /\ pc[r] = "actuate"
  /\ Attempt(r, "desktop", "verify")
  /\ UNCHANGED <<storeVars, evidence, acked>>

VerifyDesktop(r) ==
  /\ pc[r] = "verify"
  /\ \/ /\ Advance(r, "DESKTOP_VERIFIED", "desktop", "persistDesktop")
        /\ UNCHANGED <<storeVars, effects, evidence, acked>>
     \/ StageFails(r)

(* Both evidence calls: the provider may have done its part although the   *)
(* call errs or the answer lacks its evidenceId.                           *)
EvidenceCall(r, stage, done, status, response, next) ==
  /\ pc[r] = stage
  /\ \/ /\ evidence' = [evidence EXCEPT ![r] = done]
        /\ \/ Advance(r, status, response, next)
           \/ Fail(r, mem[r])
     \/ Fail(r, mem[r]) /\ UNCHANGED evidence
  /\ UNCHANGED <<storeVars, effects, acked>>

RecordEvidence(r) ==
  EvidenceCall(r, "evidence", "recorded", "EVIDENCE_RECORDED", "record",
               "persistEvidence")

FinalizeBundle(r) ==
  EvidenceCall(r, "finalize", "finalized", "COMPLETED", "bundle",
               "persistCompletion")

(* failRun's own upsert uses the same context and ignores its error. *)
PersistFailure(r) ==
  /\ pc[r] = "failing"
  /\ \E o \in StoreOutcomes : StoreWrite(r, mem[r], o)
  /\ pc' = [pc EXCEPT ![r] = "failed"]
  /\ UNCHANGED <<mem, effects, evidence, acked>>

PersistStage(r) ==
  \/ Persist(r, "persistProfile", "policy")
  \/ Persist(r, "persistPolicy", "connector")
  \/ Persist(r, "persistDesktop", "evidence")
  \/ Persist(r, "persistEvidence", "finalize")
  \/ Persist(r, "persistCompletion", "returned")

(* One step of a handler that has accepted its run. *)
Pipeline(r) ==
  /\ \/ ResolveProfile(r)
     \/ EvaluatePolicy(r)
     \/ RunConnector(r)
     \/ ObserveDesktop(r)
     \/ ActuateDesktop(r)
     \/ VerifyDesktop(r)
     \/ RecordEvidence(r)
     \/ FinalizeBundle(r)
     \/ PersistStage(r)
     \/ PersistFailure(r)
  /\ UNCHANGED <<req, reviews, prune, now, crashes, verdicts>>

Arrive(r) ==
  /\ Reject(r) \/ Accept(r)
  /\ UNCHANGED <<req, reviews, prune, now, crashes, verdicts>>

-----------------------------------------------------------------------------
(* Operator approvals *)

(* classifyApprovalStatus of a high-risk run's row. *)
ApprovalStatus(row) ==
  IF row.grant THEN "APPROVED"
  ELSE IF row.decision = "DENY" THEN "DENIED"
  ELSE IF row.expires # NoExpiry /\ row.expires < now THEN "EXPIRED"
  ELSE "PENDING"

Approved(row) ==
  [row EXCEPT !.decision = "ALLOW",
              !.grant    = TRUE,
              !.human    = TRUE,
              !.status   = IF @ = "FAILED" THEN "POLICY_EVALUATED" ELSE @,
              !.expires  = IF @ = NoExpiry THEN now + ApprovalTTL ELSE @]

Denied(row) ==
  [row EXCEPT !.decision = "DENY",
              !.grant    = FALSE,
              !.human    = FALSE,
              !.status   = "FAILED",
              !.expires  = now]

ReviewOpen(r) ==
  /\ r \in stored
  /\ req[r].tier >= HighRisk
  /\ ApprovalStatus(rows[r]) = "PENDING"

Busy(a) == \E v \in reviews : v.by = a

(* handleApprovalDecisionByRunID up to its upsert: read the row, check it, *)
(* compute the new row.  A row that is not open is answered at once        *)
(* (unchanged, or 404 or 409) and leaves no trace.                         *)
ReadForDecision(a, r, verdict) ==
  /\ ~Busy(a)
  /\ ReviewOpen(r)
  /\ reviews' = reviews \cup
       {[by |-> a, run |-> r, verdict |-> verdict,
         row |-> IF verdict = "APPROVED" THEN Approved(rows[r]) ELSE Denied(rows[r])]}
  /\ UNCHANGED <<req, pipelineVars, storeVars, prune, now, crashes, verdicts>>

(* Its upsert, and the answer: applied only if the store acknowledged. *)
WriteDecision(v) ==
  /\ v \in reviews
  /\ reviews' = reviews \ {v}
  /\ \E o \in StoreOutcomes :
       /\ StoreWrite(v.run, v.row, o)
       /\ verdicts' = IF o = "ok"
                      THEN [verdicts EXCEPT ![v.run] = @ \cup {v.verdict}]
                      ELSE verdicts
  /\ UNCHANGED <<req, pipelineVars, prune, now, crashes>>

-----------------------------------------------------------------------------
(* Retention *)

ExpiredOrUnbounded(before) ==   \* slip: rows without an expiry are not left out
  {r \in stored : rows[r].expires <= before}

Expired(before) ==
  {r \in stored : rows[r].expires # NoExpiry /\ rows[r].expires <= before}

(* ORDER BY expires_at LIMIT n *)
OldestFirst(chosen, all) ==
  /\ chosen \subseteq all
  /\ Cardinality(chosen) = IF Cardinality(all) < PruneLimit
                           THEN Cardinality(all) ELSE PruneLimit
  /\ \A c \in chosen, o \in all \ chosen : rows[c].expires <= rows[o].expires

(* PruneRuns' SELECT.  The caller names any cut-off, a later one than now  *)
(* included.  A dry run, or no match, ends here.  Left out: the optional   *)
(* retention-class filter, which only narrows the candidates.              *)
PruneSelect(before, chosen) ==
  /\ prune = IdlePrune
  /\ chosen # {}
  /\ OldestFirst(chosen, Expired(before))
  /\ prune' = [before |-> before, chosen |-> chosen]
  /\ UNCHANGED <<req, pipelineVars, storeVars, reviews, now, crashes, verdicts>>

(* Its DELETE, by run id alone.  It may fail with nothing deleted. *)
PruneDelete ==
  /\ prune # IdlePrune
  /\ prune' = IdlePrune
  /\ \/ /\ stored' = stored \ prune.chosen
        /\ rows' = [r \in Runs |-> IF r \in prune.chosen THEN BlankRow ELSE rows[r]]
     \/ UNCHANGED storeVars
  /\ UNCHANGED <<req, pipelineVars, reviews, now, crashes, verdicts>>

-----------------------------------------------------------------------------
(* Environment *)

Tick ==
  /\ now < MaxTime
  /\ now' = now + 1
  /\ UNCHANGED <<req, pipelineVars, storeVars, reviews, prune, crashes, verdicts>>

(* The process dies with every handler in it.  Nothing on start-up looks   *)
(* for runs that were under way.                                           *)
Crash ==
  /\ crashes < MaxCrashes
  /\ crashes' = crashes + 1
  /\ pc' = [r \in Runs |-> IF pc[r] \in Active THEN "crashed" ELSE pc[r]]
  /\ reviews' = {}
  /\ prune' = IdlePrune
  /\ UNCHANGED <<req, mem, storeVars, now, effects, evidence, acked, verdicts>>

Decide == \/ \E a \in Approvers, r \in Runs, v \in Verdicts : ReadForDecision(a, r, v)
          \/ \E v \in reviews : WriteDecision(v)

Retain == \/ \E t \in 1..MaxTime, chosen \in SUBSET Runs : PruneSelect(t, chosen)
          \/ PruneDelete

Next ==
  \/ \E r \in Runs : Arrive(r) \/ Pipeline(r)
  \/ Decide
  \/ Retain
  \/ Tick
  \/ Crash

Spec == Init /\ [][Next]_vars

(* A handler that has accepted its run keeps going: each provider call     *)
(* ends by its timeout and each store call by its context.                 *)
FairSpec == Spec /\ \A r \in Runs : WF_vars(Pipeline(r))

-----------------------------------------------------------------------------
(* Properties *)

TypeOK ==
  /\ req \in [Runs -> Request]
  /\ pc \in [Runs -> {"new"} \cup Active \cup Done]
  /\ mem \in [Runs -> Row]
  /\ stored \subseteq Runs
  /\ rows \in [Runs -> Row]
  /\ reviews \subseteq Review
  /\ prune \in Prune
  /\ now \in 1..MaxTime
  /\ crashes \in 0..MaxCrashes
  /\ effects \in [Runs -> SUBSET Effects]
  /\ evidence \in [Runs -> {"none", "recorded", "finalized"}]
  /\ acked \in [Runs -> SUBSET RunStatus]
  /\ verdicts \in [Runs -> SUBSET Verdicts]

(* A run acts on the outside world only under its own policy decision      *)
(* ALLOW, with the grant when grants are required; on a desktop only when  *)
(* one was requested, and at the high-risk tier only if the request itself *)
(* carried the human approval.  No operator decision written to the row    *)
(* meanwhile can widen this (orchestrator.go:332, :377, desktop.go:112).   *)
Authorized(r) ==
  /\ effects[r] # {} =>
       /\ mem[r].decision = "ALLOW"
       /\ RequirePolicyGrant => mem[r].grant
  /\ "connector" \in effects[r] => req[r].connector
  /\ "desktop" \in effects[r] =>
       /\ req[r].tier > ConnectorsTier
       /\ req[r].tier >= HighRisk => req[r].human /\ mem[r].grant

EffectsAuthorized == \A r \in Runs : Authorized(r)

(* Whatever a run did or had attested, the store had acknowledged its      *)
(* policy decision first: no effect and no evidence for a decision that    *)
(* was never durable (orchestrator.go:314-318).                            *)
Durable(r) ==
  effects[r] # {} \/ evidence[r] # "none" => "POLICY_EVALUATED" \in acked[r]

ActsOnDurableDecision == \A r \in Runs : Durable(r)

(* A row that says COMPLETED rests on a bundle the evidence provider has   *)
(* finalized, holds every response a completed run owes, and a desktop     *)
(* response whenever the desktop was actuated, although approvals rewrite  *)
(* completed rows and acknowledgements get lost.                           *)
CompletedRowIsAttested ==
  \A r \in stored :
    rows[r].status = "COMPLETED" =>
      /\ evidence[r] = "finalized"
      /\ Responses \ {"desktop"} \subseteq rows[r].responses
      /\ "desktop" \in effects[r] => "desktop" \in rows[r].responses

(* A row that shows a human approval its request did not carry got it from *)
(* the approval handler, and then shows that approval whole: ALLOW and a   *)
(* grant.  Handlers that overwrite each other never leave a mixture.       *)
ApprovalIsWhole ==
  \A r \in stored :
    rows[r].human /\ ~req[r].human => rows[r].grant /\ rows[r].decision = "ALLOW"

Rank == [s \in RunStatus |->
  CASE s = "PENDING" -> 0 [] s = "PROFILE_RESOLVED" -> 1
    [] s = "POLICY_EVALUATED" -> 2 [] s = "DESKTOP_VERIFIED" -> 3
    [] s = "EVIDENCE_RECORDED" -> 4 [] s = "COMPLETED" -> 5
    [] s = "FAILED" -> 6]

Ordinary(r) == req[r].tier < HighRisk

(* A run below the approval tier has one writer: its row is its handler's  *)
(* record, or an earlier one; and once the caller has been answered        *)
(* "created" the row is exactly the record that was returned.              *)
OrdinaryRowFollowsHandler ==
  \A r \in stored : Ordinary(r) =>
    /\ rows[r] # mem[r] => Rank[rows[r].status] < Rank[mem[r].status]
    /\ pc[r] = "returned" => rows[r] = mem[r] /\ mem[r].status = "COMPLETED"

(* Whatever overwrites whatever, what the rows say is true.               *)
StoredRowsAreTrue ==
  CompletedRowIsAttested /\ ApprovalIsWhole /\ OrdinaryRowFollowsHandler

(* No step takes the stored status of such a run back to an earlier stage; *)
(* and although the prune deletes by the ids it selected earlier, the run  *)
(* loses its row only if that row had an expiry, and one no later than the *)
(* cut-off asked for (store.go:515-561).                                   *)
OrdinaryRowsMoveOn ==
  [][/\ \A r \in stored \cap stored' :
          Ordinary(r) => Rank[rows[r].status] <= Rank[rows'[r].status]
     /\ \A r \in stored \ stored' :
          Ordinary(r) => rows[r].expires \in 1..prune.before]_vars

(* Every accepted request is answered, whatever fails on the way. *)
HandlerReturns == \A r \in Runs : pc[r] \in Active ~> pc[r] \in Done

(* What a test of the approval API says of an applied denial: the row then *)
(* reads DENY, FAILED, without a grant (api_approvals_test.go:292-299).    *)
(* Stated for denials that no approval was applied against.                *)
AppliedDenialHolds ==
  \A r \in stored :
    verdicts[r] = {"DENIED"} =>
      rows[r].decision = "DENY" /\ rows[r].status = "FAILED" /\ ~rows[r].grant

(* The inductive core of the safety of effects: what each stage of the     *)
(* handler may rely on (stages of ExecuteRun, orchestrator.go:156-646).    *)
Undecided == {"new", "rejected", "profile", "persistProfile", "policy"}
OpenForEffects == {"connector", "desktop", "actuate", "verify",
                   "persistDesktop", "evidence"}
Attesting == {"persistEvidence", "finalize", "persistCompletion", "returned"}

StageInv(r) ==
  /\ mem[r].human => req[r].human
  /\ pc[r] \in Undecided => mem[r].decision = ""
  /\ pc[r] \in Undecided \cup {"persistPolicy"} =>
       effects[r] = {} /\ evidence[r] = "none"
  /\ pc[r] = "persistPolicy" => mem[r].status = "POLICY_EVALUATED"
  /\ pc[r] \in {"persistPolicy"} \cup OpenForEffects \cup Attesting =>
       mem[r].decision # "" /\ ~GrantMissing(mem[r].decision, mem[r].grant)
  /\ pc[r] \in OpenForEffects \cup Attesting => "POLICY_EVALUATED" \in acked[r]
  /\ pc[r] \in OpenForEffects => evidence[r] = "none"
  /\ pc[r] \in {"actuate", "verify"} => DesktopDue(r) /\ ~HighRiskRefused(r)
  /\ pc[r] \in {"persistEvidence", "finalize"} => evidence[r] = "recorded"
  /\ pc[r] \in {"persistCompletion", "returned"} => evidence[r] = "finalized"

PipelineInv ==
  EffectsAuthorized /\ ActsOnDurableDecision /\ \A r \in Runs : StageInv(r)

(* The pipeline implements the abstract governed run. *)
OutcomeAt(stage) ==
  CASE stage \in {"new", "rejected"} -> "none"
    [] stage \in Active \cup {"crashed"} -> "open"
    [] stage = "returned" -> "completed"
    [] stage = "failed" -> "failed"

Outcome == [r \in Runs |-> OutcomeAt(pc[r])]

Verdict == [r \in Runs |-> mem[r].decision]

Governed == INSTANCE GovernedRun
  WITH outcome <- Outcome, verdict <- Verdict

GovernedSpec == Governed!Spec
=============================================================================

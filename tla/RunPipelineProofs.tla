------------------------- MODULE RunPipelineProofs -------------------------
(***************************************************************************)
(* Theorems about RunPipeline, for every set of runs and requests, every   *)
(* number of approvers, every store behaviour and every bound.             *)
(***************************************************************************)
EXTENDS RunPipeline, TLAPS

(* The record a run starts from is a row. *)
LEMMA BlankRowIsRow == BlankRow \in Row
  BY DEF BlankRow, Row, RunStatus, NoExpiry

(* Editing a well-typed row as the approval handler does keeps it one.     *)
LEMMA DecidedRowIsRow ==
  ASSUME NEW row \in Row, now \in Nat
  PROVE  Approved(row) \in Row /\ Denied(row) \in Row
<1>1. row.status \in RunStatus /\ row.expires \in Nat
  BY DEF Row
<1>2. (IF row.status = "FAILED" THEN "POLICY_EVALUATED" ELSE row.status) \in RunStatus
  BY <1>1 DEF RunStatus
<1>3. (IF row.expires = NoExpiry THEN now + ApprovalTTL ELSE row.expires) \in Nat
  BY <1>1, BoundsAssumption
<1>4. "ALLOW" \in Decisions /\ "DENY" \in Decisions /\ "FAILED" \in RunStatus
  BY DecisionsAssumption DEF RunStatus
<1>5. Approved(row) \in Row
  BY <1>2, <1>3, <1>4 DEF Approved, Row
<1>6. Denied(row) \in Row
  BY <1>4 DEF Denied, Row
<1> QED BY <1>5, <1>6

(* So does taking the provider's decision and grant. *)
LEMMA GrantedRowIsRow ==
  ASSUME NEW row \in Row, NEW d \in Decisions, NEW granted \in BOOLEAN
  PROVE  [row EXCEPT !.decision = d, !.grant = granted] \in Row
  BY DEF Row

LEMMA DecisionRowIsRow ==
  ASSUME NEW row \in Row, NEW d \in Decisions
  PROVE  [row EXCEPT !.decision = d] \in Row
  BY DEF Row

(* A store write leaves well-typed rows behind, whatever becomes of it.    *)
LEMMA StoreWriteType ==
  ASSUME NEW r \in Runs, NEW row \in Row, NEW o \in StoreOutcomes,
         stored \subseteq Runs, rows \in [Runs -> Row], StoreWrite(r, row, o)
  PROVE  stored' \subseteq Runs /\ rows' \in [Runs -> Row]
  BY DEF StoreWrite, storeVars

(* The same for the memory of a run that fails or moves to a next stage.   *)
Stages == {"new"} \cup Active \cup Done

LEMMA FailType ==
  ASSUME NEW r \in Runs, NEW record \in Row,
         mem \in [Runs -> Row], pc \in [Runs -> Stages], Fail(r, record)
  PROVE  mem' \in [Runs -> Row] /\ pc' \in [Runs -> Stages]
<1>1. [record EXCEPT !.status = "FAILED"] \in Row
  BY DEF Row, RunStatus
<1>2. "failing" \in Stages
  BY DEF Stages, Active
<1> QED BY <1>1, <1>2 DEF Fail

LEMMA AdvanceType ==
  ASSUME NEW r \in Runs, NEW status \in RunStatus, NEW response \in Responses,
         NEW next \in Stages, mem \in [Runs -> Row], pc \in [Runs -> Stages],
         Advance(r, status, response, next)
  PROVE  mem' \in [Runs -> Row] /\ pc' \in [Runs -> Stages]
<1>1. PICK m \in Row : m = mem[r]
  OBVIOUS
<1>2. m.responses \cup {response} \in SUBSET Responses
  BY DEF Row
<1>3. [m EXCEPT !.status = status, !.responses = m.responses \cup {response}] \in Row
  BY <1>2 DEF Row
<1>4. mem' = [mem EXCEPT ![r] =
        [m EXCEPT !.status = status, !.responses = m.responses \cup {response}]]
  BY <1>1 DEF Advance
<1> QED BY <1>3, <1>4 DEF Advance

-----------------------------------------------------------------------------
(* Type correctness *)

(* What the steps of one handler may change, typed. *)
PipelineType ==
  /\ pc \in [Runs -> Stages]
  /\ mem \in [Runs -> Row]
  /\ stored \subseteq Runs
  /\ rows \in [Runs -> Row]
  /\ effects \in [Runs -> SUBSET Effects]
  /\ evidence \in [Runs -> {"none", "recorded", "finalized"}]
  /\ acked \in [Runs -> SUBSET RunStatus]

LEMMA PersistType ==
  ASSUME NEW r \in Runs, NEW stage, NEW next \in Stages,
         PipelineType, Persist(r, stage, next)
  PROVE  PipelineType'
<1> USE DEF PipelineType
<1>1. PICK o \in StoreOutcomes :
        /\ StoreWrite(r, mem[r], o)
        /\ IF o = "ok"
           THEN /\ pc'    = [pc EXCEPT ![r] = next]
                /\ acked' = [acked EXCEPT ![r] = @ \cup {mem[r].status}]
                /\ UNCHANGED mem
           ELSE Fail(r, mem[r]) /\ UNCHANGED acked
  BY DEF Persist
<1>2. stored' \subseteq Runs /\ rows' \in [Runs -> Row]
  BY <1>1, StoreWriteType
<1>3. mem[r].status \in RunStatus
  BY DEF Row
<1>4. UNCHANGED <<effects, evidence>>
  BY DEF Persist
<1>5. CASE o = "ok"
  <2>1. pc' \in [Runs -> Stages] /\ mem' \in [Runs -> Row]
    BY <1>1, <1>5
  <2>2. acked' \in [Runs -> SUBSET RunStatus]
    BY <1>1, <1>3, <1>5
  <2> QED BY <1>2, <1>4, <2>1, <2>2
<1>6. CASE o # "ok"
  BY <1>1, <1>2, <1>4, <1>6, FailType
<1> QED BY <1>5, <1>6

LEMMA EvidenceCallType ==
  ASSUME NEW r \in Runs, NEW stage, NEW done \in {"recorded", "finalized"},
         NEW status \in RunStatus, NEW response \in Responses,
         NEW next \in Stages, PipelineType,
         EvidenceCall(r, stage, done, status, response, next)
  PROVE  PipelineType'
<1> USE DEF PipelineType
<1>1. UNCHANGED <<storeVars, effects, acked>>
  BY DEF EvidenceCall
<1>2. evidence' \in [Runs -> {"none", "recorded", "finalized"}]
  BY DEF EvidenceCall
<1>3. Advance(r, status, response, next) \/ Fail(r, mem[r])
  BY DEF EvidenceCall
<1>4. mem' \in [Runs -> Row] /\ pc' \in [Runs -> Stages]
  BY <1>3, FailType, AdvanceType
<1> QED BY <1>1, <1>2, <1>4 DEF storeVars

LEMMA AttemptType ==
  ASSUME NEW r \in Runs, NEW effect \in Effects, NEW next \in Stages,
         PipelineType, Attempt(r, effect, next)
  PROVE  /\ mem' \in [Runs -> Row] /\ pc' \in [Runs -> Stages]
         /\ effects' \in [Runs -> SUBSET Effects]
<1> USE DEF PipelineType
<1>1. effects' \in [Runs -> SUBSET Effects]
  BY DEF Attempt
<1>2. Fail(r, mem[r]) \/ (pc' = [pc EXCEPT ![r] = next] /\ UNCHANGED mem)
  BY DEF Attempt
<1> QED BY <1>1, <1>2, FailType

LEMMA StageFailsType ==
  ASSUME NEW r \in Runs, PipelineType, StageFails(r)
  PROVE  PipelineType'
  BY FailType DEF PipelineType, StageFails, storeVars

LEMMA StageNames ==
  /\ Active \subseteq Stages /\ Done \subseteq Stages
  /\ "policy" \in Active /\ "connector" \in Active /\ "desktop" \in Active
  /\ "actuate" \in Active /\ "verify" \in Active /\ "evidence" \in Active
  /\ "finalize" \in Active /\ "profile" \in Active
  /\ "persistProfile" \in Active /\ "persistPolicy" \in Active
  /\ "persistDesktop" \in Active /\ "persistEvidence" \in Active
  /\ "persistCompletion" \in Active /\ "failing" \in Active
  /\ "returned" \in Done /\ "failed" \in Done /\ "rejected" \in Done
  /\ "crashed" \in Done
  BY DEF Stages, Active, Done

LEMMA EvaluatePolicyType ==
  ASSUME NEW r \in Runs, PipelineType, EvaluatePolicy(r)
  PROVE  PipelineType'
<1> USE DEF PipelineType
<1>1. UNCHANGED <<storeVars, effects, evidence, acked>>
  BY DEF EvaluatePolicy
<1>2. CASE Fail(r, mem[r])
  BY <1>1, <1>2, FailType DEF storeVars
<1>3. ASSUME NEW d \in Decisions, Fail(r, [mem[r] EXCEPT !.decision = d])
      PROVE  PipelineType'
  <2>1. [mem[r] EXCEPT !.decision = d] \in Row
    <3>1. mem[r] \in Row
      OBVIOUS
    <3> QED BY <3>1, DecisionRowIsRow
  <2> QED BY <1>1, <1>3, <2>1, FailType DEF storeVars
<1>4. ASSUME NEW d \in Decisions, NEW granted \in BOOLEAN,
             LET decided == [mem[r] EXCEPT !.decision = d, !.grant = granted]
             IN IF GrantMissing(d, granted)
                THEN Fail(r, decided)
                ELSE /\ mem' = [mem EXCEPT ![r] =
                          [decided EXCEPT !.status = "POLICY_EVALUATED",
                                          !.responses = @ \cup {"policy"}]]
                     /\ pc' = [pc EXCEPT ![r] = "persistPolicy"]
      PROVE  PipelineType'
  <2> DEFINE decided == [mem[r] EXCEPT !.decision = d, !.grant = granted]
  <2>1. decided \in Row
    <3>1. mem[r] \in Row
      OBVIOUS
    <3> QED BY <3>1, GrantedRowIsRow
  <2>2. [decided EXCEPT !.status = "POLICY_EVALUATED",
                        !.responses = decided.responses \cup {"policy"}] \in Row
    <3>1. decided.responses \cup {"policy"} \in SUBSET Responses
      BY <2>1 DEF Row, Responses
    <3> HIDE DEF decided
    <3> QED BY <2>1, <3>1 DEF Row, RunStatus
  <2>3. CASE GrantMissing(d, granted)
    BY <1>1, <1>4, <2>1, <2>3, FailType DEF storeVars
  <2>4. CASE ~GrantMissing(d, granted)
    BY <1>1, <1>4, <2>2, <2>4, StageNames DEF storeVars
  <2> QED BY <2>3, <2>4
<1> QED BY <1>2, <1>3, <1>4 DEF EvaluatePolicy

(* Every step of a handler that has accepted its run keeps the types. *)
LEMMA PipelineStepType ==
  ASSUME NEW r \in Runs, PipelineType, Pipeline(r)
  PROVE  PipelineType'
<1> USE DEF PipelineType
<1>1. CASE ResolveProfile(r)
  <2>1. CASE StageFails(r)
    BY <2>1, StageFailsType
  <2>2. CASE ~StageFails(r)
    <3>1. /\ Advance(r, "PROFILE_RESOLVED", "profile", "persistProfile")
          /\ UNCHANGED <<storeVars, effects, evidence, acked>>
      BY <1>1, <2>2 DEF ResolveProfile
    <3>2. "PROFILE_RESOLVED" \in RunStatus /\ "profile" \in Responses
      BY DEF RunStatus, Responses
    <3>3. mem' \in [Runs -> Row] /\ pc' \in [Runs -> Stages]
      BY <3>1, <3>2, StageNames, AdvanceType
    <3> QED BY <3>1, <3>3 DEF storeVars
  <2> QED BY <2>1, <2>2
<1>2. CASE EvaluatePolicy(r)
  BY <1>2, EvaluatePolicyType
<1>3. CASE RunConnector(r)
  <2>1. UNCHANGED <<storeVars, evidence, acked>>
    BY <1>3 DEF RunConnector
  <2>2. CASE Attempt(r, "connector", "desktop")
    BY <2>1, <2>2, AttemptType, StageNames DEF Effects, storeVars
  <2>3. CASE Skip(r, "desktop")
    BY <2>1, <2>3, StageNames DEF Skip, storeVars
  <2> QED BY <1>3, <2>2, <2>3 DEF RunConnector
<1>4. CASE ObserveDesktop(r)
  <2>1. UNCHANGED <<storeVars, evidence, acked>>
    BY <1>4 DEF ObserveDesktop
  <2>2. CASE Skip(r, "evidence") \/ Skip(r, "actuate")
    BY <2>1, <2>2, StageNames DEF Skip, storeVars
  <2>3. CASE Fail(r, mem[r]) /\ UNCHANGED effects
    BY <2>1, <2>3, FailType DEF storeVars
  <2> QED BY <1>4, <2>2, <2>3 DEF ObserveDesktop
<1>5. CASE ActuateDesktop(r)
  <2>1. UNCHANGED <<storeVars, evidence, acked>> /\ Attempt(r, "desktop", "verify")
    BY <1>5 DEF ActuateDesktop
  <2> QED BY <2>1, AttemptType, StageNames DEF Effects, storeVars
<1>6. CASE VerifyDesktop(r)
  <2>1. CASE StageFails(r)
    BY <2>1, StageFailsType
  <2>2. CASE ~StageFails(r)
    <3>1. /\ Advance(r, "DESKTOP_VERIFIED", "desktop", "persistDesktop")
          /\ UNCHANGED <<storeVars, effects, evidence, acked>>
      BY <1>6, <2>2 DEF VerifyDesktop
    <3>2. "DESKTOP_VERIFIED" \in RunStatus /\ "desktop" \in Responses
      BY DEF RunStatus, Responses
    <3>3. mem' \in [Runs -> Row] /\ pc' \in [Runs -> Stages]
      BY <3>1, <3>2, StageNames, AdvanceType
    <3> QED BY <3>1, <3>3 DEF storeVars
  <2> QED BY <2>1, <2>2
<1>7. CASE RecordEvidence(r)
  BY <1>7, StageNames, EvidenceCallType DEF RecordEvidence, RunStatus, Responses
<1>8. CASE FinalizeBundle(r)
  BY <1>8, StageNames, EvidenceCallType DEF FinalizeBundle, RunStatus, Responses
<1>9. CASE PersistStage(r)
  BY <1>9, StageNames, PersistType DEF PersistStage
<1>10. CASE PersistFailure(r)
  <2>1. PICK o \in StoreOutcomes : StoreWrite(r, mem[r], o)
    BY <1>10 DEF PersistFailure
  <2>2. stored' \subseteq Runs /\ rows' \in [Runs -> Row]
    BY <2>1, StoreWriteType
  <2> QED BY <1>10, <2>2, StageNames DEF PersistFailure
<1> QED BY <1>1, <1>2, <1>3, <1>4, <1>5, <1>6, <1>7, <1>8, <1>9, <1>10 DEF Pipeline

(* So does a request's arrival, whose expiry is in the future of the clock. *)
LEMMA ArriveType ==
  ASSUME NEW r \in Runs, PipelineType, req \in [Runs -> Request], now \in Nat,
         Arrive(r)
  PROVE  PipelineType'
<1> USE DEF PipelineType
<1>1. CASE Reject(r)
  BY <1>1, StageNames DEF Reject, storeVars
<1>2. CASE Accept(r)
  <2> DEFINE expires == IF req[r].ttl = NoExpiry THEN NoExpiry ELSE now + req[r].ttl
  <2> DEFINE pending == [BlankRow EXCEPT !.expires = expires, !.human = req[r].human]
  <2>1. req[r].ttl \in Nat /\ req[r].human \in BOOLEAN
    BY DEF Request
  <2>2. expires \in Nat
    BY <2>1 DEF NoExpiry
  <2>3. pending \in Row
    <3> HIDE DEF expires
    <3> QED BY <2>1, <2>2, BlankRowIsRow DEF Row
  <2>4. PICK o \in StoreOutcomes :
          /\ StoreWrite(r, pending, o)
          /\ pc' = [pc EXCEPT ![r] = IF o = "ok" THEN "profile" ELSE "rejected"]
          /\ acked' = IF o = "ok" THEN [acked EXCEPT ![r] = {"PENDING"}] ELSE acked
    BY <1>2 DEF Accept
  <2>5. mem' = [mem EXCEPT ![r] = pending] /\ UNCHANGED <<effects, evidence>>
    BY <1>2 DEF Accept
  <2> HIDE DEF pending
  <2>6. stored' \subseteq Runs /\ rows' \in [Runs -> Row]
    BY <2>3, <2>4, StoreWriteType
  <2>7. acked' \in [Runs -> SUBSET RunStatus]
    BY <2>4 DEF RunStatus
  <2>8. pc' \in [Runs -> Stages]
    BY <2>4, StageNames
  <2> QED BY <2>3, <2>5, <2>6, <2>7, <2>8
<1> QED BY <1>1, <1>2 DEF Arrive

(* The types hold of the initial states and of every step's outcome. *)
LEMMA TypeInit == Init => TypeOK
<1> SUFFICES ASSUME Init PROVE TypeOK
  OBVIOUS
<1>1. IdlePrune \in Prune
  BY DEF IdlePrune, Prune
<1>2. req \in [Runs -> Request]
  BY RequestsAssumption DEF Init
<1>3. now \in 1..MaxTime /\ crashes \in 0..MaxCrashes
  BY BoundsAssumption DEF Init
<1>4. mem \in [Runs -> Row] /\ rows \in [Runs -> Row]
  BY BlankRowIsRow DEF Init
<1> QED BY <1>1, <1>2, <1>3, <1>4 DEF Init, TypeOK

LEMMA TypeStep == TypeOK /\ [Next]_vars => TypeOK'
<1> SUFFICES ASSUME TypeOK, [Next]_vars PROVE TypeOK'
  OBVIOUS
<1>1. now \in Nat
  BY BoundsAssumption DEF TypeOK
<1>2. PipelineType
  BY DEF TypeOK, PipelineType, Stages
<1>3. IdlePrune \in Prune
  BY DEF IdlePrune, Prune
<1>4. ASSUME NEW r \in Runs, Arrive(r) \/ Pipeline(r) PROVE TypeOK'
  <2>1. PipelineType'
    BY <1>1, <1>2, <1>4, ArriveType, PipelineStepType DEF TypeOK
  <2>2. UNCHANGED <<req, reviews, prune, now, crashes, verdicts>>
    BY <1>4 DEF Arrive, Pipeline
  <2> QED BY <2>1, <2>2 DEF TypeOK, PipelineType, Stages
<1>5. ASSUME NEW a \in Approvers, NEW r \in Runs, NEW v \in Verdicts,
             ReadForDecision(a, r, v)
      PROVE  TypeOK'
  <2>1. rows[r] \in Row
    BY DEF TypeOK
  <2>2. Approved(rows[r]) \in Row /\ Denied(rows[r]) \in Row
    BY <1>1, <2>1, DecidedRowIsRow
  <2>3. reviews' \subseteq Review
    BY <1>5, <2>2 DEF TypeOK, ReadForDecision, Review
  <2>4. UNCHANGED <<req, pc, mem, effects, evidence, acked, stored, rows,
                    prune, now, crashes, verdicts>>
    BY <1>5 DEF ReadForDecision, pipelineVars, storeVars
  <2> QED BY <2>3, <2>4 DEF TypeOK
<1>6. ASSUME NEW v \in reviews, WriteDecision(v) PROVE TypeOK'
  <2>1. v.run \in Runs /\ v.row \in Row /\ v.verdict \in Verdicts
    BY DEF TypeOK, Review
  <2>2. PICK o \in StoreOutcomes :
          /\ StoreWrite(v.run, v.row, o)
          /\ verdicts' = IF o = "ok"
                         THEN [verdicts EXCEPT ![v.run] = @ \cup {v.verdict}]
                         ELSE verdicts
    BY <1>6 DEF WriteDecision
  <2>3. stored' \subseteq Runs /\ rows' \in [Runs -> Row]
    BY <2>1, <2>2, StoreWriteType DEF TypeOK
  <2>4. verdicts' \in [Runs -> SUBSET Verdicts]
    BY <2>1, <2>2 DEF TypeOK
  <2>5. reviews' \subseteq Review
    BY <1>6 DEF TypeOK, WriteDecision
  <2>6. UNCHANGED <<req, pc, mem, effects, evidence, acked, prune, now, crashes>>
    BY <1>6 DEF WriteDecision, pipelineVars
  <2> QED BY <2>3, <2>4, <2>5, <2>6 DEF TypeOK
<1>7. ASSUME NEW t \in 1..MaxTime, NEW chosen \in SUBSET Runs,
             PruneSelect(t, chosen)
      PROVE  TypeOK'
  <2>1. [before |-> t, chosen |-> chosen] \in Prune
    BY BoundsAssumption DEF Prune
  <2>2. prune' \in Prune
    BY <1>7, <2>1 DEF PruneSelect
  <2>3. UNCHANGED <<req, pc, mem, effects, evidence, acked, stored, rows,
                    reviews, now, crashes, verdicts>>
    BY <1>7 DEF PruneSelect, pipelineVars, storeVars
  <2> QED BY <2>2, <2>3 DEF TypeOK
<1>8. CASE PruneDelete
  <2>1. prune' \in Prune
    BY <1>3, <1>8 DEF PruneDelete
  <2>2. stored' \subseteq Runs /\ rows' \in [Runs -> Row]
    BY <1>8, BlankRowIsRow DEF TypeOK, PruneDelete, storeVars
  <2>3. UNCHANGED <<req, pc, mem, effects, evidence, acked,
                    reviews, now, crashes, verdicts>>
    BY <1>8 DEF PruneDelete, pipelineVars
  <2> QED BY <2>1, <2>2, <2>3 DEF TypeOK
<1>9. CASE Tick
  <2>1. now' \in 1..MaxTime
    BY <1>9, BoundsAssumption DEF TypeOK, Tick
  <2>2. UNCHANGED <<req, pc, mem, effects, evidence, acked, stored, rows,
                    reviews, prune, crashes, verdicts>>
    BY <1>9 DEF Tick, pipelineVars, storeVars
  <2> QED BY <2>1, <2>2 DEF TypeOK
<1>10. CASE Crash
  <2>1. crashes' \in 0..MaxCrashes
    BY <1>10, BoundsAssumption DEF TypeOK, Crash
  <2>2. pc' \in [Runs -> Stages]
    BY <1>2, <1>10, StageNames DEF Crash, PipelineType
  <2>3. reviews' \subseteq Review /\ prune' \in Prune
    BY <1>3, <1>10 DEF Crash
  <2>4. UNCHANGED <<req, mem, stored, rows, now, effects, evidence, acked, verdicts>>
    BY <1>10 DEF Crash, storeVars
  <2> QED BY <2>1, <2>2, <2>3, <2>4 DEF TypeOK, Stages
<1>11. CASE UNCHANGED vars
  BY <1>11 DEF vars, TypeOK
<1> QED BY <1>4, <1>5, <1>6, <1>7, <1>8, <1>9, <1>10, <1>11
     DEF Next, Decide, Retain

(* Every reachable state is well typed: whoever overwrites a row writes a  *)
(* whole RunRecord whose decision is one the program knows.                *)
THEOREM TypeCorrect == Spec => []TypeOK
  BY TypeInit, TypeStep, PTL DEF Spec

-----------------------------------------------------------------------------
(* Safety of effects *)

(* The inductive invariant, one run at a time. *)
Safe(r) == Authorized(r) /\ Durable(r) /\ StageInv(r)

LEMMA PipelineInvIsSafe == PipelineInv <=> \A r \in Runs : Safe(r)
  BY DEF PipelineInv, EffectsAuthorized, ActsOnDurableDecision, Safe

(* What Safe(r) reads. *)
Local(r) == <<req[r], pc[r], mem[r], effects[r], evidence[r], acked[r]>>

LEMMA SafeIsLocal ==
  ASSUME NEW r \in Runs, Safe(r), UNCHANGED Local(r)
  PROVE  Safe(r)'
  BY DEF Safe, Local, Authorized, Durable, StageInv, DesktopDue,
         HighRiskRefused, GrantMissing

(* A handler touches no other run's state. *)
LEMMA HandlersAreLocal ==
  ASSUME NEW r \in Runs, NEW s \in Runs, s # r, PipelineType,
         Arrive(r) \/ Pipeline(r)
  PROVE  UNCHANGED Local(s)
<1> USE DEF PipelineType
<1>1. req' = req
  BY DEF Arrive, Pipeline
<1>2. ASSUME NEW record, Fail(r, record)
      PROVE  UNCHANGED <<pc[s], mem[s]>>
  BY <1>2 DEF Fail
<1>3. ASSUME StageFails(r)
      PROVE  UNCHANGED Local(s)
  BY <1>1, <1>2, <1>3 DEF StageFails, Local
<1>4. ASSUME NEW status, NEW response, NEW next, Advance(r, status, response, next)
      PROVE  UNCHANGED <<pc[s], mem[s]>>
  BY <1>4 DEF Advance
<1>5. CASE Reject(r) \/ Accept(r)
  BY <1>1, <1>5 DEF Reject, Accept, Local
<1>6. CASE ResolveProfile(r) \/ VerifyDesktop(r)
  BY <1>1, <1>3, <1>4, <1>6 DEF ResolveProfile, VerifyDesktop, Local
<1>7. CASE EvaluatePolicy(r)
  <2>1. UNCHANGED <<effects, evidence, acked>>
    BY <1>7 DEF EvaluatePolicy
  <2>2. UNCHANGED <<pc[s], mem[s]>>
    BY <1>2, <1>7 DEF EvaluatePolicy
  <2> QED BY <1>1, <2>1, <2>2 DEF Local
<1>8. ASSUME NEW effect, NEW next, Attempt(r, effect, next) \/ Skip(r, next)
      PROVE  UNCHANGED <<pc[s], mem[s], effects[s]>>
  BY <1>2, <1>8 DEF Attempt, Skip
<1>9. CASE RunConnector(r)
  BY <1>1, <1>8, <1>9 DEF RunConnector, Local
<1>10. CASE ObserveDesktop(r)
  BY <1>1, <1>2, <1>8, <1>10 DEF ObserveDesktop, Local
<1>11. CASE ActuateDesktop(r)
  BY <1>1, <1>8, <1>11 DEF ActuateDesktop, Local
<1>12. ASSUME NEW stage, NEW done, NEW status, NEW response, NEW next,
              EvidenceCall(r, stage, done, status, response, next)
       PROVE  UNCHANGED Local(s)
  <2>1. UNCHANGED <<effects, acked>> /\ evidence'[s] = evidence[s]
    BY <1>12 DEF EvidenceCall
  <2>2. UNCHANGED <<pc[s], mem[s]>>
    BY <1>2, <1>4, <1>12 DEF EvidenceCall
  <2> QED BY <1>1, <2>1, <2>2 DEF Local
<1>13. CASE RecordEvidence(r) \/ FinalizeBundle(r)
  BY <1>12, <1>13 DEF RecordEvidence, FinalizeBundle
<1>14. ASSUME NEW stage, NEW next, Persist(r, stage, next)
       PROVE  UNCHANGED Local(s)
  BY <1>1, <1>2, <1>14 DEF Persist, Local
<1>15. CASE PersistStage(r)
  BY <1>14, <1>15 DEF PersistStage
<1>16. CASE PersistFailure(r)
  BY <1>1, <1>16 DEF PersistFailure, Local
<1> QED BY <1>5, <1>6, <1>7, <1>9, <1>10, <1>11, <1>13, <1>15, <1>16
     DEF Arrive, Pipeline

(* What failing and advancing leave in memory. *)
LEMMA FailValues ==
  ASSUME NEW r \in Runs, NEW record \in Row, PipelineType, Fail(r, record)
  PROVE  /\ pc'[r] = "failing"
         /\ mem'[r].decision = record.decision
         /\ mem'[r].grant = record.grant
         /\ mem'[r].human = record.human
  BY DEF PipelineType, Fail, Row

LEMMA AdvanceValues ==
  ASSUME NEW r \in Runs, NEW status, NEW response, NEW next, PipelineType,
         Advance(r, status, response, next)
  PROVE  /\ pc'[r] = next
         /\ mem'[r].decision = mem[r].decision
         /\ mem'[r].grant = mem[r].grant
         /\ mem'[r].human = mem[r].human
<1>1. PICK m \in Row : m = mem[r]
  BY DEF PipelineType
<1>2. mem'[r] = [m EXCEPT !.status = status, !.responses = m.responses \cup {response}]
  BY <1>1 DEF Advance, PipelineType
<1>3. pc'[r] = next
  BY DEF Advance, PipelineType
<1> QED BY <1>1, <1>2, <1>3 DEF Row

(* A failing handler relies on nothing but what it has already done. *)
LEMMA FailSafe ==
  ASSUME NEW r \in Runs, NEW record \in Row, PipelineType, Safe(r),
         Fail(r, record), record.human = mem[r].human, req' = req,
         acked' = acked,
         effects'[r] # {} => /\ record.decision = "ALLOW"
                             /\ RequirePolicyGrant => record.grant,
         "connector" \in effects'[r] => req[r].connector,
         "desktop" \in effects'[r] =>
           /\ req[r].tier > ConnectorsTier
           /\ req[r].tier >= HighRisk => req[r].human /\ record.grant,
         effects'[r] # {} \/ evidence'[r] # "none" =>
           "POLICY_EVALUATED" \in acked[r]
  PROVE  Safe(r)'
<1>1. /\ pc'[r] = "failing"
      /\ mem'[r].decision = record.decision
      /\ mem'[r].grant = record.grant
      /\ mem'[r].human = record.human
  BY FailValues
<1>2. Authorized(r)'
  BY <1>1 DEF Authorized
<1>3. Durable(r)'
  BY DEF Durable
<1>4. StageInv(r)'
  BY <1>1 DEF Safe, StageInv, Undecided, OpenForEffects, Attesting
<1> QED BY <1>2, <1>3, <1>4 DEF Safe

LEMMA StageFailsSafe ==
  ASSUME NEW r \in Runs, PipelineType, Safe(r), Fail(r, mem[r]), req' = req,
         UNCHANGED <<effects, evidence, acked>>
  PROVE  Safe(r)'
<1>1. mem[r] \in Row
  BY DEF PipelineType
<1>2. effects'[r] = effects[r] /\ evidence'[r] = evidence[r]
  OBVIOUS
<1>3. Authorized(r) /\ Durable(r)
  BY DEF Safe
<1>4. effects'[r] # {} => /\ mem[r].decision = "ALLOW"
                          /\ RequirePolicyGrant => mem[r].grant
  BY <1>2, <1>3 DEF Authorized
<1>5. /\ "connector" \in effects'[r] => req[r].connector
      /\ "desktop" \in effects'[r] =>
           /\ req[r].tier > ConnectorsTier
           /\ req[r].tier >= HighRisk => req[r].human /\ mem[r].grant
  BY <1>2, <1>3 DEF Authorized
<1>6. effects'[r] # {} \/ evidence'[r] # "none" =>
        "POLICY_EVALUATED" \in acked[r]
  BY <1>2, <1>3 DEF Durable
<1> QED BY <1>1, <1>4, <1>5, <1>6, FailSafe

LEMMA ArriveSafe ==
  ASSUME NEW r \in Runs, PipelineType, Safe(r), Arrive(r)
  PROVE  Safe(r)'
<1>1. pc[r] = "new" /\ UNCHANGED <<req, effects, evidence>>
  BY DEF Arrive, Reject, Accept
<1>2. effects[r] = {} /\ evidence[r] = "none" /\ mem[r].decision = ""
  BY <1>1 DEF Safe, StageInv, Undecided
<1>3. pc'[r] \in {"rejected", "profile"}
  BY DEF Arrive, Reject, Accept, PipelineType
<1>4. mem'[r].decision = "" /\ (mem'[r].human => req[r].human)
  <2>1. CASE Reject(r)
    BY <1>2, <2>1 DEF Reject, Safe, StageInv
  <2>2. CASE Accept(r)
    <3>1. PICK e : mem' = [mem EXCEPT ![r] =
                     [BlankRow EXCEPT !.expires = e, !.human = req[r].human]]
      BY <2>2 DEF Accept
    <3> QED BY <3>1 DEF PipelineType, BlankRow
  <2> QED BY <2>1, <2>2 DEF Arrive
<1>5. Authorized(r)' /\ Durable(r)'
  BY <1>1, <1>2 DEF Authorized, Durable
<1>6. StageInv(r)'
  BY <1>1, <1>2, <1>3, <1>4 DEF StageInv, Undecided, OpenForEffects, Attesting
<1> QED BY <1>5, <1>6 DEF Safe

LEMMA EvaluatePolicySafe ==
  ASSUME NEW r \in Runs, PipelineType, Safe(r), req' = req, EvaluatePolicy(r)
  PROVE  Safe(r)'
<1>1. pc[r] = "policy" /\ UNCHANGED <<effects, evidence, acked>>
  BY DEF EvaluatePolicy
<1>2. effects[r] = {} /\ evidence[r] = "none"
  BY <1>1 DEF Safe, StageInv, Undecided
<1>3. mem[r] \in Row
  BY DEF PipelineType
<1>4. CASE Fail(r, mem[r])
  BY <1>1, <1>4, StageFailsSafe
<1>5. ASSUME NEW d \in Decisions, Fail(r, [mem[r] EXCEPT !.decision = d])
      PROVE  Safe(r)'
  <2>1. /\ [mem[r] EXCEPT !.decision = d] \in Row
        /\ [mem[r] EXCEPT !.decision = d].human = mem[r].human
    BY <1>3 DEF Row
  <2> QED BY <1>1, <1>2, <1>5, <2>1, FailSafe
<1>6. ASSUME NEW d \in Decisions, NEW granted \in BOOLEAN,
             LET decided == [mem[r] EXCEPT !.decision = d, !.grant = granted]
             IN IF GrantMissing(d, granted)
                THEN Fail(r, decided)
                ELSE /\ mem' = [mem EXCEPT ![r] =
                          [decided EXCEPT !.status = "POLICY_EVALUATED",
                                          !.responses = @ \cup {"policy"}]]
                     /\ pc' = [pc EXCEPT ![r] = "persistPolicy"]
      PROVE  Safe(r)'
  <2> DEFINE decided == [mem[r] EXCEPT !.decision = d, !.grant = granted]
  <2>1. /\ decided \in Row /\ decided.human = mem[r].human
        /\ decided.decision = d /\ decided.grant = granted
    BY <1>3, GrantedRowIsRow DEF Row
  <2>2. CASE GrantMissing(d, granted)
    <3>1. Fail(r, decided)
      BY <1>6, <2>2
    <3> HIDE DEF decided
    <3> QED BY <1>1, <1>2, <2>1, <3>1, FailSafe
  <2>3. CASE ~GrantMissing(d, granted)
    <3>1. /\ mem'[r] = [decided EXCEPT !.status = "POLICY_EVALUATED",
                         !.responses = decided.responses \cup {"policy"}]
          /\ pc'[r] = "persistPolicy"
      BY <1>6, <2>3 DEF PipelineType
    <3> HIDE DEF decided
    <3>2. /\ mem'[r].decision = d /\ mem'[r].grant = granted
          /\ mem'[r].human = mem[r].human
          /\ mem'[r].status = "POLICY_EVALUATED"
      BY <2>1, <3>1 DEF Row
    <3>3. d # ""
      BY DecisionsAssumption
    <3>4. Authorized(r)' /\ Durable(r)'
      BY <1>1, <1>2 DEF Authorized, Durable
    <3>5. mem'[r].human => req'[r].human
      BY <3>2 DEF Safe, StageInv
    <3>6. ~GrantMissing(mem'[r].decision, mem'[r].grant)
      BY <2>3, <3>2
    <3>7. StageInv(r)'
      BY <1>1, <1>2, <3>1, <3>2, <3>3, <3>5, <3>6
         DEF StageInv, Undecided, OpenForEffects, Attesting
    <3> QED BY <3>4, <3>7 DEF Safe
  <2> QED BY <2>2, <2>3
<1> QED BY <1>4, <1>5, <1>6 DEF EvaluatePolicy

(* A step that only moves the handler on, between stages that rely on the  *)
(* same facts or on fewer.                                                 *)
LEMMA MoveSafe ==
  ASSUME NEW r \in Runs, PipelineType, Safe(r),
         UNCHANGED <<req[r], effects[r], evidence[r]>>, acked[r] \subseteq acked'[r],
         mem'[r].decision = mem[r].decision, mem'[r].grant = mem[r].grant,
         mem'[r].human = mem[r].human, StageInv(r)'
  PROVE  Safe(r)'
<1>1. Authorized(r)'
  BY DEF Safe, Authorized
<1>2. Durable(r)'
  BY DEF Safe, Durable
<1> QED BY <1>1, <1>2 DEF Safe

LEMMA ResolveProfileSafe ==
  ASSUME NEW r \in Runs, PipelineType, Safe(r), req' = req, ResolveProfile(r)
  PROVE  Safe(r)'
<1>1. pc[r] = "profile" /\ UNCHANGED <<effects, evidence, acked>>
  BY DEF ResolveProfile, StageFails
<1>2. CASE Fail(r, mem[r])
  BY <1>1, <1>2, StageFailsSafe
<1>3. CASE Advance(r, "PROFILE_RESOLVED", "profile", "persistProfile")
  <2>1. /\ pc'[r] = "persistProfile"
        /\ mem'[r].decision = mem[r].decision
        /\ mem'[r].grant = mem[r].grant
        /\ mem'[r].human = mem[r].human
    BY <1>3, AdvanceValues
  <2>2. StageInv(r)'
    BY <1>1, <2>1 DEF Safe, StageInv, Undecided, OpenForEffects, Attesting
  <2> QED BY <1>1, <2>1, <2>2, MoveSafe
<1> QED BY <1>2, <1>3 DEF ResolveProfile, StageFails

LEMMA VerifyDesktopSafe ==
  ASSUME NEW r \in Runs, PipelineType, Safe(r), req' = req, VerifyDesktop(r)
  PROVE  Safe(r)'
<1>1. pc[r] = "verify" /\ UNCHANGED <<effects, evidence, acked>>
  BY DEF VerifyDesktop, StageFails
<1>2. CASE Fail(r, mem[r])
  BY <1>1, <1>2, StageFailsSafe
<1>3. CASE Advance(r, "DESKTOP_VERIFIED", "desktop", "persistDesktop")
  <2>1. /\ pc'[r] = "persistDesktop"
        /\ mem'[r].decision = mem[r].decision
        /\ mem'[r].grant = mem[r].grant
        /\ mem'[r].human = mem[r].human
    BY <1>3, AdvanceValues
  <2>2. StageInv(r)'
    BY <1>1, <2>1
       DEF Safe, StageInv, Undecided, OpenForEffects, Attesting, GrantMissing
  <2> QED BY <1>1, <2>1, <2>2, MoveSafe
<1> QED BY <1>2, <1>3 DEF VerifyDesktop, StageFails

(* An effect is attempted only where its guards hold. *)
LEMMA RunConnectorSafe ==
  ASSUME NEW r \in Runs, PipelineType, Safe(r), req' = req, RunConnector(r)
  PROVE  Safe(r)'
<1>1. pc[r] = "connector" /\ UNCHANGED <<evidence, acked>>
  BY DEF RunConnector
<1>2. /\ "POLICY_EVALUATED" \in acked[r] /\ evidence[r] = "none"
      /\ mem[r].decision # "" /\ ~GrantMissing(mem[r].decision, mem[r].grant)
      /\ mem[r].human => req[r].human
  BY <1>1 DEF Safe, StageInv, OpenForEffects
<1>3. mem[r] \in Row
  BY DEF PipelineType
<1>4. CASE pc' = [pc EXCEPT ![r] = "desktop"] /\ UNCHANGED mem
  <2>1. pc'[r] = "desktop" /\ mem'[r] = mem[r]
    BY <1>4 DEF PipelineType
  <2>2. StageInv(r)'
    BY <1>1, <1>2, <2>1
       DEF StageInv, Undecided, OpenForEffects, Attesting, GrantMissing
  <2>3. Durable(r)'
    BY <1>1, <1>2 DEF Durable
  <2>4. CASE effects' = effects
    BY <1>1, <2>1, <2>2, <2>4, MoveSafe
  <2>5. CASE effects' # effects
    <3>1. /\ ConnectorDue(r)
          /\ effects' = [effects EXCEPT ![r] = @ \cup {"connector"}]
      BY <1>4, <2>5 DEF RunConnector, Attempt, Skip, Fail
    <3>2. effects'[r] = effects[r] \cup {"connector"}
      BY <3>1 DEF PipelineType
    <3>3. mem[r].decision = "ALLOW" /\ req[r].connector
      BY <3>1 DEF ConnectorDue
    <3>4. RequirePolicyGrant => mem[r].grant
      BY <1>2, <3>3 DEF GrantMissing
    <3>5. Authorized(r)'
      BY <2>1, <3>2, <3>3, <3>4 DEF Safe, Authorized
    <3> QED BY <2>2, <2>3, <3>5 DEF Safe
  <2> QED BY <2>4, <2>5
<1>5. CASE Fail(r, mem[r])
  <2>1. CASE effects' = effects
    BY <1>1, <1>5, <2>1, StageFailsSafe
  <2>2. CASE effects' # effects
    <3>1. /\ ConnectorDue(r)
          /\ effects' = [effects EXCEPT ![r] = @ \cup {"connector"}]
      BY <2>2 DEF RunConnector, Attempt, Skip
    <3>2. effects'[r] = effects[r] \cup {"connector"}
      BY <3>1 DEF PipelineType
    <3>3. mem[r].decision = "ALLOW" /\ req[r].connector
      BY <3>1 DEF ConnectorDue
    <3>4. RequirePolicyGrant => mem[r].grant
      BY <1>2, <3>3 DEF GrantMissing
    <3>5. "desktop" \in effects'[r] =>
            /\ req[r].tier > ConnectorsTier
            /\ req[r].tier >= HighRisk => req[r].human /\ mem[r].grant
      BY <3>2 DEF Safe, Authorized
    <3> QED BY <1>1, <1>2, <1>3, <1>5, <3>3, <3>4, <3>5, FailSafe
  <2> QED BY <2>1, <2>2
<1> QED BY <1>4, <1>5 DEF RunConnector, Attempt, Skip

LEMMA ActuateDesktopSafe ==
  ASSUME NEW r \in Runs, PipelineType, Safe(r), req' = req, ActuateDesktop(r)
  PROVE  Safe(r)'
<1>1. pc[r] = "actuate" /\ UNCHANGED <<evidence, acked>>
  BY DEF ActuateDesktop
<1>2. /\ "POLICY_EVALUATED" \in acked[r] /\ evidence[r] = "none"
      /\ mem[r].decision # "" /\ ~GrantMissing(mem[r].decision, mem[r].grant)
      /\ DesktopDue(r) /\ ~HighRiskRefused(r)
      /\ mem[r].human => req[r].human
  BY <1>1 DEF Safe, StageInv, OpenForEffects
<1>3. mem[r] \in Row
  BY DEF PipelineType
<1>4. /\ mem[r].decision = "ALLOW" /\ req[r].tier > ConnectorsTier
      /\ RequirePolicyGrant => mem[r].grant
      /\ req[r].tier >= HighRisk => req[r].human /\ mem[r].grant
  BY <1>2 DEF DesktopDue, HighRiskRefused, GrantMissing
<1>5. effects'[r] = effects[r] \/ effects'[r] = effects[r] \cup {"desktop"}
  BY DEF ActuateDesktop, Attempt, PipelineType
<1>6. "connector" \in effects'[r] => req[r].connector
  BY <1>5 DEF Safe, Authorized
<1>7. CASE pc' = [pc EXCEPT ![r] = "verify"] /\ UNCHANGED mem
  <2>1. pc'[r] = "verify" /\ mem'[r] = mem[r]
    BY <1>7 DEF PipelineType
  <2>2. StageInv(r)'
    BY <1>1, <1>2, <2>1 DEF StageInv, Undecided, OpenForEffects, Attesting,
                            GrantMissing, DesktopDue, HighRiskRefused
  <2>3. Authorized(r)' /\ Durable(r)'
    BY <1>1, <1>2, <1>4, <1>6, <2>1 DEF Authorized, Durable
  <2> QED BY <2>2, <2>3 DEF Safe
<1>8. CASE Fail(r, mem[r])
  BY <1>1, <1>2, <1>3, <1>4, <1>6, <1>8, FailSafe
<1> QED BY <1>7, <1>8 DEF ActuateDesktop, Attempt

LEMMA ObserveDesktopSafe ==
  ASSUME NEW r \in Runs, PipelineType, Safe(r), req' = req, ObserveDesktop(r)
  PROVE  Safe(r)'
<1>1. pc[r] = "desktop" /\ UNCHANGED <<effects, evidence, acked>>
  BY DEF ObserveDesktop, Skip
<1>2. CASE Fail(r, mem[r])
  BY <1>1, <1>2, StageFailsSafe
<1>3. CASE Skip(r, "evidence") \/ (DesktopDue(r) /\ ~HighRiskRefused(r) /\ Skip(r, "actuate"))
  <2>1. /\ mem'[r] = mem[r]
        /\ \/ pc'[r] = "evidence"
           \/ pc'[r] = "actuate" /\ DesktopDue(r) /\ ~HighRiskRefused(r)
    BY <1>3 DEF Skip, PipelineType
  <2>2. StageInv(r)'
    BY <1>1, <2>1 DEF Safe, StageInv, Undecided, OpenForEffects, Attesting,
                      GrantMissing, DesktopDue, HighRiskRefused
  <2> QED BY <1>1, <2>1, <2>2, MoveSafe
<1> QED BY <1>2, <1>3 DEF ObserveDesktop

(* Evidence is asked for only once the decision is durable. *)
LEMMA EvidenceCallSafe ==
  ASSUME NEW r \in Runs, PipelineType, Safe(r), req' = req,
         NEW stage, NEW done, NEW status, NEW response, NEW next,
         EvidenceCall(r, stage, done, status, response, next),
         \/ stage = "evidence" /\ done = "recorded" /\ next = "persistEvidence"
         \/ stage = "finalize" /\ done = "finalized" /\ next = "persistCompletion"
  PROVE  Safe(r)'
<1>1. pc[r] = stage /\ UNCHANGED <<effects, acked>>
  BY DEF EvidenceCall
<1>2. /\ "POLICY_EVALUATED" \in acked[r]
      /\ mem[r].decision # "" /\ ~GrantMissing(mem[r].decision, mem[r].grant)
      /\ mem[r].human => req[r].human
  BY <1>1 DEF Safe, StageInv, OpenForEffects, Attesting
<1>3. mem[r] \in Row
  BY DEF PipelineType
<1>4. Authorized(r)
  BY DEF Safe
<1>5. CASE Fail(r, mem[r])
  BY <1>1, <1>2, <1>3, <1>4, <1>5, FailSafe DEF Authorized
<1>6. CASE /\ Advance(r, status, response, next)
           /\ evidence' = [evidence EXCEPT ![r] = done]
  <2>1. /\ pc'[r] = next
        /\ mem'[r].decision = mem[r].decision
        /\ mem'[r].grant = mem[r].grant
        /\ mem'[r].human = mem[r].human
    BY <1>6, AdvanceValues
  <2>2. evidence'[r] = done
    BY <1>6 DEF PipelineType
  <2>3. Authorized(r)'
    BY <1>1, <1>4, <2>1 DEF Authorized
  <2>4. Durable(r)'
    BY <1>1, <1>2 DEF Durable
  <2>5. StageInv(r)'
    BY <1>1, <1>2, <2>1, <2>2
       DEF StageInv, Undecided, OpenForEffects, Attesting, GrantMissing
  <2> QED BY <2>3, <2>4, <2>5 DEF Safe
<1> QED BY <1>5, <1>6 DEF EvidenceCall

(* An upsert that is acknowledged moves the handler on; the one after the  *)
(* policy stage is what makes the decision durable.                        *)
LEMMA PersistSafe ==
  ASSUME NEW r \in Runs, PipelineType, Safe(r), req' = req,
         NEW stage, NEW next, Persist(r, stage, next),
         \/ stage = "persistProfile"    /\ next = "policy"
         \/ stage = "persistPolicy"     /\ next = "connector"
         \/ stage = "persistDesktop"    /\ next = "evidence"
         \/ stage = "persistEvidence"   /\ next = "finalize"
         \/ stage = "persistCompletion" /\ next = "returned"
  PROVE  Safe(r)'
<1>1. pc[r] = stage /\ UNCHANGED <<effects, evidence>>
  BY DEF Persist
<1>2. CASE Fail(r, mem[r]) /\ UNCHANGED acked
  BY <1>1, <1>2, StageFailsSafe
<1>3. CASE /\ pc'    = [pc EXCEPT ![r] = next]
           /\ acked' = [acked EXCEPT ![r] = @ \cup {mem[r].status}]
           /\ UNCHANGED mem
  <2>1. pc'[r] = next /\ acked'[r] = acked[r] \cup {mem[r].status} /\ mem'[r] = mem[r]
    BY <1>3 DEF PipelineType
  <2>2. StageInv(r)'
    BY <1>1, <2>1
       DEF Safe, StageInv, Undecided, OpenForEffects, Attesting, GrantMissing
  <2> QED BY <1>1, <2>1, <2>2, MoveSafe
<1> QED BY <1>2, <1>3 DEF Persist

LEMMA PersistFailureSafe ==
  ASSUME NEW r \in Runs, PipelineType, Safe(r), req' = req, PersistFailure(r)
  PROVE  Safe(r)'
<1>1. pc'[r] = "failed" /\ UNCHANGED <<mem, effects, evidence, acked>>
  BY DEF PersistFailure, PipelineType
<1>2. StageInv(r)'
  BY <1>1 DEF Safe, StageInv, Undecided, OpenForEffects, Attesting
<1> QED BY <1>1, <1>2, MoveSafe

LEMMA PipelineSafe ==
  ASSUME NEW r \in Runs, PipelineType, Safe(r), Arrive(r) \/ Pipeline(r)
  PROVE  Safe(r)'
<1>1. CASE Arrive(r)
  BY <1>1, ArriveSafe
<1>2. CASE Pipeline(r)
  <2>1. req' = req
    BY <1>2 DEF Pipeline
  <2>2. CASE RecordEvidence(r) \/ FinalizeBundle(r)
    BY <2>1, <2>2, EvidenceCallSafe DEF RecordEvidence, FinalizeBundle
  <2>3. CASE PersistStage(r)
    BY <2>1, <2>3, PersistSafe DEF PersistStage
  <2> QED BY <1>2, <2>1, <2>2, <2>3, ResolveProfileSafe, EvaluatePolicySafe,
             RunConnectorSafe, ObserveDesktopSafe, ActuateDesktopSafe,
             VerifyDesktopSafe, PersistFailureSafe DEF Pipeline
<1> QED BY <1>1, <1>2

-----------------------------------------------------------------------------
(* The invariant *)

LEMMA PipelineInvInit == Init => PipelineInv
<1> SUFFICES ASSUME Init, NEW r \in Runs PROVE Safe(r)
  BY PipelineInvIsSafe
<1>1. /\ pc[r] = "new" /\ mem[r] = BlankRow /\ effects[r] = {}
      /\ evidence[r] = "none"
  BY DEF Init
<1>2. mem[r].decision = "" /\ ~mem[r].human
  <2>1. BlankRow.decision = "" /\ BlankRow.human = FALSE
    BY DEF BlankRow
  <2> QED BY <1>1, <2>1
<1>3. StageInv(r)
  BY <1>1, <1>2 DEF StageInv, Undecided, OpenForEffects, Attesting
<1> QED BY <1>1, <1>3 DEF Safe, Authorized, Durable

(* The approval handlers, the prune and the clock touch only rows; a crash *)
(* only stops handlers.                                                    *)
LEMMA PipelineInvStep == TypeOK /\ PipelineInv /\ [Next]_vars => PipelineInv'
<1> SUFFICES ASSUME TypeOK, PipelineInv, [Next]_vars, NEW s \in Runs
             PROVE  Safe(s)'
  BY DEF PipelineInv, EffectsAuthorized, ActsOnDurableDecision, Safe
<1>1. PipelineType /\ Safe(s)
  BY PipelineInvIsSafe DEF TypeOK, PipelineType, Stages
<1>2. ASSUME NEW r \in Runs, Arrive(r) \/ Pipeline(r) PROVE Safe(s)'
  BY <1>1, <1>2, PipelineSafe, HandlersAreLocal, SafeIsLocal
<1>3. CASE Decide
  <2>1. UNCHANGED Local(s)
    BY <1>3 DEF Decide, ReadForDecision, WriteDecision, pipelineVars, Local
  <2> QED BY <1>1, <2>1, SafeIsLocal
<1>4. CASE Retain
  <2>1. UNCHANGED Local(s)
    BY <1>4 DEF Retain, PruneSelect, PruneDelete, pipelineVars, Local
  <2> QED BY <1>1, <2>1, SafeIsLocal
<1>5. CASE Tick \/ UNCHANGED vars
  <2>1. UNCHANGED Local(s)
    BY <1>5 DEF Tick, vars, pipelineVars, Local
  <2> QED BY <1>1, <2>1, SafeIsLocal
<1>6. CASE Crash
  <2>1. UNCHANGED <<req, mem, effects, evidence, acked>>
    BY <1>6 DEF Crash
  <2>2. pc'[s] = pc[s] \/ pc'[s] = "crashed"
    BY <1>6 DEF Crash
  <2>3. CASE pc'[s] = pc[s]
    BY <1>1, <2>1, <2>3, SafeIsLocal DEF Local
  <2>4. CASE pc'[s] = "crashed"
    <3>1. StageInv(s)'
      BY <1>1, <2>1, <2>4 DEF Safe, StageInv, Undecided, OpenForEffects, Attesting
    <3> QED BY <1>1, <2>1, <3>1, MoveSafe
  <2> QED BY <2>2, <2>3, <2>4
<1> QED BY <1>2, <1>3, <1>4, <1>5, <1>6 DEF Next

(* Each stage of the handler may rely on what the stages before it set up, *)
(* whatever the store, the approval handlers, the prune and crashes do.    *)
THEOREM StagesRelyOnEarlierStages == Spec => []PipelineInv
  BY TypeInit, TypeStep, PipelineInvInit, PipelineInvStep, PTL DEF Spec

(* A run acts on the outside world only under its own decision ALLOW and   *)
(* with what its request and that decision authorize.                      *)
THEOREM EffectsAreAuthorized == Spec => []EffectsAuthorized
<1>1. PipelineInv => EffectsAuthorized
  BY DEF PipelineInv
<1> QED BY <1>1, StagesRelyOnEarlierStages, PTL

(* No effect and no evidence before the store acknowledged the decision.   *)
THEOREM DecisionIsDurableFirst == Spec => []ActsOnDurableDecision
<1>1. PipelineInv => ActsOnDurableDecision
  BY DEF PipelineInv
<1> QED BY <1>1, StagesRelyOnEarlierStages, PTL


-----------------------------------------------------------------------------
(***************************************************************************)
(* RunPipeline implements GovernedRun: every step of the pipeline, of the  *)
(* approval handlers, of the prune and of the environment is a step of the *)
(* abstract run or leaves it as it is.                                     *)
(***************************************************************************)


LEMMA OutcomeValues ==
  /\ OutcomeAt("new") = "none" /\ OutcomeAt("rejected") = "none"
  /\ \A stage \in Active : OutcomeAt(stage) = "open"
  /\ OutcomeAt("crashed") = "open"
  /\ OutcomeAt("returned") = "completed" /\ OutcomeAt("failed") = "failed"
  BY DEF OutcomeAt, Active

(* A handler's step, seen from the abstract run: only run r can change. *)
LEMMA AbstractFrame ==
  ASSUME NEW r \in Runs, PipelineType, PipelineType', Arrive(r) \/ Pipeline(r)
  PROVE  /\ Outcome' = [Outcome EXCEPT ![r] = OutcomeAt(pc'[r])]
         /\ Verdict' = [Verdict EXCEPT ![r] = mem'[r].decision]
         /\ effects' = [effects EXCEPT ![r] = effects'[r]]
         /\ evidence' = [evidence EXCEPT ![r] = evidence'[r]]
<1>1. \A s \in Runs \ {r} :
        /\ pc'[s] = pc[s] /\ mem'[s] = mem[s]
        /\ effects'[s] = effects[s] /\ evidence'[s] = evidence[s]
  BY HandlersAreLocal DEF Local
<1>2. Outcome' = [Outcome EXCEPT ![r] = OutcomeAt(pc'[r])]
  BY <1>1 DEF Outcome
<1>3. Verdict' = [Verdict EXCEPT ![r] = mem'[r].decision]
  BY <1>1 DEF Verdict
<1>4. effects' = [effects EXCEPT ![r] = effects'[r]]
  BY <1>1 DEF PipelineType
<1>5. evidence' = [evidence EXCEPT ![r] = evidence'[r]]
  BY <1>1 DEF PipelineType
<1> QED BY <1>2, <1>3, <1>4, <1>5

(* The steps the abstract run does not see. *)
LEMMA Stutters ==
  ASSUME NEW r \in Runs, PipelineType, PipelineType', Arrive(r) \/ Pipeline(r),
         OutcomeAt(pc'[r]) = OutcomeAt(pc[r]),
         mem'[r].decision = mem[r].decision,
         effects'[r] = effects[r], evidence'[r] = evidence[r]
  PROVE  UNCHANGED Governed!vars
<1>1. /\ Outcome' = [Outcome EXCEPT ![r] = OutcomeAt(pc'[r])]
      /\ Verdict' = [Verdict EXCEPT ![r] = mem'[r].decision]
      /\ effects' = [effects EXCEPT ![r] = effects'[r]]
      /\ evidence' = [evidence EXCEPT ![r] = evidence'[r]]
  BY AbstractFrame
<1>2. Outcome' = Outcome
  BY <1>1 DEF Outcome
<1>3. Verdict' = Verdict
  BY <1>1 DEF Verdict
<1>4. effects' = effects /\ evidence' = evidence
  BY <1>1 DEF PipelineType
<1> QED BY <1>2, <1>3, <1>4 DEF Governed!vars

LEMMA RefinesInit == Init => Governed!Init
<1> SUFFICES ASSUME Init PROVE Governed!Init
  OBVIOUS
<1>1. Outcome = [r \in Runs |-> "none"]
  BY OutcomeValues DEF Init, Outcome
<1>2. BlankRow.decision = ""
  BY DEF BlankRow
<1>3. Verdict = [r \in Runs |-> ""]
  BY <1>2 DEF Init, Verdict
<1> QED BY <1>1, <1>3 DEF Init, Governed!Init

(* The abstract step of a step of r's handler, stage by stage. *)
Abstract == Governed!Next \/ UNCHANGED Governed!vars

(* What the abstract run shows of r. *)
LEMMA AbstractValues ==
  ASSUME NEW r \in Runs
  PROVE  Outcome[r] = OutcomeAt(pc[r]) /\ Verdict[r] = mem[r].decision
  BY DEF Outcome, Verdict

LEMMA ActiveStages ==
  /\ {"profile", "persistProfile", "policy", "persistPolicy"} \subseteq Active
  /\ OpenForEffects \subseteq Active
  /\ {"persistEvidence", "finalize", "persistCompletion", "failing"} \subseteq Active
  BY DEF Active, OpenForEffects

LEMMA ArriveRefines ==
  ASSUME NEW r \in Runs, PipelineType, PipelineType', Safe(r), Arrive(r)
  PROVE  Abstract
<1>1. pc[r] = "new" /\ UNCHANGED <<effects, evidence>>
  BY DEF Arrive, Reject, Accept
<1>2. mem[r].decision = ""
  BY <1>1 DEF Safe, StageInv, Undecided
<1>3. mem'[r].decision = "" /\ pc'[r] \in {"rejected", "profile"}
  <2>1. CASE Reject(r)
    BY <1>2, <2>1 DEF Reject, PipelineType
  <2>2. CASE Accept(r)
    <3>1. PICK e : mem' = [mem EXCEPT ![r] =
                     [BlankRow EXCEPT !.expires = e, !.human = req[r].human]]
      BY <2>2 DEF Accept
    <3>2. pc'[r] \in {"rejected", "profile"}
      BY <2>2 DEF Accept, PipelineType
    <3> QED BY <3>1, <3>2 DEF PipelineType, BlankRow
  <2> QED BY <2>1, <2>2 DEF Arrive
<1>4. CASE pc'[r] = "rejected"
  <2>1. UNCHANGED Governed!vars
    BY <1>1, <1>2, <1>3, <1>4, OutcomeValues, Stutters
  <2> QED BY <2>1 DEF Abstract
<1>5. CASE pc'[r] = "profile"
  <2>1. OutcomeAt(pc[r]) = "none" /\ OutcomeAt(pc'[r]) = "open"
    BY <1>1, <1>5, OutcomeValues, ActiveStages
  <2>2. /\ Outcome' = [Outcome EXCEPT ![r] = "open"]
        /\ Verdict' = [Verdict EXCEPT ![r] = mem'[r].decision]
    BY <2>1, AbstractFrame
  <2>3. Verdict' = Verdict
    BY <1>2, <1>3, <2>2 DEF Verdict
  <2>4. Governed!Accept(r)
    BY <1>1, <2>1, <2>2, <2>3, AbstractValues DEF Governed!Accept
  <2> QED BY <2>4 DEF Abstract, Governed!Next
<1> QED BY <1>3, <1>4, <1>5

(* A stage that only fails, or only moves the handler on, stutters. *)
LEMMA FailStutters ==
  ASSUME NEW r \in Runs, PipelineType, PipelineType', Pipeline(r),
         pc[r] \in Active, Fail(r, mem[r]), UNCHANGED <<effects, evidence>>
  PROVE  Abstract
<1>1. mem[r] \in Row
  BY DEF PipelineType
<1>2. pc'[r] = "failing" /\ mem'[r].decision = mem[r].decision
  BY <1>1, FailValues
<1>3. UNCHANGED Governed!vars
  BY <1>2, OutcomeValues, ActiveStages, Stutters
<1> QED BY <1>3 DEF Abstract

LEMMA MoveStutters ==
  ASSUME NEW r \in Runs, PipelineType, PipelineType', Pipeline(r),
         pc[r] \in Active, pc'[r] \in Active,
         mem'[r].decision = mem[r].decision, UNCHANGED <<effects, evidence>>
  PROVE  Abstract
<1>1. UNCHANGED Governed!vars
  BY OutcomeValues, Stutters
<1> QED BY <1>1 DEF Abstract

LEMMA EvaluatePolicyRefines ==
  ASSUME NEW r \in Runs, PipelineType, PipelineType', Safe(r), Pipeline(r),
         EvaluatePolicy(r)
  PROVE  Abstract
<1>1. pc[r] = "policy" /\ UNCHANGED <<effects, evidence>>
  BY DEF EvaluatePolicy
<1>2. mem[r].decision = "" /\ mem[r] \in Row /\ pc[r] \in Active
  BY <1>1, ActiveStages DEF Safe, StageInv, Undecided, PipelineType
<1>3. CASE Fail(r, mem[r])
  BY <1>1, <1>2, <1>3, FailStutters
<1>4. ASSUME NEW d \in Decisions, pc'[r] \in Active, mem'[r].decision = d
      PROVE  Abstract
  <2>1. OutcomeAt(pc[r]) = "open" /\ OutcomeAt(pc'[r]) = "open"
    BY <1>2, <1>4, OutcomeValues
  <2>2. /\ Outcome' = [Outcome EXCEPT ![r] = "open"]
        /\ Verdict' = [Verdict EXCEPT ![r] = d]
    BY <1>4, <2>1, AbstractFrame
  <2>3. Outcome' = Outcome
    BY <2>1, <2>2, AbstractValues DEF Outcome
  <2>4. Governed!Decide(r, d)
    BY <1>1, <1>2, <2>1, <2>2, <2>3, AbstractValues DEF Governed!Decide
  <2> QED BY <2>4 DEF Abstract, Governed!Next
<1>5. ASSUME NEW d \in Decisions, Fail(r, [mem[r] EXCEPT !.decision = d])
      PROVE  Abstract
  <2>1. /\ [mem[r] EXCEPT !.decision = d] \in Row
        /\ [mem[r] EXCEPT !.decision = d].decision = d
    BY <1>2 DEF Row
  <2>2. pc'[r] = "failing" /\ mem'[r].decision = d
    BY <1>5, <2>1, FailValues
  <2> QED BY <1>4, <2>2, ActiveStages
<1>6. ASSUME NEW d \in Decisions, NEW granted \in BOOLEAN,
             LET decided == [mem[r] EXCEPT !.decision = d, !.grant = granted]
             IN IF GrantMissing(d, granted)
                THEN Fail(r, decided)
                ELSE /\ mem' = [mem EXCEPT ![r] =
                          [decided EXCEPT !.status = "POLICY_EVALUATED",
                                          !.responses = @ \cup {"policy"}]]
                     /\ pc' = [pc EXCEPT ![r] = "persistPolicy"]
      PROVE  Abstract
  <2> DEFINE decided == [mem[r] EXCEPT !.decision = d, !.grant = granted]
  <2>1. decided \in Row /\ decided.decision = d
    BY <1>2, GrantedRowIsRow DEF Row
  <2>2. CASE Fail(r, decided)
    <3> HIDE DEF decided
    <3>1. pc'[r] = "failing" /\ mem'[r].decision = d
      BY <2>1, <2>2, FailValues
    <3> QED BY <1>4, <3>1, ActiveStages
  <2>3. CASE /\ mem' = [mem EXCEPT ![r] =
                  [decided EXCEPT !.status = "POLICY_EVALUATED",
                                  !.responses = decided.responses \cup {"policy"}]]
             /\ pc' = [pc EXCEPT ![r] = "persistPolicy"]
    <3> HIDE DEF decided
    <3>1. /\ mem'[r] = [decided EXCEPT !.status = "POLICY_EVALUATED",
                          !.responses = decided.responses \cup {"policy"}]
          /\ pc'[r] = "persistPolicy"
      BY <2>3 DEF PipelineType
    <3>2. mem'[r].decision = d
      BY <2>1, <3>1 DEF Row
    <3> QED BY <1>4, <3>1, <3>2, ActiveStages
  <2> QED BY <1>6, <2>2, <2>3
<1> QED BY <1>3, <1>5, <1>6 DEF EvaluatePolicy

(* An attempted effect is one abstract effect, or none. *)
LEMMA AttemptRefines ==
  ASSUME NEW r \in Runs, PipelineType, PipelineType', Safe(r), Pipeline(r),
         NEW effect \in Effects, NEW next \in Active, pc[r] \in OpenForEffects,
         mem[r].decision = "ALLOW", UNCHANGED evidence, Attempt(r, effect, next)
  PROVE  Abstract
<1>1. pc[r] \in Active /\ mem[r] \in Row
  BY ActiveStages DEF PipelineType
<1>2. pc'[r] \in Active /\ mem'[r].decision = mem[r].decision
  <2>1. CASE Fail(r, mem[r])
    BY <1>1, <2>1, FailValues, ActiveStages
  <2>2. CASE pc' = [pc EXCEPT ![r] = next] /\ UNCHANGED mem
    BY <2>2 DEF PipelineType
  <2> QED BY <2>1, <2>2 DEF Attempt
<1>3. CASE UNCHANGED effects
  BY <1>1, <1>2, <1>3, MoveStutters
<1>4. CASE effects' = [effects EXCEPT ![r] = @ \cup {effect}]
  <2>1. OutcomeAt(pc[r]) = "open" /\ OutcomeAt(pc'[r]) = "open"
    BY <1>1, <1>2, OutcomeValues
  <2>2. /\ Outcome' = [Outcome EXCEPT ![r] = "open"]
        /\ Verdict' = [Verdict EXCEPT ![r] = mem[r].decision]
    BY <1>2, <2>1, AbstractFrame
  <2>3. Outcome' = Outcome /\ Verdict' = Verdict
    BY <2>1, <2>2, AbstractValues DEF Outcome, Verdict
  <2>4. evidence[r] = "none"
    BY DEF Safe, StageInv
  <2>5. Governed!Act(r, effect)
    BY <1>4, <2>1, <2>3, <2>4, AbstractValues DEF Governed!Act
  <2> QED BY <2>5 DEF Abstract, Governed!Next
<1> QED BY <1>3, <1>4 DEF Attempt

LEMMA RunConnectorRefines ==
  ASSUME NEW r \in Runs, PipelineType, PipelineType', Safe(r), Pipeline(r),
         RunConnector(r)
  PROVE  Abstract
<1>1. pc[r] = "connector" /\ UNCHANGED evidence
  BY DEF RunConnector
<1>2. pc[r] \in OpenForEffects /\ pc[r] \in Active /\ "desktop" \in Active
  BY <1>1, ActiveStages DEF OpenForEffects
<1>3. CASE ConnectorDue(r)
  <2>1. Attempt(r, "connector", "desktop") /\ mem[r].decision = "ALLOW"
    BY <1>3 DEF RunConnector, ConnectorDue
  <2> QED BY <1>1, <1>2, <2>1, AttemptRefines DEF Effects
<1>4. CASE ~ConnectorDue(r)
  <2>1. Skip(r, "desktop")
    BY <1>4 DEF RunConnector
  <2>2. pc'[r] = "desktop" /\ mem' = mem /\ effects' = effects
    BY <2>1 DEF Skip, PipelineType
  <2> QED BY <1>1, <1>2, <2>2, MoveStutters
<1> QED BY <1>3, <1>4

LEMMA DesktopRefines ==
  ASSUME NEW r \in Runs, PipelineType, PipelineType', Safe(r), Pipeline(r),
         ObserveDesktop(r) \/ ActuateDesktop(r) \/ VerifyDesktop(r)
  PROVE  Abstract
<1>1. pc[r] \in {"desktop", "actuate", "verify"} /\ UNCHANGED evidence
  BY DEF ObserveDesktop, ActuateDesktop, VerifyDesktop, StageFails
<1>2. /\ pc[r] \in OpenForEffects /\ pc[r] \in Active
      /\ {"actuate", "verify", "evidence", "persistDesktop"} \subseteq Active
  BY <1>1, ActiveStages DEF OpenForEffects
<1>3. CASE ObserveDesktop(r)
  <2>1. CASE Fail(r, mem[r]) /\ UNCHANGED effects
    BY <1>1, <1>2, <2>1, FailStutters
  <2>2. CASE Skip(r, "evidence") \/ Skip(r, "actuate")
    <3>1. pc'[r] \in {"evidence", "actuate"} /\ mem' = mem /\ effects' = effects
      BY <2>2 DEF Skip, PipelineType
    <3> QED BY <1>1, <1>2, <3>1, MoveStutters
  <2> QED BY <1>3, <2>1, <2>2 DEF ObserveDesktop
<1>4. CASE ActuateDesktop(r)
  <2>1. Attempt(r, "desktop", "verify") /\ DesktopDue(r)
    BY <1>4 DEF ActuateDesktop, Safe, StageInv
  <2>2. mem[r].decision = "ALLOW"
    BY <2>1 DEF DesktopDue
  <2> QED BY <1>1, <1>2, <2>1, <2>2, AttemptRefines DEF Effects
<1>5. CASE VerifyDesktop(r)
  <2>1. CASE StageFails(r)
    BY <1>2, <2>1, FailStutters DEF StageFails
  <2>2. CASE Advance(r, "DESKTOP_VERIFIED", "desktop", "persistDesktop") /\ UNCHANGED effects
    <3>1. pc'[r] = "persistDesktop" /\ mem'[r].decision = mem[r].decision
      BY <2>2, AdvanceValues
    <3> QED BY <1>1, <1>2, <2>2, <3>1, MoveStutters
  <2> QED BY <1>5, <2>1, <2>2 DEF VerifyDesktop
<1> QED BY <1>3, <1>4, <1>5

LEMMA ResolveProfileRefines ==
  ASSUME NEW r \in Runs, PipelineType, PipelineType', Pipeline(r), ResolveProfile(r)
  PROVE  Abstract
<1>1. pc[r] = "profile" /\ pc[r] \in Active /\ UNCHANGED <<effects, evidence>>
  BY ActiveStages DEF ResolveProfile, StageFails
<1>2. CASE StageFails(r)
  BY <1>1, <1>2, FailStutters DEF StageFails
<1>3. CASE Advance(r, "PROFILE_RESOLVED", "profile", "persistProfile")
  <2>1. pc'[r] = "persistProfile" /\ mem'[r].decision = mem[r].decision
    BY <1>3, AdvanceValues
  <2> QED BY <1>1, <2>1, ActiveStages, MoveStutters
<1> QED BY <1>2, <1>3 DEF ResolveProfile

(* Evidence: recorded over a decision, finalized over the record. *)
LEMMA EvidenceRefines ==
  ASSUME NEW r \in Runs, PipelineType, PipelineType', Safe(r), Pipeline(r),
         RecordEvidence(r) \/ FinalizeBundle(r)
  PROVE  Abstract
<1>1. PICK stage, done, status, response, next :
        /\ EvidenceCall(r, stage, done, status, response, next)
        /\ \/ stage = "evidence" /\ done = "recorded" /\ next = "persistEvidence"
           \/ stage = "finalize" /\ done = "finalized" /\ next = "persistCompletion"
  BY DEF RecordEvidence, FinalizeBundle
<1>2. pc[r] = stage /\ UNCHANGED effects
  BY <1>1 DEF EvidenceCall
<1>3. pc[r] \in Active /\ next \in Active /\ mem[r] \in Row
  BY <1>1, <1>2, ActiveStages DEF OpenForEffects, PipelineType
<1>4. pc'[r] \in Active /\ mem'[r].decision = mem[r].decision
  <2>1. CASE Fail(r, mem[r])
    BY <1>3, <2>1, FailValues, ActiveStages
  <2>2. CASE Advance(r, status, response, next)
    BY <1>3, <2>2, AdvanceValues
  <2> QED BY <1>1, <2>1, <2>2 DEF EvidenceCall
<1>5. CASE UNCHANGED evidence
  BY <1>2, <1>3, <1>4, <1>5, MoveStutters
<1>6. CASE evidence' = [evidence EXCEPT ![r] = done]
  <2>1. OutcomeAt(pc[r]) = "open" /\ OutcomeAt(pc'[r]) = "open"
    BY <1>3, <1>4, OutcomeValues
  <2>2. /\ Outcome' = [Outcome EXCEPT ![r] = "open"]
        /\ Verdict' = [Verdict EXCEPT ![r] = mem[r].decision]
    BY <1>4, <2>1, AbstractFrame
  <2>3. Outcome' = Outcome /\ Verdict' = Verdict
    BY <2>1, <2>2, AbstractValues DEF Outcome, Verdict
  <2>4. CASE stage = "evidence" /\ done = "recorded"
    <3>1. mem[r].decision # "" /\ evidence[r] = "none"
      BY <1>2, <2>4 DEF Safe, StageInv, OpenForEffects
    <3>2. Governed!Record(r)
      BY <1>2, <1>6, <2>1, <2>3, <2>4, <3>1, AbstractValues DEF Governed!Record
    <3> QED BY <3>2 DEF Abstract, Governed!Next
  <2>5. CASE stage = "finalize" /\ done = "finalized"
    <3>1. evidence[r] = "recorded"
      BY <1>2, <2>5 DEF Safe, StageInv
    <3>2. Governed!Finalize(r)
      BY <1>2, <1>6, <2>1, <2>3, <2>5, <3>1, AbstractValues DEF Governed!Finalize
    <3> QED BY <3>2 DEF Abstract, Governed!Next
  <2> QED BY <1>1, <2>4, <2>5
<1> QED BY <1>1, <1>5, <1>6 DEF EvidenceCall

(* A step that ends a run in the abstract run's eyes. *)
LEMMA EndRefines ==
  ASSUME NEW r \in Runs, PipelineType, PipelineType', Pipeline(r),
         pc[r] \in Active, mem'[r].decision = mem[r].decision,
         UNCHANGED <<effects, evidence>>,
         \/ pc'[r] = "returned" /\ evidence[r] = "finalized"
         \/ pc'[r] = "failed"
  PROVE  Abstract
<1>1. Outcome[r] = "open" /\ Verdict[r] = mem[r].decision
  BY OutcomeValues, AbstractValues
<1>2. /\ Outcome' = [Outcome EXCEPT ![r] = OutcomeAt(pc'[r])]
      /\ Verdict' = [Verdict EXCEPT ![r] = mem'[r].decision]
  BY AbstractFrame
<1>3. Verdict' = Verdict
  BY <1>2 DEF Verdict
<1>4. CASE pc'[r] = "returned" /\ evidence[r] = "finalized"
  <2>1. Governed!Complete(r)
    BY <1>1, <1>2, <1>3, <1>4, OutcomeValues DEF Governed!Complete
  <2> QED BY <2>1 DEF Abstract, Governed!Next
<1>5. CASE pc'[r] = "failed"
  <2>1. Governed!Fail(r)
    BY <1>1, <1>2, <1>3, <1>5, OutcomeValues DEF Governed!Fail
  <2> QED BY <2>1 DEF Abstract, Governed!Next
<1> QED BY <1>4, <1>5

LEMMA PersistRefines ==
  ASSUME NEW r \in Runs, PipelineType, PipelineType', Safe(r), Pipeline(r),
         PersistStage(r) \/ PersistFailure(r)
  PROVE  Abstract
<1>1. ASSUME NEW stage \in Active, NEW next \in Active, Persist(r, stage, next)
      PROVE  Abstract
  <2>1. pc[r] \in Active /\ UNCHANGED <<effects, evidence>>
    BY <1>1 DEF Persist
  <2>2. CASE Fail(r, mem[r])
    BY <2>1, <2>2, FailStutters
  <2>3. CASE pc' = [pc EXCEPT ![r] = next] /\ UNCHANGED mem
    <3>1. pc'[r] = next
      BY <2>3 DEF PipelineType
    <3> QED BY <1>1, <2>1, <2>3, <3>1, MoveStutters
  <2> QED BY <1>1, <2>2, <2>3 DEF Persist
<1>2. ASSUME Persist(r, "persistCompletion", "returned")
      PROVE  Abstract
  <2>1. pc[r] = "persistCompletion" /\ UNCHANGED <<effects, evidence>>
    BY <1>2 DEF Persist
  <2>2. pc[r] \in Active /\ evidence[r] = "finalized"
    BY <2>1, ActiveStages DEF Safe, StageInv
  <2>3. CASE Fail(r, mem[r])
    BY <2>1, <2>2, <2>3, FailStutters
  <2>4. CASE pc' = [pc EXCEPT ![r] = "returned"] /\ UNCHANGED mem
    <3>1. pc'[r] = "returned"
      BY <2>4 DEF PipelineType
    <3> QED BY <2>1, <2>2, <2>4, <3>1, EndRefines
  <2> QED BY <1>2, <2>3, <2>4 DEF Persist
<1>3. ASSUME PersistFailure(r)
      PROVE  Abstract
  <2>1. /\ pc[r] = "failing" /\ pc'[r] = "failed" /\ mem' = mem
        /\ UNCHANGED <<effects, evidence>>
    BY <1>3 DEF PersistFailure, PipelineType
  <2> QED BY <2>1, ActiveStages, EndRefines
<1> QED BY <1>1, <1>2, <1>3, ActiveStages DEF PersistStage, OpenForEffects, Active

(* Every step of the pipeline maps to a step or a stutter. *)
LEMMA RefinesStep ==
  TypeOK /\ TypeOK' /\ PipelineInv /\ [Next]_vars => [Governed!Next]_Governed!vars
<1> SUFFICES ASSUME TypeOK, TypeOK', PipelineInv, [Next]_vars
             PROVE  Abstract
  BY DEF Abstract
<1>1. PipelineType /\ PipelineType'
  BY DEF TypeOK, PipelineType, Stages
<1>2. ASSUME NEW r \in Runs, Arrive(r) \/ Pipeline(r) PROVE Abstract
  <2>1. Safe(r)
    BY PipelineInvIsSafe
  <2>2. CASE Arrive(r)
    BY <1>1, <2>1, <2>2, ArriveRefines
  <2>3. CASE Pipeline(r)
    BY <1>1, <2>1, <2>3, ResolveProfileRefines, EvaluatePolicyRefines,
       RunConnectorRefines, DesktopRefines, EvidenceRefines, PersistRefines
       DEF Pipeline
  <2> QED BY <1>2, <2>2, <2>3
<1>3. ASSUME UNCHANGED <<mem, effects, evidence>>,
             \A r \in Runs : OutcomeAt(pc'[r]) = OutcomeAt(pc[r])
      PROVE  Abstract
  <2>1. Outcome' = Outcome /\ Verdict' = Verdict
    BY <1>3 DEF Outcome, Verdict
  <2> QED BY <1>3, <2>1 DEF Abstract, Governed!vars
<1>4. CASE Decide
  BY <1>3, <1>4 DEF Decide, ReadForDecision, WriteDecision, pipelineVars
<1>5. CASE Retain
  BY <1>3, <1>5 DEF Retain, PruneSelect, PruneDelete, pipelineVars
<1>6. CASE Tick \/ UNCHANGED vars
  BY <1>3, <1>6 DEF Tick, vars, pipelineVars
<1>7. CASE Crash
  <2>1. UNCHANGED <<mem, effects, evidence>>
    BY <1>7 DEF Crash
  <2>2. ASSUME NEW r \in Runs PROVE OutcomeAt(pc'[r]) = OutcomeAt(pc[r])
    <3>1. pc'[r] = IF pc[r] \in Active THEN "crashed" ELSE pc[r]
      BY <1>7 DEF Crash
    <3> QED BY <3>1, OutcomeValues
  <2> QED BY <1>3, <2>1, <2>2
<1> QED BY <1>2, <1>4, <1>5, <1>6, <1>7 DEF Next

(* The pipeline, with its store, its approval handlers, its prune and its  *)
(* crashes, is a governed run: one decision, effects only under ALLOW and  *)
(* before evidence, completion only over a finalized bundle.               *)
THEOREM PipelineIsGoverned == Spec => GovernedSpec
<1>1. Spec => [](TypeOK /\ PipelineInv)
  BY TypeCorrect, StagesRelyOnEarlierStages, PTL
<1> QED BY <1>1, RefinesInit, RefinesStep, PTL DEF Spec, GovernedSpec, Governed!Spec

-----------------------------------------------------------------------------
(***************************************************************************)
(* What the rows of the store say of runs is true, although handlers,      *)
(* approvals and the prune overwrite and delete them without looking.      *)
(*                                                                         *)
(* Two facts carry it.  The record in a handler's memory says at every     *)
(* stage what that stage has done (Record), and what a row may say of a    *)
(* run, once true, stays true (True), so that a row computed from one read *)
(* long ago is still true when it is written.                              *)
(***************************************************************************)

Attested(r, row) ==
  row.status = "COMPLETED" =>
    /\ evidence[r] = "finalized"
    /\ Responses \ {"desktop"} \subseteq row.responses
    /\ "desktop" \in effects[r] => "desktop" \in row.responses

Whole(r, row) == row.human /\ ~req[r].human => row.grant /\ row.decision = "ALLOW"

True(r, row) == Attested(r, row) /\ Whole(r, row)

\* The status of the record at each stage.
StatusAt(stage) ==
  CASE stage \in {"new", "rejected", "profile"} -> {"PENDING"}
    [] stage \in {"persistProfile", "policy"} -> {"PROFILE_RESOLVED"}
    [] stage \in {"persistPolicy", "connector", "desktop", "actuate", "verify"} -> {"POLICY_EVALUATED"}
    [] stage = "persistDesktop" -> {"DESKTOP_VERIFIED"}
    [] stage = "evidence" -> {"POLICY_EVALUATED", "DESKTOP_VERIFIED"}
    [] stage \in {"persistEvidence", "finalize"} -> {"EVIDENCE_RECORDED"}
    [] stage \in {"persistCompletion", "returned"} -> {"COMPLETED"}
    [] stage \in {"failing", "failed"} -> {"FAILED"}
    [] stage = "crashed" -> RunStatus

\* What the record holds of the responses at each stage.
Resolved == {"persistProfile", "policy"}
Evaluated == {"persistPolicy", "connector", "desktop", "actuate", "verify", "persistDesktop", "evidence"}

Record(r) ==
  /\ mem[r].status \in StatusAt(pc[r])
  /\ pc[r] \in Resolved \cup Evaluated \cup Attesting => "profile" \in mem[r].responses
  /\ pc[r] \in Evaluated \cup Attesting => "policy" \in mem[r].responses
  /\ pc[r] \in Attesting => "record" \in mem[r].responses
  /\ pc[r] \in {"persistCompletion", "returned"} => "bundle" \in mem[r].responses
  /\ pc[r] \in {"connector", "desktop"} => "desktop" \notin effects[r]
  /\ pc[r] \in {"persistDesktop", "evidence"} \cup Attesting =>
       ("desktop" \in effects[r] => "desktop" \in mem[r].responses)
  /\ Attested(r, mem[r])

\* The row of a run with one writer is the handler's record, or an earlier one.
Follows(r) ==
  /\ rows[r].expires = mem[r].expires
  /\ rows[r] # mem[r] => Rank[rows[r].status] < Rank[mem[r].status]
  /\ pc[r] = "returned" => rows[r] = mem[r]

Rowed(r) ==
  r \in stored => /\ pc[r] # "new"
                  /\ True(r, rows[r])
                  /\ Ordinary(r) => Follows(r)

ReviewsTrue == \A v \in reviews : True(v.run, v.row) /\ ~Ordinary(v.run) /\ pc[v.run] # "new"

PruneTrue ==
  \A r \in prune.chosen : /\ pc[r] # "new"
                          /\ Ordinary(r) => mem[r].expires \in 1..prune.before

RowInv == ReviewsTrue /\ PruneTrue /\ \A r \in Runs : Record(r) /\ Rowed(r)

-----------------------------------------------------------------------------
(* Statuses *)

LEMMA Ranks ==
  /\ Rank["PENDING"] = 0 /\ Rank["PROFILE_RESOLVED"] = 1 /\ Rank["POLICY_EVALUATED"] = 2
  /\ Rank["DESKTOP_VERIFIED"] = 3 /\ Rank["EVIDENCE_RECORDED"] = 4 /\ Rank["COMPLETED"] = 5
  /\ Rank["FAILED"] = 6
  BY DEF Rank, RunStatus

LEMMA RankIsNat == ASSUME NEW s \in RunStatus PROVE Rank[s] \in Nat
  BY Ranks DEF RunStatus

LEMMA StatusesAt ==
  /\ StatusAt("new") = {"PENDING"} /\ StatusAt("rejected") = {"PENDING"} /\ StatusAt("profile") = {"PENDING"}
  /\ StatusAt("persistProfile") = {"PROFILE_RESOLVED"} /\ StatusAt("policy") = {"PROFILE_RESOLVED"}
  /\ StatusAt("persistPolicy") = {"POLICY_EVALUATED"} /\ StatusAt("connector") = {"POLICY_EVALUATED"}
  /\ StatusAt("desktop") = {"POLICY_EVALUATED"} /\ StatusAt("actuate") = {"POLICY_EVALUATED"}
  /\ StatusAt("verify") = {"POLICY_EVALUATED"}
  /\ StatusAt("persistDesktop") = {"DESKTOP_VERIFIED"}
  /\ StatusAt("evidence") = {"POLICY_EVALUATED", "DESKTOP_VERIFIED"}
  /\ StatusAt("persistEvidence") = {"EVIDENCE_RECORDED"} /\ StatusAt("finalize") = {"EVIDENCE_RECORDED"}
  /\ StatusAt("persistCompletion") = {"COMPLETED"} /\ StatusAt("returned") = {"COMPLETED"}
  /\ StatusAt("failing") = {"FAILED"} /\ StatusAt("failed") = {"FAILED"}
  /\ StatusAt("crashed") = RunStatus
  BY DEF StatusAt

-----------------------------------------------------------------------------
(* What is true of a run stays true *)

\* Evidence is taken, and the desktop moved, only while no true row says COMPLETED.
LEMMA TrueStays ==
  ASSUME NEW r \in Runs, PipelineType, Safe(r), Arrive(r) \/ Pipeline(r), NEW row, True(r, row)
  PROVE  True(r, row)'
<1>1. req' = req
  BY DEF Arrive, Pipeline
<1>2. Whole(r, row)'
  BY <1>1 DEF True, Whole
<1>3. CASE UNCHANGED <<effects[r], evidence[r]>>
  BY <1>2, <1>3 DEF True, Attested
<1>4. CASE evidence[r] # "finalized"
  <2>1. row.status # "COMPLETED"
    BY <1>4 DEF True, Attested
  <2> QED BY <1>2, <2>1 DEF True, Attested
<1>5. ~(UNCHANGED <<effects[r], evidence[r]>>) => evidence[r] # "finalized"
  <2>1. CASE RunConnector(r)
    BY <2>1 DEF RunConnector, Safe, StageInv, OpenForEffects
  <2>2. CASE ActuateDesktop(r)
    BY <2>2 DEF ActuateDesktop, Safe, StageInv, OpenForEffects
  <2>3. CASE RecordEvidence(r)
    BY <2>3 DEF RecordEvidence, EvidenceCall, Safe, StageInv, OpenForEffects
  <2>4. CASE FinalizeBundle(r)
    BY <2>4 DEF FinalizeBundle, EvidenceCall, Safe, StageInv
  <2>5. CASE Arrive(r)
    BY <2>5 DEF Arrive, Reject, Accept
  <2>6. CASE ResolveProfile(r) \/ EvaluatePolicy(r) \/ ObserveDesktop(r) \/ VerifyDesktop(r)
    BY <2>6 DEF ResolveProfile, EvaluatePolicy, ObserveDesktop, VerifyDesktop, StageFails, Skip
  <2>7. CASE PersistStage(r) \/ PersistFailure(r)
    BY <2>7 DEF PersistStage, Persist, PersistFailure
  <2> QED BY <2>1, <2>2, <2>3, <2>4, <2>5, <2>6, <2>7 DEF Pipeline
<1> QED BY <1>3, <1>4, <1>5

-----------------------------------------------------------------------------
(* The record in memory *)

LEMMA FailRecord ==
  ASSUME NEW r \in Runs, NEW record \in Row, PipelineType, Fail(r, record)
  PROVE  /\ Record(r)'
         /\ mem'[r] \in Row /\ mem'[r].status = "FAILED" /\ mem'[r].expires = record.expires
<1>1. mem'[r] = [record EXCEPT !.status = "FAILED"] /\ pc'[r] = "failing"
  BY DEF Fail, PipelineType
<1>2. mem'[r].status = "FAILED" /\ mem'[r].expires = record.expires /\ mem'[r] \in Row
  BY <1>1 DEF Row, RunStatus
<1>3. Attested(r, mem[r])'
  BY <1>2 DEF Attested
<1>4. mem'[r].status \in StatusAt(pc'[r])
  BY <1>1, <1>2, StatusesAt
<1> QED BY <1>1, <1>2, <1>3, <1>4 DEF Record, Resolved, Evaluated, Attesting

LEMMA AdvanceRecord ==
  ASSUME NEW r \in Runs, NEW status \in RunStatus, NEW response \in Responses, NEW next, PipelineType,
         Advance(r, status, response, next)
  PROVE  /\ pc'[r] = next
         /\ mem'[r] \in Row
         /\ mem'[r].status = status
         /\ mem'[r].responses = mem[r].responses \cup {response}
         /\ mem'[r].expires = mem[r].expires
<1>1. PICK m \in Row : m = mem[r]
  BY DEF PipelineType
<1>2. mem'[r] = [m EXCEPT !.status = status, !.responses = m.responses \cup {response}]
  BY <1>1 DEF Advance, PipelineType
<1>3. pc'[r] = next
  BY DEF Advance, PipelineType
<1>4. m.responses \cup {response} \in SUBSET Responses
  BY DEF Row
<1> QED BY <1>1, <1>2, <1>3, <1>4 DEF Row

\* What a step of its handler does to the record and to the row: the record keeps its
\* expiry and only moves on, and the row is left alone or replaced by the record.
Grows(r) ==
  /\ mem'[r] \in Row
  /\ mem'[r].expires = mem[r].expires
  /\ mem'[r] # mem[r] => Rank[mem[r].status] < Rank[mem'[r].status]

Moves(r) ==
  /\ pc'[r] # "new"
  /\ Record(r)' /\ Grows(r)
  /\ \/ pc'[r] # "returned" /\ UNCHANGED storeVars
     \/ /\ Attested(r, mem[r])
        /\ \E o \in StoreOutcomes : /\ StoreWrite(r, mem[r], o)
                                    /\ pc'[r] = "returned" => o = "ok" /\ mem'[r] = mem[r]

LEMMA FailMoves ==
  ASSUME NEW r \in Runs, NEW record \in Row, PipelineType, Fail(r, record),
         record.expires = mem[r].expires, mem[r].status \in RunStatus \ {"FAILED"}
  PROVE  Record(r)' /\ Grows(r) /\ pc'[r] = "failing"
<1>1. /\ Record(r)'
      /\ mem'[r] \in Row /\ mem'[r].status = "FAILED" /\ mem'[r].expires = record.expires
  BY FailRecord
<1>2. Rank[mem[r].status] < Rank["FAILED"]
  BY Ranks DEF RunStatus
<1>3. pc'[r] = "failing"
  BY DEF Fail, PipelineType
<1> QED BY <1>1, <1>2, <1>3 DEF Grows

LEMMA StageFailsMoves ==
  ASSUME NEW r \in Runs, PipelineType, Fail(r, mem[r]), UNCHANGED storeVars, Record(r),
         pc[r] \in Resolved \cup Evaluated \cup Attesting \cup {"profile"}
  PROVE  Moves(r)
<1>1. mem[r].status \in RunStatus \ {"FAILED"}
  <2>1. mem[r].status \in StatusAt(pc[r])
    BY DEF Record
  <2> QED BY <2>1, StatusesAt DEF RunStatus, Resolved, Evaluated, Attesting
<1>2. Record(r)' /\ Grows(r) /\ pc'[r] = "failing"
  BY <1>1, FailMoves DEF PipelineType
<1> QED BY <1>2 DEF Moves

LEMMA ResolveProfileMoves ==
  ASSUME NEW r \in Runs, PipelineType, Record(r), ResolveProfile(r)
  PROVE  Moves(r)
<1>1. pc[r] = "profile" /\ UNCHANGED <<storeVars, effects, evidence>>
  BY DEF ResolveProfile, StageFails
<1>2. CASE StageFails(r)
  BY <1>1, <1>2, StageFailsMoves DEF StageFails
<1>3. CASE Advance(r, "PROFILE_RESOLVED", "profile", "persistProfile")
  <2>1. /\ pc'[r] = "persistProfile" /\ mem'[r] \in Row
        /\ mem'[r].status = "PROFILE_RESOLVED" /\ "profile" \in mem'[r].responses
        /\ mem'[r].expires = mem[r].expires
    BY <1>3, AdvanceRecord DEF RunStatus, Responses
  <2>2. mem[r].status = "PENDING"
    BY <1>1, StatusesAt DEF Record
  <2>3. Grows(r)
    BY <2>1, <2>2, Ranks DEF Grows
  <2>4. Record(r)'
    BY <2>1, StatusesAt DEF Record, Attested, Resolved, Evaluated, Attesting
  <2> QED BY <1>1, <2>1, <2>3, <2>4 DEF Moves
<1> QED BY <1>2, <1>3 DEF ResolveProfile

LEMMA EvaluatePolicyMoves ==
  ASSUME NEW r \in Runs, PipelineType, Record(r), EvaluatePolicy(r)
  PROVE  Moves(r)
<1>1. pc[r] = "policy" /\ UNCHANGED <<storeVars, effects, evidence>>
  BY DEF EvaluatePolicy
<1>2. mem[r] \in Row /\ mem[r].status = "PROFILE_RESOLVED" /\ "profile" \in mem[r].responses
  BY <1>1, StatusesAt DEF Record, PipelineType, Resolved
<1>3. ASSUME NEW record \in Row, Fail(r, record), record.expires = mem[r].expires PROVE Moves(r)
  <2>1. Record(r)' /\ Grows(r) /\ pc'[r] = "failing"
    BY <1>2, <1>3, FailMoves DEF RunStatus
  <2> QED BY <1>1, <2>1 DEF Moves
<1>4. CASE Fail(r, mem[r])
  BY <1>2, <1>3, <1>4
<1>5. ASSUME NEW d \in Decisions, Fail(r, [mem[r] EXCEPT !.decision = d]) PROVE Moves(r)
  <2>1. [mem[r] EXCEPT !.decision = d] \in Row /\ [mem[r] EXCEPT !.decision = d].expires = mem[r].expires
    BY <1>2 DEF Row
  <2> QED BY <1>3, <1>5, <2>1
<1>6. ASSUME NEW d \in Decisions, NEW granted \in BOOLEAN,
             LET decided == [mem[r] EXCEPT !.decision = d, !.grant = granted]
             IN IF GrantMissing(d, granted)
                THEN Fail(r, decided)
                ELSE /\ mem' = [mem EXCEPT ![r] =
                          [decided EXCEPT !.status = "POLICY_EVALUATED",
                                          !.responses = @ \cup {"policy"}]]
                     /\ pc' = [pc EXCEPT ![r] = "persistPolicy"]
      PROVE  Moves(r)
  <2> DEFINE decided == [mem[r] EXCEPT !.decision = d, !.grant = granted]
  <2>1. /\ decided \in Row /\ decided.expires = mem[r].expires
        /\ decided.responses = mem[r].responses
    BY <1>2, GrantedRowIsRow DEF Row
  <2>2. CASE GrantMissing(d, granted)
    <3>1. Fail(r, decided)
      BY <1>6, <2>2
    <3> HIDE DEF decided
    <3> QED BY <1>3, <2>1, <3>1
  <2>3. CASE ~GrantMissing(d, granted)
    <3>1. /\ mem'[r] = [decided EXCEPT !.status = "POLICY_EVALUATED",
                         !.responses = decided.responses \cup {"policy"}]
          /\ pc'[r] = "persistPolicy"
      BY <1>6, <2>3 DEF PipelineType
    <3> HIDE DEF decided
    <3>2. decided.responses \cup {"policy"} \in SUBSET Responses
      BY <2>1 DEF Row, Responses
    <3>3. /\ mem'[r] \in Row /\ mem'[r].status = "POLICY_EVALUATED"
          /\ mem'[r].expires = mem[r].expires
          /\ mem'[r].responses = decided.responses \cup {"policy"}
      BY <2>1, <3>1, <3>2 DEF Row, RunStatus
    <3>4. Grows(r)
      BY <1>2, <3>3, Ranks DEF Grows
    <3>5. Record(r)'
      BY <1>2, <2>1, <3>1, <3>3, StatusesAt DEF Record, Attested, Resolved, Evaluated, Attesting
    <3> QED BY <1>1, <3>1, <3>4, <3>5 DEF Moves
  <2> QED BY <2>2, <2>3
<1> QED BY <1>4, <1>5, <1>6 DEF EvaluatePolicy

\* The stages that call out and leave the record alone.
LEMMA EffectMoves ==
  ASSUME NEW r \in Runs, PipelineType, Safe(r), Record(r),
         RunConnector(r) \/ ObserveDesktop(r) \/ ActuateDesktop(r)
  PROVE  Moves(r)
<1>1. UNCHANGED <<storeVars, evidence>> /\ pc[r] \in {"connector", "desktop", "actuate"}
  BY DEF RunConnector, ObserveDesktop, ActuateDesktop
<1>2. CASE Fail(r, mem[r])
  BY <1>1, <1>2, StageFailsMoves DEF Evaluated
<1>3. CASE mem' = mem /\ ~Fail(r, mem[r])
  <2>1. mem[r] \in Row /\ mem[r].status = "POLICY_EVALUATED" /\ {"profile", "policy"} \subseteq mem[r].responses
    BY <1>1, StatusesAt DEF PipelineType, Record, Evaluated
  <2>2. Grows(r)
    BY <1>3, <2>1 DEF Grows
  <2>3. Attested(r, mem[r])'
    BY <1>3, <2>1 DEF Attested
  <2>4. /\ pc'[r] \in {"desktop", "evidence", "actuate", "verify"}
        /\ pc'[r] \in {"desktop", "evidence"} => "desktop" \notin effects'[r]
    <3>1. CASE RunConnector(r)
      BY <1>3, <3>1 DEF RunConnector, Attempt, Skip, Record, PipelineType
    <3>2. CASE ObserveDesktop(r)
      BY <1>3, <3>2 DEF ObserveDesktop, Skip, Record, PipelineType
    <3>3. CASE ActuateDesktop(r)
      BY <1>3, <3>3 DEF ActuateDesktop, Attempt, PipelineType
    <3> QED BY <3>1, <3>2, <3>3
  <2>5. mem'[r].status \in StatusAt(pc'[r])
    BY <1>3, <2>1, <2>4, StatusesAt
  <2>6. Record(r)'
    BY <1>3, <2>1, <2>3, <2>4, <2>5 DEF Record, Resolved, Evaluated, Attesting
  <2> QED BY <1>1, <2>2, <2>4, <2>6 DEF Moves
<1> QED BY <1>2, <1>3 DEF RunConnector, ObserveDesktop, ActuateDesktop, Attempt, Skip

LEMMA VerifyDesktopMoves ==
  ASSUME NEW r \in Runs, PipelineType, Record(r), VerifyDesktop(r)
  PROVE  Moves(r)
<1>1. pc[r] = "verify" /\ UNCHANGED <<storeVars, effects, evidence>>
  BY DEF VerifyDesktop, StageFails
<1>2. CASE StageFails(r)
  BY <1>1, <1>2, StageFailsMoves DEF StageFails, Evaluated
<1>3. CASE Advance(r, "DESKTOP_VERIFIED", "desktop", "persistDesktop")
  <2>1. mem[r].status = "POLICY_EVALUATED" /\ {"profile", "policy"} \subseteq mem[r].responses
    BY <1>1, StatusesAt DEF Record, Evaluated
  <2>2. /\ pc'[r] = "persistDesktop" /\ mem'[r] \in Row
        /\ mem'[r].status = "DESKTOP_VERIFIED" /\ {"profile", "policy", "desktop"} \subseteq mem'[r].responses
        /\ mem'[r].expires = mem[r].expires
    BY <1>3, <2>1, AdvanceRecord DEF RunStatus, Responses
  <2>3. Grows(r)
    BY <2>1, <2>2, Ranks DEF Grows
  <2>4. Record(r)'
    BY <2>2, StatusesAt DEF Record, Attested, Resolved, Evaluated, Attesting
  <2> QED BY <1>1, <2>2, <2>3, <2>4 DEF Moves
<1> QED BY <1>2, <1>3 DEF VerifyDesktop

LEMMA RecordEvidenceMoves ==
  ASSUME NEW r \in Runs, PipelineType, Record(r), RecordEvidence(r)
  PROVE  Moves(r)
<1>1. pc[r] = "evidence" /\ UNCHANGED <<storeVars, effects>>
  BY DEF RecordEvidence, EvidenceCall
<1>2. CASE Fail(r, mem[r])
  BY <1>1, <1>2, StageFailsMoves DEF Evaluated
<1>3. CASE Advance(r, "EVIDENCE_RECORDED", "record", "persistEvidence")
  <2>1. /\ mem[r].status \in {"POLICY_EVALUATED", "DESKTOP_VERIFIED"}
        /\ {"profile", "policy"} \subseteq mem[r].responses
        /\ "desktop" \in effects[r] => "desktop" \in mem[r].responses
    BY <1>1, StatusesAt DEF Record, Evaluated
  <2>2. /\ pc'[r] = "persistEvidence" /\ mem'[r] \in Row
        /\ mem'[r].status = "EVIDENCE_RECORDED"
        /\ mem'[r].responses = mem[r].responses \cup {"record"}
        /\ mem'[r].expires = mem[r].expires
    BY <1>3, AdvanceRecord DEF RunStatus, Responses
  <2>3. Grows(r)
    BY <2>1, <2>2, Ranks DEF Grows
  <2>4. Record(r)'
    BY <1>1, <2>1, <2>2, StatusesAt DEF Record, Attested, Resolved, Evaluated, Attesting
  <2> QED BY <1>1, <2>2, <2>3, <2>4 DEF Moves
<1> QED BY <1>2, <1>3 DEF RecordEvidence, EvidenceCall

\* The one place where a record comes to say COMPLETED.
LEMMA FinalizeBundleMoves ==
  ASSUME NEW r \in Runs, PipelineType, Record(r), FinalizeBundle(r)
  PROVE  Moves(r)
<1>1. pc[r] = "finalize" /\ UNCHANGED <<storeVars, effects>>
  BY DEF FinalizeBundle, EvidenceCall
<1>2. CASE Fail(r, mem[r])
  BY <1>1, <1>2, StageFailsMoves DEF Attesting
<1>3. CASE /\ evidence' = [evidence EXCEPT ![r] = "finalized"]
           /\ Advance(r, "COMPLETED", "bundle", "persistCompletion")
  <2>1. /\ mem[r].status = "EVIDENCE_RECORDED"
        /\ {"profile", "policy", "record"} \subseteq mem[r].responses
        /\ "desktop" \in effects[r] => "desktop" \in mem[r].responses
    BY <1>1, StatusesAt DEF Record, Attesting
  <2>2. /\ pc'[r] = "persistCompletion" /\ mem'[r] \in Row
        /\ mem'[r].status = "COMPLETED"
        /\ mem'[r].responses = mem[r].responses \cup {"bundle"}
        /\ mem'[r].expires = mem[r].expires
    BY <1>3, AdvanceRecord DEF RunStatus, Responses
  <2>3. evidence'[r] = "finalized" /\ effects'[r] = effects[r]
    BY <1>1, <1>3 DEF PipelineType
  <2>4. Grows(r)
    BY <2>1, <2>2, Ranks DEF Grows
  <2>5. Attested(r, mem[r])'
    BY <2>1, <2>2, <2>3 DEF Attested, Responses
  <2>6. Record(r)'
    BY <2>1, <2>2, <2>3, <2>5, StatusesAt DEF Record, Resolved, Evaluated, Attesting
  <2> QED BY <1>1, <2>2, <2>4, <2>6 DEF Moves
<1> QED BY <1>2, <1>3 DEF FinalizeBundle, EvidenceCall

LEMMA PersistMoves ==
  ASSUME NEW r \in Runs, PipelineType, Record(r), NEW stage, NEW next, Persist(r, stage, next),
         \/ stage = "persistProfile"    /\ next = "policy"
         \/ stage = "persistPolicy"     /\ next = "connector" /\ effects[r] = {}
         \/ stage = "persistDesktop"    /\ next = "evidence"
         \/ stage = "persistEvidence"   /\ next = "finalize"
         \/ stage = "persistCompletion" /\ next = "returned"
  PROVE  Moves(r)
<1>1. pc[r] = stage /\ UNCHANGED <<effects, evidence>>
  BY DEF Persist
<1>2. PICK o \in StoreOutcomes :
        /\ StoreWrite(r, mem[r], o)
        /\ IF o = "ok"
           THEN /\ pc'    = [pc EXCEPT ![r] = next]
                /\ acked' = [acked EXCEPT ![r] = @ \cup {mem[r].status}]
                /\ UNCHANGED mem
           ELSE Fail(r, mem[r]) /\ UNCHANGED acked
  BY DEF Persist
<1>3. Attested(r, mem[r]) /\ mem[r] \in Row /\ mem[r].status \in StatusAt(pc[r])
  BY DEF Record, PipelineType
<1>4. CASE o = "ok"
  <2>1. pc'[r] = next /\ mem'[r] = mem[r]
    BY <1>2, <1>4 DEF PipelineType
  <2>2. Grows(r)
    BY <1>3, <2>1 DEF Grows
  <2>3. mem'[r].status \in StatusAt(pc'[r])
    BY <1>1, <1>3, <2>1, StatusesAt
  <2>4. Record(r)'
    BY <1>1, <2>1, <2>3 DEF Record, Attested, Resolved, Evaluated, Attesting
  <2> QED BY <1>2, <1>3, <1>4, <2>1, <2>2, <2>4 DEF Moves
<1>5. CASE o # "ok"
  <2>1. mem[r].status \in RunStatus \ {"FAILED"}
    BY <1>1, <1>3, StatusesAt DEF RunStatus
  <2>2. Record(r)' /\ Grows(r) /\ pc'[r] = "failing"
    BY <1>2, <1>3, <1>5, <2>1, FailMoves
  <2> QED BY <1>2, <1>3, <2>2 DEF Moves
<1> QED BY <1>4, <1>5

LEMMA PersistFailureMoves ==
  ASSUME NEW r \in Runs, PipelineType, Record(r), PersistFailure(r)
  PROVE  Moves(r)
<1>1. /\ pc[r] = "failing" /\ pc'[r] = "failed" /\ mem'[r] = mem[r] /\ mem[r] \in Row
      /\ UNCHANGED <<effects, evidence>>
  BY DEF PersistFailure, PipelineType
<1>2. Grows(r)
  BY <1>1 DEF Grows
<1>3. mem[r].status = "FAILED"
  BY <1>1, StatusesAt DEF Record
<1>4. Record(r)'
  BY <1>1, <1>3, StatusesAt DEF Record, Attested, Resolved, Evaluated, Attesting
<1>5. Attested(r, mem[r])
  BY DEF Record
<1> QED BY <1>1, <1>2, <1>4, <1>5 DEF PersistFailure, Moves

LEMMA PipelineMoves ==
  ASSUME NEW r \in Runs, PipelineType, Safe(r), Record(r), Pipeline(r)
  PROVE  Moves(r)
<1>1. CASE RunConnector(r) \/ ObserveDesktop(r) \/ ActuateDesktop(r)
  BY <1>1, EffectMoves
<1>2. CASE PersistStage(r)
  <2>1. pc[r] = "persistPolicy" => effects[r] = {}
    BY DEF Safe, StageInv
  <2>2. CASE Persist(r, "persistPolicy", "connector")
    BY <2>1, <2>2, PersistMoves DEF Persist
  <2> QED BY <1>2, <2>2, PersistMoves DEF PersistStage
<1> QED BY <1>1, <1>2, ResolveProfileMoves, EvaluatePolicyMoves, VerifyDesktopMoves, RecordEvidenceMoves,
           FinalizeBundleMoves, PersistFailureMoves DEF Pipeline

-----------------------------------------------------------------------------
(* The rows *)

\* The row after a step of its own handler.
LEMMA RowMoves ==
  ASSUME NEW r \in Runs, PipelineType, Safe(r), Record(r), Rowed(r), Pipeline(r)
  PROVE  Rowed(r)' /\ Record(r)' /\ Grows(r) /\ pc'[r] # "new"
<1>1. Moves(r) /\ req' = req
  BY PipelineMoves DEF Pipeline
<1>2. Record(r)' /\ Grows(r) /\ pc'[r] # "new"
  BY <1>1 DEF Moves
<1>3. Ordinary(r)' = Ordinary(r)
  BY <1>1 DEF Ordinary
<1>6. \A row : True(r, row) => True(r, row)'
  <2>1. ASSUME NEW row, True(r, row) PROVE True(r, row)'
    BY <2>1, TrueStays
  <2> QED BY <2>1
<1>4. CASE pc'[r] # "returned" /\ UNCHANGED storeVars
  <2>1. stored' = stored /\ rows' = rows
    BY <1>4 DEF storeVars
  <2>2. SUFFICES ASSUME r \in stored PROVE True(r, rows[r])' /\ (Ordinary(r)' => Follows(r)')
    BY <1>2, <2>1 DEF Rowed
  <2>3. True(r, rows[r])
    BY <2>2 DEF Rowed
  <2>4. True(r, rows[r])'
    BY <1>6, <2>1, <2>3 DEF True, Attested, Whole
  <2>5. Rank[rows[r].status] \in Nat /\ Rank[mem[r].status] \in Nat /\ Rank[mem'[r].status] \in Nat
    BY <1>2, RankIsNat DEF PipelineType, Row, Grows
  <2>6. Ordinary(r) => Follows(r)'
    BY <1>2, <1>4, <2>1, <2>2, <2>5 DEF Rowed, Follows, Grows
  <2> QED BY <1>3, <2>4, <2>6
<1>5. CASE /\ Attested(r, mem[r])
           /\ \E o \in StoreOutcomes : /\ StoreWrite(r, mem[r], o)
                                       /\ pc'[r] = "returned" => o = "ok" /\ mem'[r] = mem[r]
  <2>1. PICK o \in StoreOutcomes : /\ StoreWrite(r, mem[r], o)
                                   /\ pc'[r] = "returned" => o = "ok" /\ mem'[r] = mem[r]
    BY <1>5
  <2>2. SUFFICES ASSUME r \in stored' PROVE True(r, rows[r])' /\ (Ordinary(r)' => Follows(r)')
    BY <1>2 DEF Rowed
  <2>3. Rank[rows[r].status] \in Nat /\ Rank[mem[r].status] \in Nat /\ Rank[mem'[r].status] \in Nat
    BY <1>2, RankIsNat DEF PipelineType, Row, Grows
  <2>4. CASE o = "lost"
    <3>1. rows' = rows /\ r \in stored /\ pc'[r] # "returned"
      BY <2>1, <2>2, <2>4 DEF StoreWrite, storeVars
    <3>2. True(r, rows[r])
      BY <3>1 DEF Rowed
    <3>3. True(r, rows[r])'
      BY <1>6, <3>1, <3>2 DEF True, Attested, Whole
    <3>4. Ordinary(r) => Follows(r)'
      BY <1>2, <2>3, <3>1 DEF Rowed, Follows, Grows
    <3> QED BY <1>3, <3>1, <3>3, <3>4
  <2>5. CASE o # "lost"
    <3>1. rows'[r] = mem[r]
      BY <2>1, <2>5 DEF StoreWrite, PipelineType
    <3>2. True(r, mem[r])
      BY <1>5 DEF True, Whole, Safe, StageInv
    <3>3. True(r, rows[r])'
      BY <1>6, <3>1, <3>2 DEF True, Attested, Whole
    <3>4. Follows(r)'
      BY <1>2, <2>1, <2>3, <3>1 DEF Follows, Grows
    <3> QED BY <3>3, <3>4
  <2> QED BY <2>4, <2>5
<1> QED BY <1>1, <1>2, <1>4, <1>5 DEF Moves

LEMMA ArriveMoves ==
  ASSUME NEW r \in Runs, PipelineType, req \in [Runs -> Request], now \in Nat, Safe(r), Record(r), Rowed(r),
         Arrive(r)
  PROVE  Rowed(r)' /\ Record(r)' /\ pc[r] = "new" /\ pc'[r] # "new" /\ (r \in stored => r \in stored')
<1>1. /\ pc[r] = "new" /\ r \notin stored /\ UNCHANGED <<req, effects, evidence>>
      /\ pc'[r] \in {"rejected", "profile"}
  BY DEF Arrive, Reject, Accept, Rowed, PipelineType
<1>2. CASE Reject(r)
  <2>1. pc'[r] = "rejected" /\ mem'[r] = mem[r] /\ stored' = stored
    BY <1>2 DEF Reject, PipelineType, storeVars
  <2>2. mem[r].status = "PENDING"
    BY <1>1, StatusesAt DEF Record
  <2>3. Record(r)'
    BY <2>1, <2>2, StatusesAt DEF Record, Attested, Resolved, Evaluated, Attesting
  <2> QED BY <1>1, <2>1, <2>3 DEF Rowed
<1>3. CASE Accept(r)
  <2> DEFINE expires == IF req[r].ttl = NoExpiry THEN NoExpiry ELSE now + req[r].ttl
  <2> DEFINE pending == [BlankRow EXCEPT !.expires = expires, !.human = req[r].human]
  <2>1. PICK o \in StoreOutcomes :
          /\ StoreWrite(r, pending, o)
          /\ pc' = [pc EXCEPT ![r] = IF o = "ok" THEN "profile" ELSE "rejected"]
    BY <1>3 DEF Accept
  <2>2. pending.status = "PENDING" /\ pending.human = req[r].human
    BY DEF BlankRow
  <2>3. mem' = [mem EXCEPT ![r] = pending]
    BY <1>3 DEF Accept
  <2> HIDE DEF pending
  <2>4. mem'[r] = pending
    BY <2>3 DEF PipelineType
  <2>5. Record(r)'
    BY <1>1, <2>2, <2>4, StatusesAt DEF Record, Attested, Resolved, Evaluated, Attesting
  <2>6. r \in stored' => rows'[r] = pending
    BY <1>1, <2>1 DEF StoreWrite, storeVars, PipelineType
  <2>7. Rowed(r)'
    BY <1>1, <2>2, <2>4, <2>6 DEF Rowed, True, Attested, Whole, Follows
  <2> QED BY <1>1, <2>5, <2>7
<1> QED BY <1>2, <1>3 DEF Arrive

\* A step that leaves a run's handler and row as they were.
LEMMA RowIsLocal ==
  ASSUME NEW r \in Runs, Record(r), Rowed(r), UNCHANGED Local(r),
         UNCHANGED rows[r], r \in stored' => r \in stored
  PROVE  Rowed(r)' /\ Record(r)'
<1>1. Record(r)'
  BY DEF Local, Record, Attested
<1>2. Rowed(r)'
  BY DEF Local, Rowed, Ordinary, True, Attested, Whole, Follows
<1> QED BY <1>1, <1>2

\* What is true of a run is true as long as its handler is where it was.
LEMMA TrueIsLocal ==
  ASSUME NEW r \in Runs, UNCHANGED Local(r), NEW row, True(r, row)
  PROVE  True(r, row)'
  BY DEF Local, True, Attested, Whole

\* A handler writes the row of its own run only.
LEMMA OtherRows ==
  ASSUME NEW r \in Runs, NEW s \in Runs, s # r, PipelineType, Arrive(r) \/ Pipeline(r)
  PROVE  rows'[s] = rows[s] /\ (s \in stored' <=> s \in stored)
<1>1. ASSUME NEW row, NEW o, StoreWrite(r, row, o) PROVE rows'[s] = rows[s] /\ (s \in stored' <=> s \in stored)
  BY <1>1 DEF StoreWrite, storeVars, PipelineType
<1>2. CASE UNCHANGED storeVars
  BY <1>2 DEF storeVars
<1>3. CASE ~UNCHANGED storeVars
  <2>1. Accept(r) \/ PersistStage(r) \/ PersistFailure(r)
    BY <1>3 DEF Arrive, Pipeline, Reject, ResolveProfile, EvaluatePolicy, RunConnector, ObserveDesktop, ActuateDesktop,
       VerifyDesktop, RecordEvidence, FinalizeBundle, EvidenceCall, StageFails
  <2>2. \E row, o : StoreWrite(r, row, o)
    BY <2>1 DEF Accept, PersistStage, Persist, PersistFailure
  <2> QED BY <1>1, <2>2
<1> QED BY <1>2, <1>3

\* An approval handler's row is as true as the row it was computed from.
LEMMA DecidedIsTrue ==
  ASSUME NEW r \in Runs, NEW row \in Row, True(r, row), now \in Nat
  PROVE  True(r, Approved(row)) /\ True(r, Denied(row))
<1>1. /\ Approved(row).grant = TRUE /\ Approved(row).decision = "ALLOW"
      /\ Approved(row).responses = row.responses
      /\ Approved(row).status = "COMPLETED" => row.status = "COMPLETED"
  BY DEF Approved, Row
<1>2. Denied(row).human = FALSE /\ Denied(row).status = "FAILED"
  BY DEF Denied, Row
<1>3. True(r, Approved(row))
  BY <1>1 DEF True, Attested, Whole
<1>4. True(r, Denied(row))
  BY <1>2 DEF True, Attested, Whole
<1> QED BY <1>3, <1>4

-----------------------------------------------------------------------------
(* The invariant *)

LEMMA RowInvInit == Init => RowInv
<1> SUFFICES ASSUME Init PROVE RowInv
  OBVIOUS
<1>1. ReviewsTrue /\ PruneTrue
  BY DEF Init, ReviewsTrue, PruneTrue, IdlePrune
<1>2. ASSUME NEW r \in Runs PROVE Record(r) /\ Rowed(r)
  <2>1. pc[r] = "new" /\ mem[r].status = "PENDING" /\ effects[r] = {} /\ r \notin stored
    BY DEF Init, BlankRow
  <2> QED BY <2>1, StatusesAt DEF Record, Rowed, Attested, Resolved, Evaluated, Attesting
<1> QED BY <1>1, <1>2 DEF RowInv

LEMMA RowStep ==
  ASSUME TypeOK, PipelineInv, RowInv, NEW r \in Runs, Arrive(r) \/ Pipeline(r)
  PROVE  RowInv'
<1>1. PipelineType /\ Safe(r) /\ Record(r) /\ Rowed(r) /\ now \in Nat /\ req \in [Runs -> Request]
  BY PipelineInvIsSafe, BoundsAssumption DEF TypeOK, PipelineType, Stages, RowInv
<1>2. UNCHANGED <<req, reviews, prune, now>>
  BY DEF Arrive, Pipeline
<1>3. /\ Rowed(r)' /\ Record(r)' /\ pc'[r] # "new"
      /\ pc[r] # "new" => mem'[r].expires = mem[r].expires
  <2>1. CASE Arrive(r)
    BY <1>1, <2>1, ArriveMoves
  <2>2. CASE Pipeline(r)
    BY <1>1, <2>2, RowMoves DEF Grows
  <2> QED BY <2>1, <2>2
<1>4. ASSUME NEW s \in Runs, s # r PROVE Rowed(s)' /\ Record(s)' /\ UNCHANGED Local(s)
  <2>1. UNCHANGED Local(s) /\ rows'[s] = rows[s] /\ (s \in stored' <=> s \in stored)
    BY <1>1, <1>4, HandlersAreLocal, OtherRows
  <2>2. Record(s) /\ Rowed(s)
    BY DEF RowInv
  <2> QED BY <2>1, <2>2, RowIsLocal
<1>5. ReviewsTrue'
  <2> SUFFICES ASSUME NEW v \in reviews PROVE True(v.run, v.row)' /\ ~Ordinary(v.run)' /\ pc'[v.run] # "new"
    BY <1>2 DEF ReviewsTrue
  <2>1. v.run \in Runs /\ True(v.run, v.row) /\ ~Ordinary(v.run) /\ pc[v.run] # "new"
    BY DEF TypeOK, Review, RowInv, ReviewsTrue
  <2>2. CASE v.run = r
    <3>1. ASSUME NEW row, True(r, row) PROVE True(r, row)'
      BY <1>1, <3>1, TrueStays
    <3>2. True(v.run, v.row)'
      BY <2>1, <2>2, <3>1 DEF True, Attested, Whole
    <3> QED BY <1>2, <1>3, <2>1, <2>2, <3>2 DEF Ordinary
  <2>3. CASE v.run # r
    BY <1>2, <1>4, <2>1, <2>3, TrueIsLocal DEF Ordinary, Local
  <2> QED BY <2>2, <2>3
<1>6. PruneTrue'
  <2> SUFFICES ASSUME NEW s \in prune.chosen
               PROVE  pc'[s] # "new" /\ (Ordinary(s)' => mem'[s].expires \in 1..prune.before)
    BY <1>2 DEF PruneTrue
  <2>1. s \in Runs /\ pc[s] # "new" /\ (Ordinary(s) => mem[s].expires \in 1..prune.before)
    BY DEF TypeOK, Prune, RowInv, PruneTrue
  <2>2. CASE s = r
    BY <1>2, <1>3, <2>1, <2>2 DEF Ordinary
  <2>3. CASE s # r
    BY <1>2, <1>4, <2>1, <2>3 DEF Ordinary, Local
  <2> QED BY <2>2, <2>3
<1> QED BY <1>3, <1>4, <1>5, <1>6 DEF RowInv

LEMMA DecideStep ==
  ASSUME TypeOK, RowInv, Decide
  PROVE  RowInv'
<1>1. UNCHANGED <<req, pc, mem, effects, evidence, acked, prune>>
  BY DEF Decide, ReadForDecision, WriteDecision, pipelineVars
<1>2. \A r \in Runs : UNCHANGED Local(r)
  BY <1>1 DEF Local
<1>3. PruneTrue'
  BY <1>1 DEF RowInv, PruneTrue, Ordinary
<1>4. ASSUME NEW a \in Approvers, NEW r \in Runs, NEW verdict \in Verdicts, ReadForDecision(a, r, verdict)
      PROVE  RowInv'
  <2>1. stored' = stored /\ rows' = rows /\ r \in stored /\ rows[r] \in Row /\ now \in Nat
    BY <1>4, BoundsAssumption DEF ReadForDecision, ReviewOpen, storeVars, TypeOK
  <2>2. True(r, rows[r]) /\ ~Ordinary(r) /\ pc[r] # "new"
    BY <1>4, <2>1 DEF ReadForDecision, ReviewOpen, Ordinary, RowInv, Rowed, TypeOK, Request, HighRisk
  <2>3. True(r, Approved(rows[r])) /\ True(r, Denied(rows[r]))
    <3>1. ASSUME NEW row \in Row, True(r, row) PROVE True(r, Approved(row)) /\ True(r, Denied(row))
      BY <2>1, <3>1, DecidedIsTrue
    <3> QED BY <2>1, <2>2, <3>1
  <2>4. ASSUME NEW v \in reviews' PROVE True(v.run, v.row)' /\ ~Ordinary(v.run)' /\ pc'[v.run] # "new"
    <3>1. v.run \in Runs
      BY <1>4, <2>4 DEF ReadForDecision, TypeOK, Review
    <3>2. True(v.run, v.row) /\ ~Ordinary(v.run) /\ pc[v.run] # "new"
      <4>1. CASE v \in reviews
        BY <4>1 DEF RowInv, ReviewsTrue
      <4>2. CASE v \notin reviews
        <5>1. v = [by |-> a, run |-> r, verdict |-> verdict,
                   row |-> IF verdict = "APPROVED" THEN Approved(rows[r]) ELSE Denied(rows[r])]
          BY <1>4, <2>4, <4>2 DEF ReadForDecision
        <5>2. v.run = r /\ v.row \in {Approved(rows[r]), Denied(rows[r])}
          BY <5>1
        <5> QED BY <2>2, <2>3, <5>2
      <4> QED BY <4>1, <4>2
    <3> QED BY <1>1, <1>2, <3>1, <3>2, TrueIsLocal DEF Ordinary
  <2>5. ASSUME NEW s \in Runs PROVE Record(s)' /\ Rowed(s)'
    BY <1>2, <2>1, RowIsLocal DEF RowInv
  <2> QED BY <1>3, <2>4, <2>5 DEF RowInv, ReviewsTrue
<1>5. ASSUME NEW v \in reviews, WriteDecision(v) PROVE RowInv'
  <2>1. v.run \in Runs /\ v.row \in Row /\ True(v.run, v.row) /\ ~Ordinary(v.run) /\ pc[v.run] # "new"
    BY DEF TypeOK, Review, RowInv, ReviewsTrue
  <2>2. PICK o \in StoreOutcomes : StoreWrite(v.run, v.row, o)
    BY <1>5 DEF WriteDecision
  <2>3. ReviewsTrue'
    <3> SUFFICES ASSUME NEW u \in reviews' PROVE True(u.run, u.row)' /\ ~Ordinary(u.run)' /\ pc'[u.run] # "new"
      BY DEF ReviewsTrue
    <3>1. u \in reviews
      BY <1>5 DEF WriteDecision
    <3>2. u.run \in Runs /\ True(u.run, u.row) /\ ~Ordinary(u.run) /\ pc[u.run] # "new"
      BY <3>1 DEF TypeOK, Review, RowInv, ReviewsTrue
    <3> QED BY <1>1, <1>2, <3>2, TrueIsLocal DEF Ordinary
  <2>4. ASSUME NEW s \in Runs PROVE Record(s)' /\ Rowed(s)'
    <3>0. Record(s) /\ Rowed(s)
      BY DEF RowInv
    <3>1. CASE s # v.run \/ o = "lost"
      <4>1. rows'[s] = rows[s] /\ (s \in stored' => s \in stored)
        BY <2>1, <2>2, <3>1 DEF StoreWrite, storeVars, TypeOK
      <4> QED BY <1>2, <3>0, <4>1, RowIsLocal
    <3>2. CASE s = v.run /\ o # "lost"
      <4>1. rows'[s] = v.row
        BY <2>1, <2>2, <3>2 DEF StoreWrite, TypeOK
      <4>2. Record(s)'
        BY <1>1, <3>0 DEF Record, Attested
      <4>3. True(s, v.row)'
        BY <1>2, <2>1, <3>2, TrueIsLocal
      <4>4. pc[s] # "new"
        BY <3>2 DEF RowInv, ReviewsTrue
      <4> QED BY <1>1, <2>1, <3>2, <4>1, <4>2, <4>3, <4>4 DEF Rowed, Ordinary, True, Attested, Whole
    <3> QED BY <3>1, <3>2
  <2> QED BY <1>3, <2>3, <2>4 DEF RowInv
<1> QED BY <1>4, <1>5 DEF Decide

\* The prune deletes rows and changes none.
LEMMA RetainStep ==
  ASSUME TypeOK, RowInv, Retain
  PROVE  RowInv'
<1>1. UNCHANGED <<req, pc, mem, effects, evidence, acked, reviews>>
  BY DEF Retain, PruneSelect, PruneDelete, pipelineVars
<1>2. \A r \in Runs : UNCHANGED Local(r)
  BY <1>1 DEF Local
<1>3. ReviewsTrue'
  <2> SUFFICES ASSUME NEW v \in reviews PROVE True(v.run, v.row)' /\ ~Ordinary(v.run)' /\ pc'[v.run] # "new"
    BY <1>1 DEF ReviewsTrue
  <2>1. v.run \in Runs /\ True(v.run, v.row) /\ ~Ordinary(v.run) /\ pc[v.run] # "new"
    BY DEF TypeOK, Review, RowInv, ReviewsTrue
  <2> QED BY <1>1, <1>2, <2>1, TrueIsLocal DEF Ordinary
<1>4. ASSUME NEW r \in Runs PROVE Record(r)' /\ Rowed(r)'
  <2>1. Record(r) /\ Rowed(r)
    BY DEF RowInv
  <2>2. r \in stored' => r \in stored /\ rows'[r] = rows[r]
    BY DEF Retain, PruneSelect, PruneDelete, storeVars
  <2>3. Record(r)'
    BY <1>1, <2>1 DEF Record, Attested
  <2>4. Rowed(r)'
    BY <1>1, <2>1, <2>2 DEF Rowed, Ordinary, True, Attested, Whole, Follows
  <2> QED BY <2>3, <2>4
<1>5. PruneTrue'
  <2>1. ASSUME NEW t \in 1..MaxTime, NEW chosen \in SUBSET Runs, PruneSelect(t, chosen) PROVE PruneTrue'
    <3> SUFFICES ASSUME NEW r \in chosen PROVE pc[r] # "new" /\ (Ordinary(r) => mem[r].expires \in 1..t)
      BY <1>1, <2>1 DEF PruneSelect, PruneTrue, Ordinary
    <3>1. r \in Runs /\ r \in stored /\ rows[r].expires # NoExpiry /\ rows[r].expires <= t
      BY <2>1 DEF PruneSelect, OldestFirst, Expired
    <3>2. Rowed(r) /\ rows[r].expires \in Nat
      BY <3>1 DEF RowInv, TypeOK, Row
    <3> QED BY <3>1, <3>2 DEF Rowed, Follows, NoExpiry
  <2>2. CASE PruneDelete
    BY <2>2 DEF PruneDelete, IdlePrune, PruneTrue
  <2> QED BY <2>1, <2>2 DEF Retain
<1> QED BY <1>3, <1>4, <1>5 DEF RowInv

\* A crash stops handlers where they are.
LEMMA CrashStep ==
  ASSUME TypeOK, RowInv, Crash
  PROVE  RowInv'
<1>1. /\ UNCHANGED <<req, mem, effects, evidence, acked, stored, rows>>
      /\ pc' = [r \in Runs |-> IF pc[r] \in Active THEN "crashed" ELSE pc[r]]
      /\ reviews' = {} /\ prune' = IdlePrune
  BY DEF Crash, storeVars
<1>2. ReviewsTrue' /\ PruneTrue'
  BY <1>1 DEF ReviewsTrue, PruneTrue, IdlePrune
<1>3. ASSUME NEW r \in Runs PROVE Record(r)' /\ Rowed(r)'
  <2>1. Record(r) /\ Rowed(r) /\ mem[r].status \in RunStatus
    BY DEF RowInv, TypeOK, Row
  <2>2. pc'[r] \in {pc[r], "crashed"}
    BY <1>1
  <2>3. Record(r)'
    BY <1>1, <2>1, <2>2, StatusesAt DEF Record, Attested, Resolved, Evaluated, Attesting
  <2>4. Rowed(r)'
    BY <1>1, <2>1, <2>2 DEF Rowed, Ordinary, True, Attested, Whole, Follows
  <2> QED BY <2>3, <2>4
<1> QED BY <1>2, <1>3 DEF RowInv

LEMMA RowInvStep == TypeOK /\ PipelineInv /\ RowInv /\ [Next]_vars => RowInv'
<1> SUFFICES ASSUME TypeOK, PipelineInv, RowInv, [Next]_vars PROVE RowInv'
  OBVIOUS
<1>1. CASE Tick \/ UNCHANGED vars
  <2>1. UNCHANGED <<req, pc, mem, effects, evidence, acked, stored, rows, reviews, prune>>
    BY <1>1 DEF Tick, vars, pipelineVars, storeVars
  <2> QED BY <2>1 DEF RowInv, ReviewsTrue, PruneTrue, Record, Rowed, Ordinary, True, Attested, Whole, Follows
<1> QED BY <1>1, RowStep, DecideStep, RetainStep, CrashStep DEF Next

LEMMA RowInvariant == Spec => [](TypeOK /\ PipelineInv /\ RowInv)
  BY TypeInit, TypeStep, PipelineInvInit, PipelineInvStep, RowInvInit, RowInvStep, PTL DEF Spec

-----------------------------------------------------------------------------
(* The theorems *)

\* Whatever overwrites whatever, the rows are true: one that says COMPLETED rests on a
\* finalized bundle and all its responses, a human approval the request did not carry is
\* whole, and a run below the approval tier shows its handler's record or an earlier one.
THEOREM RowsAreTrue == Spec => []StoredRowsAreTrue
<1>1. TypeOK /\ RowInv => StoredRowsAreTrue
  <2> SUFFICES ASSUME TypeOK, RowInv, NEW r \in stored, r \in Runs
               PROVE  /\ Attested(r, rows[r]) /\ Whole(r, rows[r])
                      /\ Ordinary(r) =>
                           /\ rows[r] # mem[r] => Rank[rows[r].status] < Rank[mem[r].status]
                           /\ pc[r] = "returned" => rows[r] = mem[r] /\ mem[r].status = "COMPLETED"
    BY DEF TypeOK, StoredRowsAreTrue, CompletedRowIsAttested, ApprovalIsWhole, OrdinaryRowFollowsHandler, Attested, Whole
  <2>1. Record(r) /\ Rowed(r)
    BY DEF RowInv
  <2> QED BY <2>1, StatusesAt DEF Record, Rowed, True, Follows
<1> QED BY <1>1, RowInvariant, PTL

\* No step takes the row of such a run back, and the prune deletes it only at an expiry no
\* later than the cut-off asked for, although it deletes by ids selected before.
THEOREM RowsMoveOn == Spec => OrdinaryRowsMoveOn
<1> DEFINE Forward == /\ \A r \in stored \cap stored' : Ordinary(r) => Rank[rows[r].status] <= Rank[rows'[r].status]
                      /\ \A r \in stored \ stored' : Ordinary(r) => rows[r].expires \in 1..prune.before
<1>1. TypeOK /\ PipelineInv /\ RowInv /\ [Next]_vars => [Forward]_vars
  <2> SUFFICES ASSUME TypeOK, PipelineInv, RowInv, Next PROVE Forward
    OBVIOUS
  <2>1. ASSUME NEW r \in stored \cap stored', Ordinary(r) PROVE Rank[rows[r].status] <= Rank[rows'[r].status]
    <3>1. r \in Runs /\ Rank[rows[r].status] \in Nat /\ Rank[mem[r].status] \in Nat
      BY <2>1, RankIsNat DEF TypeOK, Row
    <3>2. rows'[r] = rows[r] \/ rows'[r] = mem[r]
      <4>1. PipelineType
        BY DEF TypeOK, PipelineType, Stages
      <4>2. ASSUME NEW s \in Runs, Arrive(s) \/ Pipeline(s) PROVE rows'[r] = rows[r] \/ rows'[r] = mem[r]
        <5>1. CASE s # r
          BY <3>1, <4>1, <4>2, <5>1, OtherRows
        <5>2. CASE s = r
          <6>1. Pipeline(r)
            BY <2>1, <3>1, <4>2, <5>2 DEF Arrive, Reject, Accept, RowInv, Rowed
          <6>2. Moves(r)
            BY <3>1, <4>1, <6>1, PipelineInvIsSafe, PipelineMoves DEF RowInv
          <6> QED BY <3>1, <4>1, <6>2 DEF Moves, StoreWrite, storeVars, PipelineType
        <5> QED BY <5>1, <5>2
      <4>3. ASSUME NEW v \in reviews, WriteDecision(v) PROVE rows'[r] = rows[r]
        <5>1. v.run # r
          BY <2>1 DEF RowInv, ReviewsTrue
        <5> QED BY <3>1, <4>3, <5>1 DEF WriteDecision, StoreWrite, storeVars, TypeOK
      <4>4. CASE PruneDelete
        BY <2>1, <3>1, <4>4 DEF PruneDelete, storeVars
      <4> QED BY <4>2, <4>3, <4>4 DEF Next, Decide, Retain, ReadForDecision, PruneSelect, Tick, Crash, storeVars
    <3>3. Follows(r)
      BY <2>1, <3>1 DEF RowInv, Rowed
    <3> QED BY <3>1, <3>2, <3>3 DEF Follows
  <2>2. ASSUME NEW r \in stored \ stored', Ordinary(r) PROVE rows[r].expires \in 1..prune.before
    <3>1. r \in Runs
      BY <2>2 DEF TypeOK
    <3>2. PruneDelete
      <4>1. ASSUME NEW s \in Runs, Arrive(s) \/ Pipeline(s) PROVE stored \subseteq stored'
        <5>1. ASSUME NEW row, NEW o, StoreWrite(s, row, o) PROVE stored \subseteq stored'
          BY <5>1 DEF StoreWrite, storeVars
        <5>2. UNCHANGED storeVars \/ Accept(s) \/ PersistStage(s) \/ PersistFailure(s)
          BY <4>1 DEF Arrive, Pipeline, Reject, ResolveProfile, EvaluatePolicy, RunConnector, ObserveDesktop, ActuateDesktop,
             VerifyDesktop, RecordEvidence, FinalizeBundle, EvidenceCall, StageFails
        <5>3. UNCHANGED storeVars \/ \E row, o : StoreWrite(s, row, o)
          BY <5>2 DEF Accept, PersistStage, Persist, PersistFailure
        <5> QED BY <5>1, <5>3 DEF storeVars
      <4>2. ASSUME NEW v \in reviews, WriteDecision(v) PROVE stored \subseteq stored'
        BY <4>2 DEF WriteDecision, StoreWrite, storeVars
      <4> QED BY <2>2, <4>1, <4>2 DEF Next, Decide, Retain, ReadForDecision, PruneSelect, Tick, Crash, storeVars
    <3>3. r \in prune.chosen
      BY <2>2, <3>2 DEF PruneDelete, storeVars
    <3> QED BY <2>2, <3>1, <3>3 DEF RowInv, PruneTrue, Rowed, Follows
  <2> QED BY <2>1, <2>2
<1>2. (TypeOK /\ PipelineInv /\ RowInv) /\ [Next]_vars => [Forward]_vars
  BY <1>1
<1> QED BY <1>2, RowInvariant, PTL DEF Spec, OrdinaryRowsMoveOn
=============================================================================

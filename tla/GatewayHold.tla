---------------------------- MODULE GatewayHold ----------------------------
(***************************************************************************)
(* The localhost gateway and the files it shares with the desktop          *)
(* application.                                                            *)
(*                                                                         *)
(* The gateway process turns an agent's request into a run and writes a    *)
(* request file under a fresh name.  If the run's decision is DEFER it     *)
(* writes a hold file and polls it.  The hold file's name is the           *)
(* interposition id, which a client may choose in a header: requests that  *)
(* carry the same id write and poll one file.  The operator's decision     *)
(* reaches it only because the desktop application, another process,       *)
(* rewrites that file.  Every update reads a whole file, changes fields    *)
(* and writes the whole file: no lock, no rename, so that an update can be *)
(* lost and a reader can meet a file that is being written.  Three kinds   *)
(* of request are interposed:                                              *)
(*   "http"    held, then forwarded, by one handler;                       *)
(*   "socket"  the same, but first looks for an earlier request of its     *)
(*             turn and answers from that one's file;                      *)
(*   "tool"    answered at once; a later call of the same key that finds   *)
(*             the first one granted carries that approval into its run.   *)
(*                                                                         *)
(* Abstracted: payloads, identities and headers (a turn is what two        *)
(* requests have in common when the retry lookups match them), the         *)
(* deadline's length, the status endpoint's answer.                        *)
(***************************************************************************)
EXTENDS Naturals, FiniteSets

CONSTANTS
  Requests,    \* requests an agent may send
  Holds,       \* interposition ids: the names of hold files
  Plans,       \* the plans considered: what each request is
  Operators,   \* windows of the desktop application that resolve holds
  Pollers,     \* clients asking for the status of a governed action
  Decisions,   \* what a run may decide
  None,        \* no file, no write, nothing in progress
  MaxEvents    \* BOUND: resolutions, status requests, failed writes,
               \* cancelled clients and crashes, together

ASSUME ActorsAssumption ==
  /\ Requests \cap Operators = {} /\ Requests \cap Pollers = {}
  /\ Operators \cap Pollers = {}
  /\ None \notin Requests \cup Operators \cup Pollers
ASSUME GatewayDecisionsAssumption == Decisions \subseteq {"ALLOW", "DENY", "DEFER"}
ASSUME GatewayBoundsAssumption == MaxEvents \in Nat

-----------------------------------------------------------------------------
(* Values *)

Plan == [kind : {"http", "socket", "tool"}, turn : {1, 2}, hold : Holds]

ASSUME PlansAssumption == Plans \subseteq [Requests -> Plan]

Actors == Requests \cup Operators \cup Pollers

(* gatewayRequestRecord: Result.State, Interposition.State, and whether a  *)
(* terminal event was kept for replay.                                     *)
ResultStates == {"completed", "rejected", "deferred", "resumed_forwarding",
                 "forwarding", "failed", "timed_out", "approval_consumed"}
HoldStates == {"held_pending_approval", "approval_granted", "approval_denied",
               "timed_out", "completed", "failed", "approval_consumed"}
InterStates == HoldStates \cup {"resumed_forwarding", "forwarding"}

Record == [state : ResultStates, inter : InterStates, event : BOOLEAN]

(* GatewayHoldRecord: the request that wrote it, GatewayRequestID, and the *)
(* State.                                                                  *)
Hold == [owner : Requests, state : HoldStates]

(* A file about to be written by its reader.  must: an error ends the      *)
(* update's caller; otherwise it is ignored.                               *)
Write == [file : {"request"}, id : Requests, content : Record, must : BOOLEAN]
         \cup
         [file : {"hold"}, id : Holds, content : Hold, must : BOOLEAN]

Verdicts == {"APPROVE", "DENY"}

(* A hold an operator has decided, and the request it names. *)
Resolution == [owner : Requests, verdict : Verdicts]

ASSUME NoneAssumption ==
  None \notin {"ok", "failed", "closed"} \cup Record \cup Hold \cup Write \cup Resolution

(* Stages that update an earlier request's file before they answer. *)
AnswerOfRetry == [observeEnded |-> "replayed", observeLost |-> "error",
                  observeOpen |-> "inProgress"]

Stages == {"new", "lookup", "run", "consumeHold", "consumeRequest",
           "record", "hold", "waiting", "expireHold", "expireRequest", "resume",
           "announce", "forward", "trace", "keepEvent", "finishRequest",
           "finishHold"} \cup DOMAIN AnswerOfRetry
Answers == {"ok", "upstreamError", "denied", "timedOut", "error", "replayed",
            "inProgress", "gone"}

VARIABLES
  plan,      \* plan[q]: kind and turn of request q
  pc,        \* pc[q]: the stage of q's handler, or how it was answered
  run,       \* run[q]: the decision of q's run, None before it has one
  found,     \* found[q]: another request q acts on, or None: the earlier one
             \* its lookup returned, or the one an expired hold names
  went,      \* went[q]: how forwarding went, None before; "closed" is a
             \* websocket closed without a terminal event
  requests,  \* requests[q]: q's request file, or None
  holds,     \* holds[h]: the hold file of interposition id h, or None
  late,      \* the requests whose hold's deadline has passed
  saving,    \* saving[a]: the file actor a is about to write, or None
  resolving, \* resolving[o]: the hold o has decided and its verdict, or None
  events,    \* what MaxEvents bounds, so far
  \* History.
  forwarded, \* requests that may have reached the upstream
  claimed,   \* requests that wrote their hold file
  resolved   \* resolved[q]: verdicts written to q's hold file since

handlerVars == <<pc, run, found, went, forwarded>>
fileVars    == <<requests, holds, claimed, resolved>>
vars == <<plan, pc, run, found, went, requests, holds, late, saving,
          resolving, events, forwarded, claimed, resolved>>

Init ==
  /\ plan      \in Plans
  /\ pc        = [q \in Requests |-> "new"]
  /\ run       = [q \in Requests |-> None]
  /\ found     = [q \in Requests |-> None]
  /\ went      = [q \in Requests |-> None]
  /\ requests  = [q \in Requests |-> None]
  /\ holds     = [h \in Holds |-> None]
  /\ late      = {}
  /\ saving    = [a \in Actors |-> None]
  /\ resolving = [o \in Operators |-> None]
  /\ events    = 0
  /\ forwarded = {}
  /\ claimed   = {}
  /\ resolved  = [q \in Requests |-> {}]

Disturb == events < MaxEvents /\ events' = events + 1

-----------------------------------------------------------------------------
(* Files *)

WriteTo(file, id, content, must) ==
  [file |-> file, id |-> id, content |-> content, must |-> must]

(* os.WriteFile truncates before it writes: a reader may find the file of  *)
(* another actor's write unreadable.                                       *)
Torn(a, file, id) ==
  \E b \in Actors \ {a} :
    saving[b] # None /\ saving[b].file = file /\ saving[b].id = id

File(file, id) == IF file = "request" THEN requests[id] ELSE holds[id]

Unreadable(a, file, id) == File(file, id) = None \/ Torn(a, file, id)

(* A write that is cut short leaves the old file or an empty one. *)
MayEmpty(ws) ==
  \/ UNCHANGED <<requests, holds>>
  \/ /\ requests' = [q \in Requests |->
          IF \E w \in ws : w.file = "request" /\ w.id = q THEN None ELSE requests[q]]
     /\ holds' = [h \in Holds |->
          IF \E w \in ws : w.file = "hold" /\ w.id = h THEN None ELSE holds[h]]

(* A hold is claimed by the request that writes it as held, and again by   *)
(* every other that carries its id.  What an operator's decision writes    *)
(* counts as resolved from then on, for all that have claimed it.          *)
FileWritten(a, w) ==
  IF w.file = "request"
  THEN /\ requests' = [requests EXCEPT ![w.id] = w.content]
       /\ UNCHANGED <<holds, claimed, resolved>>
  ELSE /\ holds' = [holds EXCEPT ![w.id] = w.content]
       /\ claimed' = IF w.content.state = "held_pending_approval"
                     THEN claimed \cup {w.content.owner} ELSE claimed
       /\ resolved' = [q \in Requests |->
            IF a \in Operators /\ q \in claimed /\ plan[q].hold = w.id
            THEN resolved[q] \cup {resolving[a].verdict} ELSE resolved[q]]
       /\ UNCHANGED requests

Save(a) ==
  /\ saving[a] # None
  /\ saving' = [saving EXCEPT ![a] = None]
  /\ FileWritten(a, saving[a])
  /\ UNCHANGED <<plan, handlerVars, late, resolving, events>>

(* The write fails: the caller ends or goes on, as the code has it. *)
SaveFails(a) ==
  /\ saving[a] # None
  /\ Disturb
  /\ saving' = [saving EXCEPT ![a] = None]
  /\ pc' = IF a \in Requests /\ saving[a].must THEN [pc EXCEPT ![a] = "error"] ELSE pc
  /\ resolving' = IF a \in Operators THEN [resolving EXCEPT ![a] = None] ELSE resolving
  /\ MayEmpty({saving[a]})
  /\ UNCHANGED <<plan, run, found, went, late, forwarded, claimed, resolved>>

-----------------------------------------------------------------------------
(* The handler of one request *)

At(q, stage) == pc[q] = stage /\ saving[q] = None

Goto(q, stage) == pc' = [pc EXCEPT ![q] = stage]

Unwritten == UNCHANGED <<saving, fileVars>>

(* One update: read a file and write it back changed.  A file that cannot  *)
(* be read is a failed update.                                             *)
Update(q, stage, file, id, content, must, next) ==
  /\ At(q, stage)
  /\ \/ /\ File(file, id) # None
        /\ saving' = [saving EXCEPT ![q] = WriteTo(file, id, content, must)]
        /\ Goto(q, next)
     \/ /\ Unreadable(q, file, id)
        /\ UNCHANGED saving
        /\ Goto(q, IF must THEN "error" ELSE next)
  /\ UNCHANGED <<run, went, fileVars, forwarded>>

(* updateGatewayHoldRecordState: the rest of the record is kept as read. *)
UpdateHold(q, stage, h, state, must, next) ==
  Update(q, stage, "hold", h, [holds[h] EXCEPT !.state = state], must, next)

(* updateGatewayRequestRecordLifecycleState, with one name for both states. *)
Lifecycle(q, stage, x, state, must, next) ==
  /\ Update(q, stage, "request", x,
            [requests[x] EXCEPT !.state = state, !.inter = state], must, next)
  /\ UNCHANGED found

Arrive(q) ==
  /\ At(q, "new")
  /\ \/ Goto(q, IF plan[q].kind = "http" THEN "run" ELSE "lookup")
     \/ Goto(q, "error")     \* interposition disabled, or not decodable
  /\ Unwritten
  /\ UNCHANGED <<run, found, went, forwarded>>

SameTurn(q, x) == plan[x].turn = plan[q].turn /\ plan[x].kind = plan[q].kind

(* findApprovedMCPRetry: an earlier call of this key that was deferred and *)
(* is granted now.                                                         *)
ApprovedRetry(q) ==
  {x \in Requests \ {q} :
     /\ SameTurn(q, x)
     /\ requests[x] # None
     /\ requests[x].inter = "approval_granted"
     /\ run[x] = "DEFER"}

(* findGatewayRequestRecordForInterpositionRetry: any earlier request of   *)
(* this turn.                                                              *)
EarlierOfTurn(q) == {x \in Requests \ {q} : SameTurn(q, x) /\ requests[x] # None}

(* How a retry is answered, from the record that the lookup returned. *)
ObserveStage(record) ==
  IF record.state \notin {"completed", "failed", "rejected", "timed_out"}
  THEN "observeOpen"
  ELSE IF record.event THEN "observeEnded" ELSE "observeLost"

(* A listing skips the files it cannot read. *)
Lookup(q) ==
  LET tool == plan[q].kind = "tool"
      matches == IF tool THEN ApprovedRetry(q) ELSE EarlierOfTurn(q)
  IN /\ At(q, "lookup")
     /\ \/ \E x \in matches :
             /\ found' = [found EXCEPT ![q] = x]
             /\ Goto(q, IF tool THEN "run" ELSE ObserveStage(requests[x]))
        \/ /\ \A x \in matches : Torn(q, "request", x)
           /\ Goto(q, "run")
           /\ UNCHANGED found
     /\ Unwritten
     /\ UNCHANGED <<run, went, forwarded>>

(* updateGatewayRequestRecordRetryObservation reads the earlier file again *)
(* and rewrites it.                                                        *)
Observe(q) ==
  \E stage \in DOMAIN AnswerOfRetry :
    /\ Update(q, stage, "request", found[q], requests[found[q]], FALSE,
              AnswerOfRetry[stage])
    /\ UNCHANGED found

(* createRuntimeRun.  A run that is created has completed; a run that      *)
(* fails is an error answer.                                               *)
CreateRun(q) ==
  /\ At(q, "run")
  /\ \/ \E d \in Decisions :
          /\ run' = [run EXCEPT ![q] = d]
          /\ Goto(q, IF found[q] # None /\ d = "ALLOW" THEN "consumeHold" ELSE "record")
     \/ Goto(q, "error") /\ UNCHANGED run
  /\ Unwritten
  /\ UNCHANGED <<found, went, forwarded>>

(* The approval a tool call carried is marked consumed after its run. *)
ConsumeHold(q) ==
  /\ UpdateHold(q, "consumeHold", plan[found[q]].hold, "approval_consumed", FALSE,
                "consumeRequest")
  /\ UNCHANGED found
ConsumeRequest(q) ==
  Lifecycle(q, "consumeRequest", found[q], "approval_consumed", FALSE, "record")

(* buildGatewayResult of a completed run. *)
FirstRecord(d) ==
  [state |-> CASE d = "ALLOW" -> "completed" [] d = "DENY" -> "rejected"
               [] d = "DEFER" -> "deferred",
   inter |-> CASE d = "ALLOW" -> "completed" [] d = "DENY" -> "failed"
               [] d = "DEFER" -> "held_pending_approval",
   event |-> FALSE]

(* Only DEFER asks for approval: ALLOW and DENY go on to the upstream. *)
WriteRecord(q) ==
  /\ At(q, "record")
  /\ saving' = [saving EXCEPT ![q] = WriteTo("request", q, FirstRecord(run[q]), TRUE)]
  /\ Goto(q, IF run[q] = "DEFER" THEN "hold"
             ELSE CASE plan[q].kind = "tool" -> "ok"
                    [] plan[q].kind = "socket" -> "announce"
                    [] plan[q].kind = "http" -> "forward")
  /\ UNCHANGED <<run, found, went, fileVars, forwarded>>

(* The hold is written whatever is in the file of its id. *)
WriteHold(q) ==
  /\ At(q, "hold")
  /\ saving' = [saving EXCEPT ![q] = WriteTo("hold", plan[q].hold,
       [owner |-> q, state |-> "held_pending_approval"], TRUE)]
  /\ Goto(q, IF plan[q].kind = "tool" THEN "ok" ELSE "waiting")
  /\ UNCHANGED <<run, found, went, fileVars, forwarded>>

(* What a waiting request answers, by the state its hold resolved into.    *)
(* Nobody resolves a hold as completed or failed while its only request    *)
(* waits; a request that shares it may.                                    *)
Resolutions == [approval_granted |-> "resume", approval_denied |-> "denied",
                timed_out |-> "timedOut", completed |-> "error", failed |-> "error"]

PollHoldAnyResolution(q) ==   \* slip: every resolution resumes the request
  LET hold == holds[plan[q].hold] IN
  /\ At(q, "waiting")
  /\ \/ /\ hold # None /\ hold.state \in DOMAIN Resolutions
        /\ Goto(q, "resume")
     \/ /\ hold # None /\ hold.state \notin DOMAIN Resolutions /\ hold.owner \in late
        /\ Goto(q, "expireHold")
  /\ Unwritten
  /\ UNCHANGED <<run, found, went, forwarded>>

(* waitForCompatibilityHoldResolution: a resolution in the file counts     *)
(* before the deadline does, and the deadline is the file's.               *)
PollHold(q) ==
  LET hold == holds[plan[q].hold] IN
  /\ At(q, "waiting")
  /\ \/ /\ hold # None /\ hold.state \in DOMAIN Resolutions
        /\ Goto(q, Resolutions[hold.state])
     \/ /\ hold # None /\ hold.state \notin DOMAIN Resolutions /\ hold.owner \in late
        /\ Goto(q, "expireHold")
     \/ Goto(q, "error") /\ Unreadable(q, "hold", plan[q].hold)
  /\ Unwritten
  /\ UNCHANGED <<run, found, went, forwarded>>

(* markGatewayHoldTimedOut: the hold file, then the file of the request    *)
(* the hold names.                                                         *)
ExpireHold(q) ==
  LET h == plan[q].hold IN
  /\ UpdateHold(q, "expireHold", h, "timed_out", TRUE, "expireRequest")
  /\ found' = IF holds[h] # None THEN [found EXCEPT ![q] = holds[h].owner] ELSE found
ExpireRequest(q) ==
  Lifecycle(q, "expireRequest", found[q], "timed_out", TRUE, "timedOut")

ResumeAsCompleted(q) ==   \* slip: the record completes before it is forwarded
  Lifecycle(q, "resume", q, "completed", TRUE,
            IF plan[q].kind = "socket" THEN "announce" ELSE "forward")

Resume(q) ==
  Lifecycle(q, "resume", q, "resumed_forwarding", TRUE,
            IF plan[q].kind = "socket" THEN "announce" ELSE "forward")

Announce(q) == Lifecycle(q, "announce", q, "forwarding", TRUE, "forward")

(* forwardCompatibility: a failure may come before or after the upstream   *)
(* saw the request.                                                        *)
Forward(q) ==
  /\ At(q, "forward") /\ plan[q].kind = "http"
  /\ \E result \in {"ok", "failed"} :
       /\ went' = [went EXCEPT ![q] = result]
       /\ \/ forwarded' = forwarded \cup {q}
          \/ result = "failed" /\ UNCHANGED forwarded
  /\ Goto(q, "finishRequest")
  /\ Unwritten
  /\ UNCHANGED <<run, found>>

(* The websocket: dialling or the first frame fails, or frames are passed  *)
(* on until one end closes, which may be never.                            *)
Proxy(q) ==
  /\ At(q, "forward") /\ plan[q].kind = "socket"
  /\ \/ /\ went' = [went EXCEPT ![q] = "failed"]
        /\ forwarded' \in {forwarded, forwarded \cup {q}}
        /\ Goto(q, "finishRequest")
     \/ \E result \in {"ok", "failed", "closed"} :
          /\ went' = [went EXCEPT ![q] = result]
          /\ forwarded' = forwarded \cup {q}
          /\ Goto(q, "trace")
  /\ Unwritten
  /\ UNCHANGED <<run, found>>

Answer(q) == IF went[q] = "ok" THEN "ok" ELSE "upstreamError"
Outcome(q) == IF went[q] = "ok" THEN "completed" ELSE "failed"

(* updateGatewayRequestRecordWebsocketTrace rewrites the file as it is; a  *)
(* websocket that was only closed is not finished.  Completion always has  *)
(* a terminal event, failure may have one.                                 *)
AfterTrace(q) ==
  CASE went[q] = "ok"     -> {"keepEvent"}
    [] went[q] = "failed" -> {"keepEvent", "finishRequest"}
    [] went[q] = "closed" -> {Answer(q)}

Trace(q) ==
  /\ At(q, "trace")
  /\ \E next \in AfterTrace(q) :
       Update(q, "trace", "request", q, requests[q], FALSE, next)
  /\ UNCHANGED found

(* The terminal event a retry is answered with. *)
KeepEvent(q) ==
  /\ Update(q, "keepEvent", "request", q, [requests[q] EXCEPT !.event = TRUE],
            FALSE, "finishRequest")
  /\ UNCHANGED found

(* Only the HTTP handler finishes the hold file as well. *)
FinishRequest(q) ==
  Lifecycle(q, "finishRequest", q, Outcome(q), FALSE,
            IF plan[q].kind = "http" /\ run[q] = "DEFER" THEN "finishHold" ELSE Answer(q))
FinishHold(q) ==
  /\ UpdateHold(q, "finishHold", plan[q].hold, Outcome(q), FALSE, Answer(q))
  /\ UNCHANGED found

Handler(q) ==
  /\ \/ Lookup(q) \/ Observe(q) \/ CreateRun(q)
     \/ ConsumeHold(q) \/ ConsumeRequest(q)
     \/ WriteRecord(q) \/ WriteHold(q) \/ PollHold(q)
     \/ ExpireHold(q) \/ ExpireRequest(q)
     \/ Resume(q) \/ Announce(q) \/ Forward(q)
     \/ Trace(q) \/ KeepEvent(q) \/ FinishRequest(q) \/ FinishHold(q)
  /\ UNCHANGED <<plan, late, resolving, events>>

-----------------------------------------------------------------------------
(* The desktop application *)

ResolvedState(verdict) ==
  IF verdict = "APPROVE" THEN "approval_granted" ELSE "approval_denied"

(* ResolveGatewayHoldRecord: read the hold, write it resolved.  Its state  *)
(* is not looked at.                                                       *)
ResolveHold(o, h, verdict) ==
  /\ resolving[o] = None /\ saving[o] = None
  /\ holds[h] # None
  /\ Disturb
  /\ resolving' = [resolving EXCEPT ![o] = [owner |-> holds[h].owner, verdict |-> verdict]]
  /\ saving' = [saving EXCEPT ![o] = WriteTo("hold", h,
       [holds[h] EXCEPT !.state = ResolvedState(verdict)], TRUE)]
  /\ UNCHANGED <<plan, handlerVars, fileVars, late>>

(* Then the file of the request the hold names, best effort; Result.State  *)
(* is left as it was read.                                                 *)
ResolveRequest(o) ==
  LET q == resolving[o].owner IN
  /\ resolving[o] # None /\ saving[o] = None
  /\ resolving' = [resolving EXCEPT ![o] = None]
  /\ \/ /\ requests[q] # None
        /\ saving' = [saving EXCEPT ![o] = WriteTo("request", q,
             [requests[q] EXCEPT !.inter = ResolvedState(resolving[o].verdict)], FALSE)]
     \/ Unreadable(o, "request", q) /\ UNCHANGED saving
  /\ UNCHANGED <<plan, handlerVars, fileVars, late, events>>

-----------------------------------------------------------------------------
(* The status endpoint *)

(* handleGovernedActionByID rebuilds the result from the run, as if the    *)
(* request had just been made, and writes the file back.                   *)
Status(p, q) ==
  /\ saving[p] = None
  /\ requests[q] # None
  /\ Disturb
  /\ saving' = [saving EXCEPT ![p] = WriteTo("request", q,
       [FirstRecord(run[q]) EXCEPT !.event = requests[q].event], FALSE)]
  /\ UNCHANGED <<plan, handlerVars, fileVars, late, resolving>>

-----------------------------------------------------------------------------
(* Environment *)

(* The deadline of the hold q wrote passes; nobody but a waiting handler   *)
(* looks.                                                                  *)
Expire(q) ==
  /\ q \notin late
  /\ \E x \in Requests :
       At(x, "waiting") /\ holds[plan[x].hold] # None /\ holds[plan[x].hold].owner = q
  /\ late' = late \cup {q}
  /\ UNCHANGED <<plan, handlerVars, fileVars, saving, resolving, events>>

(* The client of a waiting request goes away; that of a websocket is not   *)
(* missed while it waits.                                                  *)
Cancel(q) ==
  /\ At(q, "waiting") /\ plan[q].kind = "http"
  /\ Disturb
  /\ Goto(q, "gone")
  /\ Unwritten
  /\ UNCHANGED <<plan, run, found, went, late, resolving, forwarded>>

(* The gateway process dies: its handlers end, and a file it was writing   *)
(* is left as it was, or empty.                                            *)
Crash ==
  /\ Disturb
  /\ pc' = [q \in Requests |-> IF pc[q] \in Stages \ {"new"} THEN "gone" ELSE pc[q]]
  /\ saving' = [a \in Actors |-> IF a \in Operators THEN saving[a] ELSE None]
  /\ MayEmpty({saving[a] : a \in Requests \cup Pollers} \ {None})
  /\ UNCHANGED <<plan, run, found, went, late, resolving, forwarded, claimed, resolved>>

Agent(q)    == Arrive(q) /\ UNCHANGED <<plan, late, resolving, events>>
Upstream(q) == Proxy(q)  /\ UNCHANGED <<plan, late, resolving, events>>

Next ==
  \/ \E q \in Requests : Agent(q) \/ Handler(q) \/ Upstream(q) \/ Expire(q) \/ Cancel(q)
  \/ \E o \in Operators, h \in Holds, v \in Verdicts : ResolveHold(o, h, v)
  \/ \E o \in Operators : ResolveRequest(o)
  \/ \E p \in Pollers, q \in Requests : Status(p, q)
  \/ \E a \in Actors : Save(a) \/ SaveFails(a)
  \/ Crash

Spec == Init /\ [][Next]_vars

-----------------------------------------------------------------------------
(* Properties *)

TypeOK ==
  /\ plan \in [Requests -> Plan]
  /\ pc \in [Requests -> Stages \cup Answers]
  /\ run \in [Requests -> Decisions \cup {None}]
  /\ found \in [Requests -> Requests \cup {None}]
  /\ went \in [Requests -> {"ok", "failed", "closed", None}]
  /\ requests \in [Requests -> Record \cup {None}]
  /\ holds \in [Holds -> Hold \cup {None}]
  /\ late \subseteq Requests
  /\ saving \in [Actors -> Write \cup {None}]
  /\ resolving \in [Operators -> Resolution \cup {None}]
  /\ events \in 0..MaxEvents
  /\ forwarded \subseteq Requests
  /\ claimed \subseteq Requests
  /\ resolved \in [Requests -> SUBSET Verdicts]

(* A request whose run was deferred reaches the upstream only if an        *)
(* operator's approval was written to its hold file after the request had  *)
(* written it, whoever else rewrites the files meanwhile and whichever     *)
(* requests share the hold (localhost_gateway.go:668-728).                 *)
HeldForwardedOnlyIfGranted ==
  \A q \in forwarded : run[q] = "DEFER" => "APPROVE" \in resolved[q]

(* The request file of a deferred request says completed only if the       *)
(* upstream has it; a hold file, only if the upstream has a deferred       *)
(* request of its id: although status requests, resolutions, retries and   *)
(* requests that share the hold rewrite them from copies read earlier      *)
(* (localhost_gateway.go:745-757).                                         *)
FilesClaimOnlyWhatHappened ==
  /\ \A q \in Requests :
       run[q] = "DEFER" /\ requests[q] # None /\ requests[q].state = "completed"
         => q \in forwarded
  /\ \A h \in Holds : holds[h] # None /\ holds[h].state = "completed" =>
       \E q \in forwarded : plan[q].hold = h /\ run[q] = "DEFER"

(* A tool call that carries an approval into its run carries one that an   *)
(* operator granted, for a call of the same key (localhost_gateway_mcp.go: *)
(* 434-487).                                                               *)
ToolApprovalWasGranted ==
  \A q \in Requests : plan[q].kind = "tool" /\ found[q] # None =>
    "APPROVE" \in resolved[found[q]] /\ SameTurn(q, found[q])

=============================================================================

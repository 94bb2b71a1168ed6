---------------------------- MODULE ToolProposal ----------------------------
(***************************************************************************)
(* The tool proposals of one session: a worker's turn offers them, an      *)
(* operator decides those that need a review, the runtime executes what    *)
(* was approved and hands the result to the worker, whose next turn may    *)
(* offer more (internal/runtime/api_v1alpha2.go, m16_linking.go,           *)
(* managed_worker_resume.go).                                              *)
(*                                                                         *)
(* A proposal has no row.  What is known of it is read back from the       *)
(* session's events, of which the last wins: an offer makes it PENDING,    *)
(* and the event that a decision appends when everything else is done      *)
(* makes it decided.  Until then the command runs, the worker takes a      *)
(* turn, and what that turn offers may be run as well, all inside one HTTP *)
(* call.  todo[h] is the work that call still has to do.                   *)
(*                                                                         *)
(* Abstracted: payloads and the normalisation of commands, evidence rows,  *)
(* the rows of task and worker, the events nobody reads back, and the run  *)
(* behind a governed action (RunPipeline).  A lookup sees every event of   *)
(* the session; the code reads the first 1000.                             *)
(***************************************************************************)
EXTENDS Naturals, Sequences, FiniteSets, SequencesExt

CONSTANTS
  Handlers,    \* requests that may be under way at the same time
  Commands,    \* proposals to execute: permitted commands, governed actions
  Invalid,     \* commands the terminal policy refuses, actions no run can be made of
  Advisory,    \* proposals of another type or without a command
  AutoRouted,  \* governed actions that need no operator
  Requested,   \* proposals whose ids derive from the invocation's request id
  MaxMishaps   \* bound: overlapping requests, lost writes and failures

Reviewed == Commands \cup Invalid \cup Advisory
Proposals == Reviewed \cup AutoRouted

ASSUME KindsAssumption ==
  /\ Commands \cap Invalid = {} /\ Advisory \cap (Commands \cup Invalid) = {}
  /\ AutoRouted \cap Reviewed = {} /\ Requested \subseteq Proposals
ASSUME FiniteAssumption == IsFiniteSet(Proposals)
ASSUME BoundAssumption == MaxMishaps \in Nat

-----------------------------------------------------------------------------
(* Values *)

Terminal == {"COMPLETED", "FAILED", "CANCELLED", "BLOCKED"}

(* READY stands for PENDING and AWAITING_WORKER as well: no step below     *)
(* tells them apart.                                                       *)
SessionStatus ==
  {"none", "READY", "RUNNING", "AWAITING_APPROVAL"} \cup Terminal

ActionStatus == {"none", "AUTHORIZED", "STARTED", "COMPLETED", "FAILED"}

(* What findSessionToolProposal makes of the session's events. *)
Standing == {"none", "PENDING", "APPROVE", "DENY", "AUTO"}

Task ==
       [do : {"open", "attach", "promote", "continue"}]
  \cup [do : {"turn"}, first : BOOLEAN]
  \cup [do : {"mark"}, failed : BOOLEAN, offers : SUBSET Proposals]
  \cup [do : {"offer"}, offers : SUBSET Proposals]
  \cup [do : {"find"}, of : Proposals, verdict : {"APPROVE", "DENY"}]
  \cup [do : {"authorize", "execute", "run"}, of : Proposals]
  \cup [do : {"result"}, of : Proposals, status : {"COMPLETED", "FAILED"}]
  \cup [do : {"decided"}, of : Proposals, verdict : {"APPROVE", "DENY", "AUTO"}]

VARIABLES
  session,   \* the status in the session's row, "none" before there is one
  invoked,   \* the session belongs to an invocation of its worker
  action,    \* action[p]: status in the row of p's tool action
  standing,  \* standing[p]: what the events say of p
  todo,      \* todo[h]: tasks of handler h, innermost call first
  copy,      \* copy[h]: the session's status in its memory
  named,     \* history: proposals a turn has come up with
  approved,  \* history: proposals an operator's approval was accepted for
  starts,    \* history: executions since p was last offered (2: two or more)
  mishaps    \* overlapping requests, lost writes and failures so far

history == <<named, approved, starts>>
vars == <<session, invoked, action, standing, todo, copy, history, mishaps>>

Init ==
  /\ session = "none"
  /\ invoked \in BOOLEAN
  /\ action = [p \in Proposals |-> "none"]
  /\ standing = [p \in Proposals |-> "none"]
  /\ todo = [h \in Handlers |-> <<>>]
  /\ copy = [h \in Handlers |-> "none"]
  /\ named = {}
  /\ approved = {}
  /\ starts = [p \in Proposals |-> 0]
  /\ mishaps = 0

-----------------------------------------------------------------------------
(* The tasks of a handler *)

(* So far requests came one at a time and every write succeeded. *)
calm == mishaps = 0

Mishap == mishaps < MaxMishaps /\ mishaps' = mishaps + 1

Idle == \A h \in Handlers : todo[h] = <<>>

Doing(h, what) == todo[h] # <<>> /\ Head(todo[h]).do = what

(* The task is done, these come before what the handler already has, and   *)
(* this is the status of its session record.                               *)
Then(h, tasks, status) ==
  LET left == tasks \o Tail(todo[h]) IN
  /\ todo' = [todo EXCEPT ![h] = left]
  /\ copy' = [copy EXCEPT ![h] = IF left = <<>> THEN "none" ELSE status]

(* A request that comes while another is under way is a mishap. *)
Alone == IF Idle THEN UNCHANGED mishaps ELSE Mishap

(* A write the handler needs: if it fails the request does (Fail).         *)
(* A write it makes best effort may be lost without notice.                *)
BestEffort(written, same) ==
  \/ written /\ UNCHANGED mishaps
  \/ same /\ Mishap

(* The request is answered with an error, or the process dies. *)
Fail(h) ==
  /\ todo[h] # <<>>
  /\ todo' = [todo EXCEPT ![h] = <<>>]
  /\ copy' = [copy EXCEPT ![h] = "none"]
  /\ Mishap
  /\ UNCHANGED <<session, invoked, action, standing, history>>

Begin(h, tasks) ==
  /\ todo[h] = <<>>
  /\ todo' = [todo EXCEPT ![h] = tasks]
  /\ copy' = [copy EXCEPT ![h] = session]
  /\ Alone

-----------------------------------------------------------------------------
(* Requests *)

(* The worker is invoked with a prompt; the session's id is made of the    *)
(* request's, so that a repeated request finds the session of the first.   *)
Invoke(h) ==
  /\ invoked
  /\ Begin(h, <<[do |-> "open"], [do |-> "attach"], [do |-> "turn", first |-> TRUE]>>)
  /\ UNCHANGED <<session, invoked, action, standing, history>>

(* An operator decides a proposal. *)
Decide(h, p, verdict) ==
  /\ session \notin Terminal \cup {"none"}
  /\ Begin(h, <<[do |-> "find", of |-> p, verdict |-> verdict]>>)
  /\ UNCHANGED <<session, invoked, action, standing, history>>

(* Requests of SessionControl: a session is created and a worker attached; *)
(* a worker's event offers a proposal, under an id of the worker's choice; *)
(* the session is closed (with one terminal status for them all).          *)
Create ==
  /\ session = "none" /\ ~invoked
  /\ session' = "READY"
  /\ Alone
  /\ UNCHANGED <<invoked, action, standing, todo, copy, history>>

Offered(offers) ==
  /\ standing' = [p \in Proposals |-> IF p \in offers THEN "PENDING" ELSE standing[p]]
  /\ starts' = [p \in Proposals |-> IF p \in offers THEN 0 ELSE starts[p]]

WorkerOffers(p) ==
  /\ session # "none"
  /\ Offered({p})
  /\ Alone
  /\ UNCHANGED <<session, invoked, action, todo, copy, named, approved>>

Close ==
  /\ session # "none"
  /\ session' = "CANCELLED"
  /\ Alone
  /\ UNCHANGED <<invoked, action, standing, todo, copy, history>>

-----------------------------------------------------------------------------
(* The worker's turns *)

(* ensureInvokeSession sets the session running, whatever it was, and      *)
(* ensureInvokeWorker writes its copy once more.                           *)
OpenSession(h) ==
  /\ Doing(h, "open") \/ Doing(h, "attach")
  /\ session' = "RUNNING"
  /\ Then(h, <<>>, "RUNNING")
  /\ UNCHANGED <<invoked, action, standing, history, mishaps>>

(* The turn fails, or ends with proposals.  Their ids are made of the      *)
(* request's: the first turn of a repeated request names the same again, a *)
(* continuation has a request id of its own.                               *)
Turn(h) ==
  /\ Doing(h, "turn")
  /\ \E failed \in BOOLEAN,
        offers \in SUBSET (IF Head(todo[h]).first THEN Requested
                         ELSE Proposals \ (Requested \cup named)) :
       /\ failed => offers = {}
       /\ Then(h, <<[do |-> "mark", failed |-> failed, offers |-> offers]>>, copy[h])
       /\ named' = named \cup offers
  /\ UNCHANGED <<session, invoked, action, standing, approved, starts, mishaps>>

(* Governed actions that do not ask for an operator are routed to policy   *)
(* at once; every other proposal waits for one.                            *)
AllAtOnce(offers) == offers   \* slip: operatorApprovalRequired is not looked at

NeedNoOperator(offers) == offers \cap AutoRouted

StatusAfterTurn(failed, offers) ==
  CASE failed                        -> "FAILED"
    [] offers \cap Reviewed # {}     -> "AWAITING_APPROVAL"
    [] NeedNoOperator(offers) # {} /\ offers \cap Reviewed = {} -> "RUNNING"
    [] OTHER                         -> "COMPLETED"

(* markInvokeSessionResult: the session is written, the offers are logged, *)
(* and each that needs no operator is executed, then logged as decided.    *)
AutoTasks(order) ==
  [i \in 1..(2 * Len(order)) |->
     LET p == order[(i + 1) \div 2]
     IN IF i % 2 = 1 THEN [do |-> "execute", of |-> p] ELSE [do |-> "decided", of |-> p, verdict |-> "AUTO"]]

MarkResult(h) ==
  /\ Doing(h, "mark")
  /\ LET turn == Head(todo[h])
         next == StatusAfterTurn(turn.failed, turn.offers) IN
     /\ BestEffort(session' = next, UNCHANGED session)
     /\ \E order \in SetToSeqs(NeedNoOperator(turn.offers)) :
          Then(h, <<[do |-> "offer", offers |-> turn.offers]>> \o AutoTasks(order), next)
  /\ UNCHANGED <<invoked, action, standing, history>>

LogOffers(h) ==
  /\ Doing(h, "offer")
  /\ \E logged \in SUBSET Head(todo[h]).offers :
       /\ Offered(logged)
       /\ IF logged = Head(todo[h]).offers THEN UNCHANGED mishaps ELSE Mishap
  /\ Then(h, <<>>, copy[h])
  /\ UNCHANGED <<session, invoked, action, named, approved>>

-----------------------------------------------------------------------------
(* Decisions *)

(* A proposal that is unknown or decided is answered as such. *)
Known(p) == standing[p] # "none"   \* slip: an earlier decision is not looked at

Undecided(p) == standing[p] = "PENDING"

Decided(p, verdict) == [do |-> "decided", of |-> p, verdict |-> verdict]

ApprovalTasks(p) ==
  <<[do |-> "authorize", of |-> p], [do |-> "promote"], [do |-> "execute", of |-> p],
    Decided(p, "APPROVE")>>

Find(h) ==
  /\ Doing(h, "find")
  /\ LET p == Head(todo[h]).of
         approves == Head(todo[h]).verdict = "APPROVE" IN
     /\ Then(h, CASE ~Undecided(p)                -> <<>>
                  [] Undecided(p) /\ ~approves    -> <<Decided(p, "DENY")>>
                  [] Undecided(p) /\ approves     -> ApprovalTasks(p), copy[h])
     /\ approved' = approved \cup {q \in {p} : Undecided(q) /\ approves}
  /\ UNCHANGED <<session, invoked, action, standing, named, starts, mishaps>>

Authorize(h) ==
  /\ Doing(h, "authorize")
  /\ action' = [action EXCEPT ![Head(todo[h]).of] = "AUTHORIZED"]
  /\ Then(h, <<>>, copy[h])
  /\ UNCHANGED <<session, invoked, standing, history, mishaps>>

Promote(h) ==
  /\ Doing(h, "promote")
  /\ IF copy[h] \in {"READY", "AWAITING_APPROVAL"}
     THEN session' = "RUNNING" /\ Then(h, <<>>, "RUNNING")
     ELSE UNCHANGED session /\ Then(h, <<>>, copy[h])
  /\ UNCHANGED <<invoked, action, standing, history, mishaps>>

(* The event that says so comes last, and may be lost. *)
LogDecision(h) ==
  /\ Doing(h, "decided")
  /\ BestEffort(standing' = [standing EXCEPT ![Head(todo[h]).of] = Head(todo[h]).verdict],
                UNCHANGED standing)
  /\ Then(h, <<>>, copy[h])
  /\ UNCHANGED <<session, invoked, action, history>>

-----------------------------------------------------------------------------
(* Execution *)

SaveAction(p, status) ==
  BestEffort(action' = [action EXCEPT ![p] = status], UNCHANGED action)

(* executeApprovedToolProposalAction and executeGovernedActionProposal: an *)
(* advisory proposal is left at AUTHORIZED, an invalid one fails, any      *)
(* other is recorded as started.                                           *)
Execute(h) ==
  /\ Doing(h, "execute")
  /\ LET p == Head(todo[h]).of IN
     \/ /\ p \in Advisory
        /\ Then(h, <<>>, copy[h])
        /\ UNCHANGED <<action, mishaps>>
     \/ /\ p \in Invalid \cup AutoRouted
        /\ SaveAction(p, "FAILED")
        /\ Then(h, <<[do |-> "continue"]>>, copy[h])
     \/ /\ p \in Commands \cup AutoRouted
        /\ SaveAction(p, "STARTED")
        /\ Then(h, <<[do |-> "run", of |-> p]>>, copy[h])
  /\ UNCHANGED <<session, invoked, standing, history>>

(* The command, or the governed run, takes place. *)
Run(h) ==
  /\ Doing(h, "run")
  /\ LET p == Head(todo[h]).of IN
     /\ \E status \in {"COMPLETED", "FAILED"} :
          Then(h, <<[do |-> "result", of |-> p, status |-> status], [do |-> "continue"]>>, copy[h])
     /\ starts' = [starts EXCEPT ![p] = IF @ = 2 THEN 2 ELSE @ + 1]
  /\ UNCHANGED <<session, invoked, action, standing, named, approved, mishaps>>

SaveResult(h) ==
  /\ Doing(h, "result")
  /\ SaveAction(Head(todo[h]).of, Head(todo[h]).status)
  /\ Then(h, <<>>, copy[h])
  /\ UNCHANGED <<session, invoked, standing, history>>

(* With a managed worker the session runs on, whatever it was, for the     *)
(* worker's next turn (continueManagedWorkerWithPlan).                     *)
ContinueWorker(h) ==
  /\ Doing(h, "continue")
  /\ BestEffort(session' = "RUNNING", UNCHANGED session)
  /\ Then(h, <<[do |-> "turn", first |-> FALSE]>>, "RUNNING")
  /\ UNCHANGED <<invoked, action, standing, history>>

Standalone(status) == IF status \in Terminal THEN status ELSE "READY"

ContinueAlone(h) ==
  /\ Doing(h, "continue")
  /\ LET next == Standalone(copy[h]) IN
     /\ IF next = copy[h]
        THEN UNCHANGED <<session, mishaps>>
        ELSE BestEffort(session' = next, UNCHANGED session)
     /\ Then(h, <<>>, next)
  /\ UNCHANGED <<invoked, action, standing, history>>

-----------------------------------------------------------------------------
Request(h) ==
  Invoke(h) \/ \E p \in Proposals, verdict \in {"APPROVE", "DENY"} : Decide(h, p, verdict)

Step(h) ==
  \/ OpenSession(h) \/ Turn(h) \/ MarkResult(h) \/ LogOffers(h)
  \/ Find(h) \/ Authorize(h) \/ Promote(h) \/ LogDecision(h)
  \/ Execute(h) \/ Run(h) \/ SaveResult(h) \/ ContinueWorker(h) \/ ContinueAlone(h)

Next ==
  \/ \E h \in Handlers : Request(h) \/ Step(h) \/ Fail(h)
  \/ Create \/ Close \/ \E p \in Proposals : WorkerOffers(p)

Spec == Init /\ [][Next]_vars

-----------------------------------------------------------------------------
(* Properties *)

(* Every value stays what the rows, the events and the handlers can hold. *)
TypeOK ==
  /\ session \in SessionStatus
  /\ invoked \in BOOLEAN
  /\ action \in [Proposals -> ActionStatus]
  /\ standing \in [Proposals -> Standing]
  /\ todo \in [Handlers -> Seq(Task)]
  /\ copy \in [Handlers -> SessionStatus]
  /\ named \subseteq Proposals
  /\ approved \subseteq Proposals
  /\ starts \in [Proposals -> 0..2]
  /\ mishaps \in 0..MaxMishaps

(* Whatever overlaps, is lost, fails or is offered again, nothing that     *)
(* needs an operator has a tool action without one who approved it, nor is *)
(* executed before that action has its row, nor logged as approved before  *)
(* there is both; and only what needs no operator is logged as automatic.  *)
NothingUnapproved ==
  \A p \in Proposals :
    /\ p \in Reviewed /\ action[p] # "none" => p \in approved
    /\ p \in Reviewed /\ starts[p] > 0 => action[p] # "none"
    /\ standing[p] = "APPROVE" => p \in approved /\ action[p] # "none"
    /\ standing[p] = "AUTO" => p \in AutoRouted

Finished == {"COMPLETED", "FAILED"}

(* As long as requests come one at a time and no write is lost, a proposal *)
(* is executed at most once for each time it is offered, never after a     *)
(* denial, and one that is decided has been carried out.                   *)
CalmDecisionsHold ==
  calm => \A p \in Proposals :
            /\ starts[p] < 2
            /\ standing[p] = "DENY" => starts[p] = 0
            /\ standing[p] \in {"APPROVE", "AUTO"} /\ p \notin Advisory => action[p] \in Finished

(* Under the same condition a session is not left running with nobody at   *)
(* work on it, but for an advisory proposal: approving one makes the       *)
(* session run and executes nothing.                                       *)
RunningHasReason ==
  calm /\ Idle /\ session = "RUNNING" => \E p \in Advisory : action[p] = "AUTHORIZED"

(* What holds of the session and its proposals as long as nothing overlaps *)
(* or is lost.                                                             *)
CalmSessionHolds == CalmDecisionsHold /\ RunningHasReason
=============================================================================

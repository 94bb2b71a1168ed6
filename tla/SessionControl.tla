---------------------------- MODULE SessionControl ----------------------------
(***************************************************************************)
(* One session of the v1alpha2 control plane: its row, its approval        *)
(* checkpoints, its workers, its task's status, and the HTTP handlers that *)
(* change them (internal/runtime/api_v1alpha2.go).                         *)
(*                                                                         *)
(* Every handler reads the session row, changes its copy and writes the    *)
(* whole row back; in between it writes another row (a checkpoint or a     *)
(* worker), and afterwards the task's.  There is no transaction and no     *)
(* version check, so handlers that overlap overwrite each other, and one   *)
(* that stops half way leaves the rows it has written.  The task may have  *)
(* other sessions, whose handlers write the task's status as well.         *)
(*                                                                         *)
(* Abstracted: validation, scope and authorization (they only refuse), the *)
(* rows of tool actions and evidence, the org-admin artefacts, and the     *)
(* events every handler appends best effort at its end (SessionEventLog).  *)
(* The tool proposals of managed workers are in ToolProposal.              *)
(***************************************************************************)
EXTENDS Naturals

CONSTANTS
  Handlers,       \* requests that may be under way at the same time
  Checkpoints,    \* approval checkpoints of the session
  Workers,        \* workers attached to it
  NoWorker,       \* the empty worker id
  WorkerReports,  \* statuses a worker event may carry (one without a known status
                  \* leaves the session alone)
  CloseStatuses,  \* statuses a close may ask for
  OtherStatuses   \* statuses another session may give the task

Terminal == {"COMPLETED", "FAILED", "CANCELLED", "BLOCKED"}

WorkerStatus == {"ATTACHED", "READY", "RUNNING", "WAITING", "DETACHED",
                 "BLOCKED", "COMPLETED", "FAILED"}

ASSUME NoWorkerAssumption == NoWorker \notin Workers
ASSUME StatusesAssumption ==
  /\ WorkerReports \subseteq WorkerStatus /\ CloseStatuses \subseteq Terminal
  /\ OtherStatuses \subseteq Terminal \cup {"IN_PROGRESS"}

-----------------------------------------------------------------------------
(* Values *)

SessionStatus ==
  {"PENDING", "READY", "AWAITING_WORKER", "RUNNING", "AWAITING_APPROVAL"} \cup Terminal

TaskStatus == {"NEW", "IN_PROGRESS"} \cup Terminal

Resolved == {"APPROVED", "DENIED", "EXPIRED"}

(* The session row: ended says whether completed_at is set.  Absent is the *)
(* session before it is stored.                                            *)
Row == [status : SessionStatus \cup {"none"}, selected : Workers \cup {NoWorker},
        ended : BOOLEAN]

Absent == [status |-> "none", selected |-> NoWorker, ended |-> FALSE]

Request ==
       [kind : {"create"}]
  \cup [kind : {"checkpoint"}, checkpoint : Checkpoints]
  \cup [kind : {"decision"}, checkpoint : Checkpoints, verdict : {"APPROVED", "DENIED"}]
  \cup [kind : {"attach"}, worker : Workers]
  \cup [kind : {"report"}, worker : Workers, status : WorkerReports]
  \cup [kind : {"action"}, worker : Workers \cup {NoWorker}]
  \cup [kind : {"close"}, status : CloseStatuses]

NoRequest == [kind |-> "none"]

VARIABLES
  session,     \* the session's row
  task,        \* the status in its task's row
  ours,        \* that status was last written for this session
  checkpoint,  \* checkpoint[c]: status in the row, "none" while there is none
  overdue,     \* checkpoints whose expires_at has passed
  worker,      \* worker[w]: status in the row, "none" while there is none
  pc,          \* pc[h]: what handler h does next
  req,         \* req[h]: the request it serves
  copy,        \* copy[h]: the session row as it read it
  seen,        \* seen[h]: the worker's status as it read it
  \* History.
  crossed,     \* handlers under way that were not alone all the while
  calm,        \* so far handlers came one at a time and every write succeeded
  applied      \* checkpoints whose approval has reached the session

rowVars == <<session, task, ours, checkpoint, worker>>
pastVars == <<crossed, calm, applied>>
vars == <<rowVars, overdue, pc, req, copy, seen, pastVars>>

Init ==
  /\ session = Absent
  /\ task = "NEW" /\ ours = FALSE
  /\ checkpoint = [c \in Checkpoints |-> "none"]
  /\ overdue = {}
  /\ worker = [w \in Workers |-> "none"]
  /\ pc = [h \in Handlers |-> "idle"]
  /\ req = [h \in Handlers |-> NoRequest]
  /\ copy = [h \in Handlers |-> Absent]
  /\ seen = [h \in Handlers |-> "none"]
  /\ crossed = {} /\ calm = TRUE
  /\ applied = {}

-----------------------------------------------------------------------------
(* Receiving a request *)

(* A row is created once: its id is made of the clock. *)
Fresh(r) ==
  /\ \A h \in Handlers : req[h] # r
  /\ CASE r.kind = "create"     -> session = Absent
       [] r.kind = "checkpoint" -> session # Absent /\ checkpoint[r.checkpoint] = "none"
       [] r.kind = "attach"     -> session # Absent /\ worker[r.worker] = "none"

FirstStep(r) ==
  CASE r.kind \in {"create", "close"}              -> "session"
    [] r.kind \in {"checkpoint", "attach"}         -> "row"
    [] r.kind \in {"decision", "report", "action"} -> "look"

(* All but the first need the session (getPersistedSessionForWrite). *)
Acceptable(r) ==
  IF r.kind \in {"create", "checkpoint", "attach"} THEN Fresh(r) ELSE session # Absent

Busy == {h \in Handlers : pc[h] # "idle"}

Receive(h, r) ==
  /\ pc[h] = "idle"
  /\ Acceptable(r)
  /\ pc'   = [pc EXCEPT ![h] = FirstStep(r)]
  /\ req'  = [req EXCEPT ![h] = r]
  /\ copy' = [copy EXCEPT ![h] = session]
  /\ crossed' = IF Busy = {} THEN crossed ELSE Busy \cup {h}
  /\ calm' = (calm /\ Busy = {})
  /\ UNCHANGED <<rowVars, overdue, seen, applied>>

(* The handler answers. *)
Answer(h) ==
  /\ pc'   = [pc EXCEPT ![h] = "idle"]
  /\ req'  = [req EXCEPT ![h] = NoRequest]
  /\ copy' = [copy EXCEPT ![h] = Absent]
  /\ seen' = [seen EXCEPT ![h] = "none"]
  /\ crossed' = crossed \ {h}

(* It fails, or the process dies: what it wrote stays, the rest does not   *)
(* happen.  Also the loss of the task update that the decision and close   *)
(* handlers do not check, which is their last write.                       *)
Abort(h) ==
  /\ pc[h] # "idle"
  /\ Answer(h)
  /\ calm' = FALSE
  /\ UNCHANGED <<rowVars, overdue, applied>>

-----------------------------------------------------------------------------
(* Looking up the checkpoint or the worker *)

LookAtUnresolved(h) ==   \* slip: a repeated approval is carried out again
  /\ pc[h] = "look"
  /\ req[h].kind = "decision"
  /\ IF checkpoint[req[h].checkpoint] \in {"PENDING", "APPROVED"}
     THEN /\ pc' = [pc EXCEPT ![h] =
                      IF req[h].checkpoint \in overdue THEN "expire" ELSE "row"]
          /\ UNCHANGED <<req, copy, seen, crossed>>
     ELSE Answer(h)
  /\ UNCHANGED <<rowVars, overdue, calm, applied>>

(* A decision needs a pending checkpoint that is not overdue; a resolved   *)
(* one is answered as a repeat or a conflict.                              *)
LookAtCheckpoint(h) ==
  /\ pc[h] = "look"
  /\ req[h].kind = "decision"
  /\ IF checkpoint[req[h].checkpoint] = "PENDING"
     THEN /\ pc' = [pc EXCEPT ![h] =
                      IF req[h].checkpoint \in overdue THEN "expire" ELSE "row"]
          /\ UNCHANGED <<req, copy, seen, crossed>>
     ELSE Answer(h)
  /\ UNCHANGED <<rowVars, overdue, calm, applied>>

(* A worker event, and a tool action that names a worker, need one that is *)
(* attached to the session.                                                *)
LookAtWorker(h) ==
  /\ pc[h] = "look"
  /\ req[h].kind \in {"report", "action"}
  /\ IF req[h].worker # NoWorker => worker[req[h].worker] # "none"
     THEN /\ pc' = [pc EXCEPT ![h] = IF req[h].kind = "report" THEN "row" ELSE "session"]
          /\ seen' = [seen EXCEPT ![h] =
                        IF req[h].kind = "report" THEN worker[req[h].worker] ELSE "none"]
          /\ UNCHANGED <<req, copy, crossed>>
     ELSE Answer(h)
  /\ UNCHANGED <<rowVars, overdue, calm, applied>>

-----------------------------------------------------------------------------
(* Writing the rows *)

(* The decision came too late: the checkpoint is marked, best effort, and  *)
(* the request refused.                                                    *)
Expire(h) ==
  /\ pc[h] = "expire"
  /\ checkpoint' = [checkpoint EXCEPT ![req[h].checkpoint] = "EXPIRED"]
  /\ Answer(h)
  /\ UNCHANGED <<session, task, ours, worker, overdue, calm, applied>>

(* The checkpoint's or the worker's row, from what was read before. *)
WriteRow(h) ==
  /\ pc[h] = "row"
  /\ LET r == req[h] IN
     \/ /\ r.kind = "checkpoint"
        /\ checkpoint' = [checkpoint EXCEPT ![r.checkpoint] = "PENDING"]
        /\ UNCHANGED worker
     \/ /\ r.kind = "decision"
        /\ checkpoint' = [checkpoint EXCEPT ![r.checkpoint] = r.verdict]
        /\ UNCHANGED worker
     \/ /\ r.kind = "attach"
        /\ worker' = [worker EXCEPT ![r.worker] = "ATTACHED"]
        /\ UNCHANGED checkpoint
     \/ /\ r.kind = "report"
        /\ worker' = IF r.status = seen[h] THEN worker
                     ELSE [worker EXCEPT ![r.worker] = r.status]
        /\ UNCHANGED checkpoint
  /\ pc' = [pc EXCEPT ![h] = "session"]
  /\ UNCHANGED <<session, task, ours, overdue, req, copy, seen, pastVars>>

(* sessionStatusForWorkerStatus *)
StatusForReport(reported, current) ==
  IF current \in Terminal THEN current
  ELSE IF reported \in {"BLOCKED", "COMPLETED", "FAILED"} THEN reported
  ELSE IF current = "AWAITING_APPROVAL" THEN current
  ELSE CASE reported \in {"ATTACHED", "READY"}   -> "READY"
         [] reported \in {"WAITING", "DETACHED"} -> "AWAITING_WORKER"
         [] reported = "RUNNING"                 -> "RUNNING"

(* An approval sets the session going, a denial ends it. *)
AfterDecision(verdict, row) ==
  IF verdict = "DENIED" THEN [row EXCEPT !.status = "BLOCKED", !.ended = TRUE]
  ELSE [row EXCEPT !.status = IF row.selected # NoWorker THEN "READY"
                              ELSE "AWAITING_WORKER"]

AfterAttach(w, row) ==
  [row EXCEPT !.selected = w,
              !.status = IF row.status \in {"PENDING", "AWAITING_WORKER"}
                         THEN "READY" ELSE @]

AfterReport(reported, row) ==
  LET next == StatusForReport(reported, row.status) IN
  [row EXCEPT !.status = next,
              !.ended = IF next # row.status /\ next \in Terminal THEN TRUE ELSE @]

(* A tool action sets a session running that does not wait for an          *)
(* approval.  Left out: actions recorded as already finished, which leave  *)
(* the session alone.                                                      *)
AfterAction(row) ==
  [row EXCEPT !.status = IF @ \in {"PENDING", "READY", "AWAITING_WORKER"}
                         THEN "RUNNING" ELSE @]

(* What the handler makes of the row it read. *)
Changed(r, row) ==
  CASE r.kind = "create"     -> [Absent EXCEPT !.status = "PENDING"]
    [] r.kind = "checkpoint" -> IF row.status \in Terminal THEN row
                                ELSE [row EXCEPT !.status = "AWAITING_APPROVAL"]
    [] r.kind = "decision"   -> AfterDecision(r.verdict, row)
    [] r.kind = "attach"     -> AfterAttach(r.worker, row)
    [] r.kind = "report"     -> AfterReport(r.status, row)
    [] r.kind = "action"     -> AfterAction(row)
    [] r.kind = "close"      -> [row EXCEPT !.status = r.status, !.ended = TRUE]

StatusChanges(h) == Changed(req[h], copy[h]).status # copy[h].status

(* A checkpoint, an attach and a close write the row even when its status  *)
(* stays what it was, and so undo what others have written since; a        *)
(* checkpoint does not touch an ended session.                             *)
Upserts(h) ==
  \/ StatusChanges(h)
  \/ req[h].kind \in {"attach", "close"}
  \/ req[h].kind = "checkpoint" /\ copy[h].status \notin Terminal

Approves(r) == r.kind = "decision" /\ r.verdict = "APPROVED"

WriteSession(h) ==
  /\ pc[h] = "session"
  /\ session' = IF Upserts(h) THEN Changed(req[h], copy[h]) ELSE session
  /\ applied' = IF Approves(req[h]) THEN applied \cup {req[h].checkpoint} ELSE applied
  /\ IF req[h].kind \in {"create", "decision", "close"}
          \/ (req[h].kind = "report" /\ StatusChanges(h))
     THEN pc' = [pc EXCEPT ![h] = "task"] /\ UNCHANGED <<req, copy, seen, crossed>>
     ELSE Answer(h)
  /\ UNCHANGED <<task, ours, checkpoint, worker, overdue, calm>>

TaskStatusForOpen(status) ==   \* slip: a blocked session leaves its task alone
  IF status \in Terminal \ {"BLOCKED"} THEN status ELSE "IN_PROGRESS"

(* taskStatusForSessionStatus, and the same cases spelled out in the other *)
(* handlers.                                                               *)
TaskStatusFor(status) == IF status \in Terminal THEN status ELSE "IN_PROGRESS"

WriteTask(h) ==
  /\ pc[h] = "task"
  /\ task' = TaskStatusFor(Changed(req[h], copy[h]).status)
  /\ ours' = TRUE
  /\ Answer(h)
  /\ UNCHANGED <<session, checkpoint, worker, overdue, calm, applied>>

(* A handler of another session of the task writes the task's status.      *)
OtherSession ==
  /\ task' \in OtherStatuses
  /\ ours' = FALSE
  /\ UNCHANGED <<session, checkpoint, worker, overdue, pc, req, copy, seen, pastVars>>

-----------------------------------------------------------------------------
(* Time passes a pending checkpoint's deadline. *)
Elapse(c) ==
  /\ checkpoint[c] = "PENDING"
  /\ c \notin overdue
  /\ overdue' = overdue \cup {c}
  /\ UNCHANGED <<rowVars, pc, req, copy, seen, pastVars>>

Handle(h) ==
  \/ LookAtCheckpoint(h) \/ LookAtWorker(h) \/ Expire(h)
  \/ WriteRow(h) \/ WriteSession(h) \/ WriteTask(h) \/ Abort(h)

Next ==
  \/ \E h \in Handlers : (\E r \in Request : Receive(h, r)) \/ Handle(h)
  \/ \E c \in Checkpoints : Elapse(c)
  \/ OtherSession

Spec == Init /\ [][Next]_vars

-----------------------------------------------------------------------------
(* Properties *)

TypeOK ==
  /\ session \in Row
  /\ task \in TaskStatus
  /\ checkpoint \in [Checkpoints -> {"none", "PENDING"} \cup Resolved]
  /\ overdue \subseteq Checkpoints
  /\ worker \in [Workers -> {"none"} \cup WorkerStatus]
  /\ pc \in [Handlers -> {"idle", "look", "expire", "row", "session", "task"}]
  /\ req \in [Handlers -> Request \cup {NoRequest}]
  /\ copy \in [Handlers -> Row]
  /\ seen \in [Handlers -> {"none"} \cup WorkerStatus]
  /\ ours \in BOOLEAN /\ calm \in BOOLEAN
  /\ crossed \subseteq Handlers /\ applied \subseteq Checkpoints

(* A session that has ended says when, although handlers write whole rows  *)
(* from copies read earlier (every assignment of CompletedAt).             *)
EndedHasTime == session.status \in Terminal => session.ended

(* The worker a session selects has a row, whatever stops the attach       *)
(* handler half way (api_v1alpha2.go:1404, :1415).                         *)
SelectedIsAttached ==
  session.selected # NoWorker => worker[session.selected] # "none"

(* A resolved checkpoint may be resolved otherwise by an operator who saw  *)
(* it pending, but is never open again (api_v1alpha2.go:1192, :1208).      *)
ResolvedStaysResolved ==
  [][\A c \in Checkpoints :
       checkpoint[c] \in Resolved => checkpoint'[c] \in Resolved]_vars

(* A session leaves PENDING once: no handler, not even one that read it    *)
(* then, writes PENDING back.                                              *)
NeverPendingAgain ==
  [][session.status \notin {"none", "PENDING"} => session'.status # "PENDING"]_vars

(* An ended session is set going again by a handler that no other crosses  *)
(* only to carry out an approval, and once for a checkpoint, whatever      *)
(* handlers that crossed or stopped half way have left behind: a decision  *)
(* that is repeated, a report that comes after the end and a checkpoint    *)
(* asked of an ended session set nothing going                             *)
(* (api_v1alpha2.go:1045, :1192, :1231).                                   *)
ReopenedOncePerApproval ==
  [][\A h \in Handlers \ crossed :
       /\ pc[h] = "session" /\ pc'[h] # "session"
       /\ session.status \in Terminal /\ session'.status \notin Terminal
       => \E c \in applied' \ applied : checkpoint[c] = "APPROVED"]_vars

AtRest == calm /\ \A h \in Handlers : pc[h] = "idle"

(* While requests come one at a time and nothing fails, a session that     *)
(* awaits approval has a checkpoint nobody has decided: a pending one, or  *)
(* one past its deadline that was found expired when somebody tried.  (The *)
(* latter cannot be decided any more: only another checkpoint, a worker's  *)
(* report or a close takes such a session further.)                        *)
AwaitingIsUndecided ==
  AtRest /\ session.status = "AWAITING_APPROVAL" =>
    \E c \in Checkpoints :
      checkpoint[c] = "PENDING" \/ (checkpoint[c] = "EXPIRED" /\ c \in overdue)

(* Likewise a session that is ready has a worker. *)
ReadyHasWorker ==
  AtRest /\ session.status = "READY" => session.selected # NoWorker

(* Likewise the task says what the session says, until another session of  *)
(* the task writes it; although a checkpoint, an attach and a tool action  *)
(* do not write it.                                                        *)
TaskFollowsSession ==
  AtRest /\ ours =>
    task = IF session.status \in Terminal THEN session.status ELSE "IN_PROGRESS"

(* Requests that come singly leave session, checkpoints, workers and task  *)
(* in agreement.                                                           *)
CalmSessionAgrees == AwaitingIsUndecided /\ ReadyHasWorker /\ TaskFollowsSession

(* "workers do not bypass approval checkpoints"                            *)
(* (docs/specs/m16-control-plane-contract-spec.md): a worker's event does  *)
(* not complete or set going a session that awaits a pending approval.     *)
WorkersRespectCheckpoints ==
  [][\A h \in Handlers :
       /\ req[h].kind = "report" /\ pc[h] = "session" /\ pc'[h] # "session"
       /\ session.status = "AWAITING_APPROVAL"
       /\ \E c \in Checkpoints : checkpoint[c] = "PENDING"
       => session'.status \notin {"READY", "RUNNING", "COMPLETED"}]_vars
=============================================================================

----------------------------- MODULE MockSessions -----------------------------
(***************************************************************************)
(* The in-page runtime of the desktop client, its tasks and sessions: what *)
(* the page answers itself in mock mode, and what stands for the runtime   *)
(* behind the operator chat here.  A task has a status and names the       *)
(* session that was touched last; the timeline of a session holds its      *)
(* status, its workers, a copy of the worker that is selected, a copy of   *)
(* the task, its approval checkpoint, its tool actions and its events.     *)
(*                                                                         *)
(* An event is its type and the status its payload carries; its sequence   *)
(* number is its position.  A session has at most one tool proposal and    *)
(* one checkpoint.  Identifiers are numbered in the order they are drawn.  *)
(***************************************************************************)
EXTENDS Naturals, Sequences

CONSTANTS MaxTasks,     \* bound: tasks created
          MaxSessions,  \* bound: sessions created
          MaxEvents     \* bound: events of a session at which workers stop reporting

ASSUME MockBoundsAssumption == {MaxTasks, MaxSessions} \subseteq Nat \ {0} /\ MaxEvents \in Nat

VARIABLES tasks,      \* task -> [status, latest]
          timelines   \* session -> its timeline, or NoTimeline

mockVars == <<tasks, timelines>>

Tasks == 1..MaxTasks
Sessions == 1..MaxSessions
TerminalStatuses == {"COMPLETED", "FAILED", "BLOCKED", "CANCELLED"}
SessionStatuses == TerminalStatuses \cup
  {"PENDING", "READY", "RUNNING", "AWAITING_APPROVAL", "AWAITING_WORKER"}
WorkerStatuses == {"ATTACHED", "READY", "RUNNING", "WAITING", "DETACHED", "BLOCKED", "COMPLETED", "FAILED"}
TaskStatuses == TerminalStatuses \cup {"NEW", "IN_PROGRESS"}
EventTypes == {"session.created", "worker.attached", "worker.status.changed", "session.status.changed",
  "worker.bridge.started", "worker.progress", "worker.heartbeat", "worker.output.delta",
  "tool_proposal.generated", "tool_proposal.decided", "tool_action.authorized", "tool_action.started",
  "tool_action.completed", "evidence.recorded", "approval.requested", "approval.status.changed",
  "session.completed", "session.failed", "session.blocked", "session.cancelled"}

NoTask == [status |-> "none", latest |-> 0]
NoWorker == [id |-> 0, status |-> "none"]
NoTimeline == [task |-> 0, status |-> "none", managed |-> FALSE, workers |-> <<>>, selected |-> NoWorker,
               taskStatus |-> "none", checkpoint |-> "none", actions |-> <<>>, events |-> <<>>]

Event(type, st) == [type |-> type, status |-> st]
Events == [type : EventTypes, status : SessionStatuses \cup WorkerStatuses \cup
             {"none", "AUTHORIZED", "STARTED", "APPROVED", "DENIED", "PENDING"}]

TimelineOK(tl) ==
  /\ tl.task \in Tasks /\ tl.status \in SessionStatuses /\ tl.managed \in BOOLEAN
  /\ tl.workers \in Seq(WorkerStatuses)
  /\ tl.selected.id \in 0..Len(tl.workers) /\ tl.selected.status \in WorkerStatuses \cup {"none"}
  /\ tl.taskStatus \in TaskStatuses
  /\ tl.checkpoint \in {"none", "PENDING", "APPROVED", "DENIED"}
  /\ tl.actions \in Seq({"COMPLETED"})
  /\ tl.events \in Seq(Events)

MockTypeOK ==
  /\ \A t \in Tasks : tasks[t] # NoTask =>
       tasks[t].status \in TaskStatuses /\ tasks[t].latest \in 0..MaxSessions
  /\ \A s \in Sessions : timelines[s] # NoTimeline => TimelineOK(timelines[s])

MockInit == tasks = [t \in Tasks |-> NoTask] /\ timelines = [s \in Sessions |-> NoTimeline]

TaskExists(t) == t \in Tasks /\ tasks[t] # NoTask
SessionExists(s) == s \in Sessions /\ timelines[s] # NoTimeline
NewTask(t) == t \in Tasks /\ tasks[t] = NoTask /\ \A u \in 1..(t - 1) : tasks[u] # NoTask
NewSession(s) == s \in Sessions /\ timelines[s] = NoTimeline /\ \A r \in 1..(s - 1) : timelines[r] # NoTimeline
Changed(a, b, ev) == IF a = b THEN <<>> ELSE <<ev>>

-----------------------------------------------------------------------------
(* Statuses *)

\* The status of a session after one of its workers reported st.
SessionStatusForWorker(st, now) ==
  IF now \in TerminalStatuses THEN now
  ELSE CASE st \in {"ATTACHED", "READY"} -> IF now = "AWAITING_APPROVAL" THEN now ELSE "READY"
         [] st \in {"WAITING", "DETACHED"} -> IF now = "AWAITING_APPROVAL" THEN now ELSE "AWAITING_WORKER"
         [] st = "RUNNING" -> IF now = "AWAITING_APPROVAL" THEN now ELSE "RUNNING"
         [] OTHER -> st

TaskStatusForSession(st, now) ==
  IF st \in TerminalStatuses THEN st ELSE IF st = "PENDING" THEN now ELSE "IN_PROGRESS"

EndEvent(st) ==
  CASE st = "COMPLETED" -> "session.completed" [] st = "FAILED" -> "session.failed"
    [] st = "CANCELLED" -> "session.cancelled" [] OTHER -> "session.blocked"

\* The session s has become tl: the task it copies becomes the task, and s its latest session.
Commit(s, tl) ==
  /\ timelines' = [timelines EXCEPT ![s] = tl]
  /\ tasks' = [tasks EXCEPT ![tl.task] = [status |-> tl.taskStatus, latest |-> s]]

-----------------------------------------------------------------------------
(* Operations *)

CreateTask(t) ==
  /\ NewTask(t)
  /\ tasks' = [tasks EXCEPT ![t] = [status |-> "NEW", latest |-> 0]]
  /\ UNCHANGED timelines

CreateSession(t, s) ==
  /\ TaskExists(t) /\ NewSession(s)
  /\ Commit(s, [NoTimeline EXCEPT !.task = t, !.status = "PENDING", !.managed = TRUE,
                  !.taskStatus = "IN_PROGRESS", !.events = <<Event("session.created", "PENDING")>>])

\* A worker is attached and selected, whatever the session was doing.
AttachWorker(s) ==
  LET tl == timelines[s]
      w == Len(tl.workers) + 1
      now == IF tl.status \in {"PENDING", "AWAITING_WORKER"} THEN "READY" ELSE tl.status
  IN /\ SessionExists(s)
     /\ Commit(s, [tl EXCEPT !.workers = Append(@, "ATTACHED"),
                     !.selected = [id |-> w, status |-> "ATTACHED"], !.status = now,
                     !.taskStatus = TaskStatusForSession(now, @),
                     !.events = @ \o <<Event("worker.attached", "ATTACHED"),
                                       Event("worker.status.changed", "ATTACHED")>>
                                  \o Changed(tl.status, now, Event("session.status.changed", now))])

\* Mutant: the copy of the selected worker keeps the status it was attached with.
WorkerEventUncopied(s, w, type, st) ==
  LET tl == timelines[s]
      now == SessionStatusForWorker(st, tl.status)
  IN /\ SessionExists(s) /\ w \in 1..Len(tl.workers)
     /\ Commit(s, [tl EXCEPT !.workers[w] = st, !.status = now,
                     !.taskStatus = TaskStatusForSession(now, @), !.events = @ \o <<Event(type, st)>>])

\* Worker w reports: its status and the copy of the selected worker follow, then the
\* session unless it has ended, then the task.
WorkerEvent(s, w, type, st) ==
  LET tl == timelines[s]
      now == SessionStatusForWorker(st, tl.status)
      moved == Changed(tl.workers[w], st, Event("worker.status.changed", st))
  IN /\ SessionExists(s) /\ w \in 1..Len(tl.workers)
     /\ Commit(s, [tl EXCEPT !.workers[w] = st,
                     !.selected.status = IF tl.selected.id = w THEN st ELSE @,
                     !.status = now, !.taskStatus = TaskStatusForSession(now, @),
                     !.events = @ \o <<Event(type, st)>>
                       \o (IF type = "worker.status.changed" THEN <<>> ELSE moved)
                       \o Changed(tl.status, now, Event("session.status.changed", now))
                       \o (IF tl.status # now /\ now \in TerminalStatuses
                           THEN <<Event(EndEvent(now), now)>> ELSE <<>>)])

\* A turn: a session that is over when it appears, with its worker, its tool action and
\* its evidence; a managed turn proposes a terminal command.
Invoked(t, managed) ==
  [NoTimeline EXCEPT !.task = t, !.status = "COMPLETED", !.managed = managed, !.workers = <<"COMPLETED">>,
     !.selected = [id |-> 1, status |-> "COMPLETED"], !.taskStatus = "COMPLETED",
     !.actions = <<"COMPLETED">>,
     !.events = <<Event("session.created", "none"), Event("worker.attached", "COMPLETED"),
         IF managed THEN Event("worker.bridge.started", "none")
                    ELSE Event("worker.status.changed", "COMPLETED"),
         Event("worker.output.delta", "none")>>
       \o (IF managed THEN <<Event("tool_proposal.generated", "none")>> ELSE <<>>)
       \o <<Event("tool_action.completed", "COMPLETED"), Event("evidence.recorded", "none"),
            Event("session.completed", "COMPLETED")>>]

InvokeAgent(t, s, managed) == TaskExists(t) /\ NewSession(s) /\ Commit(s, Invoked(t, managed))

\* A turn of the runtime behind the page, which leaves a managed session to its reviewer.
LeftOpen(t) ==
  [Invoked(t, TRUE) EXCEPT !.status = "AWAITING_APPROVAL", !.workers = <<"WAITING">>,
     !.selected.status = "WAITING", !.taskStatus = "IN_PROGRESS", !.actions = <<>>,
     !.events = SubSeq(@, 1, 5)]

InvokeRuntime(t, s) == TaskExists(t) /\ NewSession(s) /\ Commit(s, LeftOpen(t))

Has(tl, type) == \E i \in 1..Len(tl.events) : tl.events[i].type = type
Proposed(s) == Has(timelines[s], "tool_proposal.generated")

\* Mutant: a proposal is never found decided.
DecidedNever(s) == FALSE

Decided(s) == Has(timelines[s], "tool_proposal.decided")

\* An approved command becomes a tool action; a session that was idle runs again.
OnceAuthorized(st) == IF st \in {"PENDING", "READY", "AWAITING_WORKER"} THEN "RUNNING" ELSE st

\* The command runs at once, whatever the session has become.
Executed(st) ==
  <<Event("tool_action.authorized", "AUTHORIZED")>>
    \o Changed(st, OnceAuthorized(st), Event("session.status.changed", OnceAuthorized(st)))
    \o <<Event("tool_action.started", "STARTED"), Event("worker.progress", "RUNNING"),
         Event("tool_action.completed", "COMPLETED"), Event("worker.progress", "RUNNING"),
         Event("evidence.recorded", "none")>>

\* The operator decides the proposal of a session: one that was decided keeps its decision.
DecideProposal(s, approve) ==
  LET tl == timelines[s]
      now == IF approve THEN OnceAuthorized(tl.status) ELSE tl.status
  IN /\ SessionExists(s) /\ Proposed(s)
     /\ IF Decided(s) THEN UNCHANGED mockVars
        ELSE Commit(s, [tl EXCEPT !.status = now,
                !.taskStatus = IF now = tl.status THEN @ ELSE "IN_PROGRESS",
                !.actions = IF approve THEN Append(@, "COMPLETED") ELSE @,
                !.events = @ \o (IF approve THEN Executed(tl.status) ELSE <<>>)
                   \o <<Event("tool_proposal.decided", IF approve THEN "APPROVED" ELSE "DENIED")>>])

\* The operator decides the checkpoint of a session.  The same decision again changes
\* nothing; the other one is taken, also after the session has ended.
DecideCheckpoint(s, approve) ==
  LET tl == timelines[s]
      st == IF approve THEN "APPROVED" ELSE "DENIED"
      now == IF ~approve THEN "BLOCKED" ELSE IF tl.selected.id # 0 THEN "READY" ELSE "AWAITING_WORKER"
  IN /\ SessionExists(s) /\ tl.checkpoint # "none"
     /\ IF tl.checkpoint = st THEN UNCHANGED mockVars
        ELSE Commit(s, [tl EXCEPT !.checkpoint = st, !.status = now,
                !.taskStatus = IF approve THEN "IN_PROGRESS" ELSE "BLOCKED",
                !.events = @ \o <<Event("approval.status.changed", st)>>
                   \o Changed(tl.status, now, Event("session.status.changed", now))
                   \o (IF tl.status # now /\ now = "BLOCKED"
                       THEN <<Event("session.blocked", now)>> ELSE <<>>)])

\* A session is closed, also when it has ended before.
CloseSession(s, st) ==
  /\ SessionExists(s) /\ st \in TerminalStatuses
  /\ Commit(s, [timelines[s] EXCEPT !.status = st, !.taskStatus = st,
                  !.events = @ \o Changed(timelines[s].status, st, Event("session.status.changed", st))
                               \o <<Event(EndEvent(st), st)>>])

\* The runtime asks for an approval (the page's runtime never does by itself).
RequestApproval(s) ==
  /\ SessionExists(s)
  /\ timelines[s].checkpoint = "none" /\ timelines[s].status \in {"READY", "RUNNING"}
  /\ Commit(s, [timelines[s] EXCEPT !.checkpoint = "PENDING", !.status = "AWAITING_APPROVAL",
                  !.events = @ \o <<Event("approval.requested", "PENDING"),
                                    Event("session.status.changed", "AWAITING_APPROVAL")>>])

-----------------------------------------------------------------------------
(* Reads *)

SessionsOf(t) == {s \in Sessions : SessionExists(s) /\ timelines[s].task = t}
EventsAfter(s, n) == SubSeq(timelines[s].events, n + 1, Len(timelines[s].events))

-----------------------------------------------------------------------------
(* Properties *)

\* The page keeps the selected worker twice, in the list and as a copy, and a task in the
\* task list and in each of its timelines.  The copies agree: the selected worker has the
\* status of its entry, and a task says what its latest session says.
CopiesAgree ==
  /\ \A s \in Sessions : SessionExists(s) /\ timelines[s].selected.id # 0 =>
       timelines[s].workers[timelines[s].selected.id] = timelines[s].selected.status
  /\ \A t \in Tasks : TaskExists(t) /\ tasks[t].latest # 0 =>
       LET tl == timelines[tasks[t].latest] IN
         /\ tl.task = t
         /\ tasks[t].status = IF tl.status \in TerminalStatuses THEN tl.status ELSE "IN_PROGRESS"

\* Whichever surfaces decide a proposal, and however often, it is decided once, and a
\* tool action was started for it exactly when that decision approved it.
DecidedOnce ==
  \A s \in Sessions : SessionExists(s) =>
    LET ev == timelines[s].events
        Of(type) == {i \in 1..Len(ev) : ev[i].type = type}
    IN /\ \A i, k \in Of("tool_proposal.decided") : i = k
       /\ \A i, k \in Of("tool_action.started") : i = k
       /\ Of("tool_action.started") # {} <=>
            \E i \in Of("tool_proposal.decided") : ev[i].status = "APPROVED"
=============================================================================

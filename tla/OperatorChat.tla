----------------------------- MODULE OperatorChat -----------------------------
(***************************************************************************)
(* The operator chat of the desktop client.  The page shows one thread: a  *)
(* task and a list of turns, each with the view of its session that was    *)
(* loaded last.  A click starts a handler; a handler waits for the refresh *)
(* of the page, calls the runtime, waits for each answer and then writes   *)
(* the thread.  Handlers interleave at every wait, with each other, with   *)
(* the refresh (one at a time, the next one queued) and with the follow    *)
(* loop, a chain of timers and long polls that reloads the last turn when  *)
(* its session has new events.  A chain carries the token it was started   *)
(* with and stops when the token has moved on.                             *)
(*                                                                         *)
(* Turns with no session come first, as their time is the epoch.  The      *)
(* thread a handler hands to the client is the one shown when the call is  *)
(* made; a handler that fails leaves the thread as it is.                  *)
(***************************************************************************)
EXTENDS MockSessions, SequencesExt, FiniteSets

CONSTANTS Slots,      \* the handlers that may be in flight
          Buttons,    \* the kinds of handlers the operator may start
          ListLimit,  \* the number of tasks the history rail asks for
          MaxClicks,  \* bound: clicks and switches of the view in a behaviour
          MaxOthers   \* bound: tasks of other sources

ASSUME ClicksAssumption == MaxClicks \in Nat
ASSUME ListAssumption == ListLimit \in Nat /\ MaxOthers \in Nat

VARIABLES thread,    \* the thread shown: [task, turns], or NoThread
          archived,  \* the tasks archived by the operator
          others,    \* how many tasks of the scope come from other sources
          history,   \* [items, showArchived, failed]: the history rail
          handlers,  \* slot -> the handler in it, or Idle
          refresh,   \* [phase, queued, listed, failed]: the refresh, and what it has listed
          follow,    \* [token, session, timer]: what the page knows of its follow loop
          chains,    \* the follow chains alive: [token, phase, thread, view]
          visible,   \* whether the page is visible and shows the chat
          clicks     \* how many clicks and switches there have been

chatVars == <<thread, archived, others, history, handlers, refresh, follow, chains, visible, clicks>>
vars == <<tasks, timelines, chatVars>>

NoThread == [task |-> 0, turns |-> <<>>]
NoView == [session |-> 0, status |-> "none", worker |-> NoWorker, managed |-> FALSE, checkpoint |-> "none",
           proposal |-> "none", taskStatus |-> "none", seq |-> 0]
Idle == [kind |-> "none", step |-> "none", thread |-> NoThread, task |-> 0, session |-> 0, worker |-> 0,
         view |-> NoView, yes |-> FALSE]

Turn(s, v) == [session |-> s, view |-> v]

-----------------------------------------------------------------------------
(* Views and threads *)

\* The state of the proposal of a session, read from its events.
ProposalIn(tl) ==
  IF ~Has(tl, "tool_proposal.generated") THEN "none"
  ELSE LET d == SelectSeq(tl.events, LAMBDA e : e.type = "tool_proposal.decided")
       IN IF d = <<>> THEN "PENDING" ELSE Last(d).status

\* What a session shows when it is loaded; a load that fails shows nothing but the
\* events that came with the stream.
ViewOf(s) ==
  LET tl == timelines[s]
  IN [session |-> s, status |-> tl.status, worker |-> tl.selected, managed |-> tl.managed,
      checkpoint |-> tl.checkpoint, proposal |-> ProposalIn(tl), taskStatus |-> tl.taskStatus,
      seq |-> Len(tl.events)]
Loads(s) == {NoView} \cup (IF SessionExists(s) THEN {ViewOf(s)} ELSE {})

\* The session of a turn: what its view says, else what the answer said.
SessionOf(turn) == IF turn.view.session # 0 THEN turn.view.session ELSE turn.session
LastTurn(th) == IF th.turns = <<>> THEN Turn(0, NoView) ELSE Last(th.turns)

\* A turn is resolved when its session or its task is over.
Resolved(v) == v.status \in TerminalStatuses \/ v.taskStatus \in TerminalStatuses

\* What the page derives of its thread: the last turn's session, whether it is over, and
\* whether it should be followed.
Derived(th) ==
  LET t == LastTurn(th)
      s == SessionOf(t)
  IN [session |-> s, seq |-> t.view.seq, follow |-> s # 0 /\ t.view.status \notin TerminalStatuses,
      resolved |-> s # 0 /\ Resolved(t.view)]

\* Turns in the order their sessions were created, keeping the order of equals.
InOrder(turns) ==
  LET f[n \in 0..Len(turns)] ==
        IF n = 0 THEN <<>>
        ELSE LET t == turns[n]
                 later == SelectSeq(f[n - 1], LAMBDA u : SessionOf(u) > SessionOf(t))
                 earlier == SelectSeq(f[n - 1], LAMBDA u : SessionOf(u) <= SessionOf(t))
             IN Append(earlier, t) \o later
  IN f[Len(turns)]

FirstWith(th, s) == {i \in 1..Len(th.turns) : /\ SessionOf(th.turns[i]) = s
                                              /\ \A k \in 1..(i - 1) : SessionOf(th.turns[k]) # s}

\* The turn of a session replaces the one there is; a turn that names no session is
\* added at the end.
Upsert(th, turn) ==
  IF SessionOf(turn) = 0 THEN [th EXCEPT !.turns = Append(@, turn)]
  ELSE [th EXCEPT !.turns = InOrder(
         IF FirstWith(th, SessionOf(turn)) = {} THEN Append(@, turn)
         ELSE [i \in 1..Len(@) |-> IF i \in FirstWith(th, SessionOf(turn)) THEN turn ELSE @[i]])]

\* The view of the first turn of a session is replaced.
Reloaded(th, s, v) ==
  [th EXCEPT !.turns = [i \in 1..Len(@) |->
     IF i \in FirstWith(th, s) THEN Turn(s, v) ELSE @[i]]]

LastReloaded(th, v) ==
  [th EXCEPT !.turns = Append(Front(@), Turn(Derived(th).session, v))]

\* The newest turn with a managed worker whose session is not over, else the newest with
\* a managed worker.
Managed(th) == SelectSeq(InOrder(th.turns), LAMBDA t : t.view.managed)
Active(th) == SelectSeq(Managed(th), LAMBDA t : t.view.status \notin TerminalStatuses)
ManagedContext(th) ==
  IF Active(th) # <<>> THEN Last(Active(th)).view
  ELSE IF Managed(th) # <<>> THEN Last(Managed(th)).view ELSE NoView

LoadedTurn(s) == Turn(s, ViewOf(s))

\* The thread of a task as its sessions say.
LoadedThread(t, failed) ==
  [task |-> t,
   turns |-> LET S == SetToSortSeq(SessionsOf(t) \ failed, <)
             IN [i \in 1..Len(S) |-> LoadedTurn(S[i])]]

ChatTasks == {t \in Tasks : TaskExists(t)}

\* The tasks of the chat among those a listing brings.  The runtime answers with the first
\* ListLimit tasks of the scope, from whatever source, and the page keeps its own: one of
\* them is left out only when the listing is full without it.  Which one is left out
\* depends on the order of the runtime.
Listings == {listed \in SUBSET ChatTasks :
               /\ Cardinality(listed) <= ListLimit
               /\ listed = ChatTasks \/ Cardinality(listed) + others >= ListLimit}

Shown(items, away, all) == IF all THEN items ELSE items \ away

\* A listing that fails leaves an empty rail that has forgotten whether it shows the
\* archived threads.
FailedHistory == [items |-> {}, showArchived |-> FALSE, failed |-> TRUE]

\* What the rail may say when it is read, away being the archive by then.
Histories(away, all) ==
  {FailedHistory} \cup
  {[items |-> Shown(listed, away, all), showArchived |-> all, failed |-> FALSE] : listed \in Listings}

-----------------------------------------------------------------------------
(* The refresh and the follow loop *)

\* The loop is cleared: the token moves on and the timer is cancelled.
Cleared(fo, ch) ==
  [follow |-> [token |-> fo.token + 1, session |-> 0, timer |-> FALSE],
   chains |-> {c \in ch : ~(c.phase = "timer" /\ c.token = fo.token)}]

\* Mutant: the loop is restarted without clearing the one there is.
ReconciledTwice(th, vis, fo, ch) ==
  LET d == Derived(th)
  IN IF ~(vis /\ d.follow) THEN IF fo.timer \/ fo.session # 0 THEN Cleared(fo, ch) ELSE [follow |-> fo, chains |-> ch]
     ELSE [follow |-> [fo EXCEPT !.session = d.session, !.timer = TRUE],
           chains |-> ch \cup {[token |-> fo.token, phase |-> "timer", thread |-> NoThread, view |-> NoView]}]

\* The loop is brought in line with the thread th: it is cleared when there is nothing to
\* follow, left alone when a chain follows the session, restarted otherwise.
Reconciled(th, vis, fo, ch) ==
  LET d == Derived(th)
      c == Cleared(fo, ch)
  IN IF ~(vis /\ d.follow) THEN IF fo.timer \/ fo.session # 0 THEN c ELSE [follow |-> fo, chains |-> ch]
     ELSE IF fo.session = d.session /\ fo.timer THEN [follow |-> fo, chains |-> ch]
     ELSE [follow |-> [c.follow EXCEPT !.session = d.session, !.timer = TRUE],
           chains |-> c.chains \cup {[token |-> c.follow.token, phase |-> "timer",
                                      thread |-> NoThread, view |-> NoView]}]

Busy == refresh.phase # "none"

\* Mutant: a refresh asked for while one runs is forgotten.
KickedLost == IF Busy THEN refresh ELSE [refresh EXCEPT !.phase = "listing"]

\* refresh() is called: it starts, or is queued behind the one that runs.
Kicked == IF Busy THEN [refresh EXCEPT !.queued = TRUE] ELSE [refresh EXCEPT !.phase = "listing"]

\* A caller that awaits it: it waits when the refresh is its own.
Awaiting(next) == IF Busy THEN next ELSE "refreshing"

\* The runtime answers with the tasks there are, as many as were asked for, or fails.
RefreshLists ==
  /\ refresh.phase = "listing"
  /\ \/ \E listed \in Listings :
          refresh' = [refresh EXCEPT !.phase = "ending", !.listed = listed, !.failed = FALSE]
     \/ refresh' = [refresh EXCEPT !.phase = "ending", !.listed = {}, !.failed = TRUE]
  /\ UNCHANGED <<tasks, timelines, thread, archived, others, history, handlers, follow, chains, visible, clicks>>

\* The refresh ends: the history rail shows what was listed, the loop is reconciled,
\* whoever waited for it goes on, and a queued refresh begins.
RefreshEnds ==
  /\ refresh.phase = "ending"
  /\ LET r == Reconciled(thread, visible, follow,
                {IF c.phase = "refreshing" THEN [c EXCEPT !.phase = "again"] ELSE c : c \in chains})
     IN follow' = r.follow /\ chains' = r.chains
  /\ history' = IF refresh.failed THEN FailedHistory
                ELSE [history EXCEPT !.items = Shown(refresh.listed, archived, history.showArchived),
                                     !.failed = FALSE]
  /\ handlers' = [h \in Slots |-> IF handlers[h].step = "refreshing"
                                  THEN [handlers[h] EXCEPT !.step = "call"] ELSE handlers[h]]
  /\ refresh' = [phase |-> IF refresh.queued THEN "listing" ELSE "none", queued |-> FALSE, listed |-> {},
                 failed |-> FALSE]
  /\ UNCHANGED <<tasks, timelines, thread, archived, others, visible, clicks>>

\* A timer fires: the chain polls the session of the last turn, unless its token has moved
\* on or there is nothing to follow; the page keeps believing there is a timer.
TimerFires(c) ==
  /\ c \in chains /\ c.phase = "timer"
  /\ chains' = (chains \ {c}) \cup
       IF c.token = follow.token /\ visible /\ Derived(thread).follow
       THEN {[c EXCEPT !.phase = "polling", !.thread = thread]} ELSE {}
  /\ UNCHANGED <<tasks, timelines, thread, archived, others, history, handlers, refresh, follow, visible, clicks>>

\* The chain goes on after an answer it has no use for, or after its own refresh: it sets
\* its timer again while its token is current and there is something to follow.
Rearmed(c) == IF c.token = follow.token /\ visible /\ Derived(thread).follow
              THEN {[c EXCEPT !.phase = "timer", !.thread = NoThread, !.view = NoView]} ELSE {}

\* The poll times out with no event.
PollEmpty(c) ==
  /\ c \in chains /\ c.phase = "polling"
  /\ chains' = (chains \ {c}) \cup Rearmed(c)
  /\ follow' = IF Rearmed(c) = {} THEN follow ELSE [follow EXCEPT !.timer = TRUE]
  /\ UNCHANGED <<tasks, timelines, thread, archived, others, history, handlers, refresh, visible, clicks>>

\* The poll or the load fails: a warning is shown after a refresh.
PollFails(c) ==
  /\ c \in chains /\ c.phase = "polling"
  /\ IF c.token = follow.token
     THEN /\ chains' = (chains \ {c}) \cup {[c EXCEPT !.phase = Awaiting("again"), !.thread = NoThread]}
          /\ refresh' = Kicked
     ELSE chains' = chains \ {c} /\ UNCHANGED refresh
  /\ UNCHANGED <<tasks, timelines, thread, archived, others, history, handlers, follow, visible, clicks>>

\* There are new events: the session is loaded into the thread the poll began with.
PollAnswers(c) ==
  LET s == Derived(c.thread).session
  IN /\ c \in chains /\ c.phase = "polling"
     /\ SessionExists(s) /\ EventsAfter(s, Derived(c.thread).seq) # <<>>
     /\ \E v \in Loads(s) : chains' = (chains \ {c}) \cup
          {[c EXCEPT !.phase = "loaded", !.view = [v EXCEPT !.seq = Len(timelines[s].events)]]}
     /\ UNCHANGED <<tasks, timelines, thread, archived, others, history, handlers, refresh, follow, visible, clicks>>

\* Mutant: a chain whose token has moved on writes its thread.
FollowWritesLate(c) ==
  /\ c \in chains /\ c.phase = "loaded"
  /\ thread' = LastReloaded(c.thread, c.view)
  /\ chains' = (chains \ {c}) \cup {[c EXCEPT !.phase = Awaiting("again"), !.thread = NoThread, !.view = NoView]}
  /\ refresh' = Kicked
  /\ UNCHANGED <<tasks, timelines, archived, others, history, handlers, follow, visible, clicks>>

\* The loaded thread replaces the one that is shown, while the token is current.
FollowWrites(c) ==
  /\ c \in chains /\ c.phase = "loaded"
  /\ IF c.token # follow.token THEN chains' = chains \ {c} /\ UNCHANGED <<thread, refresh>>
     ELSE /\ thread' = LastReloaded(c.thread, c.view)
          /\ chains' = (chains \ {c}) \cup
               {[c EXCEPT !.phase = Awaiting("again"), !.thread = NoThread, !.view = NoView]}
          /\ refresh' = Kicked
  /\ UNCHANGED <<tasks, timelines, archived, others, history, handlers, follow, visible, clicks>>

FollowAgain(c) ==
  /\ c \in chains /\ c.phase = "again"
  /\ chains' = (chains \ {c}) \cup Rearmed(c)
  /\ follow' = IF Rearmed(c) = {} THEN follow ELSE [follow EXCEPT !.timer = TRUE]
  /\ UNCHANGED <<tasks, timelines, thread, archived, others, history, handlers, refresh, visible, clicks>>

FollowLoop(c) == \/ TimerFires(c) \/ PollEmpty(c) \/ PollFails(c) \/ PollAnswers(c)
                 \/ FollowWrites(c) \/ FollowAgain(c)

\* The page is hidden or shown, or another workspace is opened: the loop is reconciled.
SwitchView ==
  /\ clicks < MaxClicks /\ clicks' = clicks + 1
  /\ visible' = ~visible
  /\ LET r == Reconciled(thread, ~visible, follow, chains) IN follow' = r.follow /\ chains' = r.chains
  /\ UNCHANGED <<tasks, timelines, thread, archived, others, history, handlers, refresh>>

-----------------------------------------------------------------------------
(* Clicks that only change the page *)

\* What every click does: it is counted, and the page is refreshed.
Clicked == clicks < MaxClicks /\ clicks' = clicks + 1
Page == <<tasks, timelines>>

\* The thread is put away: the follow loop is cleared with it.
ClearThread ==
  LET c == Cleared(follow, chains)
  IN thread' = NoThread /\ follow' = c.follow /\ chains' = c.chains

\* Reset the thread, or close its view.
ResetThread ==
  /\ Clicked /\ thread # NoThread
  /\ ClearThread /\ refresh' = Kicked
  /\ UNCHANGED <<Page, archived, others, history, handlers, visible>>

\* The archive of the project: a task is in it or not.
SetArchived(t, yes) == archived' = IF yes THEN archived \cup {t} ELSE archived \ {t}

\* A listed thread that is over is archived; when it is the one shown it is put away.
ArchiveThread(t) ==
  /\ Clicked /\ t \in history.items \ archived /\ tasks[t].status \in TerminalStatuses
  /\ SetArchived(t, TRUE)
  /\ IF thread.task = t THEN ClearThread ELSE UNCHANGED <<thread, follow, chains>>
  /\ history' \in Histories(archived', history.showArchived)
  /\ refresh' = Kicked
  /\ UNCHANGED <<Page, others, handlers, visible>>

RestoreThread(t) ==
  /\ Clicked /\ t \in history.items \cap archived
  /\ SetArchived(t, FALSE)
  /\ history' \in Histories(archived', history.showArchived)
  /\ refresh' = Kicked
  /\ UNCHANGED <<Page, others, thread, handlers, follow, chains, visible>>

ToggleArchived ==
  /\ Clicked
  /\ history' \in Histories(archived, ~history.showArchived)
  /\ refresh' = Kicked
  /\ UNCHANGED <<Page, others, thread, archived, handlers, follow, chains, visible>>

-----------------------------------------------------------------------------
(* Handlers: click, refresh, calls, write *)

\* A click puts a handler into a free slot and awaits the refresh.
Begin(h, handler) ==
  /\ Clicked /\ handlers[h] = Idle
  /\ handlers' = [handlers EXCEPT ![h] = [handler EXCEPT !.step = Awaiting("call")]]
  /\ refresh' = Kicked
  /\ UNCHANGED <<Page, others, thread, archived, history, visible>>

ClickThread(h) ==
  \E kind \in {"start", "send", "launch", "heartbeat", "reattach", "recover", "close", "reload", "threads"} :
    /\ kind \in Buttons /\ (kind = "start" <=> thread = NoThread)
    /\ kind = "reload" => Derived(thread).session # 0
    /\ \E yes \in IF kind = "send" THEN BOOLEAN ELSE {TRUE} :
         Begin(h, [Idle EXCEPT !.kind = kind, !.yes = yes,
                          !.session = IF kind = "reload" THEN Derived(thread).session ELSE 0])
    /\ UNCHANGED <<follow, chains>>

\* A new thread is started from one that is over; the follow loop is cleared at once.
ClickFollowUp(h) ==
  LET c == Cleared(follow, chains)
  IN /\ thread # NoThread /\ Derived(thread).resolved
     /\ Begin(h, [Idle EXCEPT !.kind = "start"])
     /\ follow' = c.follow /\ chains' = c.chains

ClickResume(h, t) ==
  /\ "resume" \in Buttons /\ t \in history.items
  /\ Begin(h, [Idle EXCEPT !.kind = "resume", !.task = t])
  /\ UNCHANGED <<follow, chains>>

ShowsProposal(v) == v.proposal = "PENDING"
ShowsCheckpoint(v) == v.checkpoint = "PENDING"

\* A proposal or a checkpoint that a turn shows as pending is decided.
ClickDecide(h) ==
  \E i \in 1..Len(thread.turns), kind \in {"proposal", "checkpoint"}, yes \in BOOLEAN :
    LET v == thread.turns[i].view
    IN /\ IF kind = "proposal" THEN ShowsProposal(v) ELSE ShowsCheckpoint(v)
       /\ Begin(h, [Idle EXCEPT !.kind = kind, !.session = v.session, !.yes = yes])
       /\ UNCHANGED <<follow, chains>>

Click(h) == \/ ClickThread(h) \/ ClickFollowUp(h) \/ ClickDecide(h)
            \/ \E t \in Tasks : ClickResume(h, t)

Unwritten == <<thread, archived, others, history, follow, chains, visible, clicks>>
Goes(h, handler) == handlers' = [handlers EXCEPT ![h] = handler] /\ UNCHANGED <<refresh, Unwritten>>

\* Something went wrong: an error is shown, the page is refreshed and the thread stays.
Fails(h) ==
  /\ handlers[h].step \notin {"none", "refreshing", "load", "write", "history"}
  /\ handlers' = [handlers EXCEPT ![h] = Idle] /\ refresh' = Kicked
  /\ UNCHANGED <<Page, Unwritten>>

\* The task is created; then it is the thread.
CallStart(h) ==
  LET me == handlers[h]
  IN /\ me.kind = "start" /\ me.step = "call"
     /\ \E t \in Tasks : CreateTask(t) /\ Goes(h, [me EXCEPT !.step = "write", !.thread.task = t])

CallResume(h) ==
  LET me == handlers[h]
  IN /\ me.kind = "resume" /\ me.step = "call"
     /\ \E failed \in SUBSET SessionsOf(me.task) :
          Goes(h, [me EXCEPT !.step = "write", !.thread = LoadedThread(me.task, failed)])
     /\ UNCHANGED Page

CallThreads(h) ==
  LET me == handlers[h]
  IN /\ me.kind = "threads" /\ me.step = "call"
     /\ Goes(h, [me EXCEPT !.step = "history"])
     /\ UNCHANGED Page

\* The turn is invoked on the task of the thread that is shown by then.
CallSend(h) ==
  LET me == handlers[h]
  IN /\ me.kind = "send" /\ me.step = "call" /\ thread # NoThread
     /\ \E s \in Sessions :
          /\ InvokeAgent(thread.task, s, me.yes) \/ (me.yes /\ InvokeRuntime(thread.task, s))
          /\ Goes(h, [me EXCEPT !.step = "load", !.session = s, !.task = thread.task])

\* What a managed-worker handler does first: a launch goes on with the worker there is, a
\* reattachment attaches another to the session, a recovery starts another session.
FirstStep(kind, v) ==
  CASE kind = "heartbeat" -> "beat" [] kind = "close" -> "close"
    [] kind = "recover" \/ v.session = 0 -> "session"
    [] kind = "reattach" \/ v.worker.id = 0 -> "attach"
    [] OTHER -> "bridge"

\* The managed-worker handlers take the thread that is shown, and the session and the
\* worker of its managed turn.
CallManaged(h) ==
  LET me == handlers[h]
      v == ManagedContext(thread)
      live == Active(thread) # <<>>
  IN /\ me.step = "call" /\ me.kind \in {"launch", "heartbeat", "reattach", "recover", "close"}
     /\ thread # NoThread
     /\ me.kind \in {"heartbeat", "reattach", "close"} => live
     /\ Goes(h, [me EXCEPT !.thread = thread,
                   !.session = IF me.kind = "recover" THEN 0 ELSE v.session,
                   !.worker = IF me.kind \in {"recover", "reattach"} THEN 0 ELSE v.worker.id,
                   !.step = FirstStep(me.kind, v)])
     /\ UNCHANGED Page

StepSession(h) ==
  LET me == handlers[h]
  IN /\ me.step = "session"
     /\ \E s \in Sessions : CreateSession(me.thread.task, s)
                            /\ Goes(h, [me EXCEPT !.step = "attach", !.session = s])

StepAttach(h) ==
  LET me == handlers[h]
  IN /\ me.step = "attach"
     /\ AttachWorker(me.session)
     /\ Goes(h, [me EXCEPT !.step = "bridge", !.worker = Len(timelines[me.session].workers) + 1])

\* The bridge of the worker is reported, then its progress.
StepReport(h) ==
  LET me == handlers[h]
  IN \/ /\ me.step = "bridge"
        /\ WorkerEvent(me.session, me.worker, "worker.bridge.started", "READY")
        /\ Goes(h, [me EXCEPT !.step = "progress"])
     \/ /\ me.step = "progress"
        /\ WorkerEvent(me.session, me.worker, "worker.progress", "RUNNING")
        /\ Goes(h, [me EXCEPT !.step = "load"])

StepBeat(h) ==
  LET me == handlers[h]
  IN /\ me.step = "beat"
     /\ WorkerEvent(me.session, me.worker, "worker.heartbeat", "RUNNING")
     /\ Goes(h, [me EXCEPT !.step = "load"])

StepClose(h) ==
  LET me == handlers[h]
  IN /\ me.step = "close"
     /\ CloseSession(me.session, "CANCELLED")
     /\ Goes(h, [me EXCEPT !.step = "load"])

CallProposal(h) ==
  LET me == handlers[h]
  IN /\ me.step = "call" /\ me.kind = "proposal"
     /\ DecideProposal(me.session, me.yes)
     /\ Goes(h, [me EXCEPT !.step = "reload"])

CallCheckpoint(h) ==
  LET me == handlers[h]
  IN /\ me.step = "call" /\ me.kind = "checkpoint"
     /\ DecideCheckpoint(me.session, me.yes)
     /\ Goes(h, [me EXCEPT !.step = "reload"])

\* The answer is there: the thread that is shown now is the one the reload works on.
StepReload(h) ==
  LET me == handlers[h]
  IN /\ (me.step = "reload" \/ (me.kind = "reload" /\ me.step = "call"))
     /\ Goes(h, [me EXCEPT !.thread = thread,
                   !.step = IF FirstWith(thread, me.session) # {} THEN "load" ELSE "history"])
     /\ UNCHANGED Page

\* The session is loaded; a load that fails is a view that says so.
StepLoad(h) ==
  LET me == handlers[h]
  IN /\ me.step = "load"
     /\ \E v \in Loads(me.session) : Goes(h, [me EXCEPT !.step = "write", !.view = v])
     /\ UNCHANGED Page

LaunchTurn(me) == Turn(me.view.session, me.view)

\* The thread a handler leaves.  A sent turn goes to the thread that is shown by now; the
\* others put back the thread they worked on.
Written(me) ==
  CASE me.kind \in {"start", "resume"} -> me.thread
    [] me.kind = "send" -> [thread EXCEPT !.turns = Append(@, Turn(me.session, me.view))]
    [] me.kind \in {"proposal", "checkpoint", "reload"} ->
Reloaded(me.thread, me.session, me.view)
    [] OTHER -> Upsert(me.thread, LaunchTurn(me))

\* The thread is written, or, when a turn comes back to no thread, nothing is.
Write(h) ==
  LET me == handlers[h]
      lost == me.kind = "send" /\ thread = NoThread
      rereads == me.kind \notin {"resume", "heartbeat", "reattach"} /\ ~lost
                 /\ (me.kind = "reload" => Derived(Written(me)).resolved)
  IN /\ me.step = "write"
     /\ thread' = IF lost THEN thread ELSE Written(me)
     /\ IF rereads THEN handlers' = [handlers EXCEPT ![h].step = "history"] /\ UNCHANGED refresh
        ELSE handlers' = [handlers EXCEPT ![h] = Idle] /\ refresh' = Kicked
     /\ UNCHANGED <<Page, archived, others, history, follow, chains, visible, clicks>>

\* The history is read again, the page refreshed, and the handler is over.
ReadHistory(h) ==
  /\ handlers[h].step = "history"
  /\ history' \in Histories(archived, history.showArchived)
  /\ handlers' = [handlers EXCEPT ![h] = Idle] /\ refresh' = Kicked
  /\ UNCHANGED <<Page, others, thread, archived, follow, chains, visible, clicks>>

Handler(h) == \/ CallStart(h) \/ CallResume(h) \/ CallThreads(h) \/ CallSend(h) \/ CallManaged(h) \/ StepSession(h)
              \/ StepAttach(h) \/ StepReport(h) \/ StepBeat(h) \/ StepClose(h) \/ CallProposal(h)
              \/ CallCheckpoint(h) \/ StepReload(h) \/ StepLoad(h) \/ Write(h) \/ ReadHistory(h)

-----------------------------------------------------------------------------
(* The rest of the runtime *)

\* Workers and other clients go on by themselves: another surface decides a proposal too.
Elsewhere ==
  /\ \E s \in Sessions :
       /\ SessionExists(s) /\ Len(timelines[s].events) < MaxEvents
       /\ \/ RequestApproval(s)
          \/ \E yes \in BOOLEAN : DecideProposal(s, yes)
          \/ CloseSession(s, "COMPLETED") /\ timelines[s].status \notin TerminalStatuses
          \/ \E w \in 1..Len(timelines[s].workers), st \in {"WAITING", "BLOCKED"} :
               /\ timelines[s].workers[w] # st
               /\ WorkerEvent(s, w, "worker.status.changed", st)
  /\ UNCHANGED chatVars

\* The runtime workspace of the same page closes a session, ended or not, attaches a worker
\* to it, or reports for one of its workers.  It looks at the record of the last refresh, so
\* that a worker may be there by now; a refresh follows unless the reply is lost.
RuntimeOpsClose(s) == CloseSession(s, "CANCELLED")
RuntimeOpsAttach(s) == AttachWorker(s)
RuntimeOpsReport(s) ==
  \E w \in 1..Len(timelines[s].workers), type \in {"worker.bridge.started", "worker.heartbeat"} :
    WorkerEvent(s, w, type, "RUNNING")

RuntimeOps(s) ==
  /\ Clicked /\ SessionExists(s) /\ Len(timelines[s].events) < MaxEvents
  /\ RuntimeOpsClose(s) \/ RuntimeOpsAttach(s) \/ RuntimeOpsReport(s)
  /\ refresh' \in {refresh, Kicked}
  /\ UNCHANGED <<thread, archived, others, history, handlers, follow, chains, visible>>

\* Another surface adds a task to the scope that is not of the chat.
OthersCreate == others < MaxOthers /\ others' = others + 1
  /\ UNCHANGED <<tasks, timelines, thread, archived, history, handlers, refresh, follow, chains, visible, clicks>>

\* The page opens and refreshes itself, on an empty runtime or on a thread that an earlier
\* visit brought to its end and perhaps archived.
Init ==
  /\ \/ MockInit /\ archived = {}
     \/ /\ tasks = [t \in Tasks |-> IF t = 1 THEN [status |-> "COMPLETED", latest |-> 1] ELSE NoTask]
        /\ timelines = [s \in Sessions |-> IF s = 1 THEN Invoked(1, TRUE) ELSE NoTimeline]
        /\ archived \in SUBSET {1}
  /\ others = 0
  /\ thread = NoThread /\ history = [items |-> {}, showArchived |-> FALSE, failed |-> FALSE]
  /\ handlers = [h \in Slots |-> Idle]
  /\ refresh = [phase |-> "listing", queued |-> FALSE, listed |-> {},
                 failed |-> FALSE]
  /\ follow = [token |-> 0, session |-> 0, timer |-> FALSE]
  /\ chains = {} /\ visible = TRUE /\ clicks = 0

Next ==
  \/ RefreshLists \/ RefreshEnds \/ SwitchView \/ ResetThread \/ ToggleArchived
  \/ Elsewhere \/ OthersCreate
  \/ \E t \in Tasks : ArchiveThread(t) \/ RestoreThread(t)
  \/ \E s \in Sessions : RuntimeOps(s)
  \/ \E c \in chains : FollowLoop(c)
  \/ \E h \in Slots : Click(h) \/ Handler(h) \/ Fails(h)

Spec == Init /\ [][Next]_vars

-----------------------------------------------------------------------------
(* Properties *)

Views == [session : 0..MaxSessions, status : SessionStatuses \cup {"none"}, managed : BOOLEAN,
          worker : [id : Nat, status : WorkerStatuses \cup {"none"}],
          checkpoint : {"none", "PENDING", "APPROVED", "DENIED"},
          proposal : {"none", "PENDING", "APPROVED", "DENIED"},
          taskStatus : TaskStatuses \cup {"none"}, seq : Nat]
Threads == [task : 0..MaxTasks, turns : Seq([session : 0..MaxSessions, view : Views])]

ChatTypeOK ==
  /\ MockTypeOK
  /\ thread \in Threads /\ archived \subseteq Tasks
  /\ others \in 0..MaxOthers
  /\ history \in [items : SUBSET Tasks, showArchived : BOOLEAN, failed : BOOLEAN]
  /\ \A h \in Slots : /\ handlers[h].thread \in Threads /\ handlers[h].view \in Views
                       /\ handlers[h].task \in 0..MaxTasks /\ handlers[h].session \in 0..MaxSessions
  /\ refresh \in [phase : {"none", "listing", "ending"}, queued : BOOLEAN, listed : SUBSET Tasks,
                  failed : BOOLEAN]
  /\ follow \in [token : Nat, session : 0..MaxSessions, timer : BOOLEAN]
  /\ \A c \in chains : /\ c.token \in 0..follow.token /\ c.thread \in Threads /\ c.view \in Views
                       /\ c.phase \in {"timer", "polling", "loaded", "refreshing", "again"}
  /\ visible \in BOOLEAN /\ clicks \in 0..MaxClicks

\* At most one chain of timers and polls is current: a session is never polled twice at a
\* time, however often the view is switched and the thread replaced while a poll is out.
OneFollower == Cardinality({c \in chains : c.token = follow.token}) <= 1

\* A thread that the operator has put away is never brought back by a poll that was out:
\* only a handler that the operator started fills an empty chat.
OnlyHandlersOpenThreads ==
  [][thread = NoThread /\ thread' # NoThread => \E h \in Slots : handlers[h].step = "write" /\ handlers'[h] # handlers[h]]_vars

\* When nothing is going on and the rail does not say that it failed, it shows a whole
\* listing of the tasks there are, except the archived ones: every task of the chat, unless
\* the listing was full without it.  A refresh that listed the tasks too early was followed
\* by another.
QuietHistoryIsCurrent ==
  ~Busy /\ (\A h \in Slots : handlers[h] = Idle) /\ ~history.failed =>
    \E listed \in Listings : history.items = Shown(listed, archived, history.showArchived)
=============================================================================

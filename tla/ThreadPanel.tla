----------------------------- MODULE ThreadPanel -----------------------------
(***************************************************************************)
(* The review panel of a thread in the VS Code client.  The panel loads    *)
(* the sessions of the thread one timeline after the other, follows the    *)
(* session that is selected by long polls, submits decisions and turns,    *)
(* and draws what it holds.  Loads, polls and submissions overlap.         *)
(*                                                                         *)
(* The runtime changes the records of a session first and appends the      *)
(* event of the change afterwards; a timeline reads the records first and  *)
(* the events afterwards.                                                  *)
(***************************************************************************)
EXTENDS Naturals, Sequences, FiniteSets

CONSTANTS ThreadSessions,      \* the sessions of the thread
          NoSession,     \* none is selected
          Jobs,          \* the loads and submissions that may be out together
          MaxChanges,    \* (bound) the changes of a session
          MaxFollows     \* (bound) how often following starts or stops

ASSUME PanelAssumption == MaxChanges \in Nat /\ MaxFollows \in Nat /\ NoSession \notin ThreadSessions

VARIABLES story,      \* session -> the changes of its records so far
          appended,   \* session -> how many of them have their event
          panel,      \* [open, version, views, selected, generation, timer]
          page,       \* what is drawn: [kind, session, asks]
          polls,      \* generation -> the call its follower waits for
          jobs,       \* job -> the load or submission that is out
          told,       \* (history) the decisions the operator was told are recorded
          slipped     \* (history) whether a view has taken events its records do not show

panelVars == <<story, appended, panel, page, polls, jobs, told, slipped>>

Kinds == {"asked", "approved", "denied", "worked", "ended"}
Larger(a, b) == IF a > b THEN a ELSE b

\* rec: the changes its records show; known: the last event of its timeline; stream: the
\* last event that was streamed to it.
NoPanelView == [there |-> FALSE, rec |-> 0, known |-> 0, stream |-> 0]
View(rec, known) == [there |-> TRUE, rec |-> rec, known |-> known, stream |-> 0]
PanelViews == [there : BOOLEAN, rec : 0..MaxChanges, known : 0..MaxChanges, stream : 0..MaxChanges]

NoPoll == [phase |-> "none"]
PollStates == {NoPoll} \cup [phase : {"stream", "timeline"}, session : ThreadSessions, version : 0..MaxFollows,
                             after : 0..MaxChanges, since : 0..MaxChanges]
NoJob == [kind |-> "none"]
Decisions == {"approved", "denied"}
JobStates == {NoJob}
  \cup [kind : {"load"}, phase : {"listing", "reading"}, mine : BOOLEAN, todo : SUBSET ThreadSessions,
        views : [ThreadSessions -> PanelViews]]
  \cup [kind : {"decide"}, phase : {"sent", "checked", "recorded", "refused"}, mine : BOOLEAN,
        session : ThreadSessions, decision : Decisions]
  \cup [kind : {"turn"}, phase : {"sent", "done"}, mine : BOOLEAN, session : ThreadSessions]
Pages == [kind : {"none", "error", "thread"}, session : ThreadSessions \cup {NoSession}, asks : BOOLEAN]

PanelTypeOK ==
  /\ story \in [ThreadSessions -> Seq(Kinds)]
  /\ \A s \in ThreadSessions : appended[s] <= Len(story[s]) /\ Len(story[s]) <= appended[s] + 1
  /\ panel \in [open : BOOLEAN, version : 0..MaxFollows, views : [ThreadSessions -> PanelViews],
                selected : ThreadSessions \cup {NoSession}, generation : 0..MaxFollows, timer : 0..MaxFollows]
  /\ page \in Pages
  /\ polls \in [1..MaxFollows -> PollStates] /\ jobs \in [Jobs -> JobStates]
  /\ told \subseteq ThreadSessions \X Decisions /\ slipped \in BOOLEAN

Closed == [open |-> FALSE, version |-> 0, views |-> [s \in ThreadSessions |-> NoPanelView], selected |-> NoSession,
           generation |-> 0, timer |-> 0]
NoPage == [kind |-> "none", session |-> NoSession, asks |-> FALSE]

PanelInit ==
  /\ story = [s \in ThreadSessions |-> <<>>] /\ appended = [s \in ThreadSessions |-> 0]
  /\ panel = Closed /\ page = NoPage
  /\ polls = [g \in 1..MaxFollows |-> NoPoll] /\ jobs = [j \in Jobs |-> NoJob]
  /\ told = {} /\ slipped = FALSE

-----------------------------------------------------------------------------
(* The runtime *)

There == {s \in ThreadSessions : Len(story[s]) > 0}
Changes(s, n) == {story[s][i] : i \in 1..n}

\* The last of the changes so far that is one of these.
LastOf(s, n, kinds) ==
  LET which == {i \in 1..n : story[s][i] \in kinds}
  IN IF which = {} THEN "none" ELSE story[s][CHOOSE i \in which : \A k \in which : k <= i]

Terminal(s, n) == LastOf(s, n, {"approved", "denied", "ended"}) \in {"denied", "ended"}
Status(s, n) ==
  LET last == LastOf(s, n, {"asked", "approved", "denied"}) IN IF last = "asked" THEN "pending" ELSE last

\* The records of a session change; its event is appended by a step of its own.
Change(s, kind) ==
  /\ appended[s] = Len(story[s]) /\ Len(story[s]) < MaxChanges
  /\ story' = [story EXCEPT ![s] = Append(@, kind)]

\* Workers and other clients go on.
Happens(s, kind) ==
  /\ kind \notin Decisions => ~Terminal(s, Len(story[s]))
  /\ kind = "asked" => Status(s, Len(story[s])) = "none"
  /\ kind \in Decisions => Status(s, Len(story[s])) = "pending"
  /\ Change(s, kind)
  /\ UNCHANGED <<appended, panel, page, polls, jobs, told, slipped>>

AppendsEvent(s) ==
  /\ appended[s] < Len(story[s])
  /\ appended' = [appended EXCEPT ![s] = @ + 1]
  /\ UNCHANGED <<story, panel, page, polls, jobs, told, slipped>>

AcceptsAny(s, decision) ==   \* Mutant: a checkpoint that is resolved is answered like one that is not
  Status(s, Len(story[s])) # "none"

\* The decision of a checkpoint: it is recorded, or was the same before, or is refused.
Accepts(s, decision) == Status(s, Len(story[s])) \in {"pending", decision}

-----------------------------------------------------------------------------
(* What the panel shows and follows *)

Known(view) == Larger(view.known, view.stream)

\* selectedSessionView: the selected session, or one that is there; the first of the list.
ShownIn(p) ==
  LET there == {s \in ThreadSessions : p.views[s].there}
  IN IF p.selected \in there THEN p.selected ELSE IF there = {} THEN NoSession ELSE CHOOSE s \in there : TRUE

\* The buttons of a decision are drawn as long as the records of the view ask for one.
Asks(p, s) == s # NoSession /\ Status(s, p.views[s].rec) = "pending"

Drawn(p) == [kind |-> "thread", session |-> ShownIn(p), asks |-> Asks(p, ShownIn(p))]

\* A turn of the loop of a follower: a long poll for what comes after the last event known,
\* unless the records of the session shown are terminal.
LoopTurn(p, g) ==
  LET s == ShownIn(p)
  IN IF s = NoSession \/ (s # NoSession /\ Terminal(s, p.views[s].rec)) THEN polls
     ELSE [polls EXCEPT ![g] = [phase |-> "stream", session |-> s, version |-> p.version,
                                after |-> Known(p.views[s]), since |-> 0]]

\* stopFollow: the timer is cleared and a poll that is out belongs to the past.
Stopped(p) == [p EXCEPT !.generation = @ + 1, !.timer = 0]

\* startFollow, once the panel has become p.
Follows(p) ==
  /\ p.generation < MaxFollows
  /\ panel' = Stopped(p)
  /\ polls' = LoopTurn(Stopped(p), p.generation + 1)

PanelTimerFires ==
  /\ panel.timer # 0
  /\ panel' = [panel EXCEPT !.timer = 0]
  /\ polls' = LoopTurn(panel, panel.timer)
  /\ UNCHANGED <<story, appended, page, jobs, told, slipped>>

RearmedPanelAlways(p, g) ==   \* Mutant: the generation is not compared after the call
  [p EXCEPT !.timer = g]

\* A follower of an earlier generation ends with its call; the current one is armed again.
RearmedPanel(p, g) == IF g = p.generation THEN [p EXCEPT !.timer = g] ELSE p

\* What is streamed is put into the view the loop captured, which may have been replaced.
WithView(p, poll, view) ==
  IF poll.version = p.version THEN [p EXCEPT !.views[poll.session] = view] ELSE p

StreamAloneAnswers(g) ==   \* Mutant: the timeline is not fetched again
  LET poll == polls[g]
      view == panel.views[poll.session]
  IN /\ poll.phase = "stream"
     /\ \E upTo \in (poll.after + 1)..appended[poll.session] :
          panel' = RearmedPanel(WithView(panel, poll, [view EXCEPT !.stream = Larger(@, upTo)]), g)
     /\ polls' = [polls EXCEPT ![g] = NoPoll]
     /\ page' = Drawn(panel')
     /\ UNCHANGED <<story, appended, jobs, told, slipped>>

\* The stream answers with events: the timeline is asked for next.
StreamAnswers(g) ==
  LET poll == polls[g]
      view == panel.views[poll.session]
  IN /\ poll.phase = "stream"
     /\ \E upTo \in (poll.after + 1)..appended[poll.session] :
          /\ panel' = WithView(panel, poll, [view EXCEPT !.stream = Larger(@, upTo)])
          /\ polls' = [polls EXCEPT ![g] = [@ EXCEPT !.phase = "timeline", !.after = upTo,
                                                      !.since = Len(story[poll.session])]]
     /\ UNCHANGED <<story, appended, page, jobs, told, slipped>>

\* A poll ends with nothing, or with an error that nobody is told of.
StreamEmpty(g) ==
  /\ polls[g].phase = "stream"
  /\ panel' = RearmedPanel(panel, g)
  /\ polls' = [polls EXCEPT ![g] = NoPoll]
  /\ UNCHANGED <<story, appended, page, jobs, told, slipped>>

\* What a timeline may hold that was asked for when the records had changed `since' times
\* and `after' events were there: its records are read before its events.
Timelines(s, since, after) ==
  {t \in [rec : since..Len(story[s]), known : after..appended[s]] : t.known + 1 >= t.rec}

\* The timeline replaces that of the view, and the panel is drawn, whichever follower asked.
TimelineAnswers(g) ==
  LET poll == polls[g]
      view == panel.views[poll.session]
  IN /\ poll.phase = "timeline"
     /\ \E t \in Timelines(poll.session, poll.since, poll.after) :
          /\ panel' = RearmedPanel(WithView(panel, poll, [view EXCEPT !.rec = t.rec, !.known = t.known]), g)
          /\ slipped' = (slipped \/ (poll.version = panel.version /\ t.rec < Larger(t.known, Known(view))))
     /\ polls' = [polls EXCEPT ![g] = NoPoll]
     /\ page' = IF panel.open THEN Drawn(panel') ELSE page
     /\ UNCHANGED <<story, appended, jobs, told>>

\* The timeline fails: what was streamed stays in the view, and will not be asked for again.
TimelineFails(g) ==
  LET poll == polls[g]
  IN /\ poll.phase = "timeline"
     /\ panel' = RearmedPanel(panel, g)
     /\ polls' = [polls EXCEPT ![g] = NoPoll]
     /\ slipped' = (slipped \/ poll.version = panel.version)
     /\ UNCHANGED <<story, appended, page, jobs, told>>

-----------------------------------------------------------------------------
(* Loads *)

LoadJob == [kind |-> "load", phase |-> "listing", mine |-> TRUE, todo |-> {},
            views |-> [s \in ThreadSessions |-> NoPanelView]]

Free(j) == jobs[j] = NoJob

\* The thread is opened: the panel there is revealed, or a new one is made; both load.
CreateOrShow(j) ==
  /\ Free(j)
  /\ jobs' = [jobs EXCEPT ![j] = LoadJob]
  /\ \/ panel.open /\ UNCHANGED <<panel, page>>
     \/ ~panel.open /\ panel' = [panel EXCEPT !.open = TRUE] /\ page' = NoPage
  /\ UNCHANGED <<story, appended, polls, told, slipped>>

\* The sessions are listed; their timelines follow one by one.
LoadLists(j) ==
  /\ jobs[j].kind = "load" /\ jobs[j].phase = "listing"
  /\ jobs' = [jobs EXCEPT ![j] = [@ EXCEPT !.phase = "reading", !.todo = There]]
  /\ UNCHANGED <<story, appended, panel, page, polls, told, slipped>>

\* One that is read while the records change may hold the event and not the change.
LoadReads(j, s) ==
  LET job == jobs[j]
  IN /\ job.kind = "load" /\ job.phase = "reading" /\ s \in job.todo
     /\ \E rec \in {Len(story[s])} \cup {n \in 0..MaxChanges : n + 1 = appended[s]} :
          jobs' = [jobs EXCEPT ![j] = [job EXCEPT !.todo = @ \ {s}, !.views[s] = View(rec, appended[s])]]
     /\ UNCHANGED <<story, appended, panel, page, polls, told, slipped>>

\* The panel shows what the load has brought, keeps its session if that is still there, and
\* follows it.  A panel that is gone refuses to be drawn.
LoadAnswers(j) ==
  LET job == jobs[j]
      p == [panel EXCEPT !.version = @ + 1, !.views = job.views]
      next == [p EXCEPT !.selected = ShownIn(p)]
  IN /\ job.kind = "load" /\ job.phase = "reading" /\ job.todo = {}
     /\ jobs' = [jobs EXCEPT ![j] = NoJob]
     /\ IF job.mine
        THEN /\ Follows(next) /\ page' = Drawn(next)
             /\ slipped' = (slipped \/ \E s \in ThreadSessions : job.views[s].rec < job.views[s].known)
        ELSE UNCHANGED <<panel, page, polls, slipped>>
     /\ UNCHANGED <<story, appended, told>>

\* A load or a submission that fails is drawn instead of the thread, which is followed further.
ShowsError(j) ==
  /\ jobs' = [jobs EXCEPT ![j] = NoJob]
  /\ page' = IF jobs[j].mine THEN [NoPage EXCEPT !.kind = "error"] ELSE page
  /\ UNCHANGED <<story, appended, panel, polls, told, slipped>>

JobFails(j) == ~Free(j) /\ ShowsError(j)

-----------------------------------------------------------------------------
(* The operator *)

Refresh(j) == panel.open /\ page.kind = "thread" /\ CreateOrShow(j)

FocusSession(s) ==
  LET next == [panel EXCEPT !.selected = s]
  IN /\ page.kind = "thread" /\ panel.views[s].there
     /\ Follows(next) /\ page' = Drawn(next)
     /\ UNCHANGED <<story, appended, jobs, told, slipped>>

\* A button that was drawn names its checkpoint, whatever the panel shows by now.
PanelDecision(j, decision) ==
  /\ Free(j) /\ page.kind = "thread" /\ page.asks
  /\ jobs' = [jobs EXCEPT ![j] = [kind |-> "decide", phase |-> "sent", mine |-> TRUE,
                                   session |-> page.session, decision |-> decision]]
  /\ UNCHANGED <<story, appended, panel, page, polls, told, slipped>>

\* The runtime reads the checkpoint and writes it back later: another decision may be
\* recorded between.
PanelDecisionServed(j) ==
  LET job == jobs[j]
      pending == Status(job.session, Len(story[job.session])) = "pending"
  IN /\ job.kind = "decide" /\ job.phase = "sent"
     /\ jobs' = [jobs EXCEPT ![j].phase = IF ~Accepts(job.session, job.decision) THEN "refused"
                                         ELSE IF pending THEN "checked" ELSE "recorded"]
     /\ UNCHANGED <<story, appended, panel, page, polls, told, slipped>>

PanelDecisionWritten(j) ==
  /\ jobs[j].kind = "decide" /\ jobs[j].phase = "checked"
  /\ Change(jobs[j].session, jobs[j].decision)
  /\ jobs' = [jobs EXCEPT ![j].phase = "recorded"]
  /\ UNCHANGED <<appended, panel, page, polls, told, slipped>>

\* The operator is told, the session of the decision is selected, and the thread is loaded.
PanelDecisionAnswers(j) ==
  LET job == jobs[j]
  IN /\ job.kind = "decide" /\ job.phase = "recorded"
     /\ told' = told \cup {<<job.session, job.decision>>}
     /\ panel' = IF job.mine THEN [panel EXCEPT !.selected = job.session] ELSE panel
     /\ jobs' = [jobs EXCEPT ![j] = [LoadJob EXCEPT !.mine = job.mine]]
     /\ UNCHANGED <<story, appended, page, polls, slipped>>

PanelDecisionRefused(j) == jobs[j].kind = "decide" /\ jobs[j].phase = "refused" /\ ShowsError(j)

\* A turn is sent on the task of the thread: it opens a session, or goes on in one.
SendGovernedTurn(j) ==
  /\ Free(j) /\ page.kind = "thread"
  /\ \E s \in ThreadSessions :
       jobs' = [jobs EXCEPT ![j] = [kind |-> "turn", phase |-> "sent", mine |-> TRUE, session |-> s]]
  /\ UNCHANGED <<story, appended, panel, page, polls, told, slipped>>

TurnServed(j) ==
  /\ jobs[j].kind = "turn" /\ jobs[j].phase = "sent"
  /\ ~Terminal(jobs[j].session, Len(story[jobs[j].session])) /\ Change(jobs[j].session, "worked")
  /\ jobs' = [jobs EXCEPT ![j].phase = "done"]
  /\ UNCHANGED <<appended, panel, page, polls, told, slipped>>

TurnAnswers(j) ==
  LET job == jobs[j]
  IN /\ job.kind = "turn" /\ job.phase = "done"
     /\ panel' = IF job.mine THEN [panel EXCEPT !.selected = job.session] ELSE panel
     /\ jobs' = [jobs EXCEPT ![j] = [LoadJob EXCEPT !.mine = job.mine]]
     /\ UNCHANGED <<story, appended, page, polls, told, slipped>>

\* The panel is closed: its follower stops, and what is out is answered to nobody.
Dispose ==
  /\ panel.open /\ panel.generation < MaxFollows /\ panel.version < MaxFollows
  /\ panel' = [Closed EXCEPT !.version = panel.version + 1, !.generation = panel.generation + 1]
  /\ page' = NoPage
  /\ jobs' = [j \in Jobs |-> IF Free(j) THEN NoJob ELSE [jobs[j] EXCEPT !.mine = FALSE]]
  /\ UNCHANGED <<story, appended, polls, told, slipped>>

PanelNext ==
  \/ \E s \in ThreadSessions : AppendsEvent(s) \/ FocusSession(s) \/ \E kind \in Kinds : Happens(s, kind)
  \/ \E g \in 1..MaxFollows : StreamAnswers(g) \/ StreamEmpty(g) \/ TimelineAnswers(g) \/ TimelineFails(g)
  \/ PanelTimerFires \/ Dispose
  \/ \E j \in Jobs :
       \/ CreateOrShow(j) \/ Refresh(j) \/ LoadLists(j) \/ LoadAnswers(j) \/ JobFails(j)
       \/ PanelDecisionServed(j) \/ PanelDecisionWritten(j) \/ PanelDecisionAnswers(j) \/ PanelDecisionRefused(j)
       \/ SendGovernedTurn(j) \/ TurnServed(j) \/ TurnAnswers(j)
       \/ \E s \in ThreadSessions : LoadReads(j, s)
       \/ \E decision \in Decisions : PanelDecision(j, decision)

PanelSpec == PanelInit /\ [][PanelNext]_panelVars

-----------------------------------------------------------------------------
(* Properties *)

\* What the operator is told is recorded is something the runtime has recorded, whoever else
\* decided (of two decisions that cross, the later one stays).
ToldWasRecorded == \A t \in told : t[2] \in Changes(t[1], Len(story[t[1]]))

\* One follower is alive: the timer that may be cleared is that of the current generation,
\* and its follower does not wait for a call as well.
OnePanelFollower == panel.timer # 0 => panel.timer = panel.generation /\ polls[panel.timer] = NoPoll

\* A follower that has been told of every event, with no timeline out, shows the records
\* as they are, whatever loads and polls came in between; unless a timeline failed, was
\* read while the records changed, or came after a later one.
QuietPanelIsCurrent ==
  LET s == ShownIn(panel)
  IN /\ panel.timer # 0 /\ s # NoSession /\ ~slipped
     /\ \A g \in 1..MaxFollows : polls[g].phase # "timeline"
     /\ Known(panel.views[s]) = Len(story[s])
     => panel.views[s].rec = Len(story[s])
=============================================================================

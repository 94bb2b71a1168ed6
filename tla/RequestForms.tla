----------------------------- MODULE RequestForms -----------------------------
(***************************************************************************)
(* The forms of the desktop page that ask the runtime for work: the        *)
(* terminal with its history, the run builder, the governed action, and    *)
(* the test of an agent in the settings with the demo governance overlay   *)
(* that goes along.  A submission is checked, sent, perhaps performed,     *)
(* answered, and followed by a refresh of the page, which its handler      *)
(* awaits when no other runs.  A refresh may break off with an exception:  *)
(* the handler that awaits it takes that for a failure of its own, and the *)
(* page refreshes no more.  The fields can be edited all the while.        *)
(***************************************************************************)
EXTENDS RuntimeApi, Sequences, SequencesExt

CONSTANTS Asks,          \* the submissions of a behaviour; a run made by one goes by its name
          Texts,         \* what is typed as a command or a prompt
          NoText,        \* an empty field
          Profiles,      \* the agent profiles of the deployment
          EarlierRun,    \* a run there was before
          NoRunId,       \* no run
          Overlays,      \* the valid demo governance overlays other than the empty one
          NoOverlay,     \* the empty overlay
          HistoryLimit   \* entries the terminal history keeps (20 in the code)

ASSUME FormsAssumption == HistoryLimit \in Nat

VARIABLES policy,    \* [readOnly, hostBlocked]: the terminal policy of the deployment
          page,      \* [phase, queued]: the refresh of the page
          selected,  \* the run whose detail was opened last
          terminal,  \* the fields of the terminal form
          history,   \* the terminal history, newest first: [ask, input, tone]
          feedback,  \* form -> what is shown beneath it: [ask, tone]
          agent,     \* the agent test: [draft, status, response, view]
          overlay,   \* the saved overlay
          editing,   \* the overlay in its editor
          asks       \* the submissions: [form, sent, phase, reply, done, broken, context, saved]

formVars == <<policy, page, selected, terminal, history, feedback, agent, overlay, editing, asks>>

Forms == {"terminal", "run", "action"}
RunIds == {EarlierRun} \cup Asks
TerminalInputs == [run : RunIds \cup {NoRunId}, text : Texts \cup {NoText}, readOnly : BOOLEAN, restricted : BOOLEAN]
RunInputs == [scoped : BOOLEAN, capable : BOOLEAN, tier : 1..3]
ActionInputs == [scoped : BOOLEAN, finance : BOOLEAN, summary : BOOLEAN, quantity : BOOLEAN]
AgentDrafts == [profile : Profiles \cup {"unknown"}, prompt : Texts \cup {NoText}]
Invalid == "invalid"

NoAsk == [form |-> "none", sent |-> "none", phase |-> "none", reply |-> "none", done |-> FALSE, broken |-> FALSE,
          context |-> NoOverlay, saved |-> NoOverlay]
Nobody == [ask |-> "none", tone |-> "none"]

FormsTypeOK ==
  /\ policy \in [readOnly : BOOLEAN, hostBlocked : BOOLEAN]
  /\ page \in [phase : {"none", "reading", "lost"}, queued : BOOLEAN]
  /\ selected \in RunIds \cup {NoRunId} /\ terminal \in TerminalInputs
  /\ Len(history) <= HistoryLimit
  /\ \A n \in DOMAIN history : history[n].ask \in Asks /\ history[n].input \in TerminalInputs
  /\ \A f \in Forms : feedback[f].tone \in {"none", "ok", "warn", "blocked", "error"}
  /\ agent.draft \in AgentDrafts /\ agent.response \in Asks \cup {"none"} /\ agent.view \in Asks \cup {"none"}
  /\ overlay \in Overlays \cup {NoOverlay} /\ editing \in Overlays \cup {NoOverlay, Invalid}
  /\ \A a \in Asks : asks[a].phase \in {"none", "preparing", "sent", "replied", "loading", "refreshing", "over"}

FormsInit ==
  /\ policy \in [readOnly : BOOLEAN, hostBlocked : BOOLEAN]
  /\ page = [phase |-> "none", queued |-> FALSE]
  /\ selected = NoRunId
  /\ terminal = [run |-> NoRunId, text |-> NoText, readOnly |-> FALSE, restricted |-> FALSE]
  /\ history = <<>>
  /\ feedback = [f \in Forms |-> Nobody]
  /\ agent = [draft |-> [profile |-> "unknown", prompt |-> NoText], status |-> "clean", response |-> "none", view |-> "none"]
  /\ overlay = NoOverlay /\ editing = NoOverlay
  /\ asks = [a \in Asks |-> NoAsk]

-----------------------------------------------------------------------------
(* The refresh of the page *)

\* refresh() is called: it begins, or is queued behind the one that runs, for which one
\* that broke off is taken for ever.
PageBusy == page.phase # "none"
PageAsked == IF PageBusy THEN [page EXCEPT !.queued = TRUE] ELSE [phase |-> "reading", queued |-> FALSE]

\* A handler awaits the refresh it begins and goes on at once from one that is queued.
Step(own, next) == IF PageBusy THEN next ELSE own

-----------------------------------------------------------------------------
(* The checks of the forms: the issues that block, hints are left out *)

TerminalIssues(i) ==
  (IF i.run = NoRunId THEN {"run"} ELSE {}) \cup (IF i.text = NoText THEN {"command"} ELSE {})
    \cup (IF policy.readOnly /\ ~i.readOnly THEN {"read only"} ELSE {})
    \cup (IF policy.hostBlocked /\ i.restricted THEN {"restricted host"} ELSE {})

RunIssues(i) ==
  (IF ~i.scoped THEN {"scope"} ELSE {}) \cup (IF ~i.capable /\ i.tier > 1 THEN {"capabilities"} ELSE {})

\* Only a request of the finance profile has a summary of its own and a quantity to check.
ActionIssues(i) ==
  (IF ~i.scoped THEN {"scope"} ELSE {}) \cup (IF ~i.finance /\ ~i.summary THEN {"summary"} ELSE {})
    \cup (IF i.finance /\ ~i.quantity THEN {"quantity"} ELSE {})

AgentValid(d) == d.profile \in Profiles /\ d.prompt # NoText

\* An empty run field of the terminal is filled with the run whose detail is open.
Filled(i) == IF i.run = NoRunId THEN [i EXCEPT !.run = selected] ELSE i

\* A submission that is sent takes the saved overlay along, where its form has one.
Sending(a, form, what, context) ==
  [asks EXCEPT ![a] = [NoAsk EXCEPT !.form = form, !.sent = what, !.phase = "sent", !.context = context, !.saved = overlay]]

Refused(a, form, what) == [asks EXCEPT ![a] = [NoAsk EXCEPT !.form = form, !.sent = what, !.phase = "over"]]

-----------------------------------------------------------------------------
(* The runtime *)

MethodOf(form) ==
  CASE form = "terminal" -> TerminalSession [] form \in {"run", "action"} -> CreateRun [] form = "agent" -> InvokeAgent

\* It does what it is asked or not, and says so unless it fails; the reply may get lost.
AskServed(a) ==
  /\ asks[a].phase = "sent"
  /\ \E reply \in {"ok", "404", "error", "network"}, done \in BOOLEAN :
       /\ done => reply # "404"
       /\ (reply = "ok" /\ ~done) => MethodOf(asks[a].form).says = "runtime"
       /\ asks' = [asks EXCEPT ![a].phase = "replied", ![a].reply = reply, ![a].done = done]
  /\ UNCHANGED <<policy, page, selected, terminal, history, feedback, agent, overlay, editing>>

Answered(a) == AnswerTo(MethodOf(asks[a].form), asks[a].reply, asks[a].done)

ToneHopeful(answer) == IF answer = "throws" THEN "error" ELSE "ok"   \* Mutant: a refusal counts as queued

ToneOf(answer) == CASE answer = "value" -> "ok" [] answer = "refused" -> "warn" [] answer = "throws" -> "error"

\* The handler goes on to a refresh, or stops after an exception.
Goes(a, tone) ==
  /\ asks' = [asks EXCEPT ![a].phase = IF tone = "error" THEN "over" ELSE Step("refreshing", "over")]
  /\ page' = IF tone = "error" THEN page ELSE PageAsked

-----------------------------------------------------------------------------
(* The terminal *)

\* Any field is edited.
TypeTerminal(i) ==
  /\ Filled(i) # terminal
  /\ terminal' = Filled(i)
  /\ UNCHANGED <<policy, page, selected, history, feedback, agent, overlay, editing, asks>>

\* buildTerminalHistoryEntry and addTerminalHistoryEntry
Entered(a, input, tone) ==
  SubSeq(<<[ask |-> a, input |-> input, tone |-> tone]>> \o history, 1,
         IF Len(history) < HistoryLimit THEN Len(history) + 1 ELSE HistoryLimit)

\* submitTerminalFromCurrentInput, up to its first await
SubmitCommand(a, fields) ==
  LET input == Filled(fields)
      blocked == TerminalIssues(input) # {}
  IN /\ asks[a].phase = "none"
     /\ terminal' = input
     /\ asks' = IF blocked THEN Refused(a, "terminal", input) ELSE Sending(a, "terminal", input, overlay)
     /\ history' = IF blocked THEN Entered(a, input, "blocked") ELSE history
     /\ feedback' = IF blocked THEN [feedback EXCEPT !["terminal"] = [ask |-> a, tone |-> "blocked"]] ELSE feedback
     /\ UNCHANGED <<policy, page, selected, agent, overlay, editing>>

SubmitTerminal(a) == SubmitCommand(a, terminal)

\* A command of the history is put back into the form and submitted again.
RerunTerminal(a, n) == n \in DOMAIN history /\ SubmitCommand(a, history[n].input)

CommandAnswered(a) ==
  LET tone == ToneOf(Answered(a))
  IN /\ asks[a].phase = "replied" /\ asks[a].form = "terminal"
     /\ history' = Entered(a, asks[a].sent, tone)
     /\ feedback' = [feedback EXCEPT !["terminal"] = [ask |-> a, tone |-> tone]]
     /\ Goes(a, tone)
     /\ UNCHANGED <<policy, selected, terminal, agent, overlay, editing>>

TerminalSteps ==
  \E a \in Asks : SubmitTerminal(a) \/ CommandAnswered(a) \/ (\E n \in 1..HistoryLimit : RerunTerminal(a, n))

TerminalNext == TerminalSteps \/ (\E i \in TerminalInputs : TypeTerminal(i))

-----------------------------------------------------------------------------
(* The run builder and the governed action *)

SubmitForm(a, form, input, issues) ==
  /\ asks[a].phase = "none"
  /\ IF issues # {}
     THEN /\ asks' = Refused(a, form, "none")
          /\ feedback' = [feedback EXCEPT ![form] = [ask |-> a, tone |-> "blocked"]]
     ELSE asks' = Sending(a, form, "none", overlay) /\ UNCHANGED feedback
  /\ UNCHANGED <<policy, page, selected, terminal, history, agent, overlay, editing>>

SubmitRunBuilder(a) == \E i \in RunInputs : SubmitForm(a, "run", i, RunIssues(i))
SubmitAction(a) == \E i \in ActionInputs : SubmitForm(a, "action", i, ActionIssues(i))

FormAnswered(a) ==
  LET tone == ToneOf(Answered(a))
  IN /\ asks[a].phase = "replied" /\ asks[a].form \in {"run", "action"}
     /\ feedback' = [feedback EXCEPT ![asks[a].form] = [ask |-> a, tone |-> tone]]
     /\ IF asks[a].form = "action" /\ tone = "ok" /\ PageBusy
        THEN selected' = a /\ terminal' = [terminal EXCEPT !.run = a]
        ELSE UNCHANGED <<selected, terminal>>
     /\ Goes(a, tone)
     /\ UNCHANGED <<policy, history, agent, overlay, editing>>

BuilderNext == \E a \in Asks : SubmitRunBuilder(a) \/ SubmitAction(a) \/ FormAnswered(a)

-----------------------------------------------------------------------------
(* The agent test *)

\* A changed draft puts the last result away.
Retyped(d) ==
  [draft |-> d, status |-> IF AgentValid(d) THEN "dirty" ELSE "invalid", response |-> "none", view |-> "none"]

TypeAgent(d) ==
  /\ d # agent.draft
  /\ agent' = Retyped(d)
  /\ UNCHANGED <<policy, page, selected, terminal, history, feedback, overlay, editing, asks>>

\* The profile of the settings page is selected, which leaves the result.
PickProfile(p) ==
  /\ agent.draft.profile # p
  /\ agent' = [agent EXCEPT !.draft.profile = p]
  /\ page' = PageAsked
  /\ UNCHANGED <<policy, selected, terminal, history, feedback, overlay, editing, asks>>

\* The draft is invoked: first the page shows that, refreshed.
InvokeAgentTest(a) ==
  LET valid == AgentValid(agent.draft)
  IN /\ asks[a].phase = "none"
     /\ agent' = [agent EXCEPT !.status = IF valid THEN "running" ELSE "invalid", !.response = "none", !.view = "none"]
     /\ page' = PageAsked
     /\ asks' = IF ~valid THEN Refused(a, "agent", agent.draft)
                ELSE IF PageBusy THEN Sending(a, "agent", agent.draft, overlay)
                ELSE [asks EXCEPT ![a] = [NoAsk EXCEPT !.form = "agent", !.sent = agent.draft, !.phase = "preparing",
                                                       !.context = overlay]]
     /\ UNCHANGED <<policy, selected, terminal, history, feedback, overlay, editing>>

\* The overlay that an invocation takes along is read when it is sent.
ContextAtSend(a) == overlay

\* An invocation that was applied is shown with the state of its session.
AgentAnswered(a) ==
  LET answer == Answered(a)
      failed == answer = "throws" \/ asks[a].reply = "404"
  IN /\ asks[a].phase = "replied" /\ asks[a].form = "agent"
     /\ IF answer = "value"
        THEN asks' = [asks EXCEPT ![a].phase = "loading"] /\ UNCHANGED <<agent, page>>
        ELSE /\ agent' = [draft |-> asks[a].sent, status |-> IF failed THEN "error" ELSE "warn",
                          response |-> IF answer = "throws" THEN "none" ELSE a, view |-> "none"]
             /\ asks' = [asks EXCEPT ![a].phase = Step("refreshing", "over")]
             /\ page' = PageAsked
     /\ UNCHANGED <<policy, selected, terminal, history, feedback, overlay, editing>>

\* The session has been read, or could not be, which the view says.
AgentShown(a) ==
  /\ asks[a].phase = "loading" /\ asks[a].form = "agent"
  /\ agent' = [draft |-> asks[a].sent, status |-> "success", response |-> a, view |-> a]
  /\ asks' = [asks EXCEPT ![a].phase = Step("refreshing", "over")]
  /\ page' = PageAsked
  /\ UNCHANGED <<policy, selected, terminal, history, feedback, overlay, editing>>

\* The view of the session is read again; which session was settled when it was asked for.
ReloadView(a) ==
  LET session == IF agent.view # "none" THEN agent.view ELSE agent.response
  IN /\ asks[a].phase = "none" /\ session # "none" /\ asks[session].done
     /\ agent' = [agent EXCEPT !.view = session]
     /\ asks' = [asks EXCEPT ![a] = [NoAsk EXCEPT !.form = "view", !.sent = session, !.phase = Step("preparing", "loading")]]
     /\ page' = PageAsked
     /\ UNCHANGED <<policy, selected, terminal, history, feedback, overlay, editing>>

ViewShown(a) ==
  /\ asks[a].phase = "loading" /\ asks[a].form = "view"
  /\ agent' = [agent EXCEPT !.view = asks[a].sent]
  /\ asks' = [asks EXCEPT ![a].phase = Step("refreshing", "over")]
  /\ page' = PageAsked
  /\ UNCHANGED <<policy, selected, terminal, history, feedback, overlay, editing>>

AgentNext ==
  \/ \E d \in AgentDrafts : TypeAgent(d)
  \/ \E p \in Profiles : PickProfile(p)
  \/ \E a \in Asks : InvokeAgentTest(a) \/ AgentAnswered(a) \/ AgentShown(a) \/ ReloadView(a) \/ ViewShown(a)

-----------------------------------------------------------------------------
(* The demo governance overlay *)

TypeOverlay(o) ==
  /\ editing # o /\ editing' = o
  /\ UNCHANGED <<policy, page, selected, terminal, history, feedback, agent, overlay, asks>>

\* It is saved when it is valid, cleared, or the editor put back to what is saved; all of
\* them refresh.
SaveOverlay ==
  /\ editing # Invalid
  /\ overlay' = editing /\ page' = PageAsked
  /\ UNCHANGED <<policy, selected, terminal, history, feedback, agent, editing, asks>>

ClearOverlay ==
  /\ overlay' = NoOverlay /\ editing' = NoOverlay /\ page' = PageAsked
  /\ UNCHANGED <<policy, selected, terminal, history, feedback, agent, asks>>

ResetOverlay ==
  /\ editing' = overlay /\ page' = PageAsked
  /\ UNCHANGED <<policy, selected, terminal, history, feedback, agent, overlay, asks>>

OverlayNext ==
  \/ \E o \in Overlays \cup {NoOverlay, Invalid} : TypeOverlay(o)
  \/ SaveOverlay \/ ClearOverlay \/ ResetOverlay

-----------------------------------------------------------------------------
(* The end of a refresh *)

PageNext == [phase |-> IF page.queued THEN "reading" ELSE "none", queued |-> FALSE]
Awaiting == {a \in Asks : asks[a].phase \in {"preparing", "refreshing"}}

\* What the handler that awaited it does next: it sends its invocation, reads its session,
\* opens the detail of the run it has made, or is done.
Resumed(a) ==
  /\ asks' = CASE asks[a].phase = "refreshing" -> [asks EXCEPT ![a].phase = "over"]
               [] asks[a].phase = "preparing" /\ asks[a].form = "view" -> [asks EXCEPT ![a].phase = "loading"]
               [] OTHER -> Sending(a, "agent", asks[a].sent, ContextAtSend(a))
  /\ IF asks[a].form = "action"
     THEN selected' = a /\ terminal' = [terminal EXCEPT !.run = a]
     ELSE UNCHANGED <<selected, terminal>>

PageEnds ==
  /\ page.phase = "reading" /\ page' = PageNext
  /\ IF Awaiting = {} THEN UNCHANGED <<selected, terminal, asks>> ELSE \E a \in Awaiting : Resumed(a)
  /\ UNCHANGED <<policy, history, feedback, agent, overlay, editing>>

\* The exception reaches the handler that awaits: the forms report it as their own.
Broken(a) ==
  /\ asks' = [asks EXCEPT ![a].phase = "over", ![a].broken = TRUE]
  /\ feedback' = IF asks[a].form \in Forms THEN [feedback EXCEPT ![asks[a].form] = [ask |-> a, tone |-> "error"]] ELSE feedback
  /\ history' = IF asks[a].form = "terminal" THEN Entered(a, asks[a].sent, "error") ELSE history

PageBreaks ==
  /\ page.phase = "reading" /\ page' = [page EXCEPT !.phase = "lost"]
  /\ IF Awaiting = {} THEN UNCHANGED <<history, feedback, asks>> ELSE \E a \in Awaiting : Broken(a)
  /\ UNCHANGED <<policy, selected, terminal, agent, overlay, editing>>

PageSteps == PageEnds \/ PageBreaks

FormsNext == PageSteps \/ TerminalNext \/ BuilderNext \/ AgentNext \/ OverlayNext \/ (\E a \in Asks : AskServed(a))

FormsSpec == FormsInit /\ [][FormsNext]_formVars

-----------------------------------------------------------------------------
(* Properties *)

\* An entry of the terminal history is about the command that was sent, whatever has been
\* typed since, and true of it: queued only if it was done, refused or blocked only if it
\* was not.  A command is entered once, or again when the refresh after it broke off.
HistoryIsTrue ==
  \A n \in DOMAIN history :
    LET e == history[n]
    IN /\ e.input = asks[e.ask].sent
       /\ e.tone = "ok" => asks[e.ask].done
       /\ e.tone \in {"warn", "blocked"} => ~asks[e.ask].done
       /\ \A m \in DOMAIN history \ {n} : history[m].ask = e.ask => asks[e.ask].broken

\* A form says "submitted" only of what was done, and "failed" of what was done only when
\* the reply failed or the refresh broke off.
FeedbackIsTrue ==
  \A f \in Forms : feedback[f] # Nobody =>
    LET a == asks[feedback[f].ask]
    IN /\ feedback[f].tone = "ok" => a.done
       /\ (feedback[f].tone = "error" /\ a.done) => (a.broken \/ a.reply \in {"error", "network"})

\* The answer an agent test shows is to the prompt shown with it, the session beside it is
\* the one of that answer unless it was asked for again, and an invocation has taken along
\* the overlay that was saved when it was sent.
AgentIsTrue ==
  /\ agent.response # "none" => agent.draft.prompt = asks[agent.response].sent.prompt
  /\ (agent.view # "none" /\ agent.view # agent.response) => \E a \in Asks : asks[a].form = "view"
  /\ \A a \in Asks : (asks[a].form = "agent" /\ asks[a].phase \notin {"none", "preparing", "over"}) =>
       asks[a].context = asks[a].saved

FormsTellTheTruth == HistoryIsTrue /\ FeedbackIsTrue /\ AgentIsTrue
=============================================================================

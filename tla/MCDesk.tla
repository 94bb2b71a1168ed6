------------------------------- MODULE MCDesk -------------------------------
(* One part of the page at a time: its calls, its approvals, its settings, its incident
   queue, its launcher strip, its home, or its request forms: those of the developer or the
   test of an agent.  The parts share the client, whose calls each of them splits at their
   service and their answer. *)
EXTENDS RuntimeClient, ApprovalDesk, SettingsDesk, IncidentQueue, NativeShell, HomeQueue, RequestForms, TLC

VARIABLE focus

deskAllVars == <<clientVars, deskVars, settingsVars, queueVars, shellVars, homeVars, formVars, focus>>

MCNoCalls ==
  mode = "live" /\ configured = TRUE /\ scoped = TRUE /\ endpointStatus = <<>> /\ calls = [c \in Calls |-> [phase |-> "none"]]

MCInit ==
  /\ focus \in {"calls", "approvals", "settings", "incidents", "shell", "home", "commands", "agent"}
  /\ (IF focus = "calls" THEN ClientInit ELSE MCNoCalls) /\ DeskInit /\ SettingsInit /\ QueueInit
  /\ ShellInit /\ HomeInit /\ FormsInit
  /\ focus # "approvals" => ~sample /\ endpoints = {} /\ rows = [r \in Runs |-> NoRow]
  /\ focus # "settings" => inScope /\ stored = "none" /\ work = "settings"
  /\ focus # "shell" => bridge = "none" /\ ~native.enabled /\ ~native.token
  /\ focus # "home" => lane = [r \in Items |-> "run"]
  /\ focus # "commands" => ~policy.readOnly /\ ~policy.hostBlocked
  /\ policy.readOnly = policy.hostBlocked
  /\ work # "settings" => ~inScope /\ stored = "none"

\* The run of the terminal is left empty or typed as one there was before; the overlay is
\* edited as long as there is something left to ask.
MCTypes == [run : {NoRunId, EarlierRun}, text : Texts \cup {NoText}, readOnly : {FALSE, policy.readOnly},
            restricted : {FALSE, policy.hostBlocked}]

MCFormsNext ==
  \/ PageSteps
  \/ \E a \in Asks : AskServed(a)
  \/ focus = "commands" /\ ((\E i \in MCTypes : TypeTerminal(i)) \/ TerminalSteps \/ BuilderNext)
  \/ focus = "agent" /\ (AgentNext \/ (OverlayNext /\ \E a \in Asks : asks[a].phase = "none"))

MCNext ==
  /\ UNCHANGED focus
  /\ \/ focus = "calls" /\ ClientNext /\ UNCHANGED <<deskVars, settingsVars, queueVars, shellVars, homeVars, formVars>>
     \/ focus = "approvals" /\ DeskNext /\ UNCHANGED <<clientVars, settingsVars, queueVars, shellVars, homeVars, formVars>>
     \/ focus = "settings" /\ SettingsNext /\ UNCHANGED <<clientVars, deskVars, queueVars, shellVars, homeVars, formVars>>
     \/ focus = "incidents" /\ QueueNext /\ UNCHANGED <<clientVars, deskVars, settingsVars, shellVars, homeVars, formVars>>
     \/ focus = "shell" /\ ShellNext /\ UNCHANGED <<clientVars, deskVars, settingsVars, queueVars, homeVars, formVars>>
     \/ focus = "home" /\ HomeNext /\ UNCHANGED <<clientVars, deskVars, settingsVars, queueVars, shellVars, formVars>>
     \/ focus \in {"commands", "agent"} /\ MCFormsNext
          /\ UNCHANGED <<clientVars, deskVars, settingsVars, queueVars, shellVars, homeVars>>

MCSpec == MCInit /\ [][MCNext]_deskAllVars

\* The type invariants of the parts, of the one that moves.
DeskTypesOK ==
  CASE focus = "calls" -> ClientTypeOK
    [] focus = "approvals" -> DeskTypeOK
    [] focus = "settings" -> SettingsTypeOK
    [] focus = "incidents" -> QueueTypeOK
    [] focus = "shell" -> ShellTypeOK
    [] focus = "home" -> HomeTypeOK
    [] OTHER -> FormsTypeOK

\* What the page tells its operator of a decision, a command, a run or an answer is true.
PageTellsTheTruth == ToldTheTruth /\ FormsTellTheTruth

\* Two actions of the operator in the settings, or one of an operator who signs out, whose
\* project had no settings before, or whose refresh has been lost.  The editor of the
\* settings takes nothing from the data that a refresh reads, so those reads succeed.  Two
\* decisions are given to sample data or to a runtime that has both endpoints of the approvals
\* or neither, of a run that was held, evaluated or has failed, with no filter set and the run
\* in reach of the listings.  A filter is set, of one status or of no run, or the run pushed out, but not
\* both; and two writes of the settings are given to a runtime that has those of the
\* connectors.
MCBound ==
  /\ Cardinality({t \in Tasks : tasks[t].kind # "none"}) = 2 => signedIn /\ cycle.phase # "lost" /\ (work = "settings" => inScope)
  /\ (work = "settings" /\ cycle.phase = "ending") => cycle.ok
  /\ Cardinality({d \in Deciders : deciders[d].kind # "none"}) = 2 =>
       /\ endpoints # {"queue"} /\ endpoints # {"decision"} /\ filter = NoFilter /\ pushed = {}
       /\ sample \/ \A r \in Runs : rows[r] = HeldRow \/ rows[r].status \in {"POLICY_EVALUATED", "FAILED"}
  /\ filter # NoFilter => ~sample /\ pushed = {} /\ (filter = [NoFilter EXCEPT !.status = "PENDING"] \/ filter = [NoFilter EXCEPT !.runs = {}])
  /\ Cardinality({t \in Tasks : tasks[t].kind \in {"apply", "reset"}}) = 2 => sync["connectors"] # "endpoint-unavailable"

\* What only the violation run of the settings looks at is left out of the view: whether a
\* refresh was tried since settings were applied.
MCView ==
  <<clientVars, deskVars, inScope, signedIn, stored, written, work, launcher, override, draft, sync, snapshot, tasks,
    [cycle EXCEPT !.since = FALSE, !.tried = FALSE], queueVars, shellVars, homeVars, formVars, focus>>

\* The actors of the part that moves can be exchanged: the configuration names them alike.
MCSymmetry == Permutations(Tasks)
=============================================================================

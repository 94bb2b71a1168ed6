------------------------------ MODULE RuntimeApi ------------------------------
(***************************************************************************)
(* The client of the runtime in the desktop page (api.js, AgentOpsApi) as  *)
(* a table of its methods.  A method answers locally when the page runs on *)
(* sample data, when a scope it needs is missing or when its endpoint is   *)
(* not configured; otherwise it sends a request, and what it makes of the  *)
(* reply depends on the status of the reply and on the method: the same    *)
(* 404 is an empty list for one, a refusal for another, an exception for a *)
(* third.                                                                  *)
(***************************************************************************)
EXTENDS Naturals, FiniteSets

\* The replies: 2xx, 2xx with a body that has no items, 404, 405, 501, 503, any other
\* status, and no reply at all.
Replies == {"ok", "odd", "404", "405", "501", "503", "error", "network"}
Fine == {"ok", "odd"}

\* The statuses by which the runtime says that it does not have an endpoint.
NotThere == {"404", "405", "501"}
HelperNotThere == NotThere \cup {"503"}

(* What a method is: the key its status is recorded under and whether there *)
(* is such a key; whether it changes the state of the service; what it      *)
(* does with no scope and with no endpoint; what it makes of a reply that   *)
(* says there is no such endpoint and which replies say so; the status it   *)
(* records for a 404; what it makes of a reply without items; who says that *)
(* a change was applied.                                                    *)
Plain(key) ==
  [key |-> key, recorded |-> TRUE, local |-> TRUE, writes |-> FALSE, scopeless |-> "sent", unset |-> "sent",
   absent |-> "throws", absentOn |-> NotThere, on404 |-> "unavailable",
   odd |-> "value", says |-> "always"]

Listing(key) == [Plain(key) EXCEPT !.unset = "throws"]
Catalog(key) == [Listing(key) EXCEPT !.absent = "empty"]
Unrecorded(m) == [m EXCEPT !.recorded = FALSE]
Command(key) == [Plain(key) EXCEPT !.writes = TRUE, !.unset = "refused", !.absent = "refused", !.says = "runtime"]
Launcher(key) == [Unrecorded(Plain(key)) EXCEPT !.local = FALSE]

-----------------------------------------------------------------------------
(* The methods *)

Health == [Unrecorded(Plain("health")) EXCEPT !.absent = "value", !.absentOn = Replies \ {"ok", "odd", "network"}]
Providers == [Unrecorded(Plain("providers")) EXCEPT !.absent = "empty", !.absentOn = {"404", "405"}]
PipelineStatus == [Unrecorded(Plain("pipeline")) EXCEPT !.absent = "empty", !.absentOn = {"404"}]

RuntimeRuns == [Plain("runs") EXCEPT !.absent = "empty"]
RuntimeRun == [Plain("runById") EXCEPT !.on404 = "fallback"]
CreateRun == [Plain("runs") EXCEPT !.writes = TRUE]

CreateTask == [Listing("tasks") EXCEPT !.writes = TRUE, !.scopeless = "throws"]
ListTasks == Listing("tasks")
ListSessions == Listing("sessions")
WorkerCapabilities == Catalog("workerCapabilities")
PolicyPacks == Catalog("policyPacks")
RuntimeIdentity == Catalog("runtimeIdentity")
ExportProfiles == Unrecorded(Catalog("exportProfiles"))
OrgAdminProfiles == Unrecorded(Catalog("orgAdminProfiles"))

SessionCreate == Unrecorded([Listing("sessionCreate") EXCEPT !.writes = TRUE])
AttachWorker == Unrecorded([Listing("sessionWorkers") EXCEPT !.writes = TRUE])
WorkerEvent == Unrecorded([Listing("sessionWorkerEvents") EXCEPT !.writes = TRUE])
SessionTimeline == [Listing("sessionTimeline") EXCEPT !.on404 = "fallback"]
SessionEventStream == [Listing("sessionEventStream") EXCEPT !.on404 = "fallback"]
CheckpointDecision == Command("sessionApprovalDecision")
ProposalDecision == Unrecorded(Command("sessionToolProposalDecision"))
CloseSession == [Command("sessionClose") EXCEPT !.says = "always"]

IntegrationSettings == [Plain("integrationSettings") EXCEPT !.scopeless = "empty", !.unset = "empty", !.absent = "empty"]
ConnectorSettings == [Plain("connectorSettings") EXCEPT !.scopeless = "empty", !.unset = "empty", !.absent = "empty"]
SaveSettings == [Command("integrationSettings") EXCEPT !.scopeless = "refused", !.says = "always"]
InvokeAgent == [Command("integrationInvoke") EXCEPT !.scopeless = "refused"]

SecureRefs == [Launcher("secureRefs") EXCEPT !.absent = "empty", !.absentOn = HelperNotThere]
SaveSecureRef == [Launcher("secureRefs") EXCEPT !.writes = TRUE]
DeleteSecureRef == [Launcher("secureRefs") EXCEPT !.writes = TRUE]
ExportSecureRefs == [Launcher("secureRefs") EXCEPT !.writes = TRUE]
Activation == [Launcher("activation") EXCEPT !.local = TRUE, !.absent = "empty", !.absentOn = HelperNotThere]
ApplyActivation == [Launcher("activation") EXCEPT !.writes = TRUE]

TerminalSession == Command("terminalSessions")
AuditEvents == [Plain("auditEvents") EXCEPT !.unset = "derived", !.absent = "derived"]
ApprovalQueue == [Plain("approvalsQueue") EXCEPT !.unset = "derived", !.absent = "derived", !.odd = "derived"]
ApprovalDecision == Command("approvalDecision")

Reads == {Health, Providers, PipelineStatus, RuntimeRuns, RuntimeRun, ListTasks, ListSessions, WorkerCapabilities,
          PolicyPacks, RuntimeIdentity, ExportProfiles, OrgAdminProfiles, SessionTimeline, SessionEventStream,
          IntegrationSettings, ConnectorSettings, SecureRefs, Activation, AuditEvents, ApprovalQueue}
Writes == {CreateRun, CreateTask, SessionCreate, AttachWorker, WorkerEvent, CheckpointDecision, ProposalDecision,
           CloseSession, SaveSettings, InvokeAgent, SaveSecureRef, DeleteSecureRef, ExportSecureRefs,
           ApplyActivation, TerminalSession, ApprovalDecision}
Methods == Reads \cup Writes
Keys == {m.key : m \in {n \in Methods : n.recorded}}

-----------------------------------------------------------------------------
(* Answers *)

\* What the caller is given: a value of the runtime or of the sample data, an empty value,
\* a value derived from the runs, a refusal (applied: false), or an exception.
Answers == {"value", "empty", "derived", "refused", "throws"}

\* Mutant: a launcher that is out for the moment is a service without the endpoint.
AnswerOf5xx(m, reply, applied) ==
  IF reply \in Fine
  THEN IF m.writes /\ m.says = "runtime" /\ ~applied THEN "refused" ELSE "value"
  ELSE IF reply \in m.absentOn \cup {"503"} THEN m.absent ELSE "throws"

\* What the caller of m makes of a reply; applied is what the reply says of the change.
AnswerTo(m, reply, applied) ==
  IF reply \in Fine
  THEN IF m.writes /\ m.says = "runtime" /\ ~applied THEN "refused"
       ELSE IF reply = "odd" THEN m.odd ELSE "value"
  ELSE IF reply \in m.absentOn THEN m.absent ELSE "throws"

\* The status it records.
StatusFor(m, reply) ==
  IF reply = "ok" \/ (reply = "odd" /\ m.odd = "value") THEN "available"
  ELSE IF reply = "odd" THEN "fallback"
  ELSE IF reply = "404" THEN m.on404
  ELSE IF reply \in NotThere THEN "unavailable" ELSE "error"

\* What the sample data answers: it knows no other ids than its own, and it may block a
\* terminal command by its policy.
ById == {RuntimeRun, SessionCreate, AttachWorker, WorkerEvent, SessionTimeline, SessionEventStream,
         CheckpointDecision, ProposalDecision, CloseSession, ApprovalDecision}
SampleAnswers(m) ==
  {"value"} \cup (IF m \in ById THEN {"throws"} ELSE {}) \cup (IF m = TerminalSession THEN {"refused"} ELSE {})
=============================================================================

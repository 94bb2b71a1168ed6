# Verification of the Agent Operations Plane

TLA+ models of the runtime of this repository, of the clients that operate it,
the configurations that check them with TLC, and theorems about them checked by
TLAPS.  The reference is the code under `src/`; line numbers below are lines of
its files.  Paths without a directory are in `src/internal/runtime/` for Go, and
in `src/ui/desktop-ui/web/js/` for JavaScript.

Contents: [1 The system](#1-the-system), [2 The modules](#2-the-modules),
[3 The runs](#3-the-runs), [4 Fairness](#4-fairness), [5 The proofs](#5-the-proofs),
[6 Findings](#6-findings), [7 What is not modelled](#7-what-is-not-modelled),
[8 What is left](#8-what-is-left).

## 1 The system

An operator's client asks the *runtime* to run an agent's request.  The runtime
resolves a profile, has a policy provider decide, perhaps calls a connector or
acts on a desktop, has evidence recorded, and keeps a row per run, session,
task, worker and checkpoint in Postgres.  A *localhost gateway* on the
operator's machine interposes on an agent's requests, turns each into a run and
holds those that need approval.  Nothing in the runtime is shared between
requests but the store: every HTTP request is one goroutine that reads rows,
computes, and writes whole rows back, without a version, a lock or a
transaction around the two.  That is where most of what can go wrong lives.

| component | state | operations | hard behaviours | what makes it correct |
|---|---|---|---|---|
| **run pipeline** `orchestrator.go`, `desktop.go`, `store.go` | the `RunRecord` in the handler's memory, its row | `ExecuteRun`: profile, policy, connector, desktop, evidence, completion, each followed by an upsert of every column; `failRun` | a provider or a store call fails after its effect; the caller's context ends; the process dies; others rewrite the row meanwhile | effects only under a decision ALLOW that is already durable; high-risk effects only with approval and grant; a COMPLETED row rests on finalized evidence |
| **approvals and retention** `api.go` | the same rows | decision on a pending high-risk run (read, edit, upsert); prune (SELECT ids, DELETE ids) | two operators at once; a decision against a running pipeline; a row that changed between SELECT and DELETE | an approval is in a row whole or not at all; only expired rows are deleted; an applied decision holds |
| **session event log and stream** `store_v1alpha2.go`, `api_v1alpha2.go`, `m16_linking.go` | `session_events`, the cursor of each stream | `AppendSessionEvent` (SELECT MAX+1, INSERT .. ON CONFLICT), list after a cursor, follow loop | interleaved appends, lost inserts, streams that break, events projected from a run | gap-free numbers; each follower gets 1, 2, 3, ..; nothing given changes later |
| **session control** `api_v1alpha2.go`, `m16_linking.go` | sessions, tasks, checkpoints, workers | create, attach, worker events, checkpoint and its decision, close | every handler reads, edits and upserts a session: lost updates; old checkpoints decided after the end | an ended session stays ended; a worker does not get past a pending checkpoint |
| **tool proposals** `api_v1alpha2.go`, `governed_action_proposal.go` | proposal and decision *events* of a session, tool actions | propose, decide, execute (through `ExecuteRun` when governed) | the decided marker is appended after the execution, best effort; lookup sees the first 1000 events | nothing that needs an operator is executed without one; one execution for an offer |
| **managed workers** `managed_worker_*.go`, `agent_invoke.go` | codex process per turn, session and worker rows | run a turn, emit proposals, resume after a decision | a resume against a session closed meanwhile; time limit of the process | a session is not left running with nobody at work |
| **provider registry** `providers.go` and **reconciler** `extensionprovider/reconciler.go` | provider objects with Ready and Probed conditions | probe, write conditions; select by type, capability, priority | selection from conditions older than the failure | the chosen provider is eligible and of greatest priority |
| **localhost gateway** `ui/desktop-ui/internal/nativeapp/localhost_gateway*.go` | a JSON file per request and per hold, written by two processes | interpose and forward, hold, time out, resolve (other process), poll, replay a retried request | grant against timeout, resolution of a finished hold, duplicates in flight, a gateway restarted under a hold | a held request is forwarded only after a grant |
| **desktop supervisor** `runtime_supervisor.go`, `session.go` | pid and status files | start, stop, sync, restart | a stale pid after a crash; health reported from an old file | one runtime at a time, and never another's process killed |
| **evidence provider (memory)** `cmd/evidence-provider-memory` | map of records and bundles behind a mutex | record, finalize | repeated or partial calls | a bundle covers what was recorded |
| **audit buffer, metrics** `audit.go`, `metrics.go` | bounded list, counters | append, query newest first | the oldest record is dropped at capacity | bounded; newest kept, in order |
| **policy lifecycle** (in `orchestrator.go`) | none | version compare, rollout bucket, entitlements | comparison of mixed version parts | a total order on what is compared |
| policy, profile, desktop **providers** | none | stateless HTTP handlers | | |
| **connectors** | none | one bounded outside call each | | |
| **desktop page: client of the runtime** `api.js` | status per endpoint, sample data | about forty calls, each with its own answer to a 404, a 5xx, a lost reply or a missing endpoint | a write that was done is answered as not done; sample answers pass for the runtime's | what a caller is told of a change is true |
| **page: operator chat** `main.js`, `views/chat.js`, `runtime/session-client.js` | the thread shown, its turns and their session views, the history rail, the follow loop | start, send, resume, decide, launch, close a worker, follow | handlers that wait while others replace the thread; chains of timers and long polls; one refresh at a time | one follower; only the operator opens a thread; a decision is taken once |
| **page: approvals and holds** `main.js`, `views/approvals.js` | queue, shown holds, selected review, modal | decide in the queue, in governance, on a held request; filter | a review drawn from the refresh before; a lost reply; listings that are limited, filtered or derived from an older one; a hold that is resolved only after the runtime has decided its run | a grant follows its decision, the operator is told the truth, what waits is shown as far as the listings reach |
| **page: request forms** `main.js`, `views/terminal.js`, `views/run-builder.js`, `views/governed-action.js`, `runtime/demo-governance.js` | fields, feedback, terminal history, agent test, overlay | submit a command, a run, a governed action, an agent's test; rerun; reload its session | fields change while a submission is out; the refresh that a handler awaits breaks off | history, feedback and answer are about what was sent |
| **page: settings** `main.js`, `views/settings.js` | override and draft of the project, launcher snapshot, refresh flags | save, apply, reset, activate, store a secure reference, sign in and out | a read of the settings, a save and an apply at once; a refresh that never ends | shown as applied only what was written |
| **page: incident queue** `main.js`, `state/store.js` | packages per tab, the browser's storage | export, file, close, reopen, in bulk, clear | two tabs write the whole queue from memory; refused writes | only filed packages are closed; tabs agree when told |
| **page: launcher strip** `main.js`, `shell/topbar/native-launcher-status.js`, `app.go` | last summary, form, locked controls | switch the interposition, restart, refresh | summaries cross; a change that fails half way | the strip is the launcher's; the token is cleared by choice |
| **page: companion home** `domains/homeops/state.js` | snapshots of holds, approvals, incidents, runs | draw the queue, hand an item over | lists cut to their newest few; a refresh that is not waited for | nothing waiting is lost; the banner tells what was read |
| **page: administration** `domains/*ops/` | per workspace queue, drafts, simulation, receipts | draft, save, simulate, verify, route, decide, execute, roll back | content changes under a simulation, a receipt or an approval | executed is what was approved, once |
| **thread panel of the VS Code client** `src/clients/vscode-agentops/extension.js` | views per session, selected one, generation of the follower | load, follow, decide, take a turn, close | loads, polls and submissions of several generations overlap | one follower; what is told is recorded; a quiet panel is current |
| auth, catalogs, exports, entry points, other clients, reports, tooling | none that others depend on | | | |

How they interact.  HTTP: clients and gateway to runtime, runtime to providers.
Shared rows: every handler and the store; a run's row is written by the
pipeline, by decisions and by the prune.  Shared events: every handler that
touches a session appends to its log, and proposals, decisions and worker state
are *read back from that log*.  Shared files: gateway process and desktop
application write the same hold and request files.  Inside the page every
handler of an event runs until its next `await`; what it read before is as old as
that wait, and one `refresh()` at a time reads everything again, a second one is
queued (`main.js:7710-7722`, `8101-8113`).  Shared storage: the tabs of the page
write one incident queue.

`PROJECT.json` lists the hazards line by line, with the properties that cover them.

## 2 The modules

| module | models | size of the idea |
|---|---|---|
| `GovernedRun` | what a governed run promises: decided once, effects only under ALLOW and before evidence, completed only over finalized evidence | abstract |
| `RunPipeline` | `ExecuteRun`, `handleCreateRun`, `UpsertRun`, `handleApprovalDecisionByRunID`, `PruneRuns` | detailed |
| `MCRunPipeline` | the requests TLC considers | instance |
| `RunPipelineProofs` | theorems about `RunPipeline` | proofs |
| `SessionEventLog` | `AppendSessionEvent`, the list query, the stream and its follow loop | detailed |
| `SessionEventLogProofs` | theorems about `SessionEventLog` | proofs |
| `SessionControl` | the handlers that change a session, its checkpoints, workers and task, as overlapping read-modify-write requests | detailed |
| `MCSessionControl` | the symmetry of the handlers | instance |
| `SessionControlProofs` | theorems about `SessionControl` | proofs |
| `ToolProposal` | the proposals of a managed worker: turn, offer, decision, execution, continuation, and what they do to the session | detailed |
| `MCToolProposal` | the symmetry of the handlers | instance |
| `ToolProposalProofs` | theorems about `ToolProposal` | proofs |
| `GatewayHold` | the gateway's handlers for HTTP requests, websocket turns and tool calls; the operator's decision; the status endpoint; their shared files | detailed |
| `GatewayHoldProofs` | theorems about `GatewayHold` | proofs |
| `RuntimeApi` | the page's client as a table: what each method makes of each reply | operators |
| `RuntimeClient` | calls that overlap, and the endpoint status they record | detailed |
| `SampleRuns`, `MockSessions` | the runtime inside the page (mock mode): runs and approvals; tasks, sessions, workers, checkpoints, proposals | detailed |
| `OperatorChat` | the chat's handlers, refresh, follow loop and history, over `MockSessions` | detailed |
| `ThreadPanel` | the thread panel of the VS Code client | detailed |
| `MCSessionClients` | the chat or the panel, with their bounds | instance |
| `SessionClientProofs` | theorems about `ThreadPanel`, `MockSessions` and `OperatorChat` | proofs |
| `ApprovalDesk` | decisions on runs and held requests from the page | detailed |
| `RequestForms` | terminal, run builder, governed action, agent test, overlay | detailed |
| `SettingsDesk` | the editor of the settings, the launcher's snapshot, the refresh | detailed |
| `IncidentQueue` | the queue of incident packages in several tabs | detailed |
| `NativeShell` | the launcher and the strip that shows it | detailed |
| `HomeQueue` | the home's queue and its handoffs | detailed |
| `MCDesk` | one of the eight parts of the page at a time, with their bounds | instance |
| `DeskProofs` | theorems about `RuntimeClient`, `ApprovalDesk`, `RequestForms`, `SettingsDesk`, `IncidentQueue`, `NativeShell` and `HomeQueue` | proofs |
| `AdminQueue` | what the six administration workspaces share | detailed |
| `IdentityOps`, `PolicyOps`, `GuardrailOps`, `ComplianceOps`, `PlatformOps`, `NetworkOps` | what each of them has of its own | detailed |
| `GovernanceDesk` | the six workspaces and governance, and what must hold of them | composition |
| `MCDesktopApprovals` | `GatewayHold` with the pairs of requests considered, or `GovernanceDesk` with the kinds in use together | instance |
| `GovernanceProofs` | theorems about `GovernanceDesk` | proofs |

### RunPipeline

| variable | in the code |
|---|---|
| `req[r]` | the request body: connector wanted, desktop tier, human approval in the payload, the retention TTL of its class |
| `pc[r]` | how far `ExecuteRun` has got for `r`; `persist..` stages stand before an upsert |
| `mem[r]` | the handler's `RunRecord`: status, decision, grant token present, expiry, human approval, responses filled |
| `stored`, `rows` | table `orchestration_runs` |
| `reviews` | approval handlers between their `GetRun` and their `UpsertRun`, with the row they will write |
| `prune` | a prune between SELECT and DELETE: its cut-off and the ids |
| `now` | the clock expiries are compared with |
| `effects`, `evidence`, `acked`, `verdicts` | history: what happened outside, what the store acknowledged to the handler, what operators were told |

One action per call that leaves the process.  `Accept` is the PENDING upsert;
`ResolveProfile`, `EvaluatePolicy`, `RunConnector`, `ObserveDesktop`,
`ActuateDesktop`, `VerifyDesktop`, `RecordEvidence`, `FinalizeBundle` are the
provider calls with the guards in front of them; `Persist` the upsert after each
stage; `PersistFailure` the one of `failRun`.  `ReadForDecision` and
`WriteDecision` are the two halves of an operator decision, `PruneSelect` and
`PruneDelete` those of the prune.  `Crash` ends the process with everything in
memory; nothing on start-up looks for runs under way.

An upsert has three outcomes: committed and acknowledged, not committed, and
committed but reported as an error.  A provider call that changes the outside
world has three as well: done and answered, done and reported as failed, not
done.  Kept of a row is what a guard or a reader looks at; a response column is
a member of a set.  The verdict of the policy provider, the entitlement checks
and the policy-lifecycle checks are choices, since their inputs are payloads.

`SessionEventLog` (below) is separate because no handler of a run reads the
events it appends.

### SessionEventLog

| variable | in the code |
|---|---|
| `log` | rows of `session_events` of one session, number to body |
| `holding[w]` | the number writer `w` has SELECTed and not yet INSERTed |
| `count[w]` | which of its appends a writer is at (identifies bodies) |
| `crossed` | history: events of which one took the other's number |
| `batch[f]` | events the stream has read and not yet written to its client |
| `cursor[f]` | the last number given to the client; it survives the stream because the client resumes from it |
| `given[f]`, `breaks[f]` | history; broken streams |

`ReadNextSequence` and `InsertEvent` are the two statements of
`AppendSessionEvent`; the event id is made of session and number, so that an
INSERT of a number in use overwrites.  `Poll` is one list query (with its limit
and its merge with events projected from a run), `WriteEvent` one event on the
wire, `Break` the end of a stream with events unwritten.

### SessionControl

| variable | in the code |
|---|---|
| `session` | the row of table `sessions`: status, `selected_worker_id`, whether `completed_at` is set |
| `task` | `status` of the task's row |
| `checkpoint[c]`, `worker[w]` | statuses of the rows of `approval_checkpoints` and `session_workers` |
| `overdue` | checkpoints whose `expires_at` has passed |
| `pc[h]`, `req[h]` | the step at which handler `h` is, and its request |
| `copy[h]`, `seen[h]` | the session row and the worker's status as the handler read them |
| `ours` | whether the task's status was last written for this session |
| `crossed` | history: handlers under way that were not alone all the while |
| `calm` | history: handlers came one at a time and none failed |
| `applied` | history: checkpoints whose approval has reached the session |

`Receive` is `getPersistedSessionForWrite` and the checks that only refuse.
`LookAtCheckpoint` and `LookAtWorker` are the second read of the handlers that
have one, `WriteRow` and `Expire` the write of the checkpoint or worker,
`WriteSession` the upsert of the whole session row made from `copy[h]`
(`Changed`), which a checkpoint, an attach and a close make even when the status
stays what it was (`Upserts`), `WriteTask` the read and write of the task, which
the task's other sessions write as well (`OtherSession`).  `Abort` stands for
every failed call and for the end of the process: what has been written stays.
Identifiers are made of the clock in nanoseconds, so a row is created once
(`Fresh`).  A session that belongs to a run (a projected one) is refused by
`getPersistedSessionForWrite` and has no row here.

### ToolProposal

| variable | in the code |
|---|---|
| `session` | status in the session's row |
| `invoked` | whether the session is one of `handleAgentInvoke`, whose id is made of the request's, or one created over the API |
| `action[p]` | status in the row of `p`'s tool action; the row's id is made of the session and the proposal |
| `standing[p]` | what `findSessionToolProposal` reads from the session's events: unknown, PENDING, or the decision |
| `todo[h]` | what the call of handler `h` still has to do, innermost call first |
| `copy[h]` | status in the `SessionRecord` that the handler passes along |
| `named`, `approved`, `starts` | history: ids that turns have used, approvals that were accepted, executions since the last offer |
| `mishaps` | overlaps, lost writes and failures so far, bounded by `MaxMishaps`; none so far is `calm` |

A decision is not one step but a nested call: it writes the tool action,
promotes the session, executes, has the worker take its next turn with the
result, and that turn may offer governed actions that are routed to policy and
executed at once, each with a turn of its own; only when all this has returned
is the event appended that says the first proposal was decided.  The tasks of
`todo[h]` are those calls, in the order in which the code makes them; `Then`
replaces the first of them by what it leads to.  `BestEffort` is a write whose
error is dropped, `Fail` an error that is answered or the end of the process.
The kind of a proposal is a constant: to execute, refused by the terminal
policy (or not convertible to a run), advisory, or routed without an operator.

The two modules on sessions share the session's row and differ in what they
look at: `SessionControl` has the requests of a session's clients with every
field of the row, `ToolProposal` the status alone and the long calls of the
runtime's own worker, with a creation, a close and a worker's offer as the
requests that matter to it.

### GatewayHold

| variable | in the code |
|---|---|
| `plan[q]` | what request `q` is (HTTP, websocket, tool call), its turn (what the retry lookups compare) and its interposition id, which names its hold file |
| `pc[q]` | how far the handler of `q` has got, or how it was answered |
| `run[q]` | the decision of the run that `createRuntimeRun` returned |
| `found[q]` | the earlier request that the lookup returned |
| `went[q]` | how forwarding ended |
| `requests`, `holds` | the JSON files `requests/<id>.json` and `holds/<id>.json`: of a request record its result state, its interposition state and whether a terminal event is kept; of a hold the request it names and its state |
| `late` | requests whose hold's deadline has passed |
| `saving[a]` | a file that an actor has read, changed and not yet written |
| `resolving[o]` | the decision an operator's window is applying: hold written, request not |
| `forwarded`, `claimed`, `resolved` | history: what the upstream may have seen, who has written its hold file, what operators wrote to it since |

Paths here are in `src/ui/desktop-ui/internal/nativeapp/`.  Every update of a
file is two steps, the read with what is made of it and `Save`, because nothing
locks the files and two processes write them.  While a `Save` is outstanding a
reader may find the file empty (`os.WriteFile` truncates first), and a `Save`
that fails, or a crash, may leave it so.  A failed update ends some callers and
is ignored by others, which is the `must` of a write.  `Handler(q)` collects the
steps a handler takes on its own; `Proxy` is apart because a websocket is
passed on without a timeout.  `Status` writes the record as if the request had
just been made, as `handleGovernedActionByID` does.

A client may choose its interposition id in a header (`localhost_gateway.go:1744`),
so that requests may share a hold file.  Each writes it as held whatever it says
(`WriteHold`), and each that polls it acts on what the others have made of it
(`PollHold`): one approval releases all that wait under the id, a denial or a
timeout ends them, and one that finishes leaves a hold marked completed or failed,
which another that waits answers with 409 (`Resolutions`).

The run behind a request is one value, since the gateway calls the runtime
before it writes anything and only then; `RunPipeline` says what that run does.
The desktop application asks the runtime to decide the run before it rewrites
the hold, and the runtime refuses runs that have no desktop part
(`api.go:819-828`), so that the decision `Status` reads is the original one.

### RuntimeApi, RuntimeClient

`RuntimeApi` has one record per method of `AgentOpsApi` (`api.js`): its endpoint
key, whether a scope is needed, what a 404, a 405 or a 501 becomes (an empty
answer, a refusal, an exception) and whether the answer's `applied` is the
runtime's or the client's.  `AnswerTo(method, reply, done)` is what the caller
gets; the desk modules use it for every reply they receive, so that a change of
the table changes all of them.  `RuntimeClient` splits a call into sending,
service and settling and keeps `endpointStatus`, the last call's word.

### OperatorChat, MockSessions

| variable | in the code |
|---|---|
| `tasks`, `timelines` | the mock runtime's maps (`api.js`), or what stands for the runtime's answers |
| `thread`, `archived`, `history` | `operatorChatState.thread`, the archived ids, the history rail |
| `handlers[h]` | a click's handler between two awaits, with the thread it has captured |
| `refresh` | `refreshInFlight`, `refreshQueued` and the tasks the running refresh has listed, or that its listing failed |
| `others` | how many tasks of the scope other surfaces have created |
| `follow`, `chains` | `operatorChatFollow` with its token, and the chains of timers and long polls that still live |
| `visible` | whether the document is visible and shows the chat |

A handler is one action per stretch between two awaits; `Next` interleaves two of
them, the refresh and the chains.  The buttons that the handler serves and that
today's markup does not render (launch, heartbeat, reattach, recover, close) are
in the model, because the handler serves them.

The history rail asks the runtime for `ListLimit` tasks (12 in the code) of the
scope and keeps those of the chat (`session-client.js:1198-1213`), so that tasks
of other surfaces push its own out.  `Listings` are the sets of the chat's tasks
it may be given: all of them, or fewer when the answer is full.  Which are left
out is a choice of the model, since the runtime orders by creation and the
runtime of the page by change.  A listing that fails, or has no scope, leaves an
empty rail (`FailedHistory`) that has forgotten whether archived threads are
shown.  `QuietHistoryIsCurrent` therefore says of a rail that has not failed that
it is a listing of what there is, and a thread may well be missing from it while
nothing on the page says so.

### ThreadPanel

`story[s]` are the changes of a session's records at the runtime and `appended[s]`
how many of them have their event; a timeline reads the records first and the
events afterwards, so its two halves may differ.  `panel`, `page`, `polls`,
`jobs` are the panel's fields, what it draws, the follower of each generation,
and the load or submission that is out.

### ApprovalDesk

`rows` is the runtime's side (`handleApprovalDecisionByRunID`), `holds` the
gateway's, `queue`, `shownHolds`, `desk` what the page shows; `deciders[d]` is a
decision under way with its reply and what the operator was told, `reload` the
refresh.

A run arrives when its handler is done with it, as one of `ArrivingRows`: of a
high tier and undecided, allowed, failed for want of its approval or deferred
(all of which `classifyApprovalStatus` calls PENDING), allowed with a grant,
denied, or without a desktop part and so without an approval.  A decision that
meets a running handler is the subject of `run_denial`.  The run of a held request is `HeldRow`: the gateway
asks for no desktop step (`localhost_gateway.go:1792-1870`), and the runtime
refuses to decide it (`api.go:819-828`).  `DecideHold` and `HoldAnswered` are
`submitNativeApprovalRailDecision`: refresh, decide, resolve the hold if the
decision was applied, which it never is, refresh, report.

The listings are limited, to 500 runs for the queue and to the page's own number
of runs.  `pushed` are the runs that enough newer ones have pushed beyond such a
limit; a listing (`Reached`) has all the others and any of these.  `filter` is the
filter of the queue, a status and the runs of its tenant and project; a refresh
reads it when it begins to list.  `ServedQueue` is what the runtime's queue
endpoint says under it, `DerivedQueue` what the page makes of the runs it has
listed when there is no such endpoint: it ignores the filter, and leaves out
runs the policy has not allowed and runs that have ended.

### RequestForms

`asks[a]` is a submission: the form, what was sent, its phase, the reply and
whether it was done.  `terminal`, `agent`, `overlay`, `editing` are the fields,
which change while a submission is out; `history` and `feedback` what is shown;
`page` the refresh the handlers await, which may break off (`PageBreaks`): the
awaiting handler then runs its own `catch` (`Broken`).

### SettingsDesk

`stored` and `launcher` are the runtime's and the launcher's side, `override`,
`draft`, `sync`, `snapshot` the page's; `tasks[t]` is an action of the operator
between sending and answer, `cycle` the refresh with `refreshInFlight` and
`refreshQueued`.  What the launcher holds is answered to it in one step and taken
over in a later one (`DataServed`, `DataRead`, `cycle.seen`), since everything else
that is read is awaited in between.  `SettingsAnswered` with an exception is the
branch in which the flag stays set.

### IncidentQueue

`queues[tab]`, `inStorage` and `mail` are the queue in memory, in `localStorage`
and in the storage events a tab has not been given yet; `details[tab]` the run
detail from which an export is made.

### NativeShell

`native` is the launcher's options, token and transition (`app.go`,
`session.go`), `shell` the last summary drawn, `form` and `locked` the strip's
controls, `asked` the calls in flight.  `ConfigureBegins` has the three outcomes
of `NativeInterpositionConfigure` up to the services: the transition is put into
the summary and its file cannot be written, so that the call fails and leaves it
there (`app.go:261-268`, `session.go:457-466`); the options cannot be stored and
the transition is taken back; or all is stored and the services follow.
`native.stuck` remembers the first of them until another transition is over.

### HomeQueue

`world` and `lane` say where each request stands; `seen` what the page last
read; the drawn queue is an operator of `seen`, cut like the code's lists
(`LiveLimit`, `IncidentLimit`, `QueueLimit` for 4, 3 and 6).  `openers` are
handoffs under way, `banner` what the handoff banner says.

### AdminQueue and the workspaces

`queue` holds the proposals of all workspaces, `adminDraft` the drafts, `adminView`
per workspace what is selected, previewed and checked, `offered` the options its
context offers, `approvals` and `executions` what was given and done (history).
The fields that say what a change does are one value of `Contents`.  A workspace
module says how its toolbar routes (the selected proposal, or the draft), what
it verifies and which conditions each button has; `GovernanceDesk` decides and
states the properties.

## 3 The runs

Eight runs hold and five are refuted.  `CHECK_DEADLOCK FALSE` stands where
requests, clicks, the clock, crashes or appends are bounded, so that the system
stops when they are used up; `sessions_control` and `tool_proposals` always have
a request left and check for deadlock.

| run | instance | question and answer |
|---|---|---|
| `run_pipeline` | one run of every tier, with connector, human approval, expiry; two approval handlers; all store outcomes; a crash; the prune; fairness (1.2 million states) | effects authorized, and only after a durable decision; a row says only what is true; a stored stage is never taken back and the prune takes only what has expired; the pipeline implements `GovernedRun`; every accepted request is answered |
| `run_denial` | high-risk run, one operator | *violated*: an applied denial is overwritten by the pipeline, see 6 |
| `events` | two writers of three appends in all, lost inserts, a follower whose stream breaks twice, pages of two; fairness | numbers have no gap; the follower is given 1, 2, 3, ..; every event whose number no other took reaches it with what it says |
| `feed_overwritten` | two writers of one append each, one follower | *violated*: what the follower was given is not what the feed says, see 6 |
| `sessions_control` | two handlers on one session, two checkpoints, a worker, another session of the task; any handler may stop anywhere; a report that ends the session (9.6 million states) | a handler that nobody crosses sets an ended session going only to apply an approval, once; while requests come singly and nothing fails, a session that waits has a checkpoint nobody has decided, a ready one has a worker, and the task agrees |
| `sessions_bypass` | one handler, reports RUNNING and COMPLETED | *violated*: a worker's event ends a session that awaits approval, see 6 |
| `tool_proposals` | two requests at once on one session; a command, an advisory proposal, an automatic one; one overlap, lost write or failure anywhere | nothing that needs an operator is executed, recorded or logged as approved without one; while nothing overlaps or is lost, an offer is executed at most once and never after a denial, and the session is not left running with nobody at work, an approved advisory proposal excepted |
| `desktop_approvals` | the gateway: two websocket requests of one turn, two calls of one tool, an HTTP request and a tool call of one interposition id, or two HTTP requests of one; an operator, a status client; any two of: decision, status request, failed write, cancelled client, crash; or the boards: one workspace at a time, or both editors of identity; two proposals, two approvals, two contents, two option lists (2.3 million states) | a held request is forwarded only after a grant of the hold it wrote; no file claims a completion that did not happen; what is executed was approved for this change with this content, each approval at most once; receipts form a chain; a policy proposal is routed only as verified; a preview is about its proposal |
| `session_clients` | the chat: two handlers, two tasks, one session, six events, three clicks; or the panel: two sessions, one job beside the follower, three changes, three generations; a rail of two tasks, one task of another surface (2.5 million states) | copies in the mock runtime agree; a proposal is decided once; one follower in each client; a put-away thread stays away; history and panel are current when all is quiet; what is told is recorded |
| `desk` | one part of the page at a time, two actors each (2.3 million states) | see the table below |
| `approvals_release` | one run, two decisions | *violated*: approving a held request releases nothing, since the runtime refuses to decide its run, see 6 |
| `refresh_stuck` | one action in the settings | *violated*: settings are applied and never reviewed, see 6 |

The parts of `desk`, by the variable `focus`:

| part | actors and faults | properties |
|---|---|---|
| calls | one call of any method; replies lost, 404, 5xx; endpoint or scope missing | `AnswersAreTrue` |
| approvals | two decisions on one run of every kind, held or not; expiry; hold timeout; a filter of status or scope; a run pushed out of the listings; refreshes that fail; with and without the two endpoints; sample data | `GrantFollowsDecision`, `PageTellsTheTruth`, `WaitingRunsShown` |
| settings | two actions of the operator among save, apply, reset, activate, secure reference, sign-out; the refresh | `AppliedThroughRuntimeWasWritten`, `QuietSnapshotIsCurrent` |
| incidents | two tabs, two packages, three writes, refused writes | `QuietTabsAgree`, `ClosedWasFiled` |
| shell | two calls among status, configure, restart; changes that fail when announced, when stored or half way; a page without a bridge | `QuietShellIsLaunchers`, `TokenClearedByChoice` |
| home | two requests, two handoffs, all list limits 1 | `HomeIsReliable` |
| commands | two submissions of the terminal, the run builder or a governed action; reruns; a refresh that breaks off; terminal policies | `PageTellsTheTruth` |
| agent | two invocations or reloads, retyping, another profile, the overlay edited | `PageTellsTheTruth` |

Properties that say *quiet* state what a client shows when nothing is under way;
each names in its comment the crossings after which the code promises less, and
those are listed in 6.

Why the bounds are enough.  Runs share nothing but the store and the store has
no statement about two runs except the prune's, which takes or leaves each row
by its own expiry; one run suffices.
Two approval handlers are needed for one to overwrite the other, a third
repeats the second.  Expiry of a row, decision time, and cut-off are ordered in
every way by a clock of 2.  A crash ends every handler at once, and a run
is never taken up again, so that one crash is as many as matter to a run.  For
the log, two writers with three appends overwrite, leave a lost number to be
used again, and hold a number read long ago; a limit of 2 forces a second poll.

For session control, two overlapping handlers are what a lost update takes; a
third would only overwrite the second.  Two checkpoints let one be decided while
the session waits for the other, and let a checkpoint be asked of a session that
waits already.  A report BLOCKED stands for those that end the session; reports
that do not end it write the same row as a tool action.  `SessionBound` lets one
deadline pass, and only before handlers have crossed or failed, after which the
task's other session is quiet too: what is said of deadlines and of the task is
said of the time before.

For tool proposals, two requests are what an overlap takes, and a proposal of
each kind what a turn can mix; `MaxMishaps` is 1, which lets one write be lost
or one request come in between at every point of a call.  The same properties
were checked for one handler with three mishaps (22 million states), and with
two automatic proposals in one turn (6 million).

For the gateway, two requests are what a retry takes, and every file has at
most three writers in the code (its handler, the operator's process, and a
status request or a retry), each of which is there.  `MaxEvents` is 2, so that a
grant can meet a denial, a status request, a lost write or a crash.  Two
requests of one interposition id overwrite, resolve and finish one hold in every
order; a third would do what the second does.

For the page, JavaScript runs one handler at a time and two waits that cross
need two handlers; the refresh, its queued successor and the follower come on
top of them.  `MCBound` of `MCDesk`, `MCSessionClients` and `MCDesktopApprovals`
cut the products of independent choices and say so in a comment: two actions of
the settings only while signed in and with a refresh that is not lost (that case
has one action and a run of its own), two decisions only on sample data or
where the runtime has both approval endpoints or neither, of a run that was held,
evaluated or has failed, with no filter set and the run in reach of the listings,
a filter only on a run in reach (of one status, or of no run), of the panel one call of an older generation
at a time, of the chat tasks of other surfaces and a failed rail only while no
session is followed, and of the governance desk two proposals with one approval or one
proposal approved twice, and both editors of identity only while all verdicts are
offered.  The home was checked with three requests (12.9 million
states) and the request forms with all their parts together (4.4 million), with
the same answers.  `QueueLimit` and its kind are 1 so that a list of two is cut.
The view of `desk` leaves out two flags of the refresh that only
`refresh_stuck` looks at.

Symmetry is used for handlers, checkpoints, the gateway's requests and interposition
ids, slots, and the actors of each part of `desk`, whose names no part of the code
compares, and only where no liveness is checked.

## 4 Fairness

`RunPipeline!FairSpec`: weak fairness of each handler's next step.  A provider
call ends by the timeout of the HTTP client (`providers.go:384-389`, 10 s unless
configured); a store call ends by the request's context or an error of the
driver; between them the handler only computes.  No fairness for requests,
operators, the prune, the clock or crashes: nothing obliges them.

`SessionEventLog!FairSpec`: weak fairness of polling and writing for each
follower.  The stream polls on a 250 ms ticker (`api_v1alpha2.go:3415-3441`) as
long as it lives; a stream that ends is opened again by a client that follows,
from the last number it was given
(`src/clients/cli-agentops/main.go:219`).  Without fairness for writers: an
append is never owed.

The modules of the page state no fairness.  A browser obliges nobody to click,
`fetch` in `api.js` has no timeout, and timers are throttled in hidden tabs; what
these modules promise about an end is stated of quiet states.

## 5 The proofs

| theorem | statement |
|---|---|
| `RunPipelineProofs!TypeCorrect` | `Spec => []TypeOK` |
| `RunPipelineProofs!StagesRelyOnEarlierStages` | `Spec => []PipelineInv` |
| `RunPipelineProofs!EffectsAreAuthorized` | `Spec => []EffectsAuthorized` |
| `RunPipelineProofs!DecisionIsDurableFirst` | `Spec => []ActsOnDurableDecision` |
| `RunPipelineProofs!PipelineIsGoverned` | `Spec => GovernedSpec` |
| `RunPipelineProofs!RowsAreTrue` | `Spec => []StoredRowsAreTrue` |
| `RunPipelineProofs!RowsMoveOn` | `Spec => OrdinaryRowsMoveOn` |
| `SessionEventLogProofs!TypeCorrect` | `Spec => []TypeOK` |
| `SessionEventLogProofs!LogHasNoGap` | `Spec => []SequencesGapFree` |
| `SessionEventLogProofs!FollowersAreInOrder` | `Spec => [](~RunProjected => FollowersInOrder)` |
| `SessionControlProofs!TypeCorrect` | `Spec => []TypeOK` |
| `SessionControlProofs!EndedHasItsTime` | `Spec => []EndedHasTime` |
| `SessionControlProofs!SelectedHasItsRow` | `Spec => []SelectedIsAttached` |
| `SessionControlProofs!ResolvedIsNotReopened` | `Spec => ResolvedStaysResolved` |
| `SessionControlProofs!PendingIsLeftOnce` | `Spec => NeverPendingAgain` |
| `SessionControlProofs!ApprovalReopensOnce` | `Spec => ReopenedOncePerApproval` |
| `SessionControlProofs!CalmSessionsAgree` | `Spec => []CalmSessionAgrees` |
| `GatewayHoldProofs!GatewayTypeCorrect` | `Spec => []TypeOK` |
| `GatewayHoldProofs!HeldNeedsApproval` | `Spec => []HeldForwardedOnlyIfGranted` |
| `GatewayHoldProofs!FilesClaimTrue` | `Spec => []FilesClaimOnlyWhatHappened` |
| `GatewayHoldProofs!ToolApprovalIsGranted` | `Spec => []ToolApprovalWasGranted` |
| `ToolProposalProofs!ProposalsAreWellFormed` | `Spec => []TypeOK` |
| `ToolProposalProofs!NothingRunsUnapproved` | `Spec => []NothingUnapproved` |
| `ToolProposalProofs!CalmSessionsHold` | `Spec => []CalmSessionHolds` |
| `GovernanceProofs!AdminTypeCorrect` | `AdminSpec => []AdminTypeOK` |
| `GovernanceProofs!ExecutedAsApproved` | `AdminSpec => []AppliedAsApproved` |
| `GovernanceProofs!ApprovalsSpentOnce` | `AdminSpec => ApprovalSpentOnce` |
| `GovernanceProofs!ReceiptsTellTheTruth` | `AdminSpec => []ReceiptChain` |
| `GovernanceProofs!PolicyRoutedVerified` | `AdminSpec => []RoutedPolicyVerified` |
| `GovernanceProofs!PreviewsAreOfTheQueue` | `AdminSpec => []PreviewDescribesChange` |
| `SessionClientProofs!PanelIsWellFormed` | `PanelSpec => []PanelTypeOK` |
| `SessionClientProofs!PanelHasOneFollower` | `PanelSpec => []OnePanelFollower` |
| `SessionClientProofs!PanelTellsWhatWasRecorded` | `PanelSpec => []ToldWasRecorded` |
| `SessionClientProofs!QuietPanelShowsRecords` | `PanelSpec => []QuietPanelIsCurrent` |
| `SessionClientProofs!ChatIsConsistent` | `Spec => []ChatInv` |
| `SessionClientProofs!ChatCopiesAgree` | `Spec => []CopiesAgree` |
| `SessionClientProofs!ProposalsDecidedOnce` | `Spec => []DecidedOnce` |
| `SessionClientProofs!ChatHasOneFollower` | `Spec => []OneFollower` |
| `SessionClientProofs!QuietRailIsCurrent` | `Spec => []QuietHistoryIsCurrent` |
| `SessionClientProofs!ThreadsAreOpenedByChoice` | `Spec => OnlyHandlersOpenThreads` |
| `DeskProofs!DeskIsWellFormed` | `DeskSpec => []DeskTypeOK` |
| `DeskProofs!GrantsFollowDecisions` | `DeskSpec => []GrantFollowsDecision` |
| `DeskProofs!OperatorIsToldTheTruth` | `DeskSpec => []ToldTheTruth` |
| `DeskProofs!WaitingIsShown` | `DeskSpec => WaitingRunsShown` |
| `DeskProofs!QueueIsWellFormed` | `QueueSpec => []QueueTypeOK` |
| `DeskProofs!NothingClosesUnfiled` | `QueueSpec => []ClosedWasFiled` |
| `DeskProofs!QuietTabsKeepOneQueue` | `QueueSpec => []QuietTabsAgree` |
| `DeskProofs!ClientIsWellFormed` | `ClientSpec => []ClientTypeOK` |
| `DeskProofs!CallersAreToldTheTruth` | `ClientSpec => []AnswersAreTrue` |
| `DeskProofs!SettingsAreWellFormed` | `SettingsSpec => []SettingsTypeOK` |
| `DeskProofs!AppliedSettingsWereHeld` | `SettingsSpec => []AppliedThroughRuntimeWasWritten` |
| `DeskProofs!QuietPageIsCurrent` | `SettingsSpec => []QuietSnapshotIsCurrent` |
| `DeskProofs!ShellIsWellFormed` | `ShellSpec => []ShellTypeOK` |
| `DeskProofs!QuietStripIsTrue` | `ShellSpec => []QuietShellIsLaunchers` |
| `DeskProofs!TokensAreClearedByChoice` | `ShellSpec => TokenClearedByChoice` |
| `DeskProofs!HomeIsWellFormed` | `HomeSpec => []HomeTypeOK` |
| `DeskProofs!HomeCanBeReliedOn` | `HomeSpec => []HomeIsReliable` |
| `DeskProofs!FormsAreWellFormed` | `FormsSpec => []FormsTypeOK` |
| `DeskProofs!PageIsTruthful` | `DeskSpec /\ FormsSpec => []PageTellsTheTruth` |

They hold for every set of runs, requests, sessions' handlers, operators, writers, followers,
clients, decisions, tabs, calls, submissions, changes, jobs and handlers of the
page, for every finite set of proposals, and for every value of the bounds.  Assumed are only the `ASSUME`s of
the modules: a run pipeline's `Decisions` holds ALLOW and DENY and not the empty
text, a gateway's are among ALLOW, DENY and DEFER; store outcomes are among the
three; bounds are natural numbers; a request is well formed; the projecting run
is not a writer; requests, operators and clients of the gateway are different
actors; a proposal is of one kind only; a held run is one of the runs; the
incident queue has room for a package; the mock runtime has room for a task and
a session; requests of the home are numbered; an offered draft is made of
contents, of which the fallback is one and "unset" is not; None is none of the
values it stands beside.

*Run pipeline.*  `EffectsAuthorized` and `ActsOnDurableDecision` are not
inductive: that a connector may run now depends on what an earlier stage left
in memory.  `StageInv(r)` says, stage by stage, what the rest relies on: no
decision and no effect before the policy stage; a decision and, if grants are
required, a grant from `persistPolicy` on; an acknowledged POLICY_EVALUATED
upsert from the first effect stage on; evidence not taken while effects are
possible; a due and permitted desktop step while it is under way.  A step of
run `r`'s handler changes the state of `r` alone, and steps of operators, prune
and clock change none of it, which is the content of the frame lemmas: that is
why no operator's rewrite of a row can widen what a run does.

*Refinement.*  The map takes `pc` to the outcome and the decision in memory to
the verdict.  `EvaluatePolicy` may set a decision and fail in one step, which
the abstract specification takes as `Decide` because outcome stays open until
`failRun` is done; effects and evidence are the same variables in both.

*Run rows.*  A row is written by the run's handler and by operators, from copies.
`True` is what a row says of the world, that COMPLETED rests on finalized evidence
and the responses and that a human approval came with its grant, and once true
stays true, so that a copy of any age is still true when it is written
(`ReviewsTrue`).  `Record` says of the handler's memory what each stage has put
into it; `Follows`, of a run no operator can decide, that its row is that record
or an earlier one.  From that and `Moves`, each step leaves the record alone or
advances its status, follow both theorems; a row that is deleted is one whose
expiry the prune had seen (`PruneTrue`).

*Event log.*  `LogInv`: the numbers in use are `1..n`, and a number a writer
holds is at most `n + 1`.  A held number read long ago is then in use or the
next, so an INSERT overwrites or extends and never leaves a gap.  `FollowInv`:
a batch holds all numbers from the cursor up to its last one, each once; it
stays so when the log grows, because the log grows at its end.

*Session control.*  A session row can be written from any copy, so `RowsSound`
says of the row and of every handler's copy alike that an ended one carries its
time and that its selected worker is one that is attached; worker rows are
never deleted, hence a copy stays sound while it ages.  `AttachInv` adds that an
attach that is about to write the session has written its worker.  For the
action properties, `CheckpointInv` says that a handler about to write a verdict
looked at a checkpoint that existed, so that PENDING is only ever written to an
identifier without a row, and `CreateInv` that while the creation of the
session is under way there is no row that anybody else could have read.
A handler that nobody crosses finds the row as it read it (`LoneInv`), and its
checkpoint pending; what has been applied before is resolved and stays resolved,
whoever crosses whom (`AppliedInv`), hence `ReopenedOncePerApproval`.
`CalmInv` is about the time before two requests overlap or one fails: there is one
handler at most, `Midway` says what its session, checkpoint and worker have in
common at each of its steps, and between two requests all of it agrees.  That a
worker's late report cannot break this is the lemma on what each handler makes of
a row (`ChangedAgrees`), and that a session with workers has one selected.  What
the task's other sessions write ends the claim on the task (`ours`) until this
session writes it again.

*Gateway.*  Every file can be overwritten from a copy read long ago, and a hold
file by every request of its id, so nothing can be said of how the files follow
each other.  `GatewayInv` says instead that every request file (`FileInv`), every
hold (`HoldInv`) and every file about to be written (`WriteInv`) claims only what
is true: a granted hold was approved for every request that has claimed it, a
completed one has a request the upstream has.  Both claims stay
true once they are, which is why a copy read earlier is still true when it is
written, and why lost updates, emptied files and crashes cannot make a false one.
That a hold is written as held again by another request does not hurt: claiming a
hold unresolves it, and whoever waits on it waits on.  `Fits` is what a handler
relies on at a stage (from `resume` on a deferred request was approved; before
`record` it has no file and nobody is writing one, so that its decision cannot
change under a file), `WaitInv` that one that waits has claimed its hold, and
`ResolvingInv` ties the hold an operator is writing to the verdict that its
request file will be given.

*Tool proposals.*  The calls of a handler nest: a decision executes a command,
whose result continues the worker, whose turn may offer proposals that are
executed in turn.  `todo[h]` is what handler `h` still has before it, and
`NothingUnapproved` is not inductive because it does not speak of it.
`ProposalInv` adds `Work`: each task that executes a reviewed proposal, or logs
its approval, is for one that was approved, and the row of its action is there
or an earlier task of the same list authorizes it.  Approvals and rows are never
taken back, so that a list stays right while it waits for another handler
(`WorkStays`), and each action either takes the first task (`RestIsWork`) or puts
tasks in front of the rest (`JoinedIsWork`).  Nothing in the argument depends on how often
handlers overlap or which of their writes are lost.
`CalmInv` is about what they do when none of that has happened.  Then one handler
has tasks, and `Orderly` says of each of them what comes before and after it: an
execution is of a proposal that has not been started and no other task starts it;
it is followed by its verdict; a task that sets the session going is followed by
one that ends the turn.  An action takes the first task and puts new ones in its
place; `Succeeds` is what it takes for the others to fit as they did, proved once
for each kind of task.  At the end of the list nothing is left half done, which
is `CalmSessionHolds`.

*Administration.*  `AdminInv` says of every queued proposal what its status says
(`ItemTrue`): routed ones have no receipts yet, approved ones have an approval of
this change as it reads now that nothing was executed under, executed ones an
execution that is on record.  The operators of `AdminQueue` that the six
workspaces share get a lemma each, so that a workspace's action is a choice of
the lemma and of its content; the verify gate and the previews, which are kept
apart from the queue, are tied to it by `NamesPolicy` and `PreviewTrue`, and
those are what an edit or a rollback in between could break.

*Approvals of the page.*  `DeskInv` says of every row that its grant and status
are those of its decision, of every hold that waits that its run has no approval,
so that no decision of it is applied, and of every decision under way what it may
rely on: once it has its answer, or has been told one, the run stands as asked.
That these stay true is `Later`: at a live runtime a decision is final, a waiting
run keeps its row until it is decided or expires, and none begins to wait again, so
that whatever held of rows read earlier still holds of the rows now.  On sample
data a decision may be replaced, hence the `~sample` in `ToldTheTruth`.
`WaitingRunsShown` needs `ReloadSound`: a run that is due and not pushed out was
among those listed, whatever else the listing held, and if it is still one the
page would derive it was one then.

*Incident queue.*  A tab takes over, stores and sends whole queues of any age.
`QueueInv` asks of each of them, in a tab, in storage or on its way between
tabs, that a package beyond *drafted* has been filed, and that no id is beyond
those given out.  Packages made and filed only grow, hence a sound queue stays
sound however long it is on its way (`SoundStays`); what a tab does to its own
queue keeps it sound.  `TabsCatchUp` speaks of `Newest`, the queue a tab will keep
once it has been told of everything: as long as no write was refused and none
crossed another, that is the stored one, for every tab.

*Client.*  The table of `RuntimeApi` is looked through once: a method that writes
is `CarefulWrite`, it never makes a success of a missing endpoint or of a refusal.
Then a reply says no more than was done (`TrueReply`) and an answer no more than
the reply, for each call alone.

*Settings.*  What is shown as applied through the runtime has been through an
answered apply or a read, and `HeldOnce` says so of the values on their way too.
`ReadOver` says why a snapshot, or what has been read and is about to replace it
(`WillShow`), may be out of date: a refresh that will read it again is under way,
queued or owed to an answer, or the last one failed.  A quiet page has none of
these left.

*Launcher strip.*  A call is `alone` if no other was out at the same time; for one
that is, `SoundAsking` carries what it was answered, as what the launcher has,
through the loading and the status calls that follow.  Calls that crossed another
claim nothing.  A transition belongs to the configuring call that makes it, unless
one has failed to announce it (`MovingSound`); a call that is alone and does not
turn anything therefore meets a launcher at rest or one that is stuck, and its
summary stays true until it is drawn (`AloneIsStill`).

*Home.*  The queue is cut three times to its first entries.  Rank is the number of
entries before one, so that the first *n* of a finite set are *n* or all of it
(`FirstOnes` and its lemmas); a cut can then leave out a request only in favour of
as many more urgent ones.  That the sets are finite is part of the invariant:
only finitely many requests have come.

*Request forms.*  What is told of a submission is told when it has its answer.
From there on it `Carries` what was sent, done and replied, and can only break off;
hence what the terminal's history, the forms' feedback and the agent's answer say
of it stays true while it is edited over (`HistorySound`, `FeedbackSound`,
`AgentSound`).  Each action is one submission that `GoesOn`, and what it enters
anew.  `PageIsTruthful` joins this with what the decisions tell.

*Thread panel.*  `FollowersOK` orders the followers by the generation they were
started in: those beyond the current one have not begun, and the one that has the
timer has no call out, whatever opens and closes the panel.  Records only grow, so
that a decision that was found recorded is still recorded when it is told
(`Telling`), and no view and no load is ahead of them (`NotAhead`).  `CaughtUp` is
the other direction: a view whose records are behind the events it knows of is
being read again by a follower of the current version, unless it has slipped,
which the model marks where the code drops the reading.

*Chat.*  `Sound` is what a timeline of the mock runtime has to agree on with
itself: the selected worker with the list of workers, the task's status with the
session's, decision and start of a proposal with each other (`Once`).  Each of its
operations keeps every timeline sound whoever calls it and when
(`CreateSessionIsSound` and its like), so that neither the chat's handlers nor the runtime workspace
nor another surface needs to be looked at again.  `HandlersOK` says that a handler
at work has a thread with a task.  `Following` says that no chain of polls is ahead
of the token and one at most is level with it; clearing a thread moves the token
past all of them, and with no thread none polls, which is why a late poll cannot
bring it back.  `Listing` says that the history is a listing of what there is, or has failed, or a
refresh is under way, or a handler that has created a task is yet to read it; a
listing stays one when other surfaces add tasks, for they only make it fuller.

Every property of the passing runs has a theorem but two.  `HandlerReturns` and
`FollowersCatchUp` are liveness under fairness, which is out of the prover's reach,
as is whether an action is enabled: that nothing deadlocks is TLC's to show.
The type invariants are theorems and not among the runs' properties, but for one.
`ChatTypeOK` is not proved: the turns of a thread are put in order by a
recursive function over them (`InOrder`), and what such a function yields for every
input takes an induction over data.  What the chat's theorems need of the types
is in `ChatInv`; the rest TLC finds to hold of the instance of `session_clients`
(`ClientTypesOK`, in all of its states).
The five runs that expect a violation show a
behaviour the code has; there is nothing to prove about them but the trace.

## 6 Findings

* `run_denial`: a run is open for review from its PENDING row on
  (`classifyApprovalStatus`, `api.go:2242`, does not look at the status), while
  its handler is still in `ExecuteRun`.  A denial is then written and answered
  *applied*, and the handler's next upsert of its own record replaces it.
  `api_approvals_test.go:292-299` asserts what a row reads after an applied
  denial; it denies a run nobody is working on.
* `feed_overwritten`: two handlers that read the same next number overwrite each
  other's event (`store_v1alpha2.go:1093-1112`), after a follower may have been
  given the first, although
  `docs/specs/m16-control-plane-contract-spec.md:342` calls the stream an
  append-only ordered feed.
* `sessions_bypass`: line 426 of the same document says that workers do not
  bypass approval checkpoints; `sessionStatusForWorkerStatus`
  (`api_v1alpha2.go:2594-2623`) protects AWAITING_APPROVAL from five of the
  statuses a worker can report and not from COMPLETED.
* `approvals_release`: the pinned review of a held request asks the runtime to
  decide the run behind it and resolves the gateway's hold only when the answer
  is `applied` (`main.js:11785-11788`).  The gateway makes that run without a
  desktop block (`localhost_gateway.go:1792-1870`), and the runtime answers 409 to
  a decision on such a run (`api.go:819-828`): the approval is reported as failed,
  and the hold stays until it times out; `review.js:149` promises "Approving
  releases the held request to continue."
* `refresh_stuck`: `refresh()` sets its flag and awaits the project's settings
  before its `try` (`main.js:7723`).  When that read answers 500 or its reply is
  lost, the flag stays, and every later refresh is queued behind one that has
  ended; `main.js:14004` tells the operator to apply again and review the audit
  trail, which that page reads no more.

With `RunProjected` a cursor at 2 passes stored events, since the two events
projected from a run carry the numbers 1 and 2 (line 398 of
`docs/specs/m16-control-plane-contract-spec.md` says clients can resume from a
cursor); an earlier run of `SessionEventLog` showed it and is not kept.

Seen while modelling `SessionControl`, where no document says otherwise: a
decision whose session write failed is stored, and repeating it is answered as
already applied, so that the session waits until something else moves it; an
approval of an old checkpoint sets an ended session going with `completed_at`
still set, a denied one included; approving one of two pending checkpoints sets
the session READY while the other is pending; a checkpoint found expired leaves
the session waiting for an approval nobody can give; a checkpoint asked of a
session that waits already writes its row again and may undo a decision made
since; attaching a worker to an ended session, and events of workers of an
ended session, are accepted.

Seen while modelling `ToolProposal`, where no document says otherwise: two
decisions that overlap, or a second one after the decided event was lost,
execute the command twice, and one may be a denial; denying the only proposal
leaves the session AWAITING_APPROVAL with nothing left to decide; a turn taken
after one proposal was executed completes the session although others wait, and
those can then not be decided (`api_v1alpha2.go:1694-1697`); a command approved
before a session was closed runs after it, and the worker's next turn sets the
closed session RUNNING (`managed_worker_resume.go:291`); approving an advisory
proposal sets the session RUNNING and executes nothing; an offer with the id of
a decided proposal makes it PENDING again; nothing bounds how many automatic
actions one call may lead to.

Seen while modelling `GatewayHold`, where no document says otherwise: only
DEFER asks for approval, so that the compatibility endpoints forward a request
whose run was decided DENY; a status request rewrites the record of a granted or
finished request as if it had just been made, so that a granted tool approval
can be lost; two requests of one websocket turn in flight at once are both
forwarded, since the lookup (`localhost_gateway.go:819`) comes before the run is
created and the record after it (`:856`); an operator can grant a hold that has timed out; the hold of a
websocket request is never finished; two concurrent retries of a tool call can
both carry one approval.

Seen while modelling the page and its launcher, where no document says
otherwise.

*Refresh.*  Its early return for an operator who has to sign in leaves a queued
refresh queued and skips the follower's reconciliation.  A read of the settings
replaces what was typed or saved meanwhile; a save during an apply, or two
applies that overlap, are replaced by the last answer; an override applied
locally is replaced by the runtime's settings at the next refresh.  A failed
operation on a secure reference is not followed by a refresh.

*Chat.*  The answer to a sent turn is appended to whatever thread is shown when
it arrives (`main.js:12600`); launch and decide write back the thread they
captured before their await; a follow answer may replace a thread that a handler
has changed until the next refresh; a resume during a send shows a session
twice; the live rendering wipes a prompt being typed; a load that fails after a
launch leaves a turn without its session.  `applyIncidentQuickView` is called
(`main.js:16351`, `16355`) and defined nowhere.

*Thread panel.*  Of two decisions that cross, the later one stays; a view that
was read while the records changed stays old until the next event; the panel
prompts with `window.prompt`, which VS Code webviews suppress.

*Approvals.*  The review shows what the refresh before has read; a decision that
was refused as unchanged leaves the modal open.  Where the runtime has no queue
endpoint, the derived queue ignores the filter, leaves out runs that wait
undecided, deferred or failed (`api.js:2828-2838` against `api.go:2242-2259`), and
shows runs that have no approval to give.  A waiting run that 500 newer ones have
pushed out of the listing is shown nowhere, and a page and page size that
together ask for more are answered 400 (`api.go:2005`), which the refresh takes
for a failure.

*Request forms.*  When the refresh awaited after a submission breaks off, the
handler's `catch` takes it for a failure: the terminal enters the command a
second time as FAILED, and the run and action forms replace "submitted" by
"failed", although the work was done; a resubmission then makes a second run,
since every payload has a fresh request id.  The terminal reports "queued" for a
command that the runtime has already executed, and may have seen fail; a run
that does not exist (404 `RUN_NOT_FOUND`) is reported as an endpoint not
exposed.  An agent test stays "running" when its first refresh breaks off; its
answer replaces the prompt typed meanwhile; a reload of the session that crosses
a new invocation shows another session beside the answer; choosing another
profile leaves the old answer shown.  A governed action's late answer puts its
run into the terminal's run field.  The overlay's persona never supplies the
subject, because the form fills its own default first.

*Incident queue.*  Package ids have the resolution of a millisecond; writes that
cross leave tabs with each other's queue; a refused write is swallowed; a late
answer of a run's detail opens a run that was put away.

*Launcher strip.*  A refresh that crosses a change of the interposition leaves
the strip turning on, and locked, until the next one; a change that fails when its
transition is announced leaves the launcher turning on or off with its options
unchanged (`app.go:261-268`), each refresh then locks the controls until a restart
frees them, switching off what was never on changes nothing, and saving the
upstream then switches it on; switching on a strip drawn
from an old summary clears the saved token; a restart answers ok even where it
failed (`app.go:152-177`).

*Home.*  Only the newest four reviews are taken up, so that one near its deadline
may drop to the entry of its run; the banner of a handoff is never drawn again;
of two handoffs the refresh of the earlier may land last.

*Administration.*  The platform and guardrail toolbars build the selected
proposal again from the draft when they route; a proposal saved or simulated
again still hands out its old receipts beside its new content; the network
workspace keeps a rollback reason that was typed for another proposal; the
retention class of an export is kept when its audience changes.

Hazards known and not listed in `PROJECT.json`, which keeps to those most worth
covering: provider selection from conditions of an old probe (`providers.go:137`),
policy versions compared part by part as numbers or text
(`orchestrator.go:1126`), the audit buffer that drops its oldest records
(`audit.go:49`), a pid file that outlives its process
(`ui/desktop-ui/internal/nativeapp/runtime_supervisor.go:122`), an approved run
put back to POLICY_EVALUATED that nothing resumes (`api.go:866`), and a proposal
beyond the first 1000 events of its session that is not found
(`api_v1alpha2.go:3603`).

## 7 What is not modelled

Listed component by component in `PROJECT.json`.  In short: provider adapters,
the registry and its reconciler, connectors, authentication, catalogs, exports,
the command-line, chat and workflow clients, process entry points and tooling
keep no state that others depend on, or only the state of other services; what
they decide is a choice in the models.  Starting and stopping services through
pid and status files is left out of the launcher's model.  Of the page, what only
formats or filters what was read is left out: the governance report, the audit
and evidence panels, logs, paging, themes, the markup of the boards; a module
that models a panel takes from its view only what decides which buttons there
are.  Payloads, digests and rendering are data.  Audit and metrics calls have no
reader in the models.

## 8 What is left

1. More abstract specifications that the detailed ones implement, as `GovernedRun`
   is for the pipeline: an approval that is asked for, given once and used once, for
   the gateway's holds and for governance; an ordered feed for the event log.
2. Reports and read-only panels hold no state of their own; nothing in them can be
   checked beyond what a unit test shows.
3. The provider selection, the policy version order and the audit buffer are pure
   functions or one list behind a lock: operators against a reference definition
   would restate them.

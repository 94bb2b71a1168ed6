----------------------------- MODULE SettingsDesk -----------------------------
(***************************************************************************)
(* The settings of the desktop page and its refresh.  The editor keeps a   *)
(* draft, saves it as the override of the project, and applies or resets   *)
(* it through the runtime; where the runtime cannot be asked the override  *)
(* is applied locally.  The launcher holds the activation of the provider  *)
(* route and the secure references; the page keeps a snapshot of both.  A  *)
(* refresh runs one at a time, the next is queued: it reads the settings   *)
(* of the project until they are loaded, then everything else.             *)
(*                                                                         *)
(* A request is served when the service sees it and answered when the page *)
(* sees the reply, so that a page may be told what holds no longer.        *)
(***************************************************************************)
EXTENDS RuntimeApi

CONSTANTS Drafts,   \* the settings the operator may type
          Tasks     \* the actions of the operator in a behaviour

VARIABLES inScope,    \* whether a tenant and a project are selected
          signedIn,  \* whether the operator is signed in, where sign-in is needed
          stored,    \* the settings the runtime holds
          written,   \* (history) all the settings it has held
          work,      \* (bound) what the operator works with: "settings", "route" or "refs"
          launcher,  \* what the launcher holds of it
          override,  \* [value, applied, source]: the override of the project
          draft,     \* what the editor shows
          sync,      \* part -> how far the settings of the project have been read
          snapshot,  \* what the page believes the launcher to hold of it
          tasks,     \* the actions of the operator: [kind, value, step, reply]
          cycle      \* [phase, queued, reads, read, seen, since, tried, ok]: the refresh

settingsVars == <<inScope, signedIn, stored, written, work, launcher, override, draft, sync, snapshot, tasks, cycle>>

Parts == {"integrations", "connectors"}
Baseline == "baseline"
Values == Drafts \cup {Baseline}
Old == "old"
New == "new"
NoTask == [kind |-> "none", value |-> "none", step |-> "none", reply |-> "none"]
Idle == [phase |-> "none", queued |-> FALSE, reads |-> "none", read |-> "none", seen |-> "unknown", since |-> FALSE, tried |-> TRUE, ok |-> FALSE]

SettingsTypeOK ==
  /\ inScope \in BOOLEAN /\ signedIn \in BOOLEAN
  /\ stored \in Values \cup {"none"} /\ written \subseteq Values
  /\ work \in {"settings", "route", "refs"} /\ launcher \in {Old, New} /\ snapshot \in {"unknown", Old, New}
  /\ override \in [value : Values \cup {"none"}, applied : BOOLEAN, source : {"none", "local-fallback", "runtime-endpoint"}]
  /\ draft \in Values
  /\ sync \in [Parts -> {"unloaded", "loaded", "loaded-empty", "endpoint-unavailable", "scope-unavailable"}]
  /\ cycle.phase \in {"none", "native", "settings", "data", "taking", "ending", "lost"}

\* The project has been selected, and its settings could not be read so far.
SettingsInit ==
  /\ inScope \in BOOLEAN /\ signedIn = TRUE
  /\ stored \in {"none"} \cup Drafts /\ written = {stored} \ {"none"}
  /\ work \in {"settings", "route", "refs"} /\ launcher = Old
  /\ override = [value |-> "none", applied |-> FALSE, source |-> "none"]
  /\ draft = Baseline
  /\ sync = [p \in Parts |-> "unloaded"]
  /\ snapshot = "unknown"
  /\ tasks = [t \in Tasks |-> NoTask]
  /\ cycle = [Idle EXCEPT !.phase = "native"]

\* How a service fails: it says so, or its reply is lost; something may have been done.
Fails == {"error", "network"}

-----------------------------------------------------------------------------
(* The refresh *)

\* The refresh is taken for running until it says otherwise.
InFlight == cycle.phase # "none"

AskedLost ==   \* Mutant: a refresh asked for while one runs is forgotten
  IF InFlight THEN cycle ELSE [cycle EXCEPT !.phase = "native", !.since = TRUE]

\* refresh() is called.
AskedAgain == IF InFlight THEN [cycle EXCEPT !.queued = TRUE] ELSE [cycle EXCEPT !.phase = "native", !.since = TRUE]

\* An action of the operator that ends with a refresh waits for it only if it is its own.
Refreshes(t) ==
  /\ cycle' = AskedAgain
  /\ tasks' = [tasks EXCEPT ![t].step = IF InFlight THEN "over" ELSE "refreshing"]

Unread(p) == sync[p] \notin {"loaded", "loaded-empty"}

\* The state of the native shell has been read; the parts of the settings that are not
\* loaded are asked for, without a scope they cannot be.
NativeSynced ==
  /\ cycle.phase = "native"
  /\ sync' = [p \in Parts |-> IF Unread(p) /\ ~inScope THEN "scope-unavailable" ELSE sync[p]]
  /\ cycle' = [cycle EXCEPT !.phase = "settings", !.reads = "sent"]
  /\ UNCHANGED <<inScope, signedIn, stored, written, work, launcher, override, draft, snapshot, tasks>>

\* The runtime is asked for both parts at once; the settings it holds now are what the
\* page will be told.
SettingsServed ==
  /\ cycle.phase = "settings" /\ cycle.reads = "sent"
  /\ \E reply \in {"ok", "404"} \cup Fails :
       cycle' = [cycle EXCEPT !.reads = IF \E p \in Parts : Unread(p) /\ inScope THEN reply ELSE "none", !.read = stored]
  /\ UNCHANGED <<inScope, signedIn, stored, written, work, launcher, override, draft, sync, snapshot, tasks>>

\* How a part stands after its read.
SyncedAs(p) ==
  IF ~(Unread(p) /\ inScope) THEN sync[p]
  ELSE IF cycle.reads = "404" THEN "endpoint-unavailable"
  ELSE IF p = "integrations" /\ cycle.read = "none" THEN "loaded-empty" ELSE "loaded"

\* What was read replaces the override and the draft, whatever was typed or saved
\* meanwhile.  An exception of a read ends the refresh before it can say that it has
\* ended.  A page whose operator has to sign in stops here, and leaves a queued refresh
\* queued.
SettingsAnswered ==
  /\ cycle.phase = "settings" /\ cycle.reads # "sent"
  /\ IF AnswerTo(IntegrationSettings, cycle.reads, FALSE) = "throws" /\ cycle.reads # "none"
     THEN /\ cycle' = [cycle EXCEPT !.phase = "lost", !.reads = "none", !.read = "none"]
          /\ tasks' = [t \in Tasks |-> IF tasks[t].step = "refreshing" THEN [tasks[t] EXCEPT !.step = "over"] ELSE tasks[t]]
          /\ UNCHANGED <<override, draft, sync>>
     ELSE /\ sync' = [p \in Parts |-> SyncedAs(p)]
          /\ IF cycle.reads = "ok" /\ Unread("integrations") /\ cycle.read # "none"
             THEN /\ override' = [value |-> cycle.read, applied |-> TRUE, source |-> "runtime-endpoint"]
                  /\ draft' = cycle.read
             ELSE UNCHANGED <<override, draft>>
          /\ IF signedIn
             THEN /\ cycle' = [cycle EXCEPT !.phase = "data", !.reads = "none", !.read = "none"]
                  /\ UNCHANGED tasks
             ELSE /\ cycle' = [cycle EXCEPT !.phase = "none", !.reads = "none", !.read = "none", !.ok = FALSE]
                  /\ tasks' = [t \in Tasks |-> IF tasks[t].step = "refreshing" THEN [tasks[t] EXCEPT !.step = "over"] ELSE tasks[t]]
  /\ UNCHANGED <<inScope, signedIn, stored, written, work, launcher, snapshot>>

\* Everything else is asked for, what the launcher holds with it; one failure fails it all.
DataServed ==
  /\ cycle.phase = "data"
  /\ cycle' \in {[cycle EXCEPT !.phase = "taking", !.seen = launcher, !.ok = TRUE],
                 [cycle EXCEPT !.phase = "ending", !.ok = FALSE]}
  /\ UNCHANGED <<inScope, signedIn, stored, written, work, launcher, override, draft, sync, snapshot, tasks>>

\* It is taken over when all has been answered; what is read after it may still fail.
DataRead ==
  /\ cycle.phase = "taking" /\ snapshot' = cycle.seen
  /\ \E ok \in BOOLEAN : cycle' = [cycle EXCEPT !.phase = "ending", !.seen = "unknown", !.ok = ok]
  /\ UNCHANGED <<inScope, signedIn, stored, written, work, launcher, override, draft, sync, tasks>>

CycleEnds ==
  /\ cycle.phase = "ending"
  /\ cycle' = [cycle EXCEPT !.phase = IF cycle.queued THEN "native" ELSE "none", !.queued = FALSE,
                            !.tried = @ \/ cycle.since, !.since = cycle.queued]
  /\ tasks' = [t \in Tasks |-> IF tasks[t].step = "refreshing" THEN [tasks[t] EXCEPT !.step = "over"] ELSE tasks[t]]
  /\ UNCHANGED <<inScope, signedIn, stored, written, work, launcher, override, draft, sync, snapshot>>

\* The operator signs out, or in again, which refreshes.
SignOut ==
  /\ signedIn /\ signedIn' = FALSE
  /\ UNCHANGED <<inScope, stored, written, work, launcher, override, draft, sync, snapshot, tasks, cycle>>
SignIn ==
  /\ ~signedIn /\ signedIn' = TRUE
  /\ cycle' = AskedAgain
  /\ UNCHANGED <<inScope, stored, written, work, launcher, override, draft, sync, snapshot, tasks>>

-----------------------------------------------------------------------------
(* The editor of the integration settings *)

TypeDraft(v) ==
  /\ work = "settings" /\ draft # v /\ draft' = v
  /\ UNCHANGED <<inScope, signedIn, stored, written, work, launcher, override, sync, snapshot, tasks, cycle>>

\* A valid draft is saved as the override of the project, which applies no longer.
SaveDraft ==
  /\ work = "settings"
  /\ override' = [value |-> draft, applied |-> FALSE, source |-> "none"]
  /\ UNCHANGED <<inScope, signedIn, stored, written, work, launcher, draft, sync, snapshot, tasks, cycle>>

Begins(t, kind, value) ==
  /\ tasks[t].kind = "none"
  /\ tasks' = [tasks EXCEPT ![t] = [kind |-> kind, value |-> value, step |-> "sent", reply |-> "none"]]
  /\ UNCHANGED <<inScope, signedIn, stored, written, work, launcher, override, draft, sync, snapshot, cycle>>

\* The override is applied: the saved one, or the draft when none was saved.  A reset,
\* once confirmed, applies the baseline.
ApplySaved(t) == work = "settings" /\ Begins(t, "apply", IF override.value = "none" THEN draft ELSE override.value)
ResetOverride(t) == work = "settings" /\ Begins(t, "reset", Baseline)

\* Without a scope nothing is sent.
SaveServed(t) ==
  /\ tasks[t].kind \in {"apply", "reset"} /\ tasks[t].step = "sent"
  /\ \E reply \in IF inScope THEN {"ok", "404"} \cup Fails ELSE {"unsent"}, done \in BOOLEAN :
       /\ reply = "ok" => done
       /\ done => reply \in {"ok"} \cup Fails
       /\ stored' = IF done THEN tasks[t].value ELSE stored
       /\ written' = IF done THEN written \cup {tasks[t].value} ELSE written
       /\ tasks' = [tasks EXCEPT ![t].step = "replied", ![t].reply = reply]
  /\ UNCHANGED <<inScope, signedIn, work, launcher, override, draft, sync, snapshot, cycle>>

SourceAssumed(reply) ==   \* Mutant: what was sent counts as written
  IF reply = "unsent" THEN "local-fallback" ELSE "runtime-endpoint"

SourceAfter(reply) ==
  IF reply = "ok" THEN "runtime-endpoint" ELSE "local-fallback"

\* The reply replaces the override and the draft, whatever was typed or saved meanwhile;
\* an exception changes nothing.  Where the runtime has no such endpoint the override is
\* applied locally, and the next refresh reads the settings again.
SaveAnswered(t) ==
  /\ tasks[t].kind \in {"apply", "reset"} /\ tasks[t].step = "replied"
  /\ LET reply == tasks[t].reply
     IN IF reply \in Fails
        THEN /\ tasks' = [tasks EXCEPT ![t].step = "over"]
             /\ UNCHANGED <<override, draft, sync, cycle>>
        ELSE /\ override' = [value |-> tasks[t].value, applied |-> TRUE, source |-> SourceAfter(reply)]
             /\ draft' = tasks[t].value
             /\ sync' = [sync EXCEPT !["integrations"] = CASE reply = "ok" -> "loaded"
                                                          [] reply = "404" -> "endpoint-unavailable"
                                                          [] reply = "unsent" -> @]
             /\ cycle' = [AskedAgain EXCEPT !.tried = FALSE, !.since = ~InFlight]
             /\ tasks' = [tasks EXCEPT ![t].step = IF InFlight THEN "over" ELSE "refreshing"]
  /\ UNCHANGED <<inScope, signedIn, stored, written, work, launcher, snapshot>>

-----------------------------------------------------------------------------
(* The provider route and the secure references *)

\* The contract of the provider route is applied and activated, only where the page
\* believes the launcher to have the work; a secure reference is stored, deleted or
\* exported; or either is only read again.
Activate(t) == work = "route" /\ snapshot # "unknown" /\ Begins(t, "change", New)
StoreRef(t) == work = "refs" /\ Begins(t, "change", New)
ReadHelper(t) == work # "settings" /\ Begins(t, "read", "none")

LauncherServed(t) ==
  /\ tasks[t].kind \in {"change", "read"} /\ tasks[t].step = "sent"
  /\ \E reply \in {"ok"} \cup Fails, done \in BOOLEAN :
       /\ reply = "ok" => done
       /\ launcher' = IF done /\ tasks[t].kind = "change" THEN New ELSE launcher
       /\ tasks' = [tasks EXCEPT ![t].step = "replied", ![t].reply = reply, ![t].value = launcher']
  /\ UNCHANGED <<inScope, signedIn, stored, written, work, override, draft, sync, snapshot, cycle>>

\* What the launcher has answered is shown; then the page is refreshed, but not after a
\* failure with a secure reference.
LauncherAnswered(t) ==
  /\ tasks[t].kind \in {"change", "read"} /\ tasks[t].step = "replied"
  /\ snapshot' = IF tasks[t].reply = "ok" THEN tasks[t].value ELSE snapshot
  /\ IF tasks[t].reply # "ok" /\ work = "refs"
     THEN tasks' = [tasks EXCEPT ![t].step = "over"] /\ UNCHANGED cycle
     ELSE Refreshes(t)
  /\ UNCHANGED <<inScope, signedIn, stored, written, work, launcher, override, draft, sync>>

\* The operator refreshes, or another part of the page does.
AskRefresh ==
  /\ cycle' = AskedAgain
  /\ UNCHANGED <<inScope, signedIn, stored, written, work, launcher, override, draft, sync, snapshot, tasks>>

CycleNext == NativeSynced \/ SettingsServed \/ SettingsAnswered \/ DataServed \/ DataRead \/ CycleEnds

SettingsNext ==
  \/ CycleNext \/ SignOut \/ SignIn \/ SaveDraft \/ AskRefresh
  \/ \E v \in Values : TypeDraft(v)
  \/ \E t \in Tasks : \/ ApplySaved(t) \/ ResetOverride(t) \/ SaveServed(t) \/ SaveAnswered(t)
                      \/ Activate(t) \/ StoreRef(t) \/ ReadHelper(t)
                      \/ LauncherServed(t) \/ LauncherAnswered(t)

SettingsSpec == SettingsInit /\ [][SettingsNext]_settingsVars

-----------------------------------------------------------------------------
(* Properties *)

\* Settings shown as applied through the runtime have been held by the runtime: neither a
\* fallback nor a failure is taken for it.
AppliedThroughRuntimeWasWritten ==
  override.source = "runtime-endpoint" => override.applied /\ override.value \in written

\* When nothing is under way and the last refresh succeeded, the page shows what the
\* launcher holds: an answer older than the last change has been read over.  Only a change
\* of a secure reference whose reply failed is not followed by a refresh.
QuietSnapshotIsCurrent ==
  LET quiet == cycle.phase = "none" /\ cycle.ok /\ \A t \in Tasks : tasks[t].step \in {"none", "over"}
      unsure == work = "refs" /\ \E t \in Tasks : tasks[t].kind = "change" /\ tasks[t].reply \in Fails
  IN quiet /\ ~unsure => snapshot = launcher

\* "Retry Apply Saved after the connection is healthy, then review the Audit Trail ... to
\* confirm the recorded result": when the actions of the operator are over and no refresh
\* goes on, one has been made since settings were applied.
AppliedIsReviewed ==
  \/ signedIn /\ cycle.tried
  \/ ~signedIn
  \/ cycle.phase \notin {"none", "lost"}
  \/ \E t \in Tasks : tasks[t].step \notin {"none", "over"}
=============================================================================

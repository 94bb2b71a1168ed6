------------------------------ MODULE NativeShell ------------------------------
(***************************************************************************)
(* The launcher strip of the page and the launcher behind it.  The strip    *)
(* draws the last summary the launcher has answered, whatever call asked    *)
(* for it: a refresh, a change of the interposition, or a restart of the    *)
(* services.  A change of the interposition is a long call, during which    *)
(* the launcher says that it turns on or off; while it is in flight the     *)
(* controls are locked, but each summary that is drawn draws them anew.     *)
(***************************************************************************)
EXTENDS Naturals

CONSTANT Callers      \* the calls that may be in flight at the same time

VARIABLES native,   \* [enabled, token, moving, stuck]: the launcher's options and transition; "stuck"
                    \* remembers that one was announced by a call that failed there, and none was over since
          bridge,     \* "whole", "broken" (a required binding is missing) or "none"
          shell,      \* [enabled, status, token]: the summary the page shows
          form,       \* [auth, picked]: the credentials chosen in the form
          locked,     \* the controls are disabled
          asked,      \* the calls in flight
          settled     \* the summary is that of a call that no other crossed

shellVars == <<native, bridge, shell, form, locked, asked, settled>>

NoReply == [enabled |-> FALSE, status |-> "none", token |-> FALSE]
NoAnswer == [NoReply EXCEPT !.status = "error"]
NotAsking == [kind |-> "none", step |-> "none", pass |-> "none", want |-> FALSE, token |-> "keep", reply |-> NoReply,
         alone |-> FALSE, chosen |-> FALSE]
Transitions == {"starting", "stopping"}
Outstanding(t) == asked[t].kind # "none"
NoneOutstanding == \A t \in Callers : ~Outstanding(t)

\* The interposition as the launcher reports it: while it turns on or off it is enabled.
\* Whether an enabled one is ready already is left out.
Summary ==
  [enabled |-> native.enabled \/ native.moving \in Transitions,
   status |-> IF native.moving \in Transitions THEN native.moving
              ELSE IF native.enabled THEN "on" ELSE "off",
   token |-> native.token]

ShellTypeOK ==
  /\ native \in [enabled : BOOLEAN, token : BOOLEAN, moving : {"none"} \cup Transitions, stuck : BOOLEAN]
  /\ bridge \in {"whole", "broken", "none"} /\ locked \in BOOLEAN /\ settled \in BOOLEAN
  /\ shell \in [enabled : BOOLEAN, status : {"off", "on", "degraded"} \cup Transitions, token : BOOLEAN]
  /\ form \in [auth : {"saved_token", "client_passthrough"}, picked : BOOLEAN]
  /\ \A t \in Callers : asked[t].kind \in {"none", "refresh", "configure", "restart"}

-----------------------------------------------------------------------------
(* Drawing *)

\* The form of a strip that is drawn: the credentials are those of the summary.
DrawnFormPassingThrough(summary) ==   \* Mutant: a form that begins with the client's credentials
  [auth |-> "client_passthrough", picked |-> FALSE]

DrawnForm(summary) ==
  [auth |-> IF summary.token THEN "saved_token" ELSE "client_passthrough", picked |-> FALSE]

\* The strip is drawn with the summary, its controls locked while the status says so.
ShowsAnew(summary) == shell' = summary /\ form' = DrawnForm(summary)
DrawsStrip(summary) == ShowsAnew(summary) /\ locked' = (summary.status \in Transitions \cup {"degraded"})
KeepsDrawn == UNCHANGED <<shell, form, locked>>

\* With a broken bridge nothing is asked: the strip says so instead, once.
DrawsBroken == KeepsDrawn \/ DrawsStrip([shell EXCEPT !.status = "degraded"])

ShellInit ==
  /\ native \in [enabled : BOOLEAN, token : BOOLEAN, moving : {"none"}, stuck : {FALSE}]
  /\ bridge \in {"whole", "broken", "none"}
  /\ shell = [Summary EXCEPT !.status = IF bridge = "broken" THEN "degraded" ELSE @]
  /\ form = DrawnForm(shell) /\ locked = (bridge = "broken")
  /\ asked = [t \in Callers |-> NotAsking] /\ settled = (bridge = "whole")

-----------------------------------------------------------------------------
(* The operator, and the page's own refresh *)

\* A call begins: those in flight are crossed by it.
BeginsAsking(t, task) ==
  asked' = [u \in Callers |-> IF u = t THEN [task EXCEPT !.alone = NoneOutstanding] ELSE [asked[u] EXCEPT !.alone = FALSE]]

ReloadRuns == \E t \in Callers : asked[t].pass = "reload"

\* refresh() starts with a synchronization; another one is queued until it ends.
RefreshShell(t) ==
  /\ ~Outstanding(t) /\ ~ReloadRuns
  /\ LET task == [NotAsking EXCEPT !.kind = "refresh", !.pass = "reload"]
     IN IF bridge = "whole" THEN BeginsAsking(t, [task EXCEPT !.step = "report"]) /\ KeepsDrawn
        ELSE BeginsAsking(t, [task EXCEPT !.step = "loading", !.reply = NoAnswer]) /\ IF bridge = "none" THEN KeepsDrawn ELSE DrawsBroken
  /\ UNCHANGED <<native, bridge, settled>>

\* The operator picks whose credentials are forwarded.
PickAuth ==
  /\ ~locked /\ \E a \in {"saved_token", "client_passthrough"} : form' = [auth |-> a, picked |-> TRUE]
  /\ UNCHANGED <<native, bridge, shell, locked, asked, settled>>

\* readNativeInterpositionDraft: without a token of its own the saved one is kept.
DraftTokens == IF form.auth = "client_passthrough" THEN {"clear"} ELSE {"keep", "set"}

\* configureNativeInterposition.  The switch shows at once that it turns on or off; saving
\* the upstream shows nothing but locks the controls too.  A bridge that does not work
\* stops it here.
TurningTo(on) == [shell EXCEPT !.enabled = on \/ @, !.status = IF on THEN "starting" ELSE "stopping"]

ConfigureShell(t) ==
  /\ ~Outstanding(t) /\ ~locked /\ bridge # "none"
  /\ \E toggles \in BOOLEAN, token \in DraftTokens :
       LET on == IF toggles THEN ~shell.enabled ELSE shell.enabled
       IN IF bridge = "broken" THEN DrawsBroken /\ UNCHANGED asked
          ELSE /\ BeginsAsking(t, [NotAsking EXCEPT !.kind = "configure", !.step = "sent", !.pass = "last", !.want = on,
                                         !.token = token, !.chosen = form.picked \/ ~(settled /\ NoneOutstanding)])
               /\ IF toggles THEN shell' = TurningTo(on) /\ form' = DrawnForm(shell) ELSE UNCHANGED <<shell, form>>
               /\ locked' = TRUE
  /\ UNCHANGED <<native, bridge, settled>>

\* restartNativeServicesFromCompanion: a button of the home panel, which is never locked.
RestartShell(t) ==
  /\ ~Outstanding(t) /\ bridge # "none"
  /\ BeginsAsking(t, [NotAsking EXCEPT !.kind = "restart", !.step = "sent", !.pass = "first"])
  /\ ShowsAnew(shell) /\ locked' = TRUE
  /\ UNCHANGED <<native, bridge, settled>>

-----------------------------------------------------------------------------
(* The launcher *)

\* What a call asked for is forgotten once it is served.
Consumed(task, step) == [task EXCEPT !.step = step, !.want = FALSE, !.token = "keep", !.chosen = FALSE]

\* The transition is over, if this call announced one, however the call went.
NotMoving == [native EXCEPT !.moving = "none", !.stuck = FALSE]

TransitionOverWhenUp(announced, up) ==   \* Mutant: it is left announced when a service does not come up
  IF announced /\ up THEN NotMoving ELSE native

TransitionOver(announced, up) == IF announced THEN NotMoving ELSE native

\* NativeInterpositionConfigure: a change of the switch is announced, the options are stored,
\* then the services follow, which takes a while and may fail.  The announcement is made
\* before its file is written, and a call that fails there leaves it standing; one that
\* fails to store the options takes it back.  While the services follow "want" says whether
\* this call has announced.
Announced(t) == IF asked[t].want = native.enabled THEN native.moving ELSE IF asked[t].want THEN "starting" ELSE "stopping"

ConfigureBegins(t) ==
  /\ asked[t].kind = "configure" /\ asked[t].step = "sent"
  /\ LET announces == asked[t].want # native.enabled
         Fails == asked' = [asked EXCEPT ![t] = Consumed(@, "answered"), ![t].reply = NoAnswer]
     IN \/ announces /\ Fails /\ native' = [native EXCEPT !.moving = Announced(t), !.stuck = TRUE]
        \/ Fails /\ native' = TransitionOver(announces, FALSE)
        \/ /\ native' = [native EXCEPT
                  !.moving = Announced(t), !.enabled = asked[t].want,
                  !.token = IF asked[t].token = "keep" THEN @ ELSE asked[t].token = "set"]
           /\ asked' = [asked EXCEPT ![t] = Consumed(@, "serving"), ![t].want = announces]
  /\ UNCHANGED <<bridge, shell, form, locked, settled>>

ConfigureEnds(t) ==
  /\ asked[t].kind = "configure" /\ asked[t].step = "serving"
  /\ \E up \in BOOLEAN :
       /\ native' = TransitionOver(asked[t].want, up)
       /\ asked' = [asked EXCEPT ![t].step = "answered", ![t].reply = IF up THEN Summary' ELSE NoAnswer, ![t].want = FALSE]
  /\ UNCHANGED <<bridge, shell, form, locked, settled>>

\* The services are restarted; the call answers in any case, and does not say how it went.
RestartServed(t) ==
  /\ asked[t].kind = "restart" /\ asked[t].step = "sent"
  /\ asked' = [asked EXCEPT ![t].step = "answered"]
  /\ UNCHANGED <<native, bridge, shell, form, locked, settled>>

\* NativeBridgeHealthReport and NativeShellStatusRefresh.
SummaryServed(t) ==
  /\ asked[t].step \in {"report", "status"} /\ asked[t].reply = NoReply
  /\ \E reply \in {Summary, NoAnswer} : asked' = [asked EXCEPT ![t].reply = reply]
  /\ UNCHANGED <<native, bridge, shell, form, locked, settled>>

-----------------------------------------------------------------------------
(* The answers *)

\* syncNativeShellStateFromBindings starts.
Synchronizes(t, pass) ==
  asked' = [asked EXCEPT ![t].step = "report", ![t].reply = NoReply, ![t].pass = pass] /\ UNCHANGED settled

\* The page loads its data; that is the rest of a refresh.
LoadsPage(t, drawn) ==
  /\ asked' = [asked EXCEPT ![t].step = "loading", ![t].pass = "reload", ![t].reply = IF drawn THEN @ ELSE NoAnswer]
  /\ UNCHANGED settled

EndsAsking(t, drawn) == asked' = [asked EXCEPT ![t] = NotAsking] /\ settled' = (asked[t].alone /\ drawn)

\* After a synchronization: a restart is followed by a refresh, unless one runs, or by
\* another synchronization if this one has failed; a call that is over frees the controls.
EndsHere(t, drawn) == asked[t].pass = "last" \/ (asked[t].pass = "first" /\ drawn /\ ReloadRuns)
Continues(t, drawn) ==
  CASE EndsHere(t, drawn) -> EndsAsking(t, drawn)
    [] asked[t].pass = "first" /\ ~EndsHere(t, drawn) -> Synchronizes(t, IF drawn THEN "reload" ELSE "last")
    [] asked[t].pass = "reload" -> LoadsPage(t, drawn)

\* The answer of a change is drawn; unless a refresh runs, the state is asked for as well.
\* If it has failed the state is asked for in any case.
ConfigureAnswered(t) ==
  /\ asked[t].kind = "configure" /\ asked[t].step = "answered"
  /\ IF asked[t].reply = NoAnswer THEN Synchronizes(t, "last") /\ KeepsDrawn
     ELSE /\ ShowsAnew(asked[t].reply)
          /\ IF ReloadRuns THEN EndsAsking(t, TRUE) /\ locked' = FALSE
             ELSE Synchronizes(t, "last") /\ locked' = (asked[t].reply.status \in Transitions)
  /\ UNCHANGED <<native, bridge>>

RestartAnswered(t) ==
  /\ asked[t].kind = "restart" /\ asked[t].step = "answered"
  /\ IF bridge = "whole" THEN Synchronizes(t, "first") /\ KeepsDrawn
     ELSE IF ReloadRuns THEN EndsAsking(t, FALSE) /\ ShowsAnew([shell EXCEPT !.status = "degraded"]) /\ locked' = FALSE
     ELSE LoadsPage(t, FALSE) /\ DrawsBroken
  /\ UNCHANGED <<native, bridge>>

\* The report has been answered: its summary is drawn and the state is asked for.
ReportAnswered(t) ==
  /\ asked[t].step = "report" /\ asked[t].reply # NoReply
  /\ IF asked[t].reply = NoAnswer
     THEN Continues(t, FALSE) /\ UNCHANGED <<shell, form>> /\ locked' = (locked /\ ~EndsHere(t, FALSE))
     ELSE DrawsStrip(asked[t].reply) /\ asked' = [asked EXCEPT ![t].step = "status", ![t].reply = NoReply] /\ UNCHANGED settled
  /\ UNCHANGED <<native, bridge>>

\* The state has been answered, and with it the synchronization is over.
StatusAnswered(t) ==
  /\ asked[t].step = "status" /\ asked[t].reply # NoReply
  /\ LET drawn == asked[t].reply # NoAnswer
     IN /\ Continues(t, drawn)
        /\ IF drawn THEN ShowsAnew(asked[t].reply) ELSE UNCHANGED <<shell, form>>
        /\ locked' = (~EndsHere(t, drawn) /\ IF drawn THEN asked[t].reply.status \in Transitions ELSE locked)
  /\ UNCHANGED <<native, bridge>>

\* The refresh is over, and the restart it belongs to frees the controls.
RefreshEnds(t) ==
  /\ asked[t].step = "loading" /\ EndsAsking(t, asked[t].reply # NoAnswer)
  /\ IF asked[t].kind = "restart" THEN locked' = FALSE ELSE UNCHANGED locked
  /\ UNCHANGED <<native, bridge, shell, form>>

ShellNext ==
  \/ PickAuth
  \/ \E t \in Callers :
       \/ RefreshShell(t) \/ ConfigureShell(t) \/ RestartShell(t)
       \/ ConfigureBegins(t) \/ ConfigureEnds(t) \/ RestartServed(t) \/ SummaryServed(t)
       \/ ConfigureAnswered(t) \/ RestartAnswered(t) \/ ReportAnswered(t) \/ StatusAnswered(t) \/ RefreshEnds(t)

ShellSpec == ShellInit /\ [][ShellNext]_shellVars

-----------------------------------------------------------------------------
(* Properties *)

\* When no call is in flight, and the last one was crossed by no other and answered, the
\* strip shows what the launcher reports (main.js configureNativeInterposition, whose catch
\* asks again).  That is the option the launcher has stored, with the controls free, also
\* after a change that failed half way; only a call that failed when it announced its
\* transition leaves the launcher, and with it the strip, turning on or off until another
\* transition is over (app.go NativeInterpositionConfigure, session.go update).
QuietShellIsLaunchers ==
  NoneOutstanding /\ settled =>
    /\ shell = Summary
    /\ ~native.stuck => ~locked /\ shell.enabled = native.enabled

\* The saved token is cleared only where the operator has picked the client's credentials,
\* or acted on a strip that other calls had crossed: switching the interposition sends the
\* credentials of the form along with it.
TokenClearedByChoice ==
  [][native.token /\ ~native'.token =>
       \E t \in Callers : asked[t].step = "sent" /\ asked[t].token = "clear" /\ (asked[t].chosen \/ ~asked[t].alone)]_native
=============================================================================

---------------------------- MODULE RuntimeClient ----------------------------
(***************************************************************************)
(* Calls of the runtime from the desktop page.  Several are out at a time  *)
(* (a refresh makes seven at once); each is sent, perhaps performed by the *)
(* service, perhaps answered, and settled when the page sees the reply.    *)
(* The status of an endpoint is what the call that settled last recorded.  *)
(***************************************************************************)
EXTENDS RuntimeApi

CONSTANT Calls      \* the calls of a behaviour

VARIABLES mode,           \* "mock": the page runs on sample data, or "live"
          configured,     \* whether the endpoints that may be left out are configured
          scoped,         \* whether a tenant and a project are selected
          endpointStatus, \* key -> what the settings page shows of the endpoint
          calls           \* the calls: [method, phase, reply, applied, performed, answer]

clientVars == <<mode, configured, scoped, endpointStatus, calls>>

NoCall == [method |-> Health, phase |-> "none", reply |-> "none", applied |-> FALSE, performed |-> FALSE, answer |-> "none"]

ClientTypeOK ==
  /\ mode \in {"mock", "live"} /\ configured \in BOOLEAN /\ scoped \in BOOLEAN
  /\ endpointStatus \in [Keys -> {"unknown", "mock", "available", "unavailable", "fallback", "error"}]
  /\ calls \in [Calls -> [method : Methods, phase : {"none", "sent", "replied", "settled"}, reply : Replies \cup {"none"},
                          applied : BOOLEAN, performed : BOOLEAN, answer : Answers \cup {"none"}]]

ClientInit ==
  /\ mode \in {"mock", "live"} /\ configured \in BOOLEAN /\ scoped \in BOOLEAN
  /\ endpointStatus = [k \in Keys |-> "unknown"]
  /\ calls = [c \in Calls |-> NoCall]

\* updateEndpointStatus: a key the client was not built with is dropped.
Recorded(m, state) == IF m.recorded THEN [endpointStatus EXCEPT ![m.key] = state] ELSE endpointStatus

Settled(m, answer, performed) ==
  [NoCall EXCEPT !.method = m, !.phase = "settled", !.answer = answer, !.performed = performed]

\* A call that sends nothing: without the scope it needs it answers before anything else,
\* then from the sample data, then for want of an endpoint.  Sample data is changed at once.
AnsweredLocally(c, m) ==
  /\ calls[c].phase = "none"
  /\ \/ /\ ~scoped /\ m.scopeless # "sent"
        /\ calls' = [calls EXCEPT ![c] = Settled(m, m.scopeless, FALSE)]
        /\ UNCHANGED endpointStatus
     \/ /\ scoped \/ m.scopeless = "sent"
        /\ mode = "mock" /\ m.local
        /\ \E answer \in SampleAnswers(m) :
             calls' = [calls EXCEPT ![c] = Settled(m, answer, m.writes /\ answer = "value")]
        /\ endpointStatus' = Recorded(m, "mock")
     \/ /\ scoped \/ m.scopeless = "sent"
        /\ mode = "live" \/ ~m.local
        /\ ~configured /\ m.unset # "sent"
        /\ calls' = [calls EXCEPT ![c] = Settled(m, m.unset, FALSE)]
        /\ endpointStatus' = Recorded(m, "unavailable")
  /\ UNCHANGED <<mode, configured, scoped>>

Sent(c, m) ==
  /\ calls[c].phase = "none"
  /\ scoped \/ m.scopeless = "sent"
  /\ mode = "live" \/ ~m.local
  /\ configured \/ m.unset = "sent"
  /\ calls' = [calls EXCEPT ![c] = [NoCall EXCEPT !.method = m, !.phase = "sent"]]
  /\ UNCHANGED <<mode, configured, scoped, endpointStatus>>

\* The service: it does what it is asked and says so, says that it has not been applied,
\* does not know the endpoint, or fails before, during or after the work; the reply may
\* get lost whatever was done.
Served(c) ==
  /\ calls[c].phase = "sent"
  /\ \E reply \in Replies, performed \in BOOLEAN :
       /\ performed => (calls[c].method.writes /\ reply \in Fine \cup {"error", "503", "network"})
       /\ (reply \in Fine /\ calls[c].method.writes /\ ~performed) => calls[c].method.says = "runtime"
       /\ calls' = [calls EXCEPT ![c].phase = "replied", ![c].reply = reply,
                                 ![c].applied = (reply \in Fine /\ performed), ![c].performed = performed]
  /\ UNCHANGED <<mode, configured, scoped, endpointStatus>>

Settle(c) ==
  /\ calls[c].phase = "replied"
  /\ LET m == calls[c].method
     IN /\ calls' = [calls EXCEPT ![c].phase = "settled", ![c].answer = AnswerTo(m, calls[c].reply, calls[c].applied)]
        /\ endpointStatus' = Recorded(m, StatusFor(m, calls[c].reply))
  /\ UNCHANGED <<mode, configured, scoped>>

ClientNext ==
  \E c \in Calls :
    \/ \E m \in Methods : AnsweredLocally(c, m) \/ Sent(c, m)
    \/ Served(c)
    \/ Settle(c)

ClientSpec == ClientInit /\ [][ClientNext]_clientVars

-----------------------------------------------------------------------------
(* Properties *)

\* What the caller is told of a change is true: an answer that it was not applied is only
\* given when nothing was done, and an answer that it was is only given when it was.  A
\* failure is an exception, after which the caller knows nothing.
AnswersAreTrue ==
  \A c \in Calls : (calls[c].phase = "settled" /\ calls[c].method.writes) =>
    /\ calls[c].answer = "value" => calls[c].performed
    /\ calls[c].answer \in {"refused", "empty", "derived"} => ~calls[c].performed
=============================================================================

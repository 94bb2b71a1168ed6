---------------------------- MODULE GovernedRun ----------------------------
(***************************************************************************)
(* What a governed run promises, whatever store, provider or clock it runs *)
(* against: a run is decided once; it touches the outside world (connector *)
(* or desktop) only after the decision ALLOW and only while its evidence   *)
(* is still open; it completes only over a finalized evidence bundle.      *)
(*                                                                         *)
(* RunPipeline, the detailed model of Orchestrator.ExecuteRun, implements  *)
(* this specification.                                                     *)
(***************************************************************************)
CONSTANTS
  Runs,        \* run identifiers
  Decisions,   \* what a policy provider can decide
  Effects      \* the kinds of external effect a run can have

VARIABLES
  outcome,     \* outcome[r]: "none", "open", "completed" or "failed"
  verdict,     \* verdict[r]: the decision taken for r, "" before it is taken
  effects,     \* effects[r]: the external effects r may have had
  evidence     \* evidence[r]: "none", "recorded" or "finalized"

vars == <<outcome, verdict, effects, evidence>>

Init ==
  /\ outcome  = [r \in Runs |-> "none"]
  /\ verdict  = [r \in Runs |-> ""]
  /\ effects  = [r \in Runs |-> {}]
  /\ evidence = [r \in Runs |-> "none"]

(* The run exists and somebody is working on it. *)
Accept(r) ==
  /\ outcome[r] = "none"
  /\ outcome' = [outcome EXCEPT ![r] = "open"]
  /\ UNCHANGED <<verdict, effects, evidence>>

(* The one and only decision. *)
Decide(r, d) ==
  /\ outcome[r] = "open"
  /\ verdict[r] = ""
  /\ verdict' = [verdict EXCEPT ![r] = d]
  /\ UNCHANGED <<outcome, effects, evidence>>

(* An external effect: only when allowed, only before evidence is taken. *)
Act(r, e) ==
  /\ outcome[r] = "open"
  /\ verdict[r] = "ALLOW"
  /\ evidence[r] = "none"
  /\ effects' = [effects EXCEPT ![r] = @ \cup {e}]
  /\ UNCHANGED <<outcome, verdict, evidence>>

Record(r) ==
  /\ outcome[r] = "open"
  /\ verdict[r] # ""
  /\ evidence[r] = "none"
  /\ evidence' = [evidence EXCEPT ![r] = "recorded"]
  /\ UNCHANGED <<outcome, verdict, effects>>

Finalize(r) ==
  /\ outcome[r] = "open"
  /\ evidence[r] = "recorded"
  /\ evidence' = [evidence EXCEPT ![r] = "finalized"]
  /\ UNCHANGED <<outcome, verdict, effects>>

Complete(r) ==
  /\ outcome[r] = "open"
  /\ evidence[r] = "finalized"
  /\ outcome' = [outcome EXCEPT ![r] = "completed"]
  /\ UNCHANGED <<verdict, effects, evidence>>

Fail(r) ==
  /\ outcome[r] = "open"
  /\ outcome' = [outcome EXCEPT ![r] = "failed"]
  /\ UNCHANGED <<verdict, effects, evidence>>

Next ==
  \E r \in Runs :
    \/ Accept(r)
    \/ \E d \in Decisions : Decide(r, d)
    \/ \E e \in Effects : Act(r, e)
    \/ Record(r)
    \/ Finalize(r)
    \/ Complete(r)
    \/ Fail(r)

Spec == Init /\ [][Next]_vars
=============================================================================

-------------------------- MODULE MCSessionControl --------------------------
(* Instances of SessionControl for TLC. *)
EXTENDS SessionControl, FiniteSets, TLC

SessionSymmetry == Permutations(Handlers) \cup Permutations(Checkpoints)

\* At most one deadline passes, and none once handlers have crossed or failed; from then
\* on the task's other session writes nothing either (the task is not spoken of any more).
SessionBound ==
  /\ Cardinality(overdue) <= 1
  /\ calm \/ (overdue = {} /\ (ours \/ task = "NEW"))
=============================================================================

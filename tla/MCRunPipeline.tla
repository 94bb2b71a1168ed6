--------------------------- MODULE MCRunPipeline ---------------------------
(* Instances of RunPipeline for TLC. *)
EXTENDS RunPipeline, TLC

(* The approval tier: a desktop run that also asks for a connector, with   *)
(* and without the human approval, with and without an expiry.             *)
HighRiskRequests ==
  {[connector |-> TRUE, tier |-> HighRisk, human |-> h, ttl |-> t] :
     h \in BOOLEAN, t \in {NoExpiry, 1}}

(* Requests below the approval tier: the plain one, connector only, the    *)
(* tier that skips the desktop, UI actuation with both.                    *)
OrdinaryRequests ==
  {[connector |-> FALSE, tier |-> 0, human |-> FALSE, ttl |-> NoExpiry],
   [connector |-> TRUE, tier |-> 1, human |-> FALSE, ttl |-> 1],
   [connector |-> TRUE, tier |-> 2, human |-> FALSE, ttl |-> 2]}

AllRequests == OrdinaryRequests \cup {q \in HighRiskRequests : q.ttl = 1}
=============================================================================

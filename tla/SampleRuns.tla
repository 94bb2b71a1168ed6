------------------------------ MODULE SampleRuns ------------------------------
(***************************************************************************)
(* The runs of the sample data a page without a runtime works on: what a   *)
(* request becomes, and what a decision makes of a run.  A run is its row: *)
(* status, policy decision, whether it holds a grant, and the status of    *)
(* its approval.                                                           *)
(***************************************************************************)
EXTENDS Naturals

Row(status, decision, grant, approval) ==
  [status |-> status, decision |-> decision, grant |-> grant, approval |-> approval]
NoRow == Row("none", "none", FALSE, "none")

Verdicts == {"APPROVE", "DENY"}
ApprovalOf(verdict) == IF verdict = "APPROVE" THEN "APPROVED" ELSE "DENIED"

\* The requests the forms of the page make: for a restricted host without the opt-in, of a
\* high tier without and with a human's approval, and others.
Requests == {"restricted", "unapproved", "approved", "ordinary"}

\* mockCreateRuntimeRun: a request for a restricted host fails, one of a high tier waits
\* or is granted, any other is done at once.
SampleRow(request) ==
  CASE request = "restricted" -> Row("FAILED", "DENY", FALSE, "none")
    [] request = "unapproved" -> Row("POLICY_EVALUATED", "ALLOW", FALSE, "PENDING")
    [] request = "approved" -> Row("COMPLETED", "ALLOW", TRUE, "none")
    [] request = "ordinary" -> Row("COMPLETED", "ALLOW", FALSE, "none")

\* Mutant: a denial leaves the grant of an earlier approval.
SampleGrantKept(row, verdict) ==
  IF verdict = "APPROVE" THEN Row("COMPLETED", "ALLOW", TRUE, "APPROVED")
  ELSE [Row("FAILED", "DENY", FALSE, "DENIED") EXCEPT !.grant = row.grant]

\* mockSubmitApprovalDecision: the last decision holds, whatever came before it.
SampleDecided(row, verdict) ==
  IF verdict = "APPROVE" THEN Row("COMPLETED", "ALLOW", TRUE, "APPROVED")
  ELSE Row("FAILED", "DENY", FALSE, "DENIED")

\* The rows the sample data begins with.
SampleSeeds == {NoRow, Row("COMPLETED", "ALLOW", TRUE, "none"), Row("POLICY_EVALUATED", "ALLOW", FALSE, "PENDING"),
                Row("COMPLETED", "DENY", FALSE, "none"), Row("FAILED", "DENY", FALSE, "none")}
=============================================================================

----------------------------- MODULE DeskProofs -----------------------------
(***************************************************************************)
(* Proofs about the components of the page that share its tabs and its     *)
(* calls, in the order: approvals and holds, the queue of incidents, calls,*)
(* settings, the launcher strip, the home, the request forms; and, of the  *)
(* approvals and the forms together, that the page tells the truth.        *)
(***************************************************************************)
EXTENDS MCDesk, FiniteSetTheorems, TLAPS

(***************************************************************************)
(* Proofs about ApprovalDesk, for every set of runs and of decisions.      *)
(*                                                                         *)
(* Everything the page says of a run it says from a moment that has        *)
(* passed: a decision is answered after the runtime made it, the queue is  *)
(* derived from a list read before, which newer runs may have outgrown.    *)
(* Later relates the rows of two moments, and what the page holds is       *)
(* stated so that it survives every later row: at a live runtime a         *)
(* decision is final, and no run begins to wait again.                     *)
(***************************************************************************)

Approvals == {"none", "PENDING"} \cup Over
RowSet == [status : {"none", "PENDING", "POLICY_EVALUATED", "COMPLETED", "FAILED"},
           decision : {"none", "ALLOW", "DENY", "DEFER"}, grant : BOOLEAN, approval : Approvals]
Filters == [status : {"any", "PENDING"} \cup Over, runs : SUBSET Runs]
Reloads == [phase : {"none", "reading runs", "reading queue", "done", "failed"}, queued : BOOLEAN, filter : Filters,
            listed : SUBSET Runs, candidates : SUBSET Runs, due : SUBSET Runs]

SoundRow(row) ==
  /\ row \in RowSet
  /\ row.approval = "APPROVED" => row.grant
  /\ row.approval \in {"PENDING", "DENIED", "EXPIRED"} => ~row.grant
  /\ row.approval = "DENIED" => row.decision = "DENY"

\* The rows S come after the rows R, at the sample data or at a runtime.
Later(R, S, onSample) ==
  \A r \in Runs :
    /\ R[r].approval # "none" => S[r].approval # "none" /\ (S[r].approval = "PENDING" => S[r] = R[r])
    /\ (~onSample /\ R[r].approval \in Over) => S[r] = R[r]

Steps == {"none", "refreshing", "sent", "replied", "finishing", "over"}
Decisions ==
  [kind : {"none", "queue", "governance", "hold"}, run : Runs \cup {NoRun}, verdict : Verdicts \cup {"none"},
   step : Steps, reply : {"none", "ok", "404", "error", "network"}, done : BOOLEAN,
   told : {"none", "no reason", "ok", "unchanged", "error"}]

\* The run of a decision is decided as it asked.
DeskStands(x, R) ==
  /\ R[x.run].approval = ApprovalOf(x.verdict)
  /\ IF x.verdict = "APPROVE" THEN R[x.run].decision = "ALLOW" ELSE R[x.run].status = "FAILED"

SoundDecision(x, R, onSample) ==
  /\ x \in Decisions
  /\ x.step # "none" => x.run \in Runs
  /\ x.step = "none" => ~x.done
  /\ x.kind = "hold" => ~onSample
  /\ (x.told = "ok" \/ x.done) /\ ~onSample => DeskStands(x, R)
  /\ x.told = "unchanged" \/ x.reply = "404" => ~x.done
  /\ x.step \notin {"finishing", "over"} => x.told = "none"

RowsSound == rows \in [Runs -> RowSet] /\ \A r \in Runs : SoundRow(rows[r])

HoldsSound ==
  /\ holds \in [Runs -> {"none", "held", "granted", "denied", "timed_out"}] /\ shownHolds \subseteq Runs
  /\ sample => shownHolds = {} /\ \A r \in Runs : holds[r] = "none"

DecidersSound == deciders \in [Deciders -> Decisions] /\ \A d \in Deciders : SoundDecision(deciders[d], rows, sample)

\* A run that is due, waits and is in reach of the listings was listed, and is a candidate
\* still if it was one then; no run that was due is unknown to the runtime.
ReloadSound ==
  /\ reload \in Reloads
  /\ \A r \in reload.due : rows[r].approval # "none"
  /\ reload.phase = "reading queue" =>
       \A r \in reload.due \ pushed : (Waiting(r) /\ Candidate(rows[r])) => r \in reload.listed /\ r \in reload.candidates

PageTyped ==
  /\ sample \in BOOLEAN /\ endpoints \subseteq {"queue", "decision"}
  /\ queue \in [Runs -> Approvals] /\ pushed \subseteq Runs /\ filter \in Filters
  /\ desk \in [selected : Runs \cup {NoRun}, modal : [run : Runs \cup {NoRun}, decidable : BOOLEAN]]

\* The inductive invariant.
DeskInv == PageTyped /\ RowsSound /\ HoldsSound /\ DecidersSound /\ ReloadSound

-----------------------------------------------------------------------------
(* Rows *)

LEMMA MadeRowIsSound == \A request \in Requests : SoundRow(SampleRow(request))
BY DEF Requests, SampleRow, Row, SoundRow, RowSet, Approvals, Over

LEMMA ArrivingIsSound == \A row \in ArrivingRows \cup {HeldRow} : SoundRow(row)
<1>1. SoundRow(HeldRow)
  BY DEF HeldRow, Row, SoundRow, RowSet, Approvals, Over
<1>2. SoundRow(Row("PENDING", "none", FALSE, "PENDING")) /\ SoundRow(Row("POLICY_EVALUATED", "ALLOW", FALSE, "PENDING"))
  BY DEF Row, SoundRow, RowSet, Approvals, Over
<1>3. SoundRow(Row("FAILED", "ALLOW", FALSE, "PENDING")) /\ SoundRow(Row("COMPLETED", "DEFER", FALSE, "PENDING"))
  BY DEF Row, SoundRow, RowSet, Approvals, Over
<1>4. SoundRow(Row("COMPLETED", "ALLOW", TRUE, "APPROVED")) /\ SoundRow(Row("COMPLETED", "DENY", FALSE, "DENIED"))
  BY DEF Row, SoundRow, RowSet, Approvals, Over
<1>5. SoundRow(Row("POLICY_EVALUATED", "ALLOW", FALSE, "none"))
  BY DEF Row, SoundRow, RowSet, Approvals, Over
<1> QED
  BY <1>1, <1>2, <1>3, <1>4, <1>5 DEF ArrivingRows

LEMMA NoRowIsSound == SoundRow(NoRow) /\ NoRow.approval = "none"
BY DEF NoRow, Row, SoundRow, RowSet, Approvals, Over

LEMMA SeedIsSound == \A row \in SampleSeeds : SoundRow(row)
<1>1. SoundRow(Row("COMPLETED", "ALLOW", TRUE, "none"))
  BY DEF Row, SoundRow, RowSet, Approvals, Over
<1>2. SoundRow(Row("POLICY_EVALUATED", "ALLOW", FALSE, "PENDING"))
  BY DEF SampleRow, Row, SoundRow, RowSet, Approvals, Over
<1>3. SoundRow(Row("COMPLETED", "DENY", FALSE, "none"))
  BY DEF Row, SoundRow, RowSet, Approvals, Over
<1>4. SoundRow(Row("FAILED", "DENY", FALSE, "none"))
  BY DEF Row, SoundRow, RowSet, Approvals, Over
<1> QED
  BY <1>1, <1>2, <1>3, <1>4, NoRowIsSound DEF SampleSeeds

\* A decided row says what was decided.
LEMMA DecidedIsSound ==
  ASSUME NEW row, SoundRow(row), NEW v \in Verdicts \cup {"none"}
  PROVE  /\ SoundRow(Decided(row, v)) /\ Decided(row, v).approval = ApprovalOf(v)
         /\ IF v = "APPROVE" THEN Decided(row, v).decision = "ALLOW" ELSE Decided(row, v).status = "FAILED"
<1>1. CASE v = "APPROVE" /\ ~sample
  <2> DEFINE status == IF row.status = "FAILED" THEN "POLICY_EVALUATED" ELSE row.status
  <2>1. Decided(row, v) = Row(status, "ALLOW", TRUE, "APPROVED")
    BY <1>1 DEF Decided
  <2>2. status \in {"none", "PENDING", "POLICY_EVALUATED", "COMPLETED", "FAILED"}
    BY DEF SoundRow, RowSet
  <2> HIDE DEF status
  <2> DEFINE granted == Row(status, "ALLOW", TRUE, "APPROVED")
  <2>3. granted \in RowSet /\ granted.decision = "ALLOW" /\ granted.grant /\ granted.approval = "APPROVED"
    BY <2>2 DEF Row, RowSet, Approvals, Over
  <2> HIDE DEF granted
  <2>4. Decided(row, v) = granted /\ ApprovalOf(v) = "APPROVED"
    BY <1>1, <2>1 DEF granted, ApprovalOf
  <2>5. SoundRow(granted)
    BY <2>3 DEF SoundRow
  <2> QED
    BY <1>1, <2>3, <2>4, <2>5
<1>2. CASE v = "APPROVE" /\ sample
  BY <1>2 DEF Decided, SampleDecided, Row, SoundRow, RowSet, Approvals, Over, ApprovalOf
<1>3. CASE v # "APPROVE"
  <2>1. Decided(row, v) = Row("FAILED", "DENY", FALSE, "DENIED")
    BY <1>3 DEF Decided, SampleDecided
  <2> QED
    BY <1>3, <2>1 DEF Row, SoundRow, RowSet, Approvals, Over, ApprovalOf
<1> QED
  BY <1>1, <1>2, <1>3

LEMMA VerdictIsOver == \A v : ApprovalOf(v) \in Over /\ ApprovalOf(v) # "none" /\ ApprovalOf(v) # "PENDING"
BY DEF ApprovalOf, Over

\* What is known of a decision is known of every later row.
LEMMA DecisionSurvives ==
  ASSUME NEW R, NEW S, NEW s \in BOOLEAN, Later(R, S, s), NEW x, SoundDecision(x, R, s)
  PROVE  SoundDecision(x, S, s)
<1>1. ASSUME DeskStands(x, R), x.run \in Runs, ~s PROVE DeskStands(x, S)
  BY <1>1, VerdictIsOver DEF DeskStands, Later
<1>2. x.step # "none" => x.run \in Runs
  BY DEF SoundDecision
<1>3. x.step = "none" => ~x.done /\ x.told = "none"
  BY DEF SoundDecision
<1>4. (x.told = "ok" \/ x.done) /\ ~s => DeskStands(x, R) /\ x.run \in Runs
  BY <1>2, <1>3 DEF SoundDecision
<1>5. (x.told = "ok" \/ x.done) /\ ~s => DeskStands(x, S)
  BY <1>1, <1>4
<1> QED
  BY <1>5 DEF SoundDecision

\* Rows that change keep everything the page holds.
LEMMA LaterRowsKeep ==
  ASSUME DeskInv, Later(rows, rows', sample), RowsSound',
         UNCHANGED <<sample, endpoints, pushed, filter, queue, shownHolds, desk, reload>>
  PROVE  /\ PageTyped' /\ ReloadSound'
         /\ \A d \in Deciders : SoundDecision(deciders[d], rows', sample')
<1>1. PageTyped'
  BY DEF DeskInv, PageTyped
<1>2. ReloadSound'
  <2>1. \A r \in reload.due : rows[r].approval # "none" /\ r \in Runs
    BY DEF DeskInv, ReloadSound, Reloads
  <2>2. \A r \in reload.due : rows'[r].approval # "none" /\ (rows'[r].approval = "PENDING" => rows'[r] = rows[r])
    BY <2>1 DEF Later
  <2> QED
    BY <2>2 DEF DeskInv, ReloadSound, Waiting, Candidate
<1>3. ASSUME NEW d \in Deciders PROVE SoundDecision(deciders[d], rows', sample')
  <2>1. SoundDecision(deciders[d], rows, sample) /\ sample \in BOOLEAN
    BY DEF DeskInv, DecidersSound, PageTyped
  <2>2. SoundDecision(deciders[d], rows', sample)
    BY <2>1, DecisionSurvives
  <2> QED
    BY <2>2
<1> QED
  BY <1>1, <1>2, <1>3

\* One row that changes.
LEMMA OneRowLater ==
  ASSUME DeskInv, NEW r \in Runs, NEW row, SoundRow(row), rows' = [rows EXCEPT ![r] = row],
         rows[r].approval # "none" => row.approval # "none" /\ row.approval # "PENDING",
         ~sample => rows[r].approval \notin Over
  PROVE  RowsSound' /\ Later(rows, rows', sample)
<1>1. rows \in [Runs -> RowSet] /\ \A q \in Runs : SoundRow(rows[q])
  BY DEF DeskInv, RowsSound
<1>2. row \in RowSet
  BY DEF SoundRow
<1>3. rows' \in [Runs -> RowSet] /\ rows'[r] = row /\ \A q \in Runs \ {r} : rows'[q] = rows[q]
  BY <1>1, <1>2
<1>4. \A q \in Runs : SoundRow(rows'[q])
  BY <1>1, <1>3
<1>5. Later(rows, rows', sample)
  BY <1>3 DEF Later
<1> QED
  BY <1>3, <1>4, <1>5 DEF RowsSound

LEMMA SameRowsLater ==
  ASSUME RowsSound, rows' = rows
  PROVE  RowsSound' /\ Later(rows, rows', sample)
BY DEF RowsSound, Later

\* One decision that goes on; the others survive.
LEMMA OneDecisionKeeps ==
  ASSUME DeskInv, Later(rows, rows', sample), sample' = sample,
         NEW d \in Deciders, NEW y, SoundDecision(y, rows', sample), deciders' = [deciders EXCEPT ![d] = y]
  PROVE  DecidersSound'
<1>1. deciders \in [Deciders -> Decisions] /\ y \in Decisions /\ sample \in BOOLEAN
  BY DEF DeskInv, DecidersSound, SoundDecision, PageTyped
<1>2. deciders' \in [Deciders -> Decisions] /\ deciders'[d] = y /\ \A e \in Deciders \ {d} : deciders'[e] = deciders[e]
  BY <1>1
<1>3. ASSUME NEW e \in Deciders PROVE SoundDecision(deciders'[e], rows', sample)
  <2>1. SoundDecision(deciders[e], rows, sample)
    BY DEF DeskInv, DecidersSound
  <2>2. SoundDecision(deciders[e], rows', sample)
    BY <1>1, <2>1, DecisionSurvives
  <2> QED
    BY <1>2, <2>2
<1> QED
  BY <1>2, <1>3 DEF DecidersSound

-----------------------------------------------------------------------------
(* The runtime and the gateway *)

LEMMA InitDesk == DeskInit => DeskInv
<1> SUFFICES ASSUME DeskInit PROVE DeskInv
  OBVIOUS
<1>1. RowsSound
  <2>1. rows \in [Runs -> SampleSeeds \cup {NoRow, HeldRow} \cup ArrivingRows]
    BY DEF DeskInit
  <2>2. \A r \in Runs : SoundRow(rows[r])
    BY <2>1, SeedIsSound, NoRowIsSound, ArrivingIsSound
  <2> QED
    BY <2>1, <2>2 DEF RowsSound, SoundRow
<1>2. PageTyped
  <2>1. endpoints \subseteq {"queue", "decision"}
    BY DEF DeskInit
  <2> QED
    BY <2>1 DEF DeskInit, PageTyped, NoReview, NoFilter, Filters, Approvals
<1>3. HoldsSound
  BY DEF DeskInit, HoldsSound
<1>4. DecidersSound
  <2>1. SoundDecision(NoDecision, rows, sample)
    BY DEF NoDecision, SoundDecision, Decisions, Steps
  <2>2. NoDecision \in Decisions
    BY <2>1 DEF SoundDecision
  <2> QED
    BY <2>1, <2>2 DEF DeskInit, DecidersSound
<1>5. ReloadSound
  BY DEF DeskInit, ReloadSound, Reloads, NoFilter, Filters, Waiting
<1> QED
  BY <1>1, <1>2, <1>3, <1>4, <1>5 DEF DeskInv

LEMMA ArrivalKeeps == ASSUME DeskInv, NEW r \in Runs, RunArrives(r) \/ HeldArrives(r) PROVE DeskInv'
<1>1. PICK row \in ArrivingRows \cup {HeldRow} :
        /\ rows[r] = NoRow /\ ~sample /\ rows' = [rows EXCEPT ![r] = row]
        /\ UNCHANGED <<sample, endpoints, pushed, filter, queue, shownHolds, desk, deciders, reload>>
  BY DEF RunArrives, HeldArrives
<1>2. SoundRow(row)
  BY ArrivingIsSound
<1>3. rows[r].approval = "none" /\ "none" \notin Over
  BY <1>1, NoRowIsSound DEF Over
<1>4. RowsSound' /\ Later(rows, rows', sample)
  BY <1>1, <1>2, <1>3, OneRowLater
<1>5. PageTyped' /\ ReloadSound' /\ DecidersSound'
  BY <1>1, <1>4, LaterRowsKeep DEF DeskInv, DecidersSound
<1>6. HoldsSound'
  <2>1. holds' = holds \/ holds' = [holds EXCEPT ![r] = "held"]
    BY DEF RunArrives, HeldArrives
  <2> QED
    BY <1>1, <2>1 DEF DeskInv, HoldsSound
<1> QED
  BY <1>4, <1>5, <1>6 DEF DeskInv

\* A listing that reaches less far owes less.
LEMMA PushKeeps == ASSUME DeskInv, NEW r \in Runs, PushedOut(r) PROVE DeskInv'
<1>1. /\ pushed' = pushed \cup {r}
      /\ UNCHANGED <<sample, endpoints, rows, filter, holds, queue, shownHolds, desk, deciders, reload>>
  BY DEF PushedOut
<1>2. PageTyped' /\ ReloadSound'
  BY <1>1 DEF DeskInv, PageTyped, ReloadSound, Waiting
<1> QED
  BY <1>1, <1>2 DEF DeskInv, RowsSound, HoldsSound, DecidersSound

\* What changes rows only.
LEMMA RowStepKeeps ==
  ASSUME DeskInv, RowsSound', Later(rows, rows', sample), DecidersSound',
         UNCHANGED <<sample, endpoints, pushed, filter, holds, queue, shownHolds, desk, reload>>
  PROVE  DeskInv'
<1>1. PageTyped' /\ ReloadSound'
  BY LaterRowsKeep
<1>2. HoldsSound'
  BY DEF DeskInv, HoldsSound
<1> QED
  BY <1>1, <1>2 DEF DeskInv

LEMMA ExpiryKeeps == ASSUME DeskInv, NEW r \in Runs, RunExpires(r) PROVE DeskInv'
<1> DEFINE row == [rows[r] EXCEPT !.approval = "EXPIRED"]
<1>1. rows[r].approval = "PENDING" /\ ~sample /\ rows' = [rows EXCEPT ![r] = row]
      /\ UNCHANGED <<sample, endpoints, pushed, filter, holds, queue, shownHolds, desk, deciders, reload>>
  BY DEF RunExpires, Waiting
<1>2. SoundRow(row) /\ row.approval = "EXPIRED"
  <2>1. ~rows[r].grant /\ rows[r] \in RowSet
    BY <1>1 DEF DeskInv, RowsSound, SoundRow
  <2>2. row \in RowSet /\ row.approval = "EXPIRED" /\ ~row.grant
    BY <2>1 DEF RowSet, Approvals, Over
  <2> HIDE DEF row
  <2> QED
    BY <2>2 DEF SoundRow
<1> HIDE DEF row
<1>3. RowsSound' /\ Later(rows, rows', sample)
  BY <1>1, <1>2, OneRowLater DEF Over
<1>4. DecidersSound'
  BY <1>1, <1>3, LaterRowsKeep DEF DeskInv, DecidersSound
<1> QED
  BY <1>1, <1>3, <1>4, RowStepKeeps

LEMMA TimeOutKeeps == ASSUME DeskInv, NEW r \in Runs, HoldTimesOut(r) PROVE DeskInv'
<1>1. holds[r] = "held" /\ holds' = [holds EXCEPT ![r] = "timed_out"]
      /\ UNCHANGED <<sample, endpoints, rows, pushed, filter, queue, shownHolds, desk, deciders, reload>>
  BY DEF HoldTimesOut
<1>2. HoldsSound'
  BY <1>1 DEF DeskInv, HoldsSound
<1> QED
  BY <1>1, <1>2 DEF DeskInv, PageTyped, RowsSound, DecidersSound, ReloadSound, Waiting

LEMMA ServiceKeeps == ASSUME DeskInv, NEW d \in Deciders, DecisionServed(d) PROVE DeskInv'
<1> DEFINE x == deciders[d]
           r == deciders[d].run
           v == deciders[d].verdict
           decides == IF sample THEN rows[r].approval # "none" ELSE "decision" \in endpoints /\ Waiting(r)
<1>1. SoundDecision(x, rows, sample) /\ x \in Decisions /\ r \in Runs /\ v \in Verdicts \cup {"none"} /\ x.told = "none" /\ sample \in BOOLEAN
      /\ x.step = "sent"
  BY DEF DecisionServed, DeskInv, DecidersSound, SoundDecision, Decisions, PageTyped
<1>2. rows' = (IF decides THEN [rows EXCEPT ![r] = Decided(rows[r], v)] ELSE rows)
      /\ UNCHANGED <<sample, endpoints, pushed, filter, holds, queue, shownHolds, desk, reload>>
  BY DEF DecisionServed
<1>3. PICK answer \in {"ok", "404", "error", "network"} :
        /\ deciders' = [deciders EXCEPT ![d].step = "replied", ![d].reply = answer, ![d].done = decides]
        /\ answer = "404" => ~decides
  BY DEF DecisionServed
<1>4. decides \in BOOLEAN
  BY <1>1
<1>5. RowsSound' /\ Later(rows, rows', sample) /\ (decides => DeskStands(x, rows'))
  <2>1. CASE decides
    <3>1. /\ SoundRow(Decided(rows[r], v)) /\ Decided(rows[r], v).approval = ApprovalOf(v)
          /\ IF v = "APPROVE" THEN Decided(rows[r], v).decision = "ALLOW" ELSE Decided(rows[r], v).status = "FAILED"
      BY <1>1, DecidedIsSound DEF DeskInv, RowsSound
    <3>2. rows' = [rows EXCEPT ![r] = Decided(rows[r], v)]
      BY <1>2, <2>1
    <3>3. Decided(rows[r], v).approval # "none" /\ Decided(rows[r], v).approval # "PENDING"
      BY <3>1, VerdictIsOver
    <3>4. ~sample => rows[r].approval \notin Over
      BY <2>1 DEF Waiting, Over
    <3>5. RowsSound' /\ Later(rows, rows', sample)
      BY <1>1, <3>1, <3>2, <3>3, <3>4, OneRowLater
    <3>6. rows'[r] = Decided(rows[r], v)
      BY <1>1, <3>2 DEF DeskInv, RowsSound
    <3>7. DeskStands(x, rows')
      BY <3>1, <3>6 DEF DeskStands
    <3> QED
      BY <3>5, <3>7
  <2>2. CASE ~decides
    <3>1. rows' = rows
      BY <1>2, <2>2
    <3> QED
      BY <2>2, <3>1, SameRowsLater DEF DeskInv
  <2> QED
    BY <2>1, <2>2
<1> HIDE DEF decides
<1>6. PICK y : /\ y = [x EXCEPT !.step = "replied", !.reply = answer, !.done = decides]
               /\ deciders' = [deciders EXCEPT ![d] = y]
  BY <1>3
<1>7. SoundDecision(y, rows', sample)
  <2>1. /\ y \in Decisions /\ y.run = r /\ y.verdict = v /\ y.kind = x.kind /\ y.step = "replied" /\ y.told = "none"
        /\ y.reply = answer /\ y.done = decides
    BY <1>1, <1>4, <1>6 DEF Decisions, Steps
  <2>2. x.kind = "hold" => ~sample
    BY <1>1 DEF SoundDecision
  <2> QED
    BY <1>1, <1>3, <1>5, <2>1, <2>2 DEF SoundDecision, DeskStands
<1>8. DecidersSound'
  BY <1>2, <1>5, <1>6, <1>7, OneDecisionKeeps
<1> QED
  BY <1>2, <1>5, <1>8, RowStepKeeps

-----------------------------------------------------------------------------
(* The refresh *)

\* What is due when a refresh begins waits, and so is not unknown.
LEMMA BegunIsSound ==
  ASSUME DeskInv, UNCHANGED <<sample, rows, pushed>>, reload' = Begun \/ reload' = Asked
  PROVE  ReloadSound'
<1>1. CASE reload' = Begun
  BY <1>1 DEF ReloadSound, Reloads, Filters, NoFilter, Begun, Waiting
<1>2. CASE reload' = [reload EXCEPT !.queued = TRUE]
  <2>1. /\ reload' \in Reloads
        /\ reload'.phase = reload.phase /\ reload'.listed = reload.listed /\ reload'.candidates = reload.candidates
        /\ reload'.due = reload.due
    BY <1>2 DEF DeskInv, ReloadSound, Reloads
  <2> QED
    BY <2>1 DEF DeskInv, ReloadSound, Waiting
<1> QED
  BY <1>1, <1>2 DEF Asked

\* Steps that leave the rows, the holds and the decisions as they are.
LEMMA PageStepKeeps ==
  ASSUME DeskInv, PageTyped', ReloadSound', UNCHANGED <<sample, rows, holds, shownHolds, deciders>>
  PROVE  DeskInv'
BY DEF DeskInv, RowsSound, HoldsSound, DecidersSound

\* What the gateway says it holds.
LEMMA SeenHolds == ASSUME HoldsSound PROVE HoldsSeen \subseteq Runs /\ (sample => HoldsSeen = {})
BY DEF HoldsSound, HoldsSeen

\* A run that waits and is in reach is in every listing.
LEMMA WaitingIsReached ==
  ASSUME DeskInv, NEW r \in Runs \ pushed, Waiting(r), NEW reached, Reached(reached)
  PROVE  r \in reached
<1>1. rows[r] # NoRow
  BY NoRowIsSound DEF Waiting
<1> QED
  BY <1>1 DEF Reached

LEMMA ReadRunsKeeps == ASSUME DeskInv, ReadRuns PROVE DeskInv'
<1>1. UNCHANGED <<sample, endpoints, rows, pushed, filter, holds, queue, desk, deciders>>
  BY DEF ReadRuns
<1>2. HoldsSound'
  <2>1. shownHolds' \in {shownHolds, HoldsSeen}
    BY DEF ReadRuns
  <2> QED
    BY <1>1, <2>1, SeenHolds DEF DeskInv, HoldsSound
<1>3. ReloadSound'
  <2>1. CASE reload' = [reload EXCEPT !.phase = "failed"]
    <3>1. reload' \in Reloads /\ reload'.phase = "failed" /\ reload'.due = reload.due
      BY <2>1 DEF DeskInv, ReloadSound, Reloads
    <3> QED
      BY <1>1, <3>1 DEF DeskInv, ReloadSound
  <2>2. ASSUME NEW reached \in SUBSET Runs, Reached(reached),
               reload' = [reload EXCEPT !.phase = "reading queue", !.filter = filter, !.listed = reached,
                                        !.candidates = {r \in reached : Candidate(rows[r])}]
        PROVE  ReloadSound'
    <3> DEFINE candidates == {r \in reached : Candidate(rows[r])}
    <3>1. candidates \subseteq Runs /\ filter \in Filters
      BY DEF DeskInv, PageTyped
    <3>2. \A r \in reached : Candidate(rows[r]) => r \in candidates
      OBVIOUS
    <3> HIDE DEF candidates
    <3>3. reload' = [reload EXCEPT !.phase = "reading queue", !.filter = filter, !.listed = reached, !.candidates = candidates]
      BY <2>2 DEF candidates
    <3>4. reload' \in Reloads /\ reload'.due = reload.due /\ reload'.listed = reached /\ reload'.candidates = candidates
          /\ reload.due \subseteq Runs
      BY <3>1, <3>3 DEF DeskInv, ReloadSound, Reloads
    <3>5. \A r \in reload.due \ pushed : Waiting(r) => r \in reached
      BY <2>2, <3>4, WaitingIsReached
    <3> QED
      BY <1>1, <3>2, <3>4, <3>5 DEF DeskInv, ReloadSound, Waiting
  <2> QED
    BY <2>1, <2>2 DEF ReadRuns
<1> QED
  BY <1>1, <1>2, <1>3 DEF DeskInv, PageTyped, RowsSound, DecidersSound

\* Each of the queues that may be shown is one.
LEMMA QueuesAreTyped ==
  ASSUME DeskInv, NEW reached \in SUBSET Runs
  PROVE  {[r \in Runs |-> rows[r].approval], ServedQueue(reached), DerivedQueue(reached)} \subseteq [Runs -> Approvals]
<1>1. \A r \in Runs : rows[r].approval \in Approvals
  BY DEF DeskInv, RowsSound, RowSet
<1>2. [r \in Runs |-> rows[r].approval] \in [Runs -> Approvals]
  BY <1>1
<1>3. ServedQueue(reached) \in [Runs -> Approvals]
  BY <1>1 DEF ServedQueue, Approvals
<1>4. DerivedQueue(reached) \in [Runs -> Approvals]
  BY DEF DerivedQueue, Approvals
<1> QED
  BY <1>2, <1>3, <1>4

LEMMA ReadQueueKeeps == ASSUME DeskInv, ReadQueue PROVE DeskInv'
<1>1. UNCHANGED <<sample, endpoints, rows, pushed, filter, holds, shownHolds, deciders>>
  BY DEF ReadQueue
<1>2. ReloadSound'
  <2>1. reload' = [reload EXCEPT !.phase = "failed"]
        \/ reload' = [reload EXCEPT !.phase = "done", !.filter = NoFilter, !.listed = {}, !.candidates = {}]
    BY DEF ReadQueue
  <2>2. reload \in Reloads /\ NoFilter \in Filters
    BY DEF DeskInv, ReloadSound, Filters, NoFilter
  <2>3. reload' \in Reloads /\ reload'.phase \in {"done", "failed"} /\ reload'.due = reload.due
    BY <2>1, <2>2 DEF Reloads
  <2> QED
    BY <1>1, <2>3 DEF DeskInv, ReloadSound
<1>3. PageTyped'
  <2>1. queue' \in [Runs -> Approvals]
    <3>1. queue' = queue \/ \E reached \in SUBSET Runs :
            queue' \in {[r \in Runs |-> rows[r].approval], ServedQueue(reached), DerivedQueue(reached)}
      BY DEF ReadQueue
    <3>2. queue \in [Runs -> Approvals]
      BY DEF DeskInv, PageTyped
    <3>3. ASSUME NEW reached \in SUBSET Runs,
                 queue' \in {[r \in Runs |-> rows[r].approval], ServedQueue(reached), DerivedQueue(reached)}
          PROVE  queue' \in [Runs -> Approvals]
      <4>1. {[r \in Runs |-> rows[r].approval], ServedQueue(reached), DerivedQueue(reached)} \subseteq [Runs -> Approvals]
        BY QueuesAreTyped
      <4> QED
        BY <3>3, <4>1, Zenon
    <3> QED
      BY <3>1, <3>2, <3>3
  <2>2. Redrawn(queue') \in [selected : Runs \cup {NoRun}, modal : [run : Runs \cup {NoRun}, decidable : BOOLEAN]]
    BY DEF Redrawn, ReviewOf, NoReview, DeskInv, PageTyped
  <2>3. desk' \in [selected : Runs \cup {NoRun}, modal : [run : Runs \cup {NoRun}, decidable : BOOLEAN]]
    BY <2>2 DEF ReadQueue, DeskInv, PageTyped
  <2> QED
    BY <1>1, <2>1, <2>3 DEF DeskInv, PageTyped
<1> QED
  BY <1>1, <1>2, <1>3, PageStepKeeps

\* Whoever waited for the refresh sends its decision, or is done.
LEMMA ReloadEndsKeeps == ASSUME DeskInv, ReloadEnds PROVE DeskInv'
<1>1. UNCHANGED <<sample, endpoints, rows, pushed, filter, holds, queue, shownHolds, desk>>
  BY DEF ReloadEnds
<1>2. ReloadSound'
  <2>1. CASE reload' = Begun
    BY <1>1, <2>1, BegunIsSound
  <2>2. CASE reload' = [Begun EXCEPT !.phase = "none", !.due = {}]
    BY <1>1, <2>2 DEF Begun, ReloadSound, Reloads, Filters, NoFilter
  <2> QED
    BY <2>1, <2>2 DEF ReloadEnds
<1>3. ASSUME NEW d \in Deciders PROVE SoundDecision(deciders'[d], rows, sample)
  <2>1. SoundDecision(deciders[d], rows, sample) /\ deciders[d] \in Decisions
    BY DEF DeskInv, DecidersSound
  <2>2. deciders'[d] = CASE deciders[d].step = "refreshing" -> [deciders[d] EXCEPT !.step = "sent"]
                         [] deciders[d].step = "finishing" -> [deciders[d] EXCEPT !.step = "over"]
                         [] OTHER -> deciders[d]
    BY DEF ReloadEnds
  <2>3. CASE deciders[d].step = "refreshing"
    <3>1. deciders'[d] = [deciders[d] EXCEPT !.step = "sent"]
      BY <2>2, <2>3
    <3> QED
      BY <2>1, <2>3, <3>1 DEF SoundDecision, Decisions, DeskStands, Steps
  <2>4. CASE deciders[d].step = "finishing"
    <3>1. deciders'[d] = [deciders[d] EXCEPT !.step = "over"]
      BY <2>2, <2>4
    <3> QED
      BY <2>1, <2>4, <3>1 DEF SoundDecision, Decisions, DeskStands, Steps
  <2>5. CASE deciders[d].step \notin {"refreshing", "finishing"}
    BY <2>1, <2>2, <2>5
  <2> QED
    BY <2>3, <2>4, <2>5
<1>4. DecidersSound'
  <2>1. DOMAIN deciders' = Deciders /\ deciders' = [d \in Deciders |-> deciders'[d]]
    BY DEF ReloadEnds
  <2>2. deciders' \in [Deciders -> Decisions]
    BY <1>3, <2>1 DEF SoundDecision
  <2> QED
    BY <1>1, <1>3, <2>2 DEF DecidersSound
<1> QED
  BY <1>1, <1>2, <1>4 DEF DeskInv, PageTyped, RowsSound, HoldsSound

-----------------------------------------------------------------------------
(* The operator *)

LEMMA SelectionKeeps ==
  ASSUME DeskInv, (\E r \in Runs : SelectRun(r) \/ OpenModal(r)) \/ SetFilter \/ CloseModal
  PROVE  DeskInv'
<1>1. UNCHANGED <<sample, endpoints, rows, pushed, holds, queue, shownHolds, deciders>>
  BY DEF SelectRun, OpenModal, SetFilter, CloseModal
<1>2. ReloadSound'
  <2>1. reload' = reload \/ reload' = Asked
    BY DEF SelectRun, OpenModal, SetFilter, CloseModal
  <2>2. CASE reload' = reload
    BY <1>1, <2>2 DEF DeskInv, ReloadSound, Waiting
  <2> QED
    BY <1>1, <2>1, <2>2, BegunIsSound
<1>3. PageTyped'
  <2>1. CASE CloseModal
    BY <1>1, <2>1 DEF CloseModal, NoReview, DeskInv, PageTyped
  <2>2. ASSUME NEW r \in Runs, SelectRun(r) PROVE PageTyped'
    BY <1>1, <2>2 DEF SelectRun, NoReview, DeskInv, PageTyped
  <2>3. ASSUME NEW r \in Runs, OpenModal(r) PROVE PageTyped'
    BY <1>1, <2>3 DEF OpenModal, ReviewOf, DeskInv, PageTyped
  <2>4. CASE SetFilter
    BY <1>1, <2>4 DEF SetFilter, Filters, DeskInv, PageTyped
  <2> QED
    BY <2>1, <2>2, <2>3, <2>4
<1> QED
  BY <1>1, <1>2, <1>3, PageStepKeeps

LEMMA SubmitKeeps == ASSUME DeskInv, NEW r \in Runs, SubmitRun(r) PROVE DeskInv'
<1>1. sample /\ rows[r] = NoRow /\ UNCHANGED <<sample, endpoints, pushed, filter, holds, queue, shownHolds, desk, deciders>>
  BY DEF SubmitRun
<1>2. PICK request \in Requests : rows' = [rows EXCEPT ![r] = SampleRow(request)]
  BY DEF SubmitRun
<1>3. rows[r].approval = "none"
  BY <1>1, NoRowIsSound
<1>4. RowsSound' /\ Later(rows, rows', sample)
  BY <1>1, <1>2, <1>3, MadeRowIsSound, OneRowLater
<1>5. DecidersSound'
  <2>1. sample \in BOOLEAN
    BY DEF DeskInv, PageTyped
  <2> QED
    BY <1>1, <1>4, <2>1, DecisionSurvives DEF DeskInv, DecidersSound
<1>6. HoldsSound'
  BY <1>1 DEF DeskInv, HoldsSound
<1>7. ReloadSound'
  <2>1. \A q \in Runs : rows[q].approval # "none" =>
          rows'[q].approval # "none" /\ (rows'[q].approval = "PENDING" => rows'[q] = rows[q])
    BY <1>4 DEF Later
  <2>2. CASE reload' = Begun
    <3>1. reload' \in Reloads /\ reload'.phase = "reading runs" /\ \A q \in reload'.due : q \in Runs /\ rows[q].approval = "PENDING"
      BY <2>2 DEF Begun, Waiting, Reloads, Filters, NoFilter
    <3>2. \A q \in reload'.due : rows'[q].approval # "none"
      BY <2>1, <3>1
    <3> QED
      BY <3>1, <3>2 DEF ReloadSound
  <2>3. CASE reload' = [reload EXCEPT !.queued = TRUE]
    <3>1. reload' \in Reloads /\ reload'.phase = reload.phase /\ reload'.due = reload.due /\ reload.due \subseteq Runs
          /\ reload'.listed = reload.listed /\ reload'.candidates = reload.candidates
      BY <2>3 DEF DeskInv, ReloadSound, Reloads
    <3>2. \A q \in reload.due : rows'[q].approval # "none" /\ (rows'[q].approval = "PENDING" => rows'[q] = rows[q])
      BY <2>1, <3>1 DEF DeskInv, ReloadSound
    <3> QED
      BY <1>1, <3>1, <3>2 DEF DeskInv, ReloadSound, Waiting, Candidate
  <2> QED
    BY <2>2, <2>3 DEF SubmitRun, Asked
<1> QED
  BY <1>1, <1>4, <1>5, <1>6, <1>7 DEF DeskInv, PageTyped

\* One decision goes on, and perhaps a refresh begins.
LEMMA DecisionStepKeeps ==
  ASSUME DeskInv, NEW d \in Deciders, NEW y, SoundDecision(y, rows, sample), deciders' = [deciders EXCEPT ![d] = y],
         UNCHANGED <<sample, endpoints, rows, pushed, filter, queue>>, reload' = reload \/ reload' = Asked, HoldsSound',
         desk' \in [selected : Runs \cup {NoRun}, modal : [run : Runs \cup {NoRun}, decidable : BOOLEAN]]
  PROVE  DeskInv'
<1>1. RowsSound' /\ Later(rows, rows', sample)
  BY SameRowsLater DEF DeskInv
<1>2. DecidersSound'
  BY <1>1, OneDecisionKeeps
<1>3. ReloadSound'
  <2>1. CASE reload' = reload
    BY <2>1 DEF DeskInv, ReloadSound, Waiting
  <2> QED
    BY <2>1, BegunIsSound
<1> QED
  BY <1>1, <1>2, <1>3 DEF DeskInv, PageTyped

LEMMA SameHolds == ASSUME DeskInv, UNCHANGED <<sample, rows, holds, shownHolds>> PROVE HoldsSound'
BY DEF DeskInv, HoldsSound

\* A decision that begins.
LEMMA FreshIsSound ==
  ASSUME NEW r \in Runs, NEW v \in Verdicts, NEW R, NEW s
  PROVE  /\ SoundDecision([NoDecision EXCEPT !.kind = "queue", !.run = r, !.step = "over", !.told = "no reason"], R, s)
         /\ SoundDecision([NoDecision EXCEPT !.kind = "queue", !.run = r, !.verdict = v, !.step = "sent"], R, s)
         /\ SoundDecision([NoDecision EXCEPT !.kind = "governance", !.run = r, !.verdict = v, !.step = "sent"], R, s)
         /\ \A step \in {"sent", "refreshing"} : ~s =>
              SoundDecision([NoDecision EXCEPT !.kind = "hold", !.run = r, !.verdict = v, !.step = step], R, s)
<1>1. NoDecision \in Decisions /\ NoDecision.reply = "none" /\ NoDecision.done = FALSE /\ NoDecision.told = "none"
  BY DEF NoDecision, Decisions, Steps
<1>2. SoundDecision([NoDecision EXCEPT !.kind = "queue", !.run = r, !.step = "over", !.told = "no reason"], R, s)
  <2> DEFINE y == [NoDecision EXCEPT !.kind = "queue", !.run = r, !.step = "over", !.told = "no reason"]
  <2>1. /\ y \in Decisions /\ y.run = r /\ y.kind = "queue" /\ y.step = "over" /\ y.told = "no reason"
        /\ y.done = FALSE
    BY <1>1 DEF Decisions, Steps
  <2> HIDE DEF y
  <2>2. SoundDecision(y, R, s)
    BY <2>1 DEF SoundDecision
  <2> QED
    BY <2>2 DEF y
<1>3. ASSUME NEW kind \in {"queue", "governance", "hold"}, NEW step \in {"sent", "refreshing"}, kind = "hold" => ~s
      PROVE  SoundDecision([NoDecision EXCEPT !.kind = kind, !.run = r, !.verdict = v, !.step = step], R, s)
  <2> DEFINE y == [NoDecision EXCEPT !.kind = kind, !.run = r, !.verdict = v, !.step = step]
  <2>1. y \in Decisions /\ y.run = r /\ y.kind = kind /\ y.step = step /\ y.told = "none" /\ y.done = FALSE
    BY <1>1 DEF Decisions, Steps
  <2> HIDE DEF y
  <2>2. SoundDecision(y, R, s)
    BY <1>3, <2>1 DEF SoundDecision
  <2> QED
    BY <2>2 DEF y
<1> QED
  BY <1>2, <1>3

LEMMA DecideKeeps ==
  ASSUME DeskInv, NEW d \in Deciders, NEW r \in Runs, NEW v \in Verdicts,
         DecideInQueue(d, r, v) \/ DecideInGovernance(d, r, v) \/ DecideHold(d, r, v)
  PROVE  DeskInv'
<1>1. UNCHANGED <<sample, endpoints, rows, pushed, filter, holds, queue, shownHolds, desk>> /\ (reload' = reload \/ reload' = Asked)
  BY DEF DecideInQueue, DecideInGovernance, DecideHold
<1>2. PICK y : SoundDecision(y, rows, sample) /\ deciders' = [deciders EXCEPT ![d] = y]
  <2>1. sample \in BOOLEAN
    BY DEF DeskInv, PageTyped
  <2>2. DecideHold(d, r, v) => ~sample
    BY DEF DecideHold, DeskInv, HoldsSound
  <2>3. CASE DecideInQueue(d, r, v) \/ DecideInGovernance(d, r, v)
    BY <2>1, <2>3, FreshIsSound DEF DecideInQueue, DecideInGovernance
  <2>4. CASE DecideHold(d, r, v)
    BY <2>2, <2>4, FreshIsSound DEF DecideHold, ThenAwaits
  <2> QED
    BY <2>3, <2>4
<1> QED
  BY <1>1, <1>2, SameHolds, DecisionStepKeeps DEF DeskInv, PageTyped

\* Only a decision that the runtime has made is answered with a value.
LEMMA AnswerIsTrue ==
  ASSUME NEW x, x \in Decisions, x.reply = "404" => ~x.done
  PROVE  LET told == Told(AnswerTo(ApprovalDecision, x.reply, x.done))
         IN /\ told \in {"ok", "unchanged", "error"}
            /\ told = "ok" => x.done
            /\ told = "unchanged" => ~x.done
<1>1. ApprovalDecision.writes /\ ApprovalDecision.says = "runtime" /\ ApprovalDecision.absent = "refused"
      /\ ApprovalDecision.absentOn = NotThere
  BY DEF ApprovalDecision, Command, Plain
<1> DEFINE answer == AnswerTo(ApprovalDecision, x.reply, x.done)
<1>2. /\ answer \in {"value", "refused", "throws"}
      /\ answer = "value" => x.done
      /\ answer = "refused" => ~x.done
  <2>1. x.reply \in {"none", "ok", "404", "error", "network"} /\ x.done \in BOOLEAN
    BY DEF Decisions
  <2>2. CASE x.reply = "ok"
    BY <1>1, <2>1, <2>2 DEF AnswerTo, Fine
  <2>3. CASE x.reply # "ok"
    BY <1>1, <2>1, <2>3 DEF AnswerTo, Fine, NotThere
  <2> QED
    BY <2>2, <2>3
<1> HIDE DEF answer
<1>3. /\ Told(answer) \in {"ok", "unchanged", "error"}
      /\ Told(answer) = "ok" => answer = "value"
      /\ Told(answer) = "unchanged" => answer = "refused"
  BY <1>2 DEF Told
<1> QED
  BY <1>2, <1>3 DEF answer

\* The answer is reported, of a held request too.
LEMMA AnswerKeeps ==
  ASSUME DeskInv, NEW d \in Deciders, QueueAnswered(d) \/ HoldAnswered(d)
  PROVE  DeskInv'
<1> DEFINE x == deciders[d]
           report == Told(Answer(d))
<1>1. SoundDecision(x, rows, sample) /\ x \in Decisions /\ x.step = "replied" /\ x.told = "none" /\ x.run \in Runs
  BY DEF QueueAnswered, HoldAnswered, DeskInv, DecidersSound, SoundDecision
<1>2. /\ report \in {"ok", "unchanged", "error"}
      /\ report = "ok" => x.done
      /\ report = "unchanged" => ~x.done
  BY <1>1, AnswerIsTrue DEF Answer, SoundDecision
<1> HIDE DEF report
<1>3. UNCHANGED <<sample, endpoints, rows, pushed, filter, queue, shownHolds>> /\ (reload' = reload \/ reload' = Asked)
  BY DEF QueueAnswered, HoldAnswered
<1>4. desk' \in [selected : Runs \cup {NoRun}, modal : [run : Runs \cup {NoRun}, decidable : BOOLEAN]]
  <2>1. desk \in [selected : Runs \cup {NoRun}, modal : [run : Runs \cup {NoRun}, decidable : BOOLEAN]]
    BY DEF DeskInv, PageTyped
  <2>2. desk' = desk \/ \E modal \in {NoReview, desk.modal} : desk' = [selected |-> x.run, modal |-> modal]
    BY DEF QueueAnswered, HoldAnswered
  <2>3. NoReview \in [run : Runs \cup {NoRun}, decidable : BOOLEAN] /\ desk.modal \in [run : Runs \cup {NoRun}, decidable : BOOLEAN]
    BY <2>1 DEF NoReview
  <2> QED
    BY <1>1, <2>1, <2>2, <2>3
<1>5. PICK step \in {"over", "finishing"} : deciders' = [deciders EXCEPT ![d].told = report, ![d].step = step]
  BY DEF QueueAnswered, HoldAnswered, ThenAwaits, report
<1> DEFINE y == [x EXCEPT !.told = report, !.step = step]
<1>6. deciders' = [deciders EXCEPT ![d] = y]
  BY <1>5 DEF DeskInv, DecidersSound
<1>7. SoundDecision(y, rows, sample)
  <2>1. /\ y \in Decisions /\ y.run = x.run /\ y.verdict = x.verdict /\ y.kind = x.kind /\ y.step = step /\ y.told = report
        /\ y.reply = x.reply /\ y.done = x.done
    BY <1>1, <1>2, <1>5 DEF Decisions, Steps
  <2>2. x.done /\ ~sample => DeskStands(x, rows)
    BY <1>1 DEF SoundDecision
  <2>3. x.kind = "hold" => ~sample
    BY <1>1 DEF SoundDecision
  <2>4. DeskStands(y, rows) = DeskStands(x, rows)
    BY <2>1 DEF DeskStands
  <2> HIDE DEF y
  <2>5. x.reply = "404" => ~x.done
    BY <1>1 DEF SoundDecision
  <2> QED
    BY <1>1, <1>2, <1>5, <2>1, <2>2, <2>3, <2>4, <2>5 DEF SoundDecision
<1> HIDE DEF y
<1>8. HoldsSound'
  <2>1. CASE QueueAnswered(d)
    BY <1>3, <2>1, SameHolds DEF QueueAnswered
  <2>2. CASE HoldAnswered(d)
    <3>1. ~sample
      BY <1>1, <2>2 DEF HoldAnswered, SoundDecision
    <3>2. holds' \in [Runs -> {"none", "held", "granted", "denied", "timed_out"}]
      BY <2>2 DEF HoldAnswered, DeskInv, HoldsSound
    <3> QED
      BY <1>3, <3>1, <3>2 DEF DeskInv, HoldsSound
  <2> QED
    BY <2>1, <2>2
<1> QED
  BY <1>3, <1>4, <1>6, <1>7, <1>8, DecisionStepKeeps

LEMMA NextDesk == DeskInv /\ [DeskNext]_deskVars => DeskInv'
<1> SUFFICES ASSUME DeskInv, [DeskNext]_deskVars PROVE DeskInv'
  OBVIOUS
<1>1. CASE UNCHANGED deskVars
  BY <1>1 DEF deskVars, DeskInv, PageTyped, RowsSound, HoldsSound, DecidersSound, ReloadSound, Waiting
<1>2. ASSUME NEW r \in Runs, RunArrives(r) \/ HeldArrives(r) \/ PushedOut(r) \/ RunExpires(r) \/ HoldTimesOut(r) \/ SubmitRun(r)
      PROVE  DeskInv'
  BY <1>2, ArrivalKeeps, PushKeeps, ExpiryKeeps, TimeOutKeeps, SubmitKeeps
<1>3. CASE (\E r \in Runs : SelectRun(r) \/ OpenModal(r)) \/ SetFilter \/ CloseModal
  BY <1>3, SelectionKeeps
<1>4. CASE ReadRuns \/ ReadQueue \/ ReloadEnds
  BY <1>4, ReadRunsKeeps, ReadQueueKeeps, ReloadEndsKeeps
<1>5. ASSUME NEW d \in Deciders, NEW r \in Runs, NEW v \in Verdicts,
             DecideInQueue(d, r, v) \/ DecideInGovernance(d, r, v) \/ DecideHold(d, r, v)
      PROVE  DeskInv'
  BY <1>5, DecideKeeps
<1>6. ASSUME NEW d \in Deciders, DecisionServed(d) PROVE DeskInv'
  BY <1>6, ServiceKeeps
<1>7. ASSUME NEW d \in Deciders, QueueAnswered(d) \/ HoldAnswered(d) PROVE DeskInv'
  BY <1>7, AnswerKeeps
<1> QED
  BY <1>1, <1>2, <1>3, <1>4, <1>5, <1>6, <1>7 DEF DeskNext

LEMMA DeskInvariant == DeskSpec => []DeskInv
<1> QED
  BY InitDesk, NextDesk, PTL DEF DeskSpec

-----------------------------------------------------------------------------
(* The theorems *)

\* The rows, the holds, the queue shown and the decisions stay well formed.
THEOREM DeskIsWellFormed == DeskSpec => []DeskTypeOK
<1>1. DeskInv => DeskTypeOK
  <2> SUFFICES ASSUME DeskInv PROVE DeskTypeOK
    OBVIOUS
  <2>1. \A d \in Deciders : deciders[d].told \in {"none", "no reason", "ok", "unchanged", "error"}
    BY DEF DeskInv, DecidersSound, Decisions
  <2>2. reload.listed \subseteq Runs /\ reload.candidates \subseteq Runs /\ reload.due \subseteq Runs
    BY DEF DeskInv, ReloadSound, Reloads
  <2>3. rows \in [Runs -> RowSet]
    BY DEF DeskInv, RowsSound
  <2> QED
    BY <2>1, <2>2, <2>3 DEF DeskTypeOK, DeskInv, PageTyped, HoldsSound, RowSet, Approvals, Filters
<1> QED
  BY DeskInvariant, <1>1, PTL

\* A run holds a grant when it was approved and none when it waits, was denied or expired,
\* and one the operator has denied has failed: at a runtime and on sample data, whatever
\* decisions cross.
THEOREM GrantsFollowDecisions == DeskSpec => []GrantFollowsDecision
<1>1. DeskInv => GrantFollowsDecision
  <2> SUFFICES ASSUME DeskInv PROVE GrantFollowsDecision
    OBVIOUS
  <2>1. \A r \in Runs : SoundRow(rows[r])
    BY DEF DeskInv, RowsSound
  <2>2. \A d \in Deciders : deciders[d].done /\ ~sample => DeskStands(deciders[d], rows)
    BY DEF DeskInv, DecidersSound, SoundDecision
  <2> QED
    BY <2>1, <2>2 DEF GrantFollowsDecision, SoundRow, DeskStands
<1> QED
  BY DeskInvariant, <1>1, PTL

\* What the operator is told of a decision is true when it is said, and stays true.
THEOREM OperatorIsToldTheTruth == DeskSpec => []ToldTheTruth
<1>1. DeskInv => ToldTheTruth
  BY DEF DeskInv, DecidersSound, SoundDecision, DeskStands, ToldTheTruth
<1> QED
  BY DeskInvariant, <1>1, PTL

\* A run that waits from the beginning of a refresh to its end and is in reach is shown as
\* waiting: read with a filter that it passes, or derived from a list that was read before.
THEOREM WaitingIsShown == DeskSpec => WaitingRunsShown
<1> DEFINE Owed(r) ==
             /\ Waiting(r)
             /\ \/ sample
                \/ "queue" \in endpoints /\ Passes(r)
                \/ "queue" \notin endpoints /\ rows[r].decision = "ALLOW" /\ rows[r].status \notin {"COMPLETED", "FAILED"}
           WaitingShown == reload.phase = "reading queue" /\ reload'.phase = "done" =>
                      \A r \in reload.due \ pushed : Owed(r) => queue'[r] = "PENDING"
<1>1. DeskInv /\ [DeskNext]_deskVars => [WaitingShown]_deskVars
  <2> SUFFICES ASSUME DeskInv, DeskNext, reload.phase = "reading queue", reload'.phase = "done",
                      NEW r \in reload.due \ pushed, Owed(r)
               PROVE  queue'[r] = "PENDING"
    OBVIOUS
  <2>1. ReadQueue
    <3>1. Asked = [reload EXCEPT !.queued = TRUE]
      BY DEF Asked, Running
    <3>2. Asked.phase = "reading queue"
      BY <3>1 DEF DeskInv, ReloadSound, Reloads
    <3>3. reload' # reload /\ reload' # Asked
      BY <3>2
    <3> QED
      BY <3>3 DEF DeskNext, RunArrives, HeldArrives, PushedOut, RunExpires, HoldTimesOut, SelectRun, OpenModal, SubmitRun,
                  SetFilter, CloseModal, ReadRuns, ReloadEnds, DecideInQueue, DecideInGovernance, DecideHold, DecisionServed,
                  QueueAnswered, HoldAnswered
  <2>2. r \in Runs /\ r \notin pushed /\ Waiting(r)
    BY DEF DeskInv, ReloadSound, Reloads
  <2>3. PICK reached \in SUBSET Runs :
          /\ Reached(reached)
          /\ queue' = IF sample THEN [q \in Runs |-> rows[q].approval]
                      ELSE IF "queue" \in endpoints THEN ServedQueue(reached) ELSE DerivedQueue(reached)
    <3>1. reload' # [reload EXCEPT !.phase = "failed"]
      BY DEF DeskInv, ReloadSound, Reloads
    <3> QED
      BY <2>1, <3>1 DEF ReadQueue
  <2>4. r \in reached
    BY <2>2, <2>3, WaitingIsReached
  <2>5. CASE sample
    BY <2>2, <2>3, <2>5 DEF Waiting
  <2>6. CASE ~sample /\ "queue" \in endpoints
    BY <2>2, <2>3, <2>4, <2>6 DEF ServedQueue, Waiting
  <2>7. CASE ~sample /\ "queue" \notin endpoints
    <3>1. Candidate(rows[r])
      BY <2>2, <2>7 DEF Candidate, Waiting, DeskInv, RowsSound, SoundRow
    <3>2. r \in reload.listed /\ r \in reload.candidates
      BY <2>2, <3>1 DEF DeskInv, ReloadSound
    <3> QED
      BY <2>2, <2>3, <2>7, <3>2 DEF DerivedQueue
  <2> QED
    BY <2>5, <2>6, <2>7
<1>2. DeskSpec => [][WaitingShown]_deskVars
  BY <1>1, DeskInvariant, PTL DEF DeskSpec
<1> QED
  BY <1>2 DEF WaitingRunsShown

-----------------------------------------------------------------------------
(***************************************************************************)
(* Proofs about IncidentQueue, for every set of tabs and runs, every       *)
(* length of the queue and every number of writes.                         *)
(*                                                                         *)
(* A queue travels: it is kept by a tab, written to the storage, told to   *)
(* the other tabs, and taken over by them in any order and at any time.    *)
(* SoundQueues are the lists that may be met in all of these places: they  *)
(* name only packages that have been made, and of those that are filed or  *)
(* closed only ones that have been filed.  Since packages made and filed   *)
(* stay so, a list that is old is still sound.                             *)
(***************************************************************************)

SoundEntry(e, m, f) == e.id <= m /\ (e.status # "drafted" => e.id \in f)

SoundQueues(m, f) ==
  {list \in Seq(Entries) : Len(list) <= MaxQueue /\ \A i \in DOMAIN list : SoundEntry(list[i], m, f)}

CountsOK == made \in Nat /\ writes \in 0..MaxWrites /\ made <= writes /\ filed \subseteq 1..made /\ apart \in BOOLEAN

ListsSound ==
  /\ queues \in [Tabs -> SoundQueues(made, filed)]
  /\ inStorage \in SoundQueues(made, filed)
  /\ mail \in [Tabs -> Seq(SoundQueues(made, filed))]

MarksOK == marked \in [Tabs -> SUBSET Nat] /\ \A t \in Tabs : marked[t] \subseteq Ids(queues[t])

DetailsOK == details \in [Tabs -> [shown : Incidents \cup {NoIncident}, asked : SUBSET Incidents]]

\* The inductive invariant.
QueueInv == CountsOK /\ ListsSound /\ MarksOK /\ DetailsOK

-----------------------------------------------------------------------------
(* Lists of packages *)

\* What is sound stays sound when more packages are made or filed.
LEMMA SoundStays ==
  ASSUME NEW m \in Nat, NEW n \in Nat, m <= n, NEW f, NEW g, f \subseteq g
  PROVE  SoundQueues(m, f) \subseteq SoundQueues(n, g)
<1> SUFFICES ASSUME NEW list \in SoundQueues(m, f) PROVE list \in SoundQueues(n, g)
  OBVIOUS
<1>1. list \in Seq(Entries) /\ Len(list) <= MaxQueue
  BY DEF SoundQueues
<1>2. ASSUME NEW i \in DOMAIN list PROVE SoundEntry(list[i], n, g)
  <2>1. SoundEntry(list[i], m, f)
    BY DEF SoundQueues
  <2>2. list[i] \in Entries
    BY <1>1
  <2>3. list[i].id \in Nat
    BY <2>2, QueueAssumption DEF Entries
  <2> QED
    BY <2>1, <2>3 DEF SoundEntry
<1> QED
  BY <1>1, <1>2 DEF SoundQueues

LEMMA EmptyIsSound ==
  ASSUME NEW m, NEW f
  PROVE  <<>> \in SoundQueues(m, f)
BY QueueAssumption DEF SoundQueues

LEMMA Pred ==
  ASSUME NEW n \in Nat, NEW k, k = n + 1, NEW i \in 1..k, i # 1
  PROVE  i \in 2..k /\ i - 1 \in 1..n
OBVIOUS

\* A new package before a list, and the beginning of that.
LEMMA LongerIsSound ==
  ASSUME NEW m \in Nat, NEW f, NEW list \in SoundQueues(m, f), NEW e \in Entries, e.id <= m, e.status = "drafted",
         NEW longer, longer = <<e>> \o list
  PROVE  (IF Len(longer) > MaxQueue THEN SubSeq(longer, 1, MaxQueue) ELSE longer) \in SoundQueues(m, f)
<1>1. list \in Seq(Entries) /\ Len(list) \in Nat /\ \A i \in 1..Len(list) : SoundEntry(list[i], m, f)
  BY DEF SoundQueues
<1>2. longer \in Seq(Entries) /\ Len(longer) = Len(list) + 1 /\ longer[1] = e
  BY <1>1
<1>3. \A i \in 2..Len(longer) : longer[i] = list[i - 1]
  BY <1>1, <1>2
<1>4. \A i \in 1..Len(longer) : SoundEntry(longer[i], m, f)
  <2> SUFFICES ASSUME NEW i \in 1..Len(longer) PROVE SoundEntry(longer[i], m, f)
    OBVIOUS
  <2>1. CASE i = 1
    BY <1>2, <2>1 DEF SoundEntry
  <2>2. CASE i # 1
    <3>1. i \in 2..Len(longer) /\ i - 1 \in 1..Len(list)
      BY <1>1, <1>2, <2>2, Pred
    <3>2. longer[i] = list[i - 1]
      BY <1>3, <3>1
    <3> QED
      BY <1>1, <3>1, <3>2
  <2> QED
    BY <2>1, <2>2
<1>5. CASE Len(longer) > MaxQueue
  <2> DEFINE cut == SubSeq(longer, 1, MaxQueue)
  <2>1. MaxQueue \in Nat /\ MaxQueue <= Len(longer)
    BY <1>1, <1>2, <1>5, QueueAssumption
  <2>2. cut \in Seq(Entries) /\ Len(cut) = MaxQueue /\ \A i \in 1..MaxQueue : cut[i] = longer[i]
    BY <1>2, <2>1
  <2>3. \A i \in DOMAIN cut : SoundEntry(cut[i], m, f)
    BY <1>2, <1>4, <2>1, <2>2
  <2>4. Len(cut) <= MaxQueue
    BY <2>1, <2>2
  <2> HIDE DEF cut
  <2>5. cut \in SoundQueues(m, f)
    BY <2>2, <2>3, <2>4 DEF SoundQueues
  <2> QED
    BY <1>5, <2>5 DEF cut
<1>6. CASE ~(Len(longer) > MaxQueue)
  <2>1. Len(longer) <= MaxQueue
    BY <1>1, <1>2, <1>6, QueueAssumption
  <2>2. DOMAIN longer = 1..Len(longer)
    BY <1>2
  <2>3. longer \in SoundQueues(m, f)
    BY <1>2, <1>4, <2>1, <2>2 DEF SoundQueues
  <2> QED
    BY <1>6, <2>3
<1> QED
  BY <1>5, <1>6

\* Packages of a list that are moved on, to a status all of them may have.
LEMMA MovedIsSound ==
  ASSUME NEW m \in Nat, NEW f, NEW list \in SoundQueues(m, f), NEW ids, NEW status \in Statuses,
         status # "drafted" => ids \subseteq f
  PROVE  /\ WithStatus(list, ids, status) \in SoundQueues(m, f)
         /\ Ids(WithStatus(list, ids, status)) = Ids(list)
<1> DEFINE new == WithStatus(list, ids, status)
<1>1. list \in Seq(Entries) /\ Len(list) \in Nat /\ Len(list) <= MaxQueue /\ DOMAIN list = 1..Len(list)
  BY DEF SoundQueues
<1>2. \A i \in DOMAIN list : list[i] \in Entries /\ SoundEntry(list[i], m, f)
  BY <1>1 DEF SoundQueues
<1>3. new = [i \in 1..Len(list) |-> IF list[i].id \in ids THEN [list[i] EXCEPT !.status = status] ELSE list[i]]
  BY <1>1 DEF WithStatus
<1>4. ASSUME NEW i \in 1..Len(list)
      PROVE  new[i] \in Entries /\ new[i].id = list[i].id /\ SoundEntry(new[i], m, f)
  <2>1. list[i] \in Entries /\ SoundEntry(list[i], m, f)
    BY <1>1, <1>2
  <2>2. CASE list[i].id \in ids
    <3>1. new[i] = [list[i] EXCEPT !.status = status]
      BY <1>3, <2>2
    <3>2. new[i] \in Entries /\ new[i].id = list[i].id /\ new[i].status = status
      BY <2>1, <3>1 DEF Entries
    <3> QED
      BY <2>1, <2>2, <3>2 DEF SoundEntry
  <2>3. CASE list[i].id \notin ids
    BY <1>3, <2>1, <2>3
  <2> QED
    BY <2>2, <2>3
<1>5. new \in Seq(Entries) /\ Len(new) = Len(list) /\ DOMAIN new = 1..Len(list)
  <2>1. new \in [1..Len(list) -> Entries]
    BY <1>3, <1>4
  <2> QED
    BY <1>1, <2>1
<1>6. new \in SoundQueues(m, f)
  BY <1>1, <1>4, <1>5 DEF SoundQueues
<1>7. Ids(new) = Ids(list)
  BY <1>1, <1>4, <1>5 DEF Ids
<1> QED
  BY <1>6, <1>7

\* A package found by its id is in the list.
LEMMA FoundIsThere ==
  ASSUME NEW list \in Seq(Entries), NEW id \in Ids(list)
  PROVE  \E i \in DOMAIN list : list[i].id = id /\ EntryOf(list, id) = list[i]
<1>1. \E e \in ToSet(list) : e.id = id
  BY DEF Ids, ToSet
<1>2. EntryOf(list, id) \in ToSet(list) /\ EntryOf(list, id).id = id
  BY <1>1 DEF EntryOf
<1> QED
  BY <1>2 DEF ToSet

\* What may be moved to closed has been filed.
LEMMA ClosableWasFiled ==
  ASSUME NEW m \in Nat, NEW f, NEW list \in SoundQueues(m, f), NEW id \in Ids(list),
         CanTransition(EntryOf(list, id).status, "closed")
  PROVE  id \in f
<1>1. PICK i \in DOMAIN list : list[i].id = id /\ EntryOf(list, id) = list[i]
  BY FoundIsThere DEF SoundQueues
<1>2. list[i].status = "filed"
  BY <1>1 DEF CanTransition
<1> QED
  BY <1>1, <1>2 DEF SoundQueues, SoundEntry

LEMMA MadeIsMade ==
  ASSUME NEW m \in Nat, NEW f, NEW list \in SoundQueues(m, f), NEW id \in Ids(list)
  PROVE  id \in 1..m
<1>1. PICK i \in DOMAIN list : list[i].id = id
  BY DEF Ids
<1>2. list[i] \in Entries /\ list[i].id <= m
  BY DEF SoundQueues, SoundEntry
<1> QED
  BY <1>1, <1>2, QueueAssumption DEF Entries

-----------------------------------------------------------------------------
(* What a step does with a list *)

\* Everything kept stays sound when more packages are made or filed.
LEMMA ListsStaySound ==
  ASSUME QueueInv, NEW m \in Nat, made <= m, NEW f, filed \subseteq f
  PROVE  /\ queues \in [Tabs -> SoundQueues(m, f)]
         /\ inStorage \in SoundQueues(m, f)
         /\ mail \in [Tabs -> Seq(SoundQueues(m, f))]
<1>1. SoundQueues(made, filed) \subseteq SoundQueues(m, f)
  BY SoundStays DEF QueueInv, CountsOK
<1>2. \A s \in Seq(SoundQueues(made, filed)) : s \in Seq(SoundQueues(m, f))
  BY <1>1
<1> QED
  BY <1>1, <1>2 DEF QueueInv, ListsSound

\* A list that is written is sound wherever it goes.
LEMMA StoredStaysSound ==
  ASSUME QueueInv, NEW m \in Nat, made <= m, NEW f, filed \subseteq f,
         NEW t \in Tabs, NEW list \in SoundQueues(m, f), Stored(t, list)
  PROVE  /\ writes' = writes + 1 /\ writes' \in 1..MaxWrites /\ apart' \in BOOLEAN
         /\ inStorage' \in SoundQueues(m, f)
         /\ mail' \in [Tabs -> Seq(SoundQueues(m, f))]
<1>1. inStorage \in SoundQueues(m, f) /\ mail \in [Tabs -> Seq(SoundQueues(m, f))]
  BY ListsStaySound
<1>2. writes' = writes + 1 /\ writes' \in 1..MaxWrites
  BY QueueAssumption DEF QueueInv, CountsOK, Stored
<1>3. apart' \in BOOLEAN
  BY DEF QueueInv, CountsOK, Stored
<1>4. inStorage' \in SoundQueues(m, f)
  BY <1>1 DEF Stored
<1>5. mail' \in [Tabs -> Seq(SoundQueues(m, f))]
  <2>1. ASSUME NEW u \in Tabs PROVE Append(mail[u], list) \in Seq(SoundQueues(m, f)) /\ mail[u] \in Seq(SoundQueues(m, f))
    BY <1>1
  <2>2. CASE mail' = [u \in Tabs |-> IF u # t /\ list # inStorage THEN Append(mail[u], list) ELSE mail[u]]
    BY <2>1, <2>2
  <2>3. CASE mail' = mail
    BY <1>1, <2>3
  <2> QED
    BY <2>2, <2>3 DEF Stored
<1> QED
  BY <1>2, <1>3, <1>4, <1>5

\* A list that is shown is sound, and what is marked is in it.
LEMMA ShownStaysSound ==
  ASSUME QueueInv, NEW m \in Nat, made <= m, NEW f, filed \subseteq f,
         NEW t \in Tabs, NEW list \in SoundQueues(m, f), NEW marks \in SUBSET Nat, Shows(t, list, marks)
  PROVE  queues' \in [Tabs -> SoundQueues(m, f)] /\ MarksOK'
<1>1. queues \in [Tabs -> SoundQueues(m, f)]
  BY ListsStaySound
<1>2. queues' = [queues EXCEPT ![t] = list] /\ marked' = [marked EXCEPT ![t] = marks \cap Ids(list)]
  BY DEF Shows
<1>3. marked \in [Tabs -> SUBSET Nat] /\ \A u \in Tabs : marked[u] \subseteq Ids(queues[u])
  BY DEF QueueInv, MarksOK
<1>4. marked' \in [Tabs -> SUBSET Nat]
  BY <1>2, <1>3
<1>5. ASSUME NEW u \in Tabs PROVE marked'[u] \subseteq Ids(queues'[u])
  <2>1. CASE u = t
    <3>1. queues'[u] = list /\ marked'[u] = marks \cap Ids(list)
      BY <1>1, <1>2, <1>3, <2>1
    <3> QED
      BY <3>1
  <2>2. CASE u # t
    <3>1. queues'[u] = queues[u] /\ marked'[u] = marked[u]
      BY <1>1, <1>2, <1>3, <2>2
    <3> QED
      BY <1>3, <3>1
  <2> QED
    BY <2>1, <2>2
<1> QED
  BY <1>1, <1>2, <1>4, <1>5 DEF MarksOK

-----------------------------------------------------------------------------
(* The steps *)

LEMMA InitQueue == QueueInit => QueueInv
<1> SUFFICES ASSUME QueueInit PROVE QueueInv
  OBVIOUS
<1>1. CountsOK
  <2>1. made = 0 /\ writes = 0 /\ filed = {} /\ apart = FALSE
    BY DEF QueueInit
  <2>2. 0 \in Nat /\ 0 \in 0..MaxWrites /\ 0 <= 0 /\ {} \subseteq 1..0
    BY QueueAssumption
  <2>3. made \in Nat /\ writes \in 0..MaxWrites /\ made <= writes
    BY <2>1, <2>2
  <2>4. filed \subseteq 1..made /\ apart \in BOOLEAN
    BY <2>1
  <2> QED
    BY <2>3, <2>4 DEF CountsOK
<1>2. ListsSound
  <2>1. <<>> \in SoundQueues(made, filed)
    BY EmptyIsSound
  <2>2. <<>> \in Seq(SoundQueues(made, filed))
    OBVIOUS
  <2> QED
    BY <2>1, <2>2 DEF QueueInit, ListsSound
<1>3. MarksOK
  BY DEF QueueInit, MarksOK
<1>4. DetailsOK
  BY DEF QueueInit, DetailsOK
<1> QED
  BY <1>1, <1>2, <1>3, <1>4 DEF QueueInv

\* A list taken over from another tab, or from the storage, may be old but is sound.
LEMMA StorageEventKeeps == ASSUME QueueInv, NEW t \in Tabs, StorageEvent(t) PROVE QueueInv'
<1>1. made \in Nat /\ UNCHANGED <<inStorage, details, made, writes, filed, apart>>
  BY DEF StorageEvent, QueueInv, CountsOK
<1>2. mail \in [Tabs -> Seq(SoundQueues(made, filed))] /\ mail[t] # <<>>
  BY DEF StorageEvent, QueueInv, ListsSound
<1>3. Head(mail[t]) \in SoundQueues(made, filed) /\ Tail(mail[t]) \in Seq(SoundQueues(made, filed))
  BY <1>2
<1>4. marked[t] \in SUBSET Nat /\ Shows(t, Head(mail[t]), marked[t])
  BY DEF StorageEvent, Synced, QueueInv, MarksOK
<1>5. queues' \in [Tabs -> SoundQueues(made, filed)] /\ MarksOK'
  BY <1>1, <1>3, <1>4, ShownStaysSound
<1>6. mail' \in [Tabs -> Seq(SoundQueues(made, filed))]
  <2>1. mail' = [mail EXCEPT ![t] = Tail(mail[t])]
    BY DEF StorageEvent
  <2> QED
    BY <1>2, <1>3, <2>1
<1>7. ListsSound'
  BY <1>1, <1>5, <1>6 DEF QueueInv, ListsSound
<1> QED
  BY <1>1, <1>5, <1>7 DEF QueueInv, CountsOK, DetailsOK

LEMMA ReopenKeeps == ASSUME QueueInv, NEW t \in Tabs, Reopen(t) PROVE QueueInv'
<1>1. made \in Nat /\ UNCHANGED <<inStorage, made, writes, filed, apart>>
  BY DEF Reopen, QueueInv, CountsOK
<1>2. inStorage \in SoundQueues(made, filed) /\ Shows(t, inStorage, {})
  BY DEF Reopen, QueueInv, ListsSound
<1>3. queues' \in [Tabs -> SoundQueues(made, filed)] /\ MarksOK'
  BY <1>1, <1>2, ShownStaysSound
<1>4. mail' \in [Tabs -> Seq(SoundQueues(made, filed))]
  <2>1. mail' = [mail EXCEPT ![t] = <<>>] /\ <<>> \in Seq(SoundQueues(made, filed))
    BY DEF Reopen
  <2> QED
    BY <2>1 DEF QueueInv, ListsSound
<1>5. DetailsOK'
  BY DEF Reopen, QueueInv, DetailsOK
<1>6. ListsSound'
  BY <1>1, <1>3, <1>4 DEF QueueInv, ListsSound
<1> QED
  BY <1>1, <1>3, <1>5, <1>6 DEF QueueInv, CountsOK

LEMMA DetailKeeps ==
  ASSUME QueueInv, NEW t \in Tabs, NEW r \in Incidents, AskDetail(t, r) \/ DetailAnswered(t, r)
  PROVE  QueueInv'
<1>1. UNCHANGED <<queues, inStorage, mail, marked, made, writes, filed, apart>>
  BY DEF AskDetail, DetailAnswered
<1>2. DetailsOK'
  <2>1. DetailsOK
    BY DEF QueueInv
  <2>2. CASE AskDetail(t, r)
    BY <2>1, <2>2 DEF AskDetail, DetailsOK
  <2>3. CASE DetailAnswered(t, r)
    BY <2>1, <2>3 DEF DetailAnswered, DetailsOK
  <2> QED
    BY <2>2, <2>3
<1> QED
  BY <1>1, <1>2 DEF QueueInv, CountsOK, ListsSound, MarksOK

\* What is marked changes, and the lists do not.
LEMMA MarkingKeeps ==
  ASSUME QueueInv, NEW t \in Tabs, PutAway(t) \/ Unmark(t) \/ \E id \in 1..made : Mark(t, id)
  PROVE  QueueInv'
<1>1. UNCHANGED <<queues, inStorage, mail, made, writes, filed, apart>>
  BY DEF PutAway, Unmark, Mark
<1>2. marked \in [Tabs -> SUBSET Nat] /\ \A u \in Tabs : marked[u] \subseteq Ids(queues[u])
  BY DEF QueueInv, MarksOK
<1>3. PICK now \in SUBSET Nat : now \subseteq Ids(queues[t]) /\ (marked' = marked \/ marked' = [marked EXCEPT ![t] = now])
  <2>1. CASE PutAway(t) \/ Unmark(t)
    BY <1>2, <2>1 DEF PutAway, Unmark
  <2>2. CASE \E id \in 1..made : Mark(t, id)
    <3>1. PICK id \in 1..made : Mark(t, id)
      BY <2>2
    <3>2. marked' = [marked EXCEPT ![t] = IF id \in marked[t] THEN marked[t] \ {id} ELSE marked[t] \cup {id}] /\ id \in Ids(queues[t])
      BY <3>1 DEF Mark
    <3>3. id \in Nat
      BY DEF QueueInv, CountsOK
    <3> QED
      BY <1>2, <3>2, <3>3
  <2> QED
    BY <2>1, <2>2
<1>4. MarksOK'
  <2>1. marked' \in [Tabs -> SUBSET Nat]
    BY <1>2, <1>3
  <2>2. \A u \in Tabs : marked'[u] \subseteq Ids(queues[u])
    BY <1>2, <1>3
  <2> QED
    BY <1>1, <2>1, <2>2 DEF MarksOK
<1>5. DetailsOK'
  BY DEF QueueInv, DetailsOK, PutAway, Unmark, Mark
<1> QED
  BY <1>1, <1>4, <1>5 DEF QueueInv, CountsOK, ListsSound

\* The package made is the newest, and a draft.
LEMMA ExportKeeps == ASSUME QueueInv, NEW t \in Tabs, ExportPackage(t) PROVE QueueInv'
<1> DEFINE entry == [id |-> made + 1, run |-> details[t].shown, status |-> "drafted"]
           longer == <<entry>> \o queues[t]
           list == IF Len(longer) > MaxQueue THEN SubSeq(longer, 1, MaxQueue) ELSE longer
<1>1. made \in Nat /\ made + 1 \in Nat /\ writes \in 0..MaxWrites /\ made <= writes /\ filed \subseteq 1..made
  BY DEF QueueInv, CountsOK
<1>2. writes < MaxWrites /\ details[t].shown # NoIncident /\ made' = made + 1 /\ UNCHANGED <<details, filed>>
  BY DEF ExportPackage, Stored
<1>3. entry \in Entries
  <2>1. details[t].shown \in Incidents
    BY <1>2 DEF QueueInv, DetailsOK
  <2>2. made + 1 \in 1..MaxWrites
    BY <1>1, <1>2, QueueAssumption
  <2> QED
    BY <2>1, <2>2 DEF Entries, Statuses
<1>4. queues[t] \in SoundQueues(made + 1, filed)
  BY <1>1, ListsStaySound
<1>5. list \in SoundQueues(made + 1, filed)
  <2>1. entry.id <= made + 1 /\ entry.status = "drafted"
    BY <1>1
  <2> HIDE DEF entry
  <2> QED
    BY <1>1, <1>3, <1>4, <2>1, LongerIsSound
<1>6. Stored(t, list) /\ Shows(t, list, marked[t]) /\ marked[t] \in SUBSET Nat
  BY DEF ExportPackage, QueueInv, MarksOK
<1> HIDE DEF list, longer, entry
<1>7. writes' = writes + 1 /\ writes' \in 1..MaxWrites /\ apart' \in BOOLEAN /\ inStorage' \in SoundQueues(made + 1, filed)
      /\ mail' \in [Tabs -> Seq(SoundQueues(made + 1, filed))]
  <2> DEFINE m == made + 1
  <2>1. m \in Nat /\ made <= m /\ list \in SoundQueues(m, filed) /\ Stored(t, list)
    BY <1>1, <1>5, <1>6
  <2> HIDE DEF m
  <2>2. /\ writes' = writes + 1 /\ writes' \in 1..MaxWrites /\ apart' \in BOOLEAN
        /\ inStorage' \in SoundQueues(m, filed) /\ mail' \in [Tabs -> Seq(SoundQueues(m, filed))]
    BY <2>1, StoredStaysSound
  <2> QED
    BY <2>2 DEF m
<1>8. queues' \in [Tabs -> SoundQueues(made + 1, filed)] /\ MarksOK'
  BY <1>1, <1>5, <1>6, ShownStaysSound
<1>9. CountsOK'
  BY <1>1, <1>2, <1>7 DEF CountsOK
<1>10. ListsSound'
  BY <1>2, <1>7, <1>8 DEF ListsSound
<1> QED
  BY <1>2, <1>8, <1>9, <1>10 DEF QueueInv, DetailsOK

\* Packages that are moved on: what becomes closed has been filed, whichever tab did it.
LEMMA MovedKeeps ==
  ASSUME QueueInv, NEW t \in Tabs, NEW status \in Statuses, NEW ids, ids \subseteq Ids(queues[t]),
         \A id \in ids : CanTransition(EntryOf(queues[t], id).status, status), Moved(t, ids, status)
  PROVE  QueueInv'
<1> DEFINE list == WithStatus(queues[t], ids, status)
           f == IF status = "filed" THEN filed \cup ids ELSE filed
<1>1. made \in Nat /\ writes \in 0..MaxWrites /\ made <= writes /\ filed \subseteq 1..made /\ queues[t] \in SoundQueues(made, filed)
  BY DEF QueueInv, CountsOK, ListsSound
<1>2. filed' = f /\ UNCHANGED <<details, made>> /\ Stored(t, list) /\ Shows(t, list, marked[t])
  BY DEF Moved
<1>3. filed \subseteq f
  OBVIOUS
<1>4. f \subseteq 1..made
  BY <1>1, MadeIsMade
<1>5. status # "drafted" => ids \subseteq f
  <2>1. CASE status = "closed"
    BY <1>1, <1>3, <2>1, ClosableWasFiled
  <2>2. CASE status # "closed"
    BY <2>2 DEF Statuses
  <2> QED
    BY <2>1, <2>2
<1>6. marked[t] \in SUBSET Nat /\ queues[t] \in SoundQueues(made, f)
  BY <1>1, <1>3, ListsStaySound DEF QueueInv, MarksOK
<1> HIDE DEF f
<1>7. list \in SoundQueues(made, f)
  BY <1>1, <1>5, <1>6, MovedIsSound
<1> HIDE DEF list
<1>8. writes' = writes + 1 /\ writes' \in 1..MaxWrites /\ apart' \in BOOLEAN /\ inStorage' \in SoundQueues(made, f)
      /\ mail' \in [Tabs -> Seq(SoundQueues(made, f))]
  BY <1>1, <1>2, <1>3, <1>7, StoredStaysSound
<1>9. queues' \in [Tabs -> SoundQueues(made, f)] /\ MarksOK'
  BY <1>1, <1>2, <1>3, <1>6, <1>7, ShownStaysSound
<1>10. CountsOK'
  BY <1>1, <1>2, <1>4, <1>8 DEF CountsOK
<1>11. ListsSound'
  BY <1>2, <1>8, <1>9 DEF ListsSound
<1> QED
  BY <1>2, <1>9, <1>10, <1>11 DEF QueueInv, DetailsOK

LEMMA ClearKeeps == ASSUME QueueInv, NEW t \in Tabs, ClearQueue(t) PROVE QueueInv'
<1>1. made \in Nat /\ made <= made /\ writes \in 0..MaxWrites /\ made <= writes /\ filed \subseteq 1..made
  BY DEF QueueInv, CountsOK
<1>2. Stored(t, <<>>) /\ Shows(t, <<>>, {}) /\ UNCHANGED <<details, made, filed>> /\ <<>> \in SoundQueues(made, filed)
  BY EmptyIsSound DEF ClearQueue
<1>3. writes' = writes + 1 /\ writes' \in 1..MaxWrites /\ apart' \in BOOLEAN /\ inStorage' \in SoundQueues(made, filed)
      /\ mail' \in [Tabs -> Seq(SoundQueues(made, filed))]
  BY <1>1, <1>2, StoredStaysSound
<1>4. queues' \in [Tabs -> SoundQueues(made, filed)] /\ MarksOK'
  BY <1>1, <1>2, ShownStaysSound
<1>5. CountsOK'
  BY <1>1, <1>2, <1>3 DEF CountsOK
<1>6. ListsSound'
  BY <1>2, <1>3, <1>4 DEF ListsSound
<1> QED
  BY <1>2, <1>4, <1>5, <1>6 DEF QueueInv, DetailsOK

LEMMA NextQueue == QueueInv /\ [QueueNext]_queueVars => QueueInv'
<1> SUFFICES ASSUME QueueInv, [QueueNext]_queueVars PROVE QueueInv'
  OBVIOUS
<1>1. CASE UNCHANGED queueVars
  BY <1>1 DEF queueVars, QueueInv, CountsOK, ListsSound, MarksOK, DetailsOK
<1>2. ASSUME NEW t \in Tabs, StorageEvent(t) PROVE QueueInv'
  BY <1>2, StorageEventKeeps
<1>3. ASSUME NEW t \in Tabs, Reopen(t) PROVE QueueInv'
  BY <1>3, ReopenKeeps
<1>4. ASSUME NEW t \in Tabs, PutAway(t) \/ Unmark(t) \/ \E id \in 1..made : Mark(t, id) PROVE QueueInv'
  BY <1>4, MarkingKeeps
<1>5. ASSUME NEW t \in Tabs, ExportPackage(t) PROVE QueueInv'
  BY <1>5, ExportKeeps
<1>6. ASSUME NEW t \in Tabs, ClearQueue(t) PROVE QueueInv'
  BY <1>6, ClearKeeps
<1>7. ASSUME NEW t \in Tabs, NEW r \in Incidents, AskDetail(t, r) \/ DetailAnswered(t, r) PROVE QueueInv'
  BY <1>7, DetailKeeps
<1>8. ASSUME NEW t \in Tabs, NEW id \in 1..made, NEW status \in Statuses, Transition(t, id, status) PROVE QueueInv'
  BY <1>8, MovedKeeps DEF Transition
<1>9. ASSUME NEW t \in Tabs, NEW status \in {"filed", "closed"}, BulkTransition(t, status) PROVE QueueInv'
  <2>1. status \in Statuses /\ Moved(t, Eligible(t, status), status)
    BY <1>9 DEF BulkTransition, Statuses
  <2>2. Eligible(t, status) \subseteq Ids(queues[t])
    BY DEF Eligible
  <2>3. \A id \in Eligible(t, status) : CanTransition(EntryOf(queues[t], id).status, status)
    BY DEF Eligible
  <2> QED
    BY <2>1, <2>2, <2>3, MovedKeeps
<1> QED
  BY <1>1, <1>2, <1>3, <1>4, <1>5, <1>6, <1>7, <1>8, <1>9 DEF QueueNext

LEMMA QueueInvariant == QueueSpec => []QueueInv
<1> QED
  BY InitQueue, NextQueue, PTL DEF QueueSpec

-----------------------------------------------------------------------------
(* The theorems *)

\* Every queue is well formed, and only packages that are still in it are marked.
THEOREM QueueIsWellFormed == QueueSpec => []QueueTypeOK
<1>1. QueueInv => QueueTypeOK
  <2> SUFFICES ASSUME QueueInv PROVE QueueTypeOK
    OBVIOUS
  <2>1. made \in 0..MaxWrites /\ writes \in 0..MaxWrites /\ filed \subseteq 1..made /\ apart \in BOOLEAN /\ made \in Nat
    BY QueueAssumption DEF QueueInv, CountsOK
  <2>2. SoundQueues(made, filed) \subseteq Seq(Entries) /\ \A list \in SoundQueues(made, filed) : Len(list) <= MaxQueue
    BY DEF SoundQueues
  <2>3. \A s \in Seq(SoundQueues(made, filed)) : s \in Seq(Seq(Entries))
    BY <2>2
  <2>4. /\ queues \in [Tabs -> Seq(Entries)] /\ \A t \in Tabs : Len(queues[t]) <= MaxQueue
        /\ inStorage \in Seq(Entries) /\ Len(inStorage) <= MaxQueue
        /\ mail \in [Tabs -> Seq(Seq(Entries))]
    BY <2>2, <2>3 DEF QueueInv, ListsSound
  <2>5. ASSUME NEW t \in Tabs PROVE marked[t] \subseteq Ids(queues[t]) /\ marked[t] \subseteq 1..MaxWrites
    <3>1. marked[t] \subseteq Ids(queues[t]) /\ queues[t] \in SoundQueues(made, filed)
      BY DEF QueueInv, MarksOK, ListsSound
    <3>2. \A id \in Ids(queues[t]) : id \in 1..made
      BY <2>1, <3>1, MadeIsMade
    <3> QED
      BY <2>1, <3>1, <3>2, QueueAssumption
  <2>6. marked \in [Tabs -> SUBSET (1..MaxWrites)] /\ \A t \in Tabs : marked[t] \subseteq Ids(queues[t])
    BY <2>5 DEF QueueInv, MarksOK
  <2> QED
    BY <2>1, <2>4, <2>6 DEF QueueTypeOK, QueueInv, DetailsOK
<1> QED
  BY QueueInvariant, <1>1, PTL

\* A package counted as closed has been handed off: in the queue of every tab, and in the
\* stored one, whatever the tabs have taken over from one another and in whatever order.
THEOREM NothingClosesUnfiled == QueueSpec => []ClosedWasFiled
<1>1. QueueInv => ClosedWasFiled
  <2> SUFFICES ASSUME QueueInv, NEW list \in {queues[t] : t \in Tabs} \cup {inStorage}, NEW i \in DOMAIN list, list[i].status = "closed"
               PROVE  list[i].id \in filed
    BY DEF ClosedWasFiled
  <2>1. list \in SoundQueues(made, filed)
    BY DEF QueueInv, ListsSound
  <2> QED
    BY <2>1 DEF SoundQueues, SoundEntry
<1> QED
  BY QueueInvariant, <1>1, PTL

\* What a tab will keep once it has been told of everything.
Newest(t) == IF mail[t] = <<>> THEN queues[t] ELSE mail[t][Len(mail[t])]

\* As long as no write was refused and none crossed another.
TabsCatchUp == ~apart => \A t \in Tabs : Newest(t) = inStorage

LEMMA InitCatchUp == QueueInit => TabsCatchUp
BY DEF QueueInit, TabsCatchUp, Newest

\* A write is told to all other tabs, and its own tab shows it.
LEMMA WriteCatchesUp ==
  ASSUME QueueInv, TabsCatchUp, NEW t \in Tabs, NEW list, NEW marks, Stored(t, list), Shows(t, list, marks)
  PROVE  TabsCatchUp'
<1> SUFFICES ASSUME ~apart', NEW u \in Tabs PROVE Newest(u)' = inStorage'
  BY DEF TabsCatchUp
<1>1. /\ inStorage' = list /\ apart = FALSE /\ mail[t] = <<>>
      /\ mail' = [v \in Tabs |-> IF v # t /\ list # inStorage THEN Append(mail[v], list) ELSE mail[v]]
  BY DEF Stored, QueueInv, CountsOK
<1>2. queues' = [queues EXCEPT ![t] = list] /\ queues \in [Tabs -> SoundQueues(made, filed)] /\ Newest(u) = inStorage
  BY <1>1 DEF Shows, TabsCatchUp, QueueInv, ListsSound
<1>3. CASE u = t
  <2>1. mail'[u] = <<>> /\ queues'[u] = list
    BY <1>1, <1>2, <1>3
  <2> QED
    BY <1>1, <2>1 DEF Newest
<1>4. CASE u # t /\ list # inStorage
  <2>1. mail'[u] = Append(mail[u], list) /\ mail[u] \in Seq(SoundQueues(made, filed))
    BY <1>1, <1>4 DEF QueueInv, ListsSound
  <2>2. mail'[u] # <<>> /\ mail'[u][Len(mail'[u])] = list
    BY <2>1
  <2> QED
    BY <1>1, <2>2 DEF Newest
<1>5. CASE u # t /\ list = inStorage
  <2>1. mail'[u] = mail[u] /\ queues'[u] = queues[u]
    BY <1>1, <1>2, <1>5
  <2> QED
    BY <1>1, <1>2, <1>5, <2>1 DEF Newest
<1> QED
  BY <1>3, <1>4, <1>5

\* What a tab is told last stays the last, and is what it shows once it has been told.
LEMMA LastOfTail ==
  ASSUME NEW S, NEW s \in Seq(S), s # <<>>
  PROVE  IF Tail(s) = <<>> THEN s[Len(s)] = Head(s) ELSE s[Len(s)] = Tail(s)[Len(Tail(s))]
<1>1. Len(s) \in Nat \ {0} /\ Tail(s) \in Seq(S) /\ Len(Tail(s)) = Len(s) - 1 /\ Head(s) = s[1]
  OBVIOUS
<1>2. CASE Tail(s) = <<>>
  <2> DEFINE rest == Tail(s)
  <2>1. rest = <<>> /\ Len(rest) = Len(s) - 1
    BY <1>1, <1>2
  <2> HIDE DEF rest
  <2>2. Len(rest) = 0
    BY <2>1
  <2> DEFINE n == Len(s)
  <2>3. n \in Nat /\ n - 1 = 0
    BY <1>1, <2>1, <2>2
  <2> HIDE DEF n
  <2>4. n = 1
    BY <2>3
  <2> QED
    BY <1>1, <1>2, <2>4 DEF n
<1>3. CASE Tail(s) # <<>>
  <2>1. Len(s) # 1 /\ \A i \in 1..Len(s) - 1 : Tail(s)[i] = s[i + 1]
    BY <1>1, <1>3
  <2> QED
    BY <1>1, <1>3, <2>1
<1> QED
  BY <1>2, <1>3

LEMMA ToldCatchesUp == ASSUME QueueInv, TabsCatchUp, NEW t \in Tabs, StorageEvent(t) PROVE TabsCatchUp'
<1> SUFFICES ASSUME ~apart', NEW u \in Tabs PROVE Newest(u)' = inStorage'
  BY DEF TabsCatchUp
<1> DEFINE told == mail[t]
<1>1. /\ told \in Seq(SoundQueues(made, filed)) /\ told # <<>> /\ mail' = [mail EXCEPT ![t] = Tail(told)]
      /\ queues' = [queues EXCEPT ![t] = Head(told)] /\ UNCHANGED <<inStorage, apart>>
  BY DEF StorageEvent, Synced, Shows, QueueInv, ListsSound
<1>2. Newest(u) = inStorage /\ queues \in [Tabs -> SoundQueues(made, filed)] /\ mail \in [Tabs -> Seq(SoundQueues(made, filed))]
  BY <1>1 DEF TabsCatchUp, QueueInv, ListsSound
<1> HIDE DEF told
<1>3. CASE u = t
  <2>1. mail'[u] = Tail(told) /\ queues'[u] = Head(told) /\ mail[u] = told
    BY <1>1, <1>2, <1>3 DEF told
  <2>2. told[Len(told)] = inStorage
    BY <1>1, <1>2, <2>1 DEF Newest
  <2> QED
    BY <1>1, <2>1, <2>2, LastOfTail DEF Newest
<1>4. CASE u # t
  <2>1. mail'[u] = mail[u] /\ queues'[u] = queues[u]
    BY <1>1, <1>2, <1>4
  <2> QED
    BY <1>1, <1>2, <2>1 DEF Newest
<1> QED
  BY <1>3, <1>4

LEMMA ReopenCatchesUp == ASSUME QueueInv, TabsCatchUp, NEW t \in Tabs, Reopen(t) PROVE TabsCatchUp'
<1> SUFFICES ASSUME ~apart', NEW u \in Tabs PROVE Newest(u)' = inStorage'
  BY DEF TabsCatchUp
<1>1. /\ mail' = [mail EXCEPT ![t] = <<>>] /\ queues' = [queues EXCEPT ![t] = inStorage]
      /\ UNCHANGED <<inStorage, apart>>
  BY DEF Reopen, Shows
<1>2. Newest(u) = inStorage /\ queues \in [Tabs -> SoundQueues(made, filed)] /\ mail \in [Tabs -> Seq(SoundQueues(made, filed))]
  BY <1>1 DEF TabsCatchUp, QueueInv, ListsSound
<1>3. CASE u = t
  BY <1>1, <1>2, <1>3 DEF Newest
<1>4. CASE u # t
  <2>1. mail'[u] = mail[u] /\ queues'[u] = queues[u]
    BY <1>1, <1>2, <1>4
  <2> QED
    BY <1>1, <1>2, <2>1 DEF Newest
<1> QED
  BY <1>3, <1>4

LEMMA NextCatchesUp == QueueInv /\ TabsCatchUp /\ [QueueNext]_queueVars => TabsCatchUp'
<1> SUFFICES ASSUME QueueInv, TabsCatchUp, [QueueNext]_queueVars PROVE TabsCatchUp'
  OBVIOUS
<1>1. ASSUME UNCHANGED <<queues, inStorage, mail, apart>> PROVE TabsCatchUp'
  BY <1>1 DEF TabsCatchUp, Newest
<1>2. CASE UNCHANGED queueVars
  BY <1>1, <1>2 DEF queueVars
<1>3. ASSUME NEW t \in Tabs,
             PutAway(t) \/ Unmark(t) \/ (\E r \in Incidents : AskDetail(t, r) \/ DetailAnswered(t, r)) \/ (\E id \in 1..made : Mark(t, id))
      PROVE  TabsCatchUp'
  BY <1>1, <1>3 DEF PutAway, Unmark, AskDetail, DetailAnswered, Mark
<1>4. ASSUME NEW t \in Tabs, StorageEvent(t) PROVE TabsCatchUp'
  BY <1>4, ToldCatchesUp
<1>5. ASSUME NEW t \in Tabs, Reopen(t) PROVE TabsCatchUp'
  BY <1>5, ReopenCatchesUp
<1>6. ASSUME NEW t \in Tabs, ExportPackage(t) PROVE TabsCatchUp'
  <2>1. PICK list : Stored(t, list) /\ Shows(t, list, marked[t])
    BY <1>6 DEF ExportPackage
  <2> QED
    BY <2>1, WriteCatchesUp
<1>7. ASSUME NEW t \in Tabs, ClearQueue(t) PROVE TabsCatchUp'
  BY <1>7, WriteCatchesUp DEF ClearQueue
<1>8. ASSUME NEW t \in Tabs, NEW ids, NEW status, Moved(t, ids, status) PROVE TabsCatchUp'
  BY <1>8, WriteCatchesUp DEF Moved
<1>9. ASSUME NEW t \in Tabs, NEW id \in 1..made, NEW status \in Statuses, Transition(t, id, status) PROVE TabsCatchUp'
  BY <1>8, <1>9 DEF Transition
<1>10. ASSUME NEW t \in Tabs, NEW status \in {"filed", "closed"}, BulkTransition(t, status) PROVE TabsCatchUp'
  BY <1>8, <1>10 DEF BulkTransition
<1> QED
  BY <1>2, <1>3, <1>4, <1>5, <1>6, <1>7, <1>9, <1>10 DEF QueueNext

\* Tabs that have been told of everything agree, for any number of tabs and of writes.
THEOREM QuietTabsKeepOneQueue == QueueSpec => []QuietTabsAgree
<1>1. TabsCatchUp => QuietTabsAgree
  BY DEF TabsCatchUp, Newest, QuietTabsAgree
<1> QED
  BY QueueInvariant, InitCatchUp, NextCatchesUp, <1>1, PTL DEF QueueSpec

-----------------------------------------------------------------------------
(***************************************************************************)
(* Proofs about RuntimeClient, for any number of calls under way.          *)
(*                                                                         *)
(* A call answers truthfully because of its row in the table of methods:   *)
(* what the table may not say of a method that changes something is        *)
(* WritesAreCareful.                                                       *)
(***************************************************************************)

CarefulWrite(m) ==
  /\ m.writes /\ m.odd = "value" /\ m.absentOn = NotThere /\ m.absent \in {"refused", "throws"}
  /\ m.scopeless \in {"sent", "refused", "throws"} /\ m.unset \in {"sent", "refused", "throws"}
  /\ m.says \in {"runtime", "always"}

LEMMA WritesAreCareful == \A m \in Methods : m.writes => CarefulWrite(m)
<1>1. /\ ~Health.writes /\ ~Providers.writes /\ ~PipelineStatus.writes /\ ~RuntimeRuns.writes /\ ~RuntimeRun.writes
      /\ ~ListTasks.writes /\ ~ListSessions.writes /\ ~SessionTimeline.writes /\ ~SessionEventStream.writes
      /\ ~IntegrationSettings.writes /\ ~ConnectorSettings.writes /\ ~AuditEvents.writes /\ ~ApprovalQueue.writes
  BY DEF Health, Providers, PipelineStatus, RuntimeRuns, RuntimeRun, ListTasks, ListSessions, SessionTimeline,
         SessionEventStream, IntegrationSettings, ConnectorSettings, AuditEvents, ApprovalQueue,
         Plain, Listing, Unrecorded
<1>2. /\ ~WorkerCapabilities.writes /\ ~PolicyPacks.writes /\ ~RuntimeIdentity.writes /\ ~ExportProfiles.writes
      /\ ~OrgAdminProfiles.writes /\ ~SecureRefs.writes /\ ~Activation.writes
  BY DEF WorkerCapabilities, PolicyPacks, RuntimeIdentity, ExportProfiles, OrgAdminProfiles, SecureRefs, Activation,
         Plain, Listing, Catalog, Unrecorded, Launcher
<1>3. \A m \in Reads : ~m.writes
  BY <1>1, <1>2 DEF Reads
<1>4. /\ CarefulWrite(CreateRun) /\ CarefulWrite(CreateTask) /\ CarefulWrite(SessionCreate) /\ CarefulWrite(AttachWorker)
      /\ CarefulWrite(WorkerEvent) /\ CarefulWrite(SaveSecureRef) /\ CarefulWrite(DeleteSecureRef)
      /\ CarefulWrite(ExportSecureRefs) /\ CarefulWrite(ApplyActivation)
  BY DEF CarefulWrite, CreateRun, CreateTask, SessionCreate, AttachWorker, WorkerEvent, SaveSecureRef, DeleteSecureRef,
         ExportSecureRefs, ApplyActivation, Plain, Listing, Unrecorded, Launcher
<1>5. /\ CarefulWrite(CheckpointDecision) /\ CarefulWrite(ProposalDecision) /\ CarefulWrite(CloseSession)
      /\ CarefulWrite(SaveSettings) /\ CarefulWrite(InvokeAgent) /\ CarefulWrite(TerminalSession)
      /\ CarefulWrite(ApprovalDecision)
  BY DEF CarefulWrite, CheckpointDecision, ProposalDecision, CloseSession, SaveSettings, InvokeAgent, TerminalSession,
         ApprovalDecision, Command, Plain, Unrecorded
<1> QED
  BY <1>3, <1>4, <1>5 DEF Methods, Writes

\* What a reply may be, and what the service may have done when it gives it.
TrueReply(m, reply, applied, performed) ==
  /\ reply \in Replies /\ applied \in BOOLEAN /\ performed \in BOOLEAN
  /\ performed => m.writes /\ reply \in Fine \cup {"error", "503", "network"}
  /\ (reply \in Fine /\ m.writes /\ ~performed) => m.says = "runtime"
  /\ applied <=> (reply \in Fine /\ performed)

TrueAnswer(m, answer, performed) ==
  m.writes => /\ answer = "value" => performed
              /\ answer \in {"refused", "empty", "derived"} => ~performed

\* What a method gives without sending, or when its endpoint is not there, is an answer.
LEMMA UnsentAnswers ==
  \A m \in Methods : /\ m.scopeless \in Answers \cup {"sent"} /\ m.unset \in Answers \cup {"sent"}
                     /\ m.absent \in Answers /\ m.odd \in Answers
<1> DEFINE fits(m) == /\ m.scopeless \in Answers \cup {"sent"} /\ m.unset \in Answers \cup {"sent"}
                      /\ m.absent \in Answers /\ m.odd \in Answers
<1>1. /\ fits(Health) /\ fits(Providers) /\ fits(PipelineStatus) /\ fits(RuntimeRuns) /\ fits(RuntimeRun)
      /\ fits(ListTasks) /\ fits(ListSessions) /\ fits(SessionTimeline) /\ fits(SessionEventStream)
      /\ fits(IntegrationSettings) /\ fits(ConnectorSettings) /\ fits(AuditEvents) /\ fits(ApprovalQueue)
  BY DEF Health, Providers, PipelineStatus, RuntimeRuns, RuntimeRun, ListTasks, ListSessions, SessionTimeline,
         SessionEventStream, IntegrationSettings, ConnectorSettings, AuditEvents, ApprovalQueue,
         Plain, Listing, Unrecorded, Answers
<1>2. /\ fits(WorkerCapabilities) /\ fits(PolicyPacks) /\ fits(RuntimeIdentity) /\ fits(ExportProfiles)
      /\ fits(OrgAdminProfiles) /\ fits(SecureRefs) /\ fits(Activation)
  BY DEF WorkerCapabilities, PolicyPacks, RuntimeIdentity, ExportProfiles, OrgAdminProfiles, SecureRefs, Activation,
         Plain, Listing, Catalog, Unrecorded, Launcher, Answers
<1>3. \A m \in Methods : CarefulWrite(m) => fits(m)
  BY DEF CarefulWrite, Answers
<1>4. \A m \in Writes : m.writes
  BY DEF Writes, CreateRun, CreateTask, SessionCreate, AttachWorker, WorkerEvent, CheckpointDecision, ProposalDecision,
         CloseSession, SaveSettings, InvokeAgent, SaveSecureRef, DeleteSecureRef, ExportSecureRefs, ApplyActivation,
         TerminalSession, ApprovalDecision, Plain, Listing, Unrecorded, Launcher, Command
<1>5. \A m \in Reads : fits(m)
  BY <1>1, <1>2 DEF Reads
<1>6. \A m \in Writes : fits(m)
  BY <1>3, <1>4, WritesAreCareful DEF Methods
<1> QED
  BY <1>5, <1>6 DEF Methods

LEMMA AnswersOfReads ==
  ASSUME NEW m \in Methods, NEW reply, NEW applied
  PROVE  AnswerTo(m, reply, applied) \in Answers
BY UnsentAnswers DEF AnswerTo, Answers

LEMMA AnswersOfReplies ==
  ASSUME NEW m \in Methods, NEW reply, NEW applied, NEW performed, TrueReply(m, reply, applied, performed)
  PROVE  TrueAnswer(m, AnswerTo(m, reply, applied), performed)
BY WritesAreCareful DEF CarefulWrite, TrueReply, TrueAnswer, AnswerTo, Fine, NotThere, Replies

CallRecords ==
  [method : Methods, phase : {"none", "sent", "replied", "settled"}, reply : Replies \cup {"none"},
   applied : BOOLEAN, performed : BOOLEAN, answer : Answers \cup {"none"}]

SoundCall(x) ==
  /\ x \in CallRecords
  /\ x.phase = "replied" => TrueReply(x.method, x.reply, x.applied, x.performed)
  /\ x.phase = "settled" => TrueAnswer(x.method, x.answer, x.performed)

\* The inductive invariant.
CallsSound == calls \in [Calls -> CallRecords] /\ \A c \in Calls : SoundCall(calls[c])

LEMMA OneCallKeeps ==
  ASSUME CallsSound, NEW c \in Calls, NEW x, SoundCall(x), calls' = [calls EXCEPT ![c] = x]
  PROVE  CallsSound'
BY DEF CallsSound, SoundCall

LEMMA NoCallIsSound == NoCall \in CallRecords /\ NoCall.phase = "none"
<1>1. Health \in Methods
  BY DEF Methods, Reads
<1> QED
  BY <1>1 DEF NoCall, CallRecords

LEMMA InitCalls == ClientInit => CallsSound
BY NoCallIsSound DEF ClientInit, CallsSound, SoundCall

\* Without asking the service nothing is done but on sample data, which says so.
LEMMA LocalAnswerIsTrue ==
  ASSUME CallsSound, NEW c \in Calls, NEW m \in Methods, AnsweredLocally(c, m)
  PROVE  CallsSound'
<1> DEFINE told(answer, performed) == calls' = [calls EXCEPT ![c] = Settled(m, answer, performed)]
<1>1. ASSUME NEW answer \in Answers, NEW performed \in BOOLEAN, TrueAnswer(m, answer, performed), told(answer, performed)
      PROVE  CallsSound'
  <2> DEFINE x == Settled(m, answer, performed)
  <2>1. x \in CallRecords /\ x.method = m /\ x.phase = "settled" /\ x.performed = performed /\ x.answer = answer
    BY <1>1, NoCallIsSound DEF Settled, CallRecords
  <2> HIDE DEF x
  <2>2. SoundCall(x)
    BY <1>1, <2>1 DEF SoundCall
  <2> QED
    BY <1>1, <2>2, OneCallKeeps DEF x
<1>2. CASE \E answer \in SampleAnswers(m) : told(answer, m.writes /\ answer = "value")
  <2>1. PICK answer \in SampleAnswers(m) : told(answer, m.writes /\ answer = "value")
    BY <1>2
  <2>2. answer \in {"value", "throws", "refused"}
    BY DEF SampleAnswers
  <2>3. TrueAnswer(m, answer, m.writes /\ answer = "value")
    BY <2>2 DEF TrueAnswer
  <2>4. (m.writes /\ answer = "value") \in BOOLEAN /\ answer \in Answers
    BY <2>2 DEF Answers
  <2> QED
    BY <1>1, <2>1, <2>3, <2>4
<1>3. CASE m.scopeless # "sent" /\ told(m.scopeless, FALSE)
  <2>1. m.scopeless \in Answers /\ TrueAnswer(m, m.scopeless, FALSE)
    BY <1>3, WritesAreCareful, UnsentAnswers DEF CarefulWrite, TrueAnswer
  <2> QED
    BY <1>1, <1>3, <2>1
<1>4. CASE m.unset # "sent" /\ told(m.unset, FALSE)
  <2>1. m.unset \in Answers /\ TrueAnswer(m, m.unset, FALSE)
    BY <1>4, WritesAreCareful, UnsentAnswers DEF CarefulWrite, TrueAnswer
  <2> QED
    BY <1>1, <1>4, <2>1
<1> QED
  BY <1>2, <1>3, <1>4 DEF AnsweredLocally

LEMMA ServiceRepliesTruly == ASSUME CallsSound, NEW c \in Calls, Served(c) PROVE CallsSound'
<1>1. PICK reply \in Replies, performed \in BOOLEAN :
        /\ performed => (calls[c].method.writes /\ reply \in Fine \cup {"error", "503", "network"})
        /\ (reply \in Fine /\ calls[c].method.writes /\ ~performed) => calls[c].method.says = "runtime"
        /\ calls' = [calls EXCEPT ![c].phase = "replied", ![c].reply = reply,
                                  ![c].applied = (reply \in Fine /\ performed), ![c].performed = performed]
  BY DEF Served
<1> DEFINE x == [calls[c] EXCEPT !.phase = "replied", !.reply = reply, !.applied = (reply \in Fine /\ performed), !.performed = performed]
<1>2. calls[c] \in CallRecords /\ calls' = [calls EXCEPT ![c] = x]
  BY <1>1 DEF CallsSound, SoundCall
<1>3. /\ x \in CallRecords /\ x.method = calls[c].method /\ x.phase = "replied" /\ x.reply = reply
      /\ x.applied = (reply \in Fine /\ performed) /\ x.performed = performed
  BY <1>2 DEF CallRecords
<1> HIDE DEF x
<1>4. TrueReply(x.method, x.reply, x.applied, x.performed)
  BY <1>1, <1>3 DEF TrueReply
<1>5. SoundCall(x)
  BY <1>3, <1>4 DEF SoundCall
<1> QED
  BY <1>2, <1>5, OneCallKeeps

LEMMA PageSettlesTruly == ASSUME CallsSound, NEW c \in Calls, Settle(c) PROVE CallsSound'
<1> DEFINE answer == AnswerTo(calls[c].method, calls[c].reply, calls[c].applied)
           x == [calls[c] EXCEPT !.phase = "settled", !.answer = answer]
<1>1. /\ calls[c] \in CallRecords /\ TrueReply(calls[c].method, calls[c].reply, calls[c].applied, calls[c].performed)
      /\ calls' = [calls EXCEPT ![c] = x]
  BY DEF Settle, CallsSound, SoundCall
<1>2. answer \in Answers /\ TrueAnswer(calls[c].method, answer, calls[c].performed)
  BY <1>1, AnswersOfReplies, AnswersOfReads DEF CallRecords
<1> HIDE DEF answer
<1>3. x \in CallRecords /\ x.method = calls[c].method /\ x.phase = "settled" /\ x.answer = answer /\ x.performed = calls[c].performed
  BY <1>1, <1>2 DEF CallRecords
<1> HIDE DEF x
<1>4. SoundCall(x)
  BY <1>2, <1>3 DEF SoundCall
<1> QED
  BY <1>1, <1>4, OneCallKeeps

LEMMA NextCalls == CallsSound /\ [ClientNext]_clientVars => CallsSound'
<1> SUFFICES ASSUME CallsSound, [ClientNext]_clientVars PROVE CallsSound'
  OBVIOUS
<1>1. CASE UNCHANGED clientVars
  BY <1>1 DEF clientVars, CallsSound
<1>2. ASSUME NEW c \in Calls, NEW m \in Methods, AnsweredLocally(c, m) PROVE CallsSound'
  BY <1>2, LocalAnswerIsTrue
<1>3. ASSUME NEW c \in Calls, NEW m \in Methods, Sent(c, m) PROVE CallsSound'
  <2> DEFINE x == [NoCall EXCEPT !.method = m, !.phase = "sent"]
  <2>1. x \in CallRecords /\ x.phase = "sent"
    BY NoCallIsSound DEF CallRecords
  <2>2. SoundCall(x)
    BY <2>1 DEF SoundCall
  <2>3. calls' = [calls EXCEPT ![c] = x]
    BY <1>3 DEF Sent
  <2> HIDE DEF x
  <2> QED
    BY <2>2, <2>3, OneCallKeeps
<1>4. ASSUME NEW c \in Calls, Served(c) PROVE CallsSound'
  BY <1>4, ServiceRepliesTruly
<1>5. ASSUME NEW c \in Calls, Settle(c) PROVE CallsSound'
  BY <1>5, PageSettlesTruly
<1> QED
  BY <1>1, <1>2, <1>3, <1>4, <1>5 DEF ClientNext

\* What the page makes of a reply is true of the change, for all of the methods, all
\* replies, and any number of calls under way.
THEOREM CallersAreToldTheTruth == ClientSpec => []AnswersAreTrue
<1>1. CallsSound => AnswersAreTrue
  BY DEF CallsSound, SoundCall, TrueAnswer, AnswersAreTrue
<1> QED
  BY InitCalls, NextCalls, <1>1, PTL DEF ClientSpec

\* The status that is kept of each endpoint is one of those there are, whatever the calls
\* record, and the mode of the page stays what it is.
EndpointsTyped ==
  /\ mode \in {"mock", "live"} /\ configured \in BOOLEAN /\ scoped \in BOOLEAN
  /\ endpointStatus \in [Keys -> {"unknown", "mock", "available", "unavailable", "fallback", "error"}]

LEMMA StatusIsRecorded ==
  ASSUME EndpointsTyped, NEW m, NEW state \in {"unknown", "mock", "available", "unavailable", "fallback", "error"},
         endpointStatus' = Recorded(m, state), UNCHANGED <<mode, configured, scoped>>
  PROVE  EndpointsTyped'
BY DEF EndpointsTyped, Recorded

\* What is recorded of a 404 is one of two, for every method.
LEMMA MissingIsNamed == \A m \in Methods : m.on404 \in {"unavailable", "fallback"}
<1> DEFINE fits(m) == m.on404 \in {"unavailable", "fallback"}
<1>1. /\ fits(Health) /\ fits(Providers) /\ fits(PipelineStatus) /\ fits(RuntimeRuns) /\ fits(RuntimeRun)
      /\ fits(ListTasks) /\ fits(ListSessions) /\ fits(SessionTimeline) /\ fits(SessionEventStream)
      /\ fits(IntegrationSettings) /\ fits(ConnectorSettings) /\ fits(AuditEvents) /\ fits(ApprovalQueue)
  BY DEF Health, Providers, PipelineStatus, RuntimeRuns, RuntimeRun, ListTasks, ListSessions, SessionTimeline,
         SessionEventStream, IntegrationSettings, ConnectorSettings, AuditEvents, ApprovalQueue,
         Plain, Listing, Unrecorded
<1>2. /\ fits(WorkerCapabilities) /\ fits(PolicyPacks) /\ fits(RuntimeIdentity) /\ fits(ExportProfiles)
      /\ fits(OrgAdminProfiles) /\ fits(SecureRefs) /\ fits(Activation)
  BY DEF WorkerCapabilities, PolicyPacks, RuntimeIdentity, ExportProfiles, OrgAdminProfiles, SecureRefs, Activation,
         Plain, Listing, Catalog, Unrecorded, Launcher
<1>3. /\ fits(CreateRun) /\ fits(CreateTask) /\ fits(SessionCreate) /\ fits(AttachWorker) /\ fits(WorkerEvent)
      /\ fits(SaveSecureRef) /\ fits(DeleteSecureRef) /\ fits(ExportSecureRefs) /\ fits(ApplyActivation)
  BY DEF CreateRun, CreateTask, SessionCreate, AttachWorker, WorkerEvent, SaveSecureRef, DeleteSecureRef,
         ExportSecureRefs, ApplyActivation, Plain, Listing, Unrecorded, Launcher
<1>4. /\ fits(CheckpointDecision) /\ fits(ProposalDecision) /\ fits(CloseSession) /\ fits(SaveSettings)
      /\ fits(InvokeAgent) /\ fits(TerminalSession) /\ fits(ApprovalDecision)
  BY DEF CheckpointDecision, ProposalDecision, CloseSession, SaveSettings, InvokeAgent, TerminalSession,
         ApprovalDecision, Command, Plain, Unrecorded
<1> HIDE DEF fits
<1>5. \A m \in Methods : fits(m)
  BY <1>1, <1>2, <1>3, <1>4 DEF Methods, Reads, Writes
<1> QED
  BY <1>5 DEF fits

LEMMA NextEndpoints == CallsSound /\ EndpointsTyped /\ [ClientNext]_clientVars => EndpointsTyped'
<1> SUFFICES ASSUME CallsSound, EndpointsTyped, [ClientNext]_clientVars PROVE EndpointsTyped'
  OBVIOUS
<1>1. CASE UNCHANGED <<mode, configured, scoped, endpointStatus>>
  BY <1>1 DEF EndpointsTyped
<1>2. ASSUME NEW c \in Calls, NEW m \in Methods, AnsweredLocally(c, m) PROVE EndpointsTyped'
  BY <1>1, <1>2, StatusIsRecorded DEF AnsweredLocally
<1>3. ASSUME NEW c \in Calls, Settle(c) PROVE EndpointsTyped'
  <2> DEFINE state == StatusFor(calls[c].method, calls[c].reply)
  <2>1. state \in {"unknown", "mock", "available", "unavailable", "fallback", "error"}
    BY MissingIsNamed DEF StatusFor, CallsSound, CallRecords
  <2>2. endpointStatus' = Recorded(calls[c].method, state) /\ UNCHANGED <<mode, configured, scoped>>
    BY <1>3 DEF Settle
  <2> HIDE DEF state
  <2> QED
    BY <2>1, <2>2, StatusIsRecorded
<1> QED
  BY <1>1, <1>2, <1>3 DEF ClientNext, clientVars, Sent, Served

\* Calls and the status of the endpoints stay well typed.
THEOREM ClientIsWellFormed == ClientSpec => []ClientTypeOK
<1>1. ClientInit => EndpointsTyped
  BY DEF ClientInit, EndpointsTyped
<1>2. EndpointsTyped /\ CallsSound => ClientTypeOK
  BY DEF EndpointsTyped, CallsSound, CallRecords, ClientTypeOK
<1> QED
  BY InitCalls, NextCalls, NextEndpoints, <1>1, <1>2, PTL DEF ClientSpec

(***************************************************************************)
(* Proofs about SettingsDesk, for any settings that may be typed and any   *)
(* number of actions of the operator that overlap.                         *)
(*                                                                         *)
(* The settings a reply says were applied, or a refresh is about to take   *)
(* over, have been held by the runtime: HeldOnce.  A snapshot that is      *)
(* older than the last change will be read over: ReadOver says by whom, a  *)
(* refresh that has not read yet, one that is queued, or the answer of the *)
(* change itself, which asks for one.                                      *)
(***************************************************************************)

TaskShapes ==
  [kind : {"none", "apply", "reset", "change", "read"}, value : Values \cup {"none", Old, New},
   step : {"none", "sent", "replied", "refreshing", "over"}, reply : {"none", "ok", "404", "unsent"} \cup Fails]

TaskRecords ==
  {x \in TaskShapes :
     /\ x.kind \in {"apply", "reset"} => x.value \in Values /\ (x.step = "replied" => x.reply \in {"ok", "404", "unsent"} \cup Fails)
     /\ x.kind \in {"change", "read"} /\ x.step = "replied" => x.value \in {Old, New}
     /\ x.step = "sent" => x.reply = "none"}

Cycles ==
  [phase : {"none", "native", "settings", "data", "taking", "ending", "lost"}, queued : BOOLEAN,
   reads : {"none", "sent", "ok", "404"} \cup Fails, read : Values \cup {"none"}, seen : {"unknown", Old, New},
   since : BOOLEAN, tried : BOOLEAN, ok : BOOLEAN]

RecordsOK == tasks \in [Tasks -> TaskRecords] /\ cycle \in Cycles

\* The settings that are known from the runtime.
HeldOnce ==
  /\ stored \in written \cup {"none"} /\ cycle.read \in written \cup {"none"}
  /\ \A t \in Tasks : (tasks[t].kind \in {"apply", "reset"} /\ tasks[t].step = "replied" /\ tasks[t].reply = "ok") =>
       tasks[t].value \in written
  /\ AppliedThroughRuntimeWasWritten

\* The answer of t will be followed by a refresh.
WillRefresh(t) == tasks[t].kind \in {"change", "read"} /\ tasks[t].step = "replied" /\ (tasks[t].reply = "ok" \/ work # "refs")
Unsure == work = "refs" /\ \E t \in Tasks : tasks[t].kind = "change" /\ tasks[t].reply \in Fails
ReadsAgain == \/ cycle.phase \in {"native", "settings", "data", "lost"}
              \/ cycle.phase \in {"taking", "ending"} /\ cycle.queued
              \/ cycle.phase # "taking" /\ ~cycle.ok

\* The snapshot, or what has been read and is about to replace it.
WillShow == IF cycle.phase = "taking" THEN cycle.seen ELSE snapshot

ReadOver == WillShow = launcher \/ ReadsAgain \/ Unsure \/ \E t \in Tasks : WillRefresh(t)

Overrides == [value : Values \cup {"none"}, applied : BOOLEAN, source : {"none", "local-fallback", "runtime-endpoint"}]
Standings == {"unloaded", "loaded", "loaded-empty", "endpoint-unavailable", "scope-unavailable"}

TypedSettings ==
  /\ inScope \in BOOLEAN /\ signedIn \in BOOLEAN
  /\ stored \in Values \cup {"none"} /\ written \subseteq Values
  /\ work \in {"settings", "route", "refs"} /\ launcher \in {Old, New} /\ snapshot \in {"unknown", Old, New}
  /\ override \in Overrides
  /\ draft \in Values
  /\ sync \in [Parts -> Standings]

\* The inductive invariant.
SettingsInv == RecordsOK /\ TypedSettings /\ HeldOnce /\ ReadOver

LEMMA InitSettings == SettingsInit => SettingsInv
<1> SUFFICES ASSUME SettingsInit PROVE SettingsInv
  OBVIOUS
<1>1. NoTask \in TaskRecords
  BY DEF NoTask, TaskRecords, TaskShapes
<1>2. cycle \in Cycles /\ cycle.phase = "native" /\ cycle.read = "none"
  BY DEF SettingsInit, Idle, Cycles
<1>3. RecordsOK
  BY <1>1, <1>2 DEF SettingsInit, RecordsOK
<1>4. HeldOnce
  BY <1>2 DEF SettingsInit, HeldOnce, NoTask, AppliedThroughRuntimeWasWritten
<1>5. TypedSettings
  BY DEF SettingsInit, TypedSettings, Values, Parts, Overrides, Standings
<1> QED
  BY <1>2, <1>3, <1>4, <1>5 DEF SettingsInv, ReadOver, ReadsAgain

LEMMA OverrideFits ==
  ASSUME NEW v \in Values \cup {"none"}, NEW b \in BOOLEAN, NEW s \in {"none", "local-fallback", "runtime-endpoint"}
  PROVE  [value |-> v, applied |-> b, source |-> s] \in Overrides
BY DEF Overrides

\* A refresh that is asked for will read.
LEMMA AskedReads ==
  ASSUME cycle \in Cycles
  PROVE  /\ AskedAgain \in Cycles /\ AskedAgain.read = cycle.read
         /\ AskedAgain.phase \in {"native", "settings", "data", "lost"} \/ (AskedAgain.phase \in {"taking", "ending"} /\ AskedAgain.queued)
BY DEF AskedAgain, InFlight, Cycles

-----------------------------------------------------------------------------
(* What the steps of a refresh, and of the operator, may do to what is known *)

\* Tasks that waited for a refresh are over.
Released == tasks' = [t \in Tasks |-> IF tasks[t].step = "refreshing" THEN [tasks[t] EXCEPT !.step = "over"] ELSE tasks[t]]

LEMMA ReleasedTasks ==
  ASSUME tasks \in [Tasks -> TaskRecords], Released
  PROVE  /\ tasks' \in [Tasks -> TaskRecords]
         /\ \A t \in Tasks : /\ tasks'[t].kind = tasks[t].kind /\ tasks'[t].value = tasks[t].value /\ tasks'[t].reply = tasks[t].reply
                             /\ tasks'[t].step = "replied" <=> tasks[t].step = "replied"
<1> SUFFICES ASSUME NEW t \in Tasks
             PROVE  /\ tasks'[t] \in TaskRecords
                    /\ tasks'[t].kind = tasks[t].kind /\ tasks'[t].value = tasks[t].value /\ tasks'[t].reply = tasks[t].reply
                    /\ tasks'[t].step = "replied" <=> tasks[t].step = "replied"
  BY DEF Released
<1> QED
  BY DEF Released, TaskRecords, TaskShapes

\* What stays, of the tasks, keeps what is known.
SameAnswers ==
  \A t \in Tasks : /\ tasks'[t].kind = tasks[t].kind /\ tasks'[t].value = tasks[t].value /\ tasks'[t].reply = tasks[t].reply
                   /\ tasks'[t].step = "replied" <=> tasks[t].step = "replied"

LEMMA SameAnswersKeep ==
  ASSUME SameAnswers, UNCHANGED work
  PROVE  Unsure' = Unsure /\ \A t \in Tasks : WillRefresh(t)' = WillRefresh(t)
BY DEF SameAnswers, Unsure, WillRefresh


\* What is held of the runtime is known as long as nothing else is told of it.
LEMMA HeldStays ==
  ASSUME HeldOnce, SameAnswers, cycle'.read \in {cycle.read, stored, "none"}, UNCHANGED <<stored, written, override>>
  PROVE  HeldOnce'
BY DEF HeldOnce, SameAnswers, AppliedThroughRuntimeWasWritten

LEMMA ReadStays ==
  ASSUME ReadOver, SameAnswers, UNCHANGED <<work, launcher>>, WillShow' = WillShow \/ ReadsAgain',
         ReadsAgain => ReadsAgain'
  PROVE  ReadOver'
<1>1. Unsure' = Unsure /\ \A t \in Tasks : WillRefresh(t)' = WillRefresh(t)
  BY SameAnswersKeep
<1> QED
  BY <1>1 DEF ReadOver

\* The parts of the settings are read.
LEMMA SyncKeeps == ASSUME SettingsInv, NativeSynced PROVE SettingsInv'
<1>1. tasks \in [Tasks -> TaskRecords] /\ cycle \in Cycles /\ TypedSettings /\ HeldOnce /\ ReadOver
  BY DEF SettingsInv, RecordsOK
<1>2. SameAnswers /\ UNCHANGED <<inScope, signedIn, stored, written, work, launcher, override, draft, snapshot, tasks>>
  BY DEF NativeSynced, SameAnswers
<1>3. cycle' \in Cycles /\ cycle'.read = cycle.read /\ cycle'.phase = "settings"
  BY <1>1 DEF NativeSynced, Cycles
<1>4. HeldOnce'
  BY <1>1, <1>2, <1>3, HeldStays
<1>5. ReadOver'
  BY <1>1, <1>2, <1>3, ReadStays DEF ReadsAgain
<1>6. TypedSettings'
  <2>1. sync' \in [Parts -> Standings]
    BY <1>1 DEF NativeSynced, TypedSettings, Standings
  <2> QED
    BY <1>1, <1>2, <2>1 DEF TypedSettings
<1> QED
  BY <1>1, <1>2, <1>3, <1>4, <1>5, <1>6 DEF SettingsInv, RecordsOK

LEMMA SettingsReadKeeps == ASSUME SettingsInv, SettingsServed PROVE SettingsInv'
<1>1. tasks \in [Tasks -> TaskRecords] /\ cycle \in Cycles /\ TypedSettings /\ HeldOnce /\ ReadOver
  BY DEF SettingsInv, RecordsOK
<1>2. SameAnswers /\ UNCHANGED <<inScope, signedIn, stored, written, work, launcher, override, draft, sync, snapshot, tasks>>
  BY DEF SettingsServed, SameAnswers
<1>3. cycle' \in Cycles /\ cycle'.read = stored /\ cycle'.phase = "settings"
  <2>1. PICK reply \in {"ok", "404", "none"} \cup Fails : cycle' = [cycle EXCEPT !.reads = reply, !.read = stored]
    BY DEF SettingsServed
  <2>2. stored \in Values \cup {"none"} /\ cycle.phase = "settings"
    BY <1>1 DEF TypedSettings, SettingsServed
  <2> QED
    BY <1>1, <2>1, <2>2 DEF Cycles
<1>4. HeldOnce'
  BY <1>1, <1>2, <1>3, HeldStays
<1>5. ReadOver'
  BY <1>1, <1>2, <1>3, ReadStays DEF ReadsAgain
<1>6. TypedSettings'
  BY <1>1, <1>2 DEF TypedSettings
<1> QED
  BY <1>1, <1>2, <1>3, <1>4, <1>5, <1>6 DEF SettingsInv, RecordsOK

\* What was read is taken over, or the refresh is lost.
LEMMA TakenOverKeeps == ASSUME SettingsInv, SettingsAnswered PROVE SettingsInv'
<1>1. tasks \in [Tasks -> TaskRecords] /\ cycle \in Cycles /\ TypedSettings /\ HeldOnce /\ ReadOver
  BY DEF SettingsInv, RecordsOK
<1>2. tasks' \in [Tasks -> TaskRecords] /\ SameAnswers
  <2>1. CASE UNCHANGED tasks
    BY <1>1, <2>1 DEF SameAnswers
  <2>2. CASE Released
    BY <1>1, <2>2, ReleasedTasks DEF SameAnswers
  <2> QED
    BY <2>1, <2>2 DEF SettingsAnswered, Released
<1>3. UNCHANGED <<inScope, signedIn, stored, written, work, launcher, snapshot>>
  BY DEF SettingsAnswered
<1>4. \/ cycle' = [cycle EXCEPT !.phase = "lost", !.reads = "none", !.read = "none"]
      \/ cycle' = [cycle EXCEPT !.phase = "data", !.reads = "none", !.read = "none"]
      \/ cycle' = [cycle EXCEPT !.phase = "none", !.reads = "none", !.read = "none", !.ok = FALSE]
  BY DEF SettingsAnswered
<1>5. cycle' \in Cycles /\ cycle'.read = "none" /\ ReadsAgain'
  <2>1. CASE cycle' = [cycle EXCEPT !.phase = "lost", !.reads = "none", !.read = "none"]
    BY <1>1, <2>1 DEF Cycles, ReadsAgain
  <2>2. CASE cycle' = [cycle EXCEPT !.phase = "data", !.reads = "none", !.read = "none"]
    BY <1>1, <2>2 DEF Cycles, ReadsAgain
  <2>3. CASE cycle' = [cycle EXCEPT !.phase = "none", !.reads = "none", !.read = "none", !.ok = FALSE]
    BY <1>1, <2>3 DEF Cycles, ReadsAgain
  <2> QED
    BY <1>4, <2>1, <2>2, <2>3
<1>6. \/ UNCHANGED <<override, draft>>
      \/ /\ cycle.read # "none" /\ draft' = cycle.read
         /\ override' = [value |-> cycle.read, applied |-> TRUE, source |-> "runtime-endpoint"]
  BY DEF SettingsAnswered
<1>7. AppliedThroughRuntimeWasWritten'
  <2>1. AppliedThroughRuntimeWasWritten /\ cycle.read \in written \cup {"none"}
    BY <1>1 DEF HeldOnce
  <2> QED
    BY <1>3, <1>6, <2>1 DEF AppliedThroughRuntimeWasWritten
<1>8. HeldOnce'
  BY <1>1, <1>2, <1>3, <1>5, <1>7 DEF HeldOnce, SameAnswers
<1>9. ReadOver'
  BY <1>5 DEF ReadOver
<1>10. TypedSettings'
  <2>1. cycle.read \in Values \cup {"none"}
    BY <1>1 DEF Cycles
  <2>2. override' \in Overrides /\ draft' \in Values
    <3>1. CASE UNCHANGED <<override, draft>>
      BY <1>1, <3>1 DEF TypedSettings
    <3>2. CASE /\ cycle.read # "none" /\ draft' = cycle.read
               /\ override' = [value |-> cycle.read, applied |-> TRUE, source |-> "runtime-endpoint"]
      BY <2>1, <3>2, OverrideFits
    <3> QED
      BY <1>6, <3>1, <3>2
  <2>3. sync' \in [Parts -> Standings]
    <3>1. sync \in [Parts -> Standings]
      BY <1>1 DEF TypedSettings
    <3>2. \A q \in Parts : SyncedAs(q) \in Standings
      BY <3>1 DEF SyncedAs, Standings
    <3>3. sync' = sync \/ sync' = [q \in Parts |-> SyncedAs(q)]
      BY DEF SettingsAnswered
    <3> QED
      BY <3>1, <3>2, <3>3
  <2> QED
    BY <1>1, <1>3, <2>2, <2>3 DEF TypedSettings
<1> QED
  BY <1>2, <1>5, <1>8, <1>9, <1>10 DEF SettingsInv, RecordsOK

\* What the launcher holds is read; or the refresh has failed, and says so.
LEMMA DataServedKeeps == ASSUME SettingsInv, DataServed PROVE SettingsInv'
<1>1. tasks \in [Tasks -> TaskRecords] /\ cycle \in Cycles /\ TypedSettings /\ HeldOnce /\ ReadOver
  BY DEF SettingsInv, RecordsOK
<1>2. SameAnswers /\ UNCHANGED <<inScope, signedIn, stored, written, work, launcher, override, draft, sync, snapshot, tasks>>
  BY DEF DataServed, SameAnswers
<1>3. /\ cycle' \in Cycles /\ cycle'.read = cycle.read
      /\ \/ cycle'.phase = "taking" /\ cycle'.seen = launcher
         \/ cycle'.phase = "ending" /\ ~cycle'.ok
  <2>1. CASE cycle' = [cycle EXCEPT !.phase = "taking", !.seen = launcher, !.ok = TRUE]
    BY <1>1, <2>1 DEF Cycles, TypedSettings
  <2>2. CASE cycle' = [cycle EXCEPT !.phase = "ending", !.ok = FALSE]
    BY <1>1, <2>2 DEF Cycles
  <2> QED
    BY <2>1, <2>2 DEF DataServed
<1>4. HeldOnce'
  BY <1>1, <1>2, <1>3, HeldStays
<1>5. ReadOver'
  BY <1>2, <1>3 DEF ReadOver, ReadsAgain, WillShow
<1>6. TypedSettings'
  BY <1>1, <1>2 DEF TypedSettings
<1> QED
  BY <1>1, <1>2, <1>3, <1>4, <1>5, <1>6 DEF SettingsInv, RecordsOK

\* It is taken over, however old; a change since has queued a refresh, or will ask for one.
LEMMA DataKeeps == ASSUME SettingsInv, DataRead PROVE SettingsInv'
<1>1. tasks \in [Tasks -> TaskRecords] /\ cycle \in Cycles /\ TypedSettings /\ HeldOnce /\ ReadOver
  BY DEF SettingsInv, RecordsOK
<1>2. SameAnswers /\ UNCHANGED <<inScope, signedIn, stored, written, work, launcher, override, draft, sync, tasks>>
  BY DEF DataRead, SameAnswers
<1>3. PICK ok \in BOOLEAN : cycle' = [cycle EXCEPT !.phase = "ending", !.seen = "unknown", !.ok = ok]
  BY DEF DataRead
<1>4. /\ cycle' \in Cycles /\ cycle'.read = cycle.read /\ cycle'.phase = "ending" /\ cycle'.queued = cycle.queued
      /\ cycle.phase = "taking" /\ snapshot' = cycle.seen
  BY <1>1, <1>3 DEF DataRead, Cycles
<1>5. HeldOnce'
  BY <1>1, <1>2, <1>4, HeldStays
<1>6. ReadOver'
  BY <1>1, <1>2, <1>4, ReadStays DEF ReadsAgain, WillShow
<1>7. TypedSettings'
  BY <1>1, <1>2, <1>4 DEF TypedSettings, Cycles
<1> QED
  BY <1>1, <1>2, <1>4, <1>5, <1>6, <1>7 DEF SettingsInv, RecordsOK

LEMMA CycleEndKeeps == ASSUME SettingsInv, CycleEnds PROVE SettingsInv'
<1>1. tasks \in [Tasks -> TaskRecords] /\ cycle \in Cycles /\ TypedSettings /\ HeldOnce /\ ReadOver
  BY DEF SettingsInv, RecordsOK
<1>2. tasks' \in [Tasks -> TaskRecords] /\ SameAnswers
  BY <1>1, ReleasedTasks DEF SameAnswers, CycleEnds, Released
<1>3. UNCHANGED <<inScope, signedIn, stored, written, work, launcher, override, draft, sync, snapshot>>
  BY DEF CycleEnds
<1>4. cycle' \in Cycles /\ cycle'.read = cycle.read /\ (ReadsAgain => ReadsAgain') /\ WillShow' = WillShow
  BY <1>1, <1>3 DEF CycleEnds, Cycles, ReadsAgain, WillShow
<1>5. HeldOnce'
  BY <1>1, <1>2, <1>3, <1>4, HeldStays
<1>6. ReadOver'
  BY <1>1, <1>2, <1>3, <1>4, ReadStays
<1>7. TypedSettings'
  BY <1>1, <1>3 DEF TypedSettings
<1> QED
  BY <1>2, <1>4, <1>5, <1>6, <1>7 DEF SettingsInv, RecordsOK

-----------------------------------------------------------------------------
(* The operator *)

\* A refresh is asked for, the operator signs out or in, types or saves.
LEMMA OperatorKeeps ==
  ASSUME SettingsInv, SignOut \/ SignIn \/ SaveDraft \/ AskRefresh \/ \E v \in Values : TypeDraft(v)
  PROVE  SettingsInv'
<1>1. tasks \in [Tasks -> TaskRecords] /\ cycle \in Cycles /\ TypedSettings /\ HeldOnce /\ ReadOver
  BY DEF SettingsInv, RecordsOK
<1>2. SameAnswers /\ UNCHANGED <<inScope, stored, written, work, launcher, sync, snapshot, tasks>>
  BY DEF SignOut, SignIn, SaveDraft, AskRefresh, TypeDraft, SameAnswers
<1>3. cycle' = cycle \/ cycle' = AskedAgain
  BY DEF SignOut, SignIn, SaveDraft, AskRefresh, TypeDraft
<1>4. cycle' \in Cycles /\ cycle'.read = cycle.read /\ (ReadsAgain => ReadsAgain') /\ (WillShow' = WillShow \/ ReadsAgain')
  <2>1. CASE cycle' = cycle
    BY <1>1, <1>2, <2>1 DEF ReadsAgain, WillShow
  <2>2. CASE cycle' = AskedAgain
    BY <1>1, <2>2, AskedReads DEF ReadsAgain
  <2> QED
    BY <1>3, <2>1, <2>2
<1>5. UNCHANGED override \/ override' = [value |-> draft, applied |-> FALSE, source |-> "none"]
  BY DEF SignOut, SignIn, SaveDraft, AskRefresh, TypeDraft
<1>6. AppliedThroughRuntimeWasWritten'
  BY <1>1, <1>2, <1>5 DEF HeldOnce, AppliedThroughRuntimeWasWritten
<1>7. HeldOnce'
  BY <1>1, <1>2, <1>4, <1>6 DEF HeldOnce, SameAnswers
<1>8. ReadOver'
  BY <1>1, <1>2, <1>4, ReadStays
<1>9. TypedSettings'
  <2>1. signedIn' \in BOOLEAN /\ draft' \in Values
    BY <1>1 DEF SignOut, SignIn, SaveDraft, AskRefresh, TypeDraft, TypedSettings
  <2>2. override' \in Overrides
    BY <1>1, <1>5, OverrideFits DEF TypedSettings
  <2> QED
    BY <1>1, <1>2, <2>1, <2>2 DEF TypedSettings
<1> QED
  BY <1>1, <1>2, <1>4, <1>7, <1>8, <1>9 DEF SettingsInv, RecordsOK

\* One task has changed, which was or is none that a refresh relies on.
OneTask(t, x) == tasks' = [tasks EXCEPT ![t] = x] /\ x \in TaskRecords

LEMMA OneTaskElse ==
  ASSUME tasks \in [Tasks -> TaskRecords], NEW t \in Tasks, NEW x, OneTask(t, x)
  PROVE  /\ tasks' \in [Tasks -> TaskRecords] /\ tasks'[t] = x
         /\ \A u \in Tasks : u # t => tasks'[u] = tasks[u]
BY DEF OneTask

LEMMA BegunKeeps ==
  ASSUME SettingsInv, NEW t \in Tasks, NEW kind \in {"apply", "reset", "change", "read"}, NEW value \in Values \cup {"none", New},
         Begins(t, kind, value),
         kind \in {"apply", "reset"} => value \in Values
  PROVE  SettingsInv'
<1>1. tasks \in [Tasks -> TaskRecords] /\ cycle \in Cycles /\ TypedSettings /\ HeldOnce /\ ReadOver
  BY DEF SettingsInv, RecordsOK
<1> DEFINE x == [kind |-> kind, value |-> value, step |-> "sent", reply |-> "none"]
<1>2. OneTask(t, x) /\ x.kind = kind /\ x.step = "sent" /\ x.reply = "none" /\ tasks[t].kind = "none"
  BY DEF Begins, OneTask, TaskRecords, TaskShapes
<1>3. UNCHANGED <<inScope, signedIn, stored, written, work, launcher, override, draft, sync, snapshot, cycle>>
  BY DEF Begins
<1> HIDE DEF x
<1>4. tasks' \in [Tasks -> TaskRecords] /\ tasks'[t] = x /\ \A u \in Tasks : u # t => tasks'[u] = tasks[u]
  BY <1>1, <1>2, OneTaskElse
<1>5. HeldOnce'
  BY <1>1, <1>2, <1>3, <1>4 DEF HeldOnce, AppliedThroughRuntimeWasWritten
<1>6. ReadOver'
  <2>1. Unsure => Unsure'
    BY <1>2, <1>3, <1>4 DEF Unsure
  <2>2. \A u \in Tasks : WillRefresh(u) => WillRefresh(u)'
    BY <1>2, <1>3, <1>4 DEF WillRefresh
  <2> QED
    BY <1>1, <1>3, <2>1, <2>2 DEF ReadOver, ReadsAgain, WillShow
<1>7. TypedSettings'
  BY <1>1, <1>3 DEF TypedSettings
<1> QED
  BY <1>1, <1>3, <1>4, <1>5, <1>6, <1>7 DEF SettingsInv, RecordsOK

\* The runtime holds what it says it has applied, and perhaps what it does not say.
LEMMA SaveServedKeeps ==
  ASSUME SettingsInv, NEW t \in Tasks, SaveServed(t)
  PROVE  SettingsInv'
<1>1. tasks \in [Tasks -> TaskRecords] /\ cycle \in Cycles /\ TypedSettings /\ HeldOnce /\ ReadOver
  BY DEF SettingsInv, RecordsOK
<1>2. PICK reply \in {"ok", "404", "unsent"} \cup Fails, done \in BOOLEAN :
        /\ reply = "ok" => done
        /\ stored' = IF done THEN tasks[t].value ELSE stored
        /\ written' = IF done THEN written \cup {tasks[t].value} ELSE written
        /\ tasks' = [tasks EXCEPT ![t].step = "replied", ![t].reply = reply]
  BY DEF SaveServed
<1>3. tasks[t].kind \in {"apply", "reset"} /\ UNCHANGED <<inScope, signedIn, work, launcher, override, draft, sync, snapshot, cycle>>
  BY DEF SaveServed
<1> DEFINE x == [tasks[t] EXCEPT !.step = "replied", !.reply = reply]
<1>4. OneTask(t, x) /\ x.kind = tasks[t].kind /\ x.value = tasks[t].value /\ x.step = "replied" /\ x.reply = reply
  BY <1>1, <1>2, <1>3 DEF OneTask, TaskRecords, TaskShapes
<1> HIDE DEF x
<1>5. tasks' \in [Tasks -> TaskRecords] /\ tasks'[t] = x /\ \A u \in Tasks : u # t => tasks'[u] = tasks[u]
  BY <1>1, <1>4, OneTaskElse
<1>6. written \subseteq written' /\ (reply = "ok" => tasks[t].value \in written')
  BY <1>2
<1>7. HeldOnce'
  <2>1. stored' \in written' \cup {"none"} /\ cycle'.read \in written' \cup {"none"}
    BY <1>1, <1>2, <1>3, <1>6 DEF HeldOnce
  <2>2. AppliedThroughRuntimeWasWritten'
    BY <1>1, <1>3, <1>6 DEF HeldOnce, AppliedThroughRuntimeWasWritten
  <2> QED
    BY <1>1, <1>4, <1>5, <1>6, <2>1, <2>2 DEF HeldOnce
<1>8. ReadOver'
  <2>1. Unsure => Unsure'
    BY <1>3, <1>4, <1>5 DEF Unsure
  <2>2. \A u \in Tasks : WillRefresh(u) => WillRefresh(u)'
    BY <1>3, <1>4, <1>5 DEF WillRefresh
  <2> QED
    BY <1>1, <1>3, <2>1, <2>2 DEF ReadOver, ReadsAgain, WillShow
<1>9. TypedSettings'
  <2>1. stored' \in Values \cup {"none"} /\ written' \subseteq Values
    <3>1. tasks[t].value \in Values
      BY <1>1, <1>3 DEF TaskRecords
    <3> QED
      BY <1>1, <1>2, <3>1 DEF TypedSettings
  <2> QED
    BY <1>1, <1>3, <2>1 DEF TypedSettings
<1> QED
  BY <1>1, <1>3, <1>5, <1>7, <1>8, <1>9 DEF SettingsInv, RecordsOK

\* The reply of a save is taken over, as applied by the runtime only if it said so.
LEMMA SaveAnsweredKeeps ==
  ASSUME SettingsInv, NEW t \in Tasks, SaveAnswered(t)
  PROVE  SettingsInv'
<1>1. tasks \in [Tasks -> TaskRecords] /\ cycle \in Cycles /\ TypedSettings /\ HeldOnce /\ ReadOver
  BY DEF SettingsInv, RecordsOK
<1>2. tasks[t].kind \in {"apply", "reset"} /\ tasks[t].step = "replied" /\ UNCHANGED <<inScope, signedIn, stored, written, work, launcher, snapshot>>
  BY DEF SaveAnswered
<1>3. PICK step \in {"over", "refreshing"} : tasks' = [tasks EXCEPT ![t].step = step]
  BY DEF SaveAnswered
<1> DEFINE x == [tasks[t] EXCEPT !.step = step]
<1>4. OneTask(t, x) /\ x.kind = tasks[t].kind /\ x.value = tasks[t].value /\ x.step = step /\ x.reply = tasks[t].reply
  BY <1>1, <1>3 DEF OneTask, TaskRecords, TaskShapes
<1> HIDE DEF x
<1>5. tasks' \in [Tasks -> TaskRecords] /\ tasks'[t] = x /\ \A u \in Tasks : u # t => tasks'[u] = tasks[u]
  BY <1>1, <1>4, OneTaskElse
<1>6. cycle' \in Cycles /\ cycle'.read = cycle.read /\ (ReadsAgain => ReadsAgain') /\ (WillShow' = WillShow \/ ReadsAgain')
  <2>1. CASE cycle' = cycle
    BY <1>1, <1>2, <2>1 DEF ReadsAgain, WillShow
  <2>2. CASE cycle' = [AskedAgain EXCEPT !.tried = FALSE, !.since = ~InFlight]
    <3>1. /\ cycle' \in Cycles /\ cycle'.read = AskedAgain.read /\ cycle'.phase = AskedAgain.phase
          /\ cycle'.queued = AskedAgain.queued
      BY <1>1, <2>2, AskedReads DEF Cycles, InFlight
    <3> QED
      BY <1>1, <3>1, AskedReads DEF ReadsAgain
  <2> QED
    BY <2>1, <2>2 DEF SaveAnswered
<1>7. \/ UNCHANGED <<override, draft, sync>>
      \/ /\ override' = [value |-> tasks[t].value, applied |-> TRUE, source |-> SourceAfter(tasks[t].reply)]
         /\ draft' = tasks[t].value /\ tasks[t].reply \notin Fails
         /\ sync' = [sync EXCEPT !["integrations"] = CASE tasks[t].reply = "ok" -> "loaded"
                                                      [] tasks[t].reply = "404" -> "endpoint-unavailable"
                                                      [] tasks[t].reply = "unsent" -> sync["integrations"]]
  BY DEF SaveAnswered
<1>8. AppliedThroughRuntimeWasWritten'
  <2>1. AppliedThroughRuntimeWasWritten /\ (tasks[t].reply = "ok" => tasks[t].value \in written)
    BY <1>1, <1>2 DEF HeldOnce
  <2> QED
    BY <1>2, <1>7, <2>1 DEF AppliedThroughRuntimeWasWritten, SourceAfter
<1>9. HeldOnce'
  BY <1>1, <1>2, <1>4, <1>5, <1>6, <1>8 DEF HeldOnce
<1>10. ReadOver'
  <2>1. Unsure => Unsure'
    BY <1>2, <1>4, <1>5 DEF Unsure
  <2>2. \A u \in Tasks : WillRefresh(u) => WillRefresh(u)'
    BY <1>2, <1>4, <1>5 DEF WillRefresh
  <2> QED
    BY <1>1, <1>2, <1>6, <2>1, <2>2 DEF ReadOver
<1>11. TypedSettings'
  <2>1. override \in Overrides /\ draft \in Values /\ sync \in [Parts -> Standings]
    BY <1>1 DEF TypedSettings
  <2>2. SourceAfter(tasks[t].reply) \in {"none", "local-fallback", "runtime-endpoint"}
    BY DEF SourceAfter
  <2>3. override' \in Overrides /\ draft' \in Values
    <3>1. tasks[t].value \in Values
      BY <1>1, <1>2 DEF TaskRecords
    <3> QED
      BY <1>7, <2>1, <2>2, <3>1, OverrideFits
  <2>4. sync' \in [Parts -> Standings]
    <3>1. CASE UNCHANGED sync
      BY <2>1, <3>1
    <3>2. CASE ~UNCHANGED sync
      <4>1. tasks[t].reply \notin Fails
        BY <1>7, <3>2
      <4>2. CASE tasks[t].reply = "ok"
        <5>1. sync' = [sync EXCEPT !["integrations"] = "loaded"]
          BY <1>7, <3>2, <4>2
        <5> QED
          BY <2>1, <5>1 DEF Standings
      <4>3. CASE tasks[t].reply = "404"
        <5>1. sync' = [sync EXCEPT !["integrations"] = "endpoint-unavailable"]
          BY <1>7, <3>2, <4>3
        <5> QED
          BY <2>1, <5>1 DEF Standings
      <4>4. CASE tasks[t].reply = "unsent"
        <5>1. sync' = [sync EXCEPT !["integrations"] = sync["integrations"]]
          BY <1>7, <3>2, <4>4
        <5> QED
          BY <2>1, <5>1
      <4>5. tasks[t].reply \in {"ok", "404", "unsent"} \cup Fails
        BY <1>1, <1>2 DEF TaskRecords
      <4> QED
        BY <4>1, <4>2, <4>3, <4>4, <4>5
    <3> QED
      BY <3>1, <3>2
  <2> QED
    BY <1>1, <1>2, <2>3, <2>4 DEF TypedSettings
<1> QED
  BY <1>5, <1>6, <1>9, <1>10, <1>11 DEF SettingsInv, RecordsOK

-----------------------------------------------------------------------------
(* The launcher *)

\* The launcher answers with what it holds then.
LEMMA LauncherServedKeeps == ASSUME SettingsInv, NEW t \in Tasks, LauncherServed(t) PROVE SettingsInv'
<1>1. tasks \in [Tasks -> TaskRecords] /\ cycle \in Cycles /\ TypedSettings /\ HeldOnce /\ ReadOver
  BY DEF SettingsInv, RecordsOK
<1>2. PICK reply \in {"ok"} \cup Fails, done \in BOOLEAN :
        /\ launcher' = IF done /\ tasks[t].kind = "change" THEN New ELSE launcher
        /\ tasks' = [tasks EXCEPT ![t].step = "replied", ![t].reply = reply, ![t].value = launcher']
  BY DEF LauncherServed
<1>3. tasks[t].kind \in {"change", "read"} /\ tasks[t].step = "sent"
      /\ UNCHANGED <<inScope, signedIn, stored, written, work, override, draft, sync, snapshot, cycle>>
  BY DEF LauncherServed
<1>4. launcher' \in {Old, New}
  BY <1>1, <1>2 DEF TypedSettings
<1> DEFINE x == [tasks[t] EXCEPT !.step = "replied", !.reply = reply, !.value = launcher']
<1>5. OneTask(t, x) /\ x.kind = tasks[t].kind /\ x.step = "replied" /\ x.reply = reply
  BY <1>1, <1>2, <1>3, <1>4 DEF OneTask, TaskRecords, TaskShapes
<1> HIDE DEF x
<1>6. tasks' \in [Tasks -> TaskRecords] /\ tasks'[t] = x /\ \A u \in Tasks : u # t => tasks'[u] = tasks[u]
  BY <1>1, <1>5, OneTaskElse
<1>7. HeldOnce'
  BY <1>1, <1>3, <1>5, <1>6 DEF HeldOnce, AppliedThroughRuntimeWasWritten
<1>8. ReadOver'
  <2>1. Unsure => Unsure'
    <3>1. tasks[t].reply \notin Fails
      BY <1>1, <1>3 DEF TaskRecords, Fails
    <3> QED
      BY <1>3, <1>6, <3>1 DEF Unsure
  <2>2. \A u \in Tasks : WillRefresh(u) => WillRefresh(u)'
    BY <1>3, <1>5, <1>6 DEF WillRefresh
  <2>3. CASE launcher' = launcher
    BY <1>1, <1>3, <2>1, <2>2, <2>3 DEF ReadOver, ReadsAgain, WillShow
  <2>4. CASE launcher' # launcher
    <3>1. x.kind = "change" /\ x.step = "replied" /\ x.reply \in {"ok"} \cup Fails
      BY <1>2, <1>5, <2>4
    <3>2. CASE x.reply = "ok" \/ work # "refs"
      <4>1. WillRefresh(t)'
        BY <1>3, <1>6, <3>1, <3>2 DEF WillRefresh
      <4> QED
        BY <4>1 DEF ReadOver
    <3>3. CASE x.reply # "ok" /\ work = "refs"
      <4>1. Unsure'
        BY <1>3, <1>6, <3>1, <3>3 DEF Unsure
      <4> QED
        BY <4>1 DEF ReadOver
    <3> QED
      BY <3>2, <3>3
  <2> QED
    BY <2>3, <2>4
<1>9. TypedSettings'
  BY <1>1, <1>3, <1>4 DEF TypedSettings
<1> QED
  BY <1>1, <1>3, <1>6, <1>7, <1>8, <1>9 DEF SettingsInv, RecordsOK

\* The answer is shown, however old, and a refresh is asked for that will read it over.
LEMMA LauncherAnsweredKeeps == ASSUME SettingsInv, NEW t \in Tasks, LauncherAnswered(t) PROVE SettingsInv'
<1>1. tasks \in [Tasks -> TaskRecords] /\ cycle \in Cycles /\ TypedSettings /\ HeldOnce /\ ReadOver
  BY DEF SettingsInv, RecordsOK
<1>2. /\ tasks[t].kind \in {"change", "read"} /\ tasks[t].step = "replied"
      /\ snapshot' = IF tasks[t].reply = "ok" THEN tasks[t].value ELSE snapshot
      /\ UNCHANGED <<inScope, signedIn, stored, written, work, launcher, override, draft, sync>>
  BY DEF LauncherAnswered
<1>3. PICK step \in {"over", "refreshing"} : tasks' = [tasks EXCEPT ![t].step = step]
  BY DEF LauncherAnswered, Refreshes
<1> DEFINE x == [tasks[t] EXCEPT !.step = step]
<1>4. OneTask(t, x) /\ x.kind = tasks[t].kind /\ x.value = tasks[t].value /\ x.step = step /\ x.reply = tasks[t].reply
  BY <1>1, <1>2, <1>3 DEF OneTask, TaskRecords, TaskShapes
<1> HIDE DEF x
<1>5. tasks' \in [Tasks -> TaskRecords] /\ tasks'[t] = x /\ \A u \in Tasks : u # t => tasks'[u] = tasks[u]
  BY <1>1, <1>4, OneTaskElse
<1>6. \/ tasks[t].reply # "ok" /\ work = "refs" /\ cycle' = cycle
      \/ cycle' = AskedAgain
  BY DEF LauncherAnswered, Refreshes
<1>7. cycle' \in Cycles /\ cycle'.read = cycle.read
  BY <1>1, <1>6, AskedReads
<1>8. HeldOnce'
  BY <1>1, <1>2, <1>4, <1>5, <1>7 DEF HeldOnce, AppliedThroughRuntimeWasWritten
<1>9. ReadOver'
  <2>1. CASE cycle' = AskedAgain
    <3>1. ReadsAgain'
      BY <1>1, <2>1, AskedReads DEF ReadsAgain
    <3> QED
      BY <3>1 DEF ReadOver
  <2>2. CASE tasks[t].reply # "ok" /\ work = "refs" /\ cycle' = cycle
    <3>1. Unsure => Unsure'
      BY <1>2, <1>4, <1>5 DEF Unsure
    <3>2. \A u \in Tasks : WillRefresh(u) => WillRefresh(u)'
      BY <1>2, <1>4, <1>5, <2>2 DEF WillRefresh
    <3> QED
      BY <1>1, <1>2, <2>2, <3>1, <3>2 DEF ReadOver, ReadsAgain, WillShow
  <2> QED
    BY <1>6, <2>1, <2>2
<1>10. TypedSettings'
  <2>1. snapshot' \in {"unknown", Old, New}
    BY <1>1, <1>2 DEF TypedSettings, TaskRecords
  <2> QED
    BY <1>1, <1>2, <2>1 DEF TypedSettings
<1> QED
  BY <1>5, <1>7, <1>8, <1>9, <1>10 DEF SettingsInv, RecordsOK

LEMMA NextSettings == SettingsInv /\ [SettingsNext]_settingsVars => SettingsInv'
<1> SUFFICES ASSUME SettingsInv, [SettingsNext]_settingsVars PROVE SettingsInv'
  OBVIOUS
<1>1. CASE UNCHANGED settingsVars
  BY <1>1 DEF settingsVars, SettingsInv, RecordsOK, TypedSettings, HeldOnce, AppliedThroughRuntimeWasWritten, ReadOver,
              ReadsAgain, WillShow, Unsure, WillRefresh
<1>2. CASE CycleNext
  BY <1>2, SyncKeeps, SettingsReadKeeps, TakenOverKeeps, DataServedKeeps, DataKeeps, CycleEndKeeps DEF CycleNext
<1>3. CASE SignOut \/ SignIn \/ SaveDraft \/ AskRefresh \/ \E v \in Values : TypeDraft(v)
  BY <1>3, OperatorKeeps
<1>4. ASSUME NEW t \in Tasks, ApplySaved(t) \/ ResetOverride(t) \/ Activate(t) \/ StoreRef(t) \/ ReadHelper(t)
      PROVE  SettingsInv'
  <2>1. override \in Overrides /\ draft \in Values
    BY DEF SettingsInv, TypedSettings
  <2>2. PICK kind \in {"apply", "reset", "change", "read"}, value \in Values \cup {"none", New} :
          Begins(t, kind, value) /\ (kind \in {"apply", "reset"} => value \in Values)
    <3>1. CASE ApplySaved(t)
      <4>1. (IF override.value = "none" THEN draft ELSE override.value) \in Values
        BY <2>1 DEF Overrides
      <4> QED
        BY <3>1, <4>1 DEF ApplySaved
    <3>2. CASE ResetOverride(t)
      BY <3>2 DEF ResetOverride, Values
    <3>3. CASE Activate(t) \/ StoreRef(t)
      BY <3>3 DEF Activate, StoreRef
    <3>4. CASE ReadHelper(t)
      BY <3>4 DEF ReadHelper
    <3> QED
      BY <1>4, <3>1, <3>2, <3>3, <3>4
  <2> QED
    BY <2>2, BegunKeeps
<1>5. ASSUME NEW t \in Tasks, SaveServed(t) PROVE SettingsInv'
  BY <1>5, SaveServedKeeps
<1>6. ASSUME NEW t \in Tasks, SaveAnswered(t) PROVE SettingsInv'
  BY <1>6, SaveAnsweredKeeps
<1>7. ASSUME NEW t \in Tasks, LauncherServed(t) PROVE SettingsInv'
  BY <1>7, LauncherServedKeeps
<1>8. ASSUME NEW t \in Tasks, LauncherAnswered(t) PROVE SettingsInv'
  BY <1>8, LauncherAnsweredKeeps
<1> QED
  BY <1>1, <1>2, <1>3, <1>4, <1>5, <1>6, <1>7, <1>8 DEF SettingsNext

LEMMA SettingsInvariant == SettingsSpec => []SettingsInv
BY InitSettings, NextSettings, PTL DEF SettingsSpec

-----------------------------------------------------------------------------
(* The theorems *)

\* The settings, the work of the operator and the refresh stay well typed.
THEOREM SettingsAreWellFormed == SettingsSpec => []SettingsTypeOK
<1>1. SettingsInv => SettingsTypeOK
  BY DEF SettingsInv, RecordsOK, TypedSettings, SettingsTypeOK, Overrides, Standings, Cycles
<1> QED
  BY SettingsInvariant, <1>1, PTL

\* Settings shown as applied through the runtime have been held by it, whatever overlaps,
\* fails or is typed in between.
THEOREM AppliedSettingsWereHeld == SettingsSpec => []AppliedThroughRuntimeWasWritten
<1>1. SettingsInv => AppliedThroughRuntimeWasWritten
  BY DEF SettingsInv, HeldOnce
<1> QED
  BY SettingsInvariant, <1>1, PTL

\* A page on which nothing is under way shows what the launcher holds, for any number of
\* changes and reads whose answers overtake one another.
THEOREM QuietPageIsCurrent == SettingsSpec => []QuietSnapshotIsCurrent
<1>1. SettingsInv => QuietSnapshotIsCurrent
  <2> SUFFICES ASSUME SettingsInv, cycle.phase = "none", cycle.ok, \A t \in Tasks : tasks[t].step \in {"none", "over"},
                      ~(work = "refs" /\ \E t \in Tasks : tasks[t].kind = "change" /\ tasks[t].reply \in Fails)
               PROVE  snapshot = launcher
    BY DEF QuietSnapshotIsCurrent
  <2> QED
    BY DEF SettingsInv, ReadOver, ReadsAgain, WillShow, Unsure, WillRefresh
<1> QED
  BY SettingsInvariant, <1>1, PTL

(***************************************************************************)
(* Proofs about NativeShell, for any number of calls in flight.            *)
(*                                                                         *)
(* A call that no other has crossed is the only one in flight, so that the *)
(* launcher does not move between the moment it is answered and the one    *)
(* the answer is drawn, and nobody else draws.  SoundAsking says what such *)
(* a call carries: an answer that is still true, a strip that shows it, or *)
(* a token that is cleared where there is none.                            *)
(***************************************************************************)

Summaries == [enabled : BOOLEAN, status : {"off", "on"} \cup Transitions, token : BOOLEAN]
Shells == [enabled : BOOLEAN, status : {"off", "on", "degraded"} \cup Transitions, token : BOOLEAN]
Natives == [enabled : BOOLEAN, token : BOOLEAN, moving : {"none"} \cup Transitions, stuck : BOOLEAN]
FormShapes == [auth : {"saved_token", "client_passthrough"}, picked : BOOLEAN]

Askings ==
  [kind : {"none", "refresh", "configure", "restart"}, pass : {"none", "reload", "first", "last"},
   step : {"none", "report", "status", "loading", "sent", "serving", "answered"}, want : BOOLEAN,
   token : {"keep", "set", "clear"}, reply : Summaries \cup {NoReply, NoAnswer}, alone : BOOLEAN, chosen : BOOLEAN]

Typed ==
  /\ native \in Natives /\ bridge \in {"whole", "broken", "none"} /\ shell \in Shells /\ form \in FormShapes
  /\ locked \in BOOLEAN /\ settled \in BOOLEAN

LauncherShown == shell = Summary /\ (~native.stuck => ~locked)

\* The summary is what the launcher would answer now.
TrueSummary(reply, n) ==
  reply = [enabled |-> n.enabled \/ n.moving \in Transitions,
           status |-> IF n.moving \in Transitions THEN n.moving ELSE IF n.enabled THEN "on" ELSE "off",
           token |-> n.token]

SoundAsking(x, n, b, shown) ==
  /\ x \in Askings
  /\ x.kind = "none" => x.step = "none" /\ ~x.alone /\ x.pass = "none"
  /\ x.kind # "none" => x.pass # "none"
  /\ x.kind = "configure" => x.pass = "last" /\ (x.step = "answered" => x.reply # NoReply)
  /\ x.kind = "configure" \/ x.step \in {"report", "status"} \/ (x.step = "loading" /\ x.reply # NoAnswer) => b = "whole"
  /\ x.alone /\ x.step = "loading" /\ x.reply # NoAnswer => shown
  /\ x.alone /\ x.step = "status" /\ x.reply \notin {NoReply, NoAnswer} => TrueSummary(x.reply, n)
  /\ x.alone /\ ~x.chosen /\ x.step = "sent" /\ x.token = "clear" => ~n.token

AloneIsAlone == \A t \in Callers : asked[t].alone => \A u \in Callers : u # t => asked[u].kind = "none"

AskingsSound ==
  /\ asked \in [Callers -> Askings] /\ AloneIsAlone
  /\ \A t \in Callers : SoundAsking(asked[t], native, bridge, LauncherShown)

\* A transition belongs to the call that makes it, unless one has failed to announce it.
MovesFor(x) == x.kind = "configure" /\ x.step = "serving" /\ x.want
MovingSound == native.moving # "none" => native.stuck \/ \E t \in Callers : MovesFor(asked[t])

SettledSound == /\ settled => bridge = "whole"
                /\ settled /\ NoneOutstanding => LauncherShown

FormSound == ~form.picked => form = DrawnForm(shell)

\* The inductive invariant.
ShellInv == Typed /\ AskingsSound /\ MovingSound /\ SettledSound /\ FormSound

-----------------------------------------------------------------------------
(* Summaries and strips *)

LEMMA NotAskingFacts ==
  /\ NotAsking \in Askings /\ NotAsking.kind = "none" /\ NotAsking.step = "none" /\ NotAsking.pass = "none" /\ ~NotAsking.alone
  /\ \A n, b, shown : SoundAsking(NotAsking, n, b, shown)
<1>1. NotAsking \in Askings /\ NotAsking.kind = "none" /\ NotAsking.step = "none" /\ NotAsking.pass = "none" /\ NotAsking.alone = FALSE
  BY DEF NotAsking, Askings
<1> QED
  BY <1>1 DEF SoundAsking

LEMMA ReplyFacts ==
  /\ NoReply # NoAnswer /\ NoReply \notin Summaries /\ NoAnswer \notin Summaries
<1>1. NoReply.status = "none" /\ NoAnswer.status = "error"
  BY DEF NoReply, NoAnswer
<1>2. \A s \in Summaries : s.status # "none" /\ s.status # "error"
  BY DEF Summaries, Transitions
<1> QED
  BY <1>1, <1>2

LEMMA SummaryFacts ==
  ASSUME native \in Natives
  PROVE  /\ Summary \in Summaries /\ TrueSummary(Summary, native)
         /\ native.moving = "none" => Summary.enabled = native.enabled /\ Summary.status \notin Transitions
         /\ Summary.token = native.token
BY DEF Natives, Summaries, Summary, TrueSummary, Transitions

\* Drawing a strip with a summary makes the form anew.
LEMMA DrawnIsSound ==
  ASSUME NEW s \in Shells, ShowsAnew(s)
  PROVE  shell' \in Shells /\ form' \in FormShapes /\ FormSound'
BY DEF ShowsAnew, DrawnForm, FormShapes, FormSound

LEMMA SummaryIsShell == \A s \in Summaries : s \in Shells
BY DEF Summaries, Shells

-----------------------------------------------------------------------------
(* Calls *)

\* A call that goes on is the only one there is, or crosses others: none of these is alone.
LEMMA CallGoesOn ==
  ASSUME ShellInv, NEW t \in Callers, asked[t].kind # "none", NEW x, asked' = [asked EXCEPT ![t] = x],
         x.kind = asked[t].kind, x.alone = asked[t].alone, SoundAsking(x, native', bridge', LauncherShown'),
         UNCHANGED bridge
  PROVE  AskingsSound' /\ ~NoneOutstanding' /\ asked'[t] = x /\ (\A u \in Callers : u # t => asked'[u] = asked[u])
<1>1. asked \in [Callers -> Askings] /\ AloneIsAlone /\ \A u \in Callers : SoundAsking(asked[u], native, bridge, LauncherShown)
  BY DEF ShellInv, AskingsSound
<1>2. asked'[t] = x /\ \A u \in Callers : u # t => asked'[u] = asked[u]
  BY <1>1
<1>3. \A u \in Callers : u # t => ~asked[u].alone
  BY <1>1 DEF AloneIsAlone, Askings
<1>4. asked' \in [Callers -> Askings]
  BY <1>1 DEF SoundAsking
<1>5. AloneIsAlone'
  BY <1>1, <1>2, <1>3 DEF AloneIsAlone
<1>6. ASSUME NEW u \in Callers PROVE SoundAsking(asked'[u], native', bridge', LauncherShown')
  <2>1. CASE u = t
    BY <1>2, <2>1
  <2>2. CASE u # t
    BY <1>1, <1>2, <1>3, <2>2 DEF SoundAsking
  <2> QED
    BY <2>1, <2>2
<1>7. ~NoneOutstanding'
  BY <1>2 DEF NoneOutstanding, Outstanding
<1> QED
  BY <1>2, <1>4, <1>5, <1>6, <1>7 DEF AskingsSound

\* A call ends.
LEMMA CallEnds ==
  ASSUME ShellInv, NEW t \in Callers, asked[t].kind # "none", NEW drawn \in BOOLEAN, EndsAsking(t, drawn),
         asked[t].alone /\ drawn => LauncherShown' /\ bridge = "whole", UNCHANGED bridge
  PROVE  AskingsSound' /\ SettledSound' /\ settled' \in BOOLEAN
         /\ asked'[t] = NotAsking /\ (\A u \in Callers : u # t => asked'[u] = asked[u])
<1>1. asked \in [Callers -> Askings] /\ AloneIsAlone /\ \A u \in Callers : SoundAsking(asked[u], native, bridge, LauncherShown)
  BY DEF ShellInv, AskingsSound
<1>2. asked'[t] = NotAsking /\ (\A u \in Callers : u # t => asked'[u] = asked[u]) /\ settled' = (asked[t].alone /\ drawn)
  BY <1>1 DEF EndsAsking
<1>3. \A u \in Callers : u # t => ~asked[u].alone
  BY <1>1 DEF AloneIsAlone, Askings
<1>4. asked' \in [Callers -> Askings]
  BY <1>1, NotAskingFacts DEF EndsAsking
<1>5. AloneIsAlone'
  BY <1>1, <1>2, <1>3, NotAskingFacts DEF AloneIsAlone
<1>6. ASSUME NEW u \in Callers PROVE SoundAsking(asked'[u], native', bridge', LauncherShown')
  <2>1. CASE u = t
    BY <1>2, <2>1, NotAskingFacts
  <2>2. CASE u # t
    BY <1>1, <1>2, <1>3, <2>2 DEF SoundAsking
  <2> QED
    BY <2>1, <2>2
<1>7. SettledSound' /\ settled' \in BOOLEAN
  BY <1>1, <1>2 DEF SettledSound, Askings
<1> QED
  BY <1>2, <1>4, <1>5, <1>6, <1>7 DEF AskingsSound

\* A call begins, and crosses all that are in flight.
LEMMA CallBegins ==
  ASSUME ShellInv, NEW t \in Callers, NEW x \in Askings, BeginsAsking(t, x), asked[t].kind = "none", x.kind # "none",
         SoundAsking([x EXCEPT !.alone = NoneOutstanding], native', bridge', LauncherShown'), UNCHANGED bridge
  PROVE  AskingsSound' /\ ~NoneOutstanding'
         /\ asked'[t] = [x EXCEPT !.alone = NoneOutstanding]
         /\ (\A u \in Callers : u # t => asked'[u] = [asked[u] EXCEPT !.alone = FALSE])
<1>1. asked \in [Callers -> Askings] /\ AloneIsAlone /\ \A u \in Callers : SoundAsking(asked[u], native, bridge, LauncherShown)
  BY DEF ShellInv, AskingsSound
<1>2. asked' = [u \in Callers |-> IF u = t THEN [x EXCEPT !.alone = NoneOutstanding] ELSE [asked[u] EXCEPT !.alone = FALSE]]
  BY DEF BeginsAsking
<1>3. NoneOutstanding \in BOOLEAN
  BY DEF NoneOutstanding
<1>4. [x EXCEPT !.alone = NoneOutstanding] \in Askings /\ [x EXCEPT !.alone = NoneOutstanding].kind = x.kind
      /\ [x EXCEPT !.alone = NoneOutstanding].alone = NoneOutstanding
  BY <1>3 DEF Askings
<1>5. ASSUME NEW u \in Callers, u # t
      PROVE  /\ asked'[u] = [asked[u] EXCEPT !.alone = FALSE] /\ asked'[u] \in Askings /\ asked'[u].alone = FALSE
             /\ asked'[u].kind = asked[u].kind /\ SoundAsking(asked'[u], native', bridge', LauncherShown')
  <2>1. asked[u] \in Askings /\ asked'[u] = [asked[u] EXCEPT !.alone = FALSE]
    BY <1>1, <1>2, <1>5
  <2>2. /\ asked'[u] \in Askings /\ asked'[u].alone = FALSE /\ asked'[u].kind = asked[u].kind /\ asked'[u].step = asked[u].step
        /\ asked'[u].pass = asked[u].pass /\ asked'[u].reply = asked[u].reply
    BY <2>1 DEF Askings
  <2> QED
    BY <1>1, <2>1, <2>2 DEF SoundAsking
<1>6. asked'[t] = [x EXCEPT !.alone = NoneOutstanding] /\ asked'[t] \in Askings
  BY <1>2, <1>4
<1>7. asked' \in [Callers -> Askings]
  BY <1>2, <1>5, <1>6
<1>8. AloneIsAlone'
  BY <1>4, <1>5, <1>6 DEF AloneIsAlone, NoneOutstanding, Outstanding
<1>9. \A u \in Callers : SoundAsking(asked'[u], native', bridge', LauncherShown')
  BY <1>5, <1>6
<1>10. ~NoneOutstanding'
  BY <1>4, <1>6 DEF NoneOutstanding, Outstanding
<1> QED
  BY <1>5, <1>6, <1>7, <1>8, <1>9, <1>10 DEF AskingsSound


-----------------------------------------------------------------------------
(* The steps *)

LEMMA InitShell == ShellInit => ShellInv
<1> SUFFICES ASSUME ShellInit PROVE ShellInv
  OBVIOUS
<1>1. native \in Natives /\ native.moving = "none" /\ bridge \in {"whole", "broken", "none"}
  BY DEF ShellInit, Natives
<1>2. Summary \in Summaries
  BY <1>1, SummaryFacts
<1>3. shell \in Shells /\ (bridge # "broken" => shell = Summary)
  BY <1>1, <1>2 DEF ShellInit, Summaries, Shells
<1>4. form \in FormShapes /\ FormSound
  BY DEF ShellInit, DrawnForm, FormShapes, FormSound
<1>5. locked \in BOOLEAN /\ settled \in BOOLEAN /\ (settled => bridge = "whole" /\ ~locked)
  BY DEF ShellInit
<1>6. AskingsSound
  BY NotAskingFacts DEF ShellInit, AskingsSound, AloneIsAlone
<1>7. MovingSound /\ SettledSound
  BY <1>1, <1>3, <1>5 DEF MovingSound, SettledSound, LauncherShown
<1> QED
  BY <1>1, <1>3, <1>4, <1>5, <1>6, <1>7 DEF ShellInv, Typed

\* The invariant when the launcher stands still.
LEMMA LauncherStill ==
  ASSUME ShellInv, UNCHANGED <<native, bridge>>, NEW t \in Callers, ~MovesFor(asked[t]),
         \A u \in Callers : u # t => asked'[u] = asked[u]
  PROVE  MovingSound'
BY DEF ShellInv, MovingSound

LEMMA StartStill ==
  ASSUME ShellInv, UNCHANGED <<native, bridge>>, NEW t \in Callers, asked[t].kind = "none",
         \A u \in Callers : u # t => asked'[u] = [asked[u] EXCEPT !.alone = FALSE]
  PROVE  MovingSound'
<1>1. native.moving # "none" => native.stuck \/ \E u \in Callers : MovesFor(asked[u])
  BY DEF ShellInv, MovingSound
<1>2. ASSUME NEW u \in Callers, MovesFor(asked[u]) PROVE MovesFor(asked'[u])
  <2>1. u # t /\ asked[u] \in Askings
    BY <1>2 DEF MovesFor, ShellInv, AskingsSound
  <2> QED
    BY <1>2, <2>1 DEF MovesFor, Askings
<1> QED
  BY <1>1, <1>2 DEF MovingSound

\* A call in flight.
LEMMA InFlightFacts ==
  ASSUME ShellInv, NEW t \in Callers
  PROVE  /\ asked \in [Callers -> Askings] /\ asked[t] \in Askings /\ SoundAsking(asked[t], native, bridge, LauncherShown)
         /\ asked[t].step # "none" => asked[t].kind # "none"
BY DEF ShellInv, AskingsSound, SoundAsking

\* While the only call in flight does not turn anything, the launcher does not move.
LEMMA AloneIsStill ==
  ASSUME ShellInv, NEW t \in Callers, asked[t].alone, asked[t].step # "serving", ~native.stuck
  PROVE  native.moving = "none"
BY DEF ShellInv, AskingsSound, AloneIsAlone, MovingSound, MovesFor

LEMMA PickKeeps == ASSUME ShellInv, PickAuth PROVE ShellInv'
<1>1. UNCHANGED <<native, bridge, shell, locked, asked, settled>> /\ form' \in FormShapes /\ form'.picked
  BY DEF PickAuth, FormShapes
<1> QED
  BY <1>1 DEF ShellInv, Typed, AskingsSound, AloneIsAlone, MovingSound, SettledSound, NoneOutstanding, Outstanding,
              LauncherShown, Summary, FormSound

\* With a broken bridge the strip is drawn as degraded.
LEMMA BrokenIsSound ==
  ASSUME ShellInv, DrawsBroken
  PROVE  shell' \in Shells /\ form' \in FormShapes /\ locked' \in BOOLEAN /\ FormSound'
<1>1. shell \in Shells /\ form \in FormShapes /\ locked \in BOOLEAN /\ FormSound
  BY DEF ShellInv, Typed
<1>2. CASE KeepsDrawn
  BY <1>1, <1>2 DEF KeepsDrawn, FormSound
<1>3. CASE DrawsStrip([shell EXCEPT !.status = "degraded"])
  <2>1. [shell EXCEPT !.status = "degraded"] \in Shells
    BY <1>1 DEF Shells
  <2> QED
    BY <1>3, <2>1, DrawnIsSound DEF DrawsStrip
<1> QED
  BY <1>2, <1>3 DEF DrawsBroken

LEMMA RefreshStartKeeps == ASSUME ShellInv, NEW t \in Callers, RefreshShell(t) PROVE ShellInv'
<1>1. asked[t].kind = "none" /\ UNCHANGED <<native, bridge, settled>>
  BY DEF RefreshShell, Outstanding
<1>2. PICK x \in Askings :
        /\ BeginsAsking(t, x) /\ x.kind = "refresh" /\ x.pass = "reload" /\ x.step \in {"report", "loading"} /\ x.token = "keep"
        /\ x.step = "report" => bridge = "whole" /\ x.reply = NoReply
        /\ x.step = "loading" => bridge # "whole" /\ x.reply = NoAnswer
        /\ (bridge # "broken" => KeepsDrawn) /\ (bridge = "broken" => DrawsBroken)
  <2> DEFINE y == [NotAsking EXCEPT !.kind = "refresh", !.pass = "reload", !.step = "report"]
             z == [NotAsking EXCEPT !.kind = "refresh", !.pass = "reload", !.step = "loading", !.reply = NoAnswer]
  <2>1. /\ y \in Askings /\ y.kind = "refresh" /\ y.pass = "reload" /\ y.step = "report" /\ y.token = "keep" /\ y.reply = NoReply
        /\ z \in Askings /\ z.kind = "refresh" /\ z.pass = "reload" /\ z.step = "loading" /\ z.token = "keep" /\ z.reply = NoAnswer
    BY DEF NotAsking, Askings
  <2>2. CASE bridge = "whole"
    BY <2>1, <2>2 DEF RefreshShell
  <2>3. CASE bridge # "whole"
    <3>1. BeginsAsking(t, z) /\ IF bridge = "none" THEN KeepsDrawn ELSE DrawsBroken
      BY <2>3 DEF RefreshShell
    <3>2. bridge # "broken" => bridge = "none"
      BY <2>3 DEF ShellInv, Typed
    <3> QED
      BY <2>1, <2>3, <3>1, <3>2
  <2> QED
    BY <2>2, <2>3
<1>3. SoundAsking([x EXCEPT !.alone = NoneOutstanding], native', bridge', LauncherShown')
  <2> DEFINE y == [x EXCEPT !.alone = NoneOutstanding]
  <2>1. NoneOutstanding \in BOOLEAN
    BY DEF NoneOutstanding
  <2>2. /\ y \in Askings /\ y.kind = "refresh" /\ y.pass = "reload" /\ y.step = x.step /\ y.token = "keep" /\ y.reply = x.reply
    BY <1>2, <2>1 DEF Askings
  <2> HIDE DEF y
  <2>3. SoundAsking(y, native', bridge', LauncherShown')
    BY <1>1, <1>2, <2>2 DEF SoundAsking
  <2> QED
    BY <2>3 DEF y
<1>4. AskingsSound' /\ ~NoneOutstanding' /\ \A u \in Callers : u # t => asked'[u] = [asked[u] EXCEPT !.alone = FALSE]
  BY <1>1, <1>2, <1>3, CallBegins
<1>5. MovingSound'
  BY <1>1, <1>4, StartStill
<1>6. shell' \in Shells /\ form' \in FormShapes /\ locked' \in BOOLEAN /\ FormSound'
  <2>1. CASE KeepsDrawn
    BY <2>1 DEF KeepsDrawn, ShellInv, Typed, FormSound
  <2>2. CASE DrawsBroken
    BY <2>2, BrokenIsSound
  <2> QED
    BY <1>2, <2>1, <2>2
<1>7. Typed' /\ SettledSound'
  BY <1>1, <1>4, <1>6 DEF ShellInv, Typed, SettledSound
<1> QED
  BY <1>4, <1>5, <1>6, <1>7 DEF ShellInv

\* A change begins: it clears a token only where it was picked, the strip shows none, or
\* what it shows is not known to be the launcher's.
LEMMA ConfigureStartKeeps == ASSUME ShellInv, NEW t \in Callers, ConfigureShell(t) PROVE ShellInv'
<1>1. asked[t].kind = "none" /\ ~locked /\ bridge # "none" /\ UNCHANGED <<native, bridge, settled>>
  BY DEF ConfigureShell, Outstanding
<1>2. PICK toggles \in BOOLEAN, token \in DraftTokens :
        LET on == IF toggles THEN ~shell.enabled ELSE shell.enabled
        IN IF bridge = "broken" THEN DrawsBroken /\ UNCHANGED asked
           ELSE /\ BeginsAsking(t, [NotAsking EXCEPT !.kind = "configure", !.step = "sent", !.pass = "last", !.want = on,
                                          !.token = token, !.chosen = form.picked \/ ~(settled /\ NoneOutstanding)])
                /\ IF toggles THEN shell' = TurningTo(on) /\ form' = DrawnForm(shell) ELSE UNCHANGED <<shell, form>>
                /\ locked' = TRUE
  BY DEF ConfigureShell
<1>3. Typed /\ AskingsSound /\ SettledSound /\ FormSound
  BY DEF ShellInv
<1>4. CASE bridge = "broken"
  <2>1. DrawsBroken /\ UNCHANGED asked
    BY <1>2, <1>4
  <2>2. shell' \in Shells /\ form' \in FormShapes /\ locked' \in BOOLEAN /\ FormSound'
    BY <2>1, BrokenIsSound
  <2>3. \A u \in Callers : SoundAsking(asked[u], native', bridge', LauncherShown')
    BY <1>1, <1>3, <1>4 DEF AskingsSound, SoundAsking
  <2>4. AskingsSound' /\ MovingSound'
    BY <1>1, <1>3, <2>1, <2>3 DEF AskingsSound, AloneIsAlone, ShellInv, MovingSound
  <2>5. SettledSound'
    BY <1>1, <1>3, <1>4 DEF SettledSound
  <2> QED
    BY <1>1, <1>3, <2>2, <2>4, <2>5 DEF ShellInv, Typed
<1>5. CASE bridge # "broken"
  <2> DEFINE on == IF toggles THEN ~shell.enabled ELSE shell.enabled
             chosen == form.picked \/ ~(settled /\ NoneOutstanding)
             x == [NotAsking EXCEPT !.kind = "configure", !.step = "sent", !.pass = "last", !.want = on,
                                    !.token = token, !.chosen = chosen]
             y == [x EXCEPT !.alone = NoneOutstanding]
  <2>1. /\ bridge = "whole" /\ BeginsAsking(t, x) /\ locked' = TRUE
        /\ IF toggles THEN shell' = TurningTo(on) /\ form' = DrawnForm(shell) ELSE UNCHANGED <<shell, form>>
    BY <1>1, <1>2, <1>3, <1>5 DEF Typed
  <2>2. on \in BOOLEAN /\ chosen \in BOOLEAN /\ NoneOutstanding \in BOOLEAN /\ token \in {"keep", "set", "clear"}
    BY <1>3 DEF Typed, Shells, FormShapes, DraftTokens, NoneOutstanding
  <2> HIDE DEF on, chosen
  <2>3. x \in Askings /\ x.kind = "configure" /\ x.step = "sent" /\ x.pass = "last" /\ x.token = token /\ x.chosen = chosen
    BY <2>2 DEF NotAsking, Askings
  <2> HIDE DEF x
  <2>4. /\ y \in Askings /\ y.kind = "configure" /\ y.step = "sent" /\ y.pass = "last" /\ y.token = token /\ y.chosen = chosen
        /\ y.alone = NoneOutstanding
    BY <2>2, <2>3 DEF Askings
  <2> HIDE DEF y
  <2>5. NoneOutstanding /\ ~chosen /\ token = "clear" => ~native.token
    <3> SUFFICES ASSUME NoneOutstanding, ~chosen, token = "clear" PROVE ~native.token
      OBVIOUS
    <3>1. ~form.picked /\ settled
      BY <1>3, <2>2 DEF chosen
    <3>2. form = DrawnForm(shell) /\ LauncherShown
      BY <1>3, <3>1 DEF FormSound, SettledSound
    <3>3. form.auth = "client_passthrough"
      BY DEF DraftTokens
    <3> QED
      BY <1>3, <3>2, <3>3, SummaryFacts DEF DrawnForm, LauncherShown, Typed, Shells
  <2>6. SoundAsking(y, native', bridge', LauncherShown')
    BY <1>1, <2>1, <2>2, <2>4, <2>5 DEF SoundAsking
  <2>7. AskingsSound' /\ ~NoneOutstanding' /\ \A u \in Callers : u # t => asked'[u] = [asked[u] EXCEPT !.alone = FALSE]
    BY <1>1, <2>1, <2>3, <2>6, CallBegins DEF y
  <2>8. MovingSound'
    BY <1>1, <2>7, StartStill
  <2>9. shell' \in Shells /\ form' \in FormShapes /\ FormSound'
    <3>1. CASE toggles
      <4>1. shell' = TurningTo(on) /\ form' = DrawnForm(shell)
        BY <2>1, <3>1
      <4>2. shell' \in Shells /\ shell'.token = shell.token
        BY <1>3, <2>2, <4>1 DEF TurningTo, Typed, Shells, Transitions
      <4> QED
        BY <4>1, <4>2 DEF DrawnForm, FormShapes, FormSound
    <3>2. CASE ~toggles
      BY <1>3, <2>1, <3>2 DEF Typed, FormSound
    <3> QED
      BY <3>1, <3>2
  <2>10. Typed' /\ SettledSound'
    BY <1>1, <1>3, <2>1, <2>7, <2>9 DEF Typed, SettledSound
  <2> QED
    BY <2>7, <2>8, <2>9, <2>10 DEF ShellInv
<1> QED
  BY <1>4, <1>5

LEMMA RestartStartKeeps == ASSUME ShellInv, NEW t \in Callers, RestartShell(t) PROVE ShellInv'
<1>1. asked[t].kind = "none" /\ UNCHANGED <<native, bridge, settled>> /\ ShowsAnew(shell) /\ locked' = TRUE
  BY DEF RestartShell, Outstanding
<1> DEFINE x == [NotAsking EXCEPT !.kind = "restart", !.step = "sent", !.pass = "first"]
           y == [x EXCEPT !.alone = NoneOutstanding]
<1>2. x \in Askings /\ x.kind = "restart" /\ x.step = "sent" /\ x.pass = "first" /\ x.token = "keep" /\ BeginsAsking(t, x)
  BY DEF NotAsking, Askings, RestartShell
<1> HIDE DEF x
<1>3. NoneOutstanding \in BOOLEAN
  BY DEF NoneOutstanding
<1>4. y \in Askings /\ y.kind = "restart" /\ y.step = "sent" /\ y.pass = "first" /\ y.token = "keep"
  BY <1>2, <1>3 DEF Askings
<1> HIDE DEF y
<1>5. SoundAsking(y, native', bridge', LauncherShown')
  BY <1>4 DEF SoundAsking
<1>6. AskingsSound' /\ ~NoneOutstanding' /\ \A u \in Callers : u # t => asked'[u] = [asked[u] EXCEPT !.alone = FALSE]
  BY <1>1, <1>2, <1>5, CallBegins DEF y
<1>7. MovingSound'
  BY <1>1, <1>6, StartStill
<1>8. shell' \in Shells /\ form' \in FormShapes /\ FormSound'
  BY <1>1, DrawnIsSound DEF ShellInv, Typed
<1>9. Typed' /\ SettledSound'
  BY <1>1, <1>6, <1>8 DEF ShellInv, Typed, SettledSound
<1> QED
  BY <1>6, <1>7, <1>8, <1>9 DEF ShellInv

-----------------------------------------------------------------------------
(* The launcher *)

\* A call changes nothing but its own record and the launcher.
LEMMA ServedKeeps ==
  ASSUME ShellInv, NEW t \in Callers, asked[t].kind # "none", NEW x, asked' = [asked EXCEPT ![t] = x],
         x.kind = asked[t].kind, x.alone = asked[t].alone, native' \in Natives,
         SoundAsking(x, native', bridge', LauncherShown'), UNCHANGED <<bridge, shell, form, locked, settled>>,
         native'.moving # "none" => \/ native'.stuck \/ MovesFor(x)
                                    \/ \E u \in Callers : u # t /\ MovesFor(asked[u])
  PROVE  ShellInv'
<1>1. AskingsSound' /\ ~NoneOutstanding' /\ asked'[t] = x /\ (\A u \in Callers : u # t => asked'[u] = asked[u])
  BY CallGoesOn
<1>2. MovingSound'
  BY <1>1 DEF MovingSound
<1>3. Typed' /\ SettledSound' /\ FormSound'
  BY <1>1 DEF ShellInv, Typed, SettledSound, FormSound
<1> QED
  BY <1>1, <1>2, <1>3 DEF ShellInv

\* A transition that is over is nobody's, and no longer stuck.
LEMMA OverIsStill ==
  ASSUME native \in Natives, NEW announced \in BOOLEAN, NEW up \in BOOLEAN, native' = TransitionOver(announced, up)
  PROVE  /\ native' \in Natives
         /\ native'.moving # "none" => ~announced /\ native' = native
BY DEF TransitionOver, NotMoving, Natives

LEMMA ConfigureBeginsKeeps == ASSUME ShellInv, NEW t \in Callers, ConfigureBegins(t) PROVE ShellInv'
<1>1. asked[t].kind = "configure" /\ asked[t].step = "sent" /\ UNCHANGED <<bridge, shell, form, locked, settled>>
  BY DEF ConfigureBegins
<1>2. asked \in [Callers -> Askings] /\ asked[t] \in Askings /\ SoundAsking(asked[t], native, bridge, LauncherShown)
  BY InFlightFacts
<1>3. native \in Natives /\ (native.moving # "none" => native.stuck \/ \E u \in Callers : MovesFor(asked[u]))
  BY DEF ShellInv, Typed, MovingSound
<1>4. ~MovesFor(asked[t])
  BY <1>1 DEF MovesFor
<1>5. (asked[t].want # native.enabled) \in BOOLEAN /\ Announced(t) \in {"none"} \cup Transitions
      /\ (asked[t].want = native.enabled => Announced(t) = native.moving)
  BY <1>2, <1>3 DEF Announced, Askings, Natives, Transitions
<1>6. CASE /\ asked' = [asked EXCEPT ![t] = Consumed(@, "answered"), ![t].reply = NoAnswer]
           /\ \/ native' = [native EXCEPT !.moving = Announced(t), !.stuck = TRUE]
              \/ native' = TransitionOver(asked[t].want # native.enabled, FALSE)
  <2> DEFINE x == [Consumed(asked[t], "answered") EXCEPT !.reply = NoAnswer]
  <2>1. asked' = [asked EXCEPT ![t] = x]
    BY <1>2, <1>6
  <2>2. /\ x \in Askings /\ x.kind = "configure" /\ x.step = "answered" /\ x.pass = asked[t].pass /\ x.reply = NoAnswer
        /\ x.alone = asked[t].alone
    BY <1>1, <1>2 DEF Consumed, Askings
  <2> HIDE DEF x
  <2>3. SoundAsking(x, native', bridge', LauncherShown')
    BY <1>1, <1>2, <2>2, ReplyFacts DEF SoundAsking
  <2>4. native' \in Natives /\ (native'.moving # "none" => native'.stuck \/ \E u \in Callers : u # t /\ MovesFor(asked[u]))
    <3>1. CASE native' = [native EXCEPT !.moving = Announced(t), !.stuck = TRUE]
      BY <1>3, <1>5, <3>1 DEF Natives
    <3>2. CASE native' = TransitionOver(asked[t].want # native.enabled, FALSE)
      BY <1>3, <1>4, <1>5, <3>2, OverIsStill
    <3> QED
      BY <1>6, <3>1, <3>2
  <2> QED
    BY <1>1, <2>1, <2>2, <2>3, <2>4, ServedKeeps
<1>7. CASE /\ native' = [native EXCEPT
                !.moving = Announced(t), !.enabled = asked[t].want,
                !.token = IF asked[t].token = "keep" THEN @ ELSE asked[t].token = "set"]
           /\ asked' = [asked EXCEPT ![t] = Consumed(@, "serving"), ![t].want = asked[t].want # native.enabled]
  <2> DEFINE x == [Consumed(asked[t], "serving") EXCEPT !.want = (asked[t].want # native.enabled)]
  <2>1. asked' = [asked EXCEPT ![t] = x]
    BY <1>2, <1>7
  <2>2. /\ x \in Askings /\ x.kind = "configure" /\ x.step = "serving" /\ x.pass = asked[t].pass
        /\ x.alone = asked[t].alone /\ x.want = (asked[t].want # native.enabled)
    BY <1>1, <1>2 DEF Consumed, Askings
  <2> HIDE DEF x
  <2>3. SoundAsking(x, native', bridge', LauncherShown')
    BY <1>1, <1>2, <2>2 DEF SoundAsking
  <2>4. native' \in Natives /\ native'.stuck = native.stuck
        /\ (asked[t].want = native.enabled => native'.moving = native.moving)
    BY <1>2, <1>3, <1>5, <1>7 DEF Natives, Askings
  <2>5. native'.moving # "none" => native'.stuck \/ MovesFor(x) \/ \E u \in Callers : u # t /\ MovesFor(asked[u])
    BY <1>3, <1>4, <2>2, <2>4 DEF MovesFor
  <2> QED
    BY <1>1, <2>1, <2>2, <2>3, <2>4, <2>5, ServedKeeps
<1> QED
  BY <1>6, <1>7 DEF ConfigureBegins

LEMMA ConfigureEndsKeeps == ASSUME ShellInv, NEW t \in Callers, ConfigureEnds(t) PROVE ShellInv'
<1>1. asked[t].kind = "configure" /\ asked[t].step = "serving" /\ UNCHANGED <<bridge, shell, form, locked, settled>>
  BY DEF ConfigureEnds
<1>2. asked \in [Callers -> Askings] /\ asked[t] \in Askings /\ SoundAsking(asked[t], native, bridge, LauncherShown)
  BY InFlightFacts
<1>3. native \in Natives /\ (native.moving # "none" => native.stuck \/ \E u \in Callers : MovesFor(asked[u]))
  BY DEF ShellInv, Typed, MovingSound
<1>4. PICK up \in BOOLEAN :
        /\ native' = TransitionOver(asked[t].want, up)
        /\ asked' = [asked EXCEPT ![t].step = "answered", ![t].reply = IF up THEN Summary' ELSE NoAnswer, ![t].want = FALSE]
  BY DEF ConfigureEnds
<1>5. native' \in Natives /\ (native'.moving # "none" => native' = native /\ ~asked[t].want)
  BY <1>2, <1>3, <1>4, OverIsStill DEF Askings
<1> DEFINE reply == IF up THEN Summary' ELSE NoAnswer
           x == [asked[t] EXCEPT !.step = "answered", !.reply = reply, !.want = FALSE]
<1>6. reply \in Summaries \cup {NoReply, NoAnswer} /\ reply # NoReply
  <2>1. Summary' \in Summaries
    BY <1>5 DEF Natives, Summaries, Summary, Transitions
  <2> QED
    BY <2>1, ReplyFacts
<1>7. asked' = [asked EXCEPT ![t] = x]
  BY <1>2, <1>4
<1> HIDE DEF reply
<1>8. /\ x \in Askings /\ x.kind = "configure" /\ x.step = "answered" /\ x.pass = asked[t].pass /\ x.reply = reply
      /\ x.alone = asked[t].alone
  BY <1>1, <1>2, <1>6 DEF Askings
<1> HIDE DEF x
<1>9. SoundAsking(x, native', bridge', LauncherShown')
  BY <1>1, <1>2, <1>6, <1>8 DEF SoundAsking
<1>10. native'.moving # "none" => native'.stuck \/ \E u \in Callers : u # t /\ MovesFor(asked[u])
  BY <1>3, <1>5 DEF MovesFor
<1> QED
  BY <1>1, <1>5, <1>7, <1>8, <1>9, <1>10, ServedKeeps

LEMMA RestartServedKeeps == ASSUME ShellInv, NEW t \in Callers, RestartServed(t) PROVE ShellInv'
<1>1. asked[t].kind = "restart" /\ asked[t].step = "sent" /\ UNCHANGED <<native, bridge, shell, form, locked, settled>>
  BY DEF RestartServed
<1>2. asked \in [Callers -> Askings] /\ asked[t] \in Askings /\ SoundAsking(asked[t], native, bridge, LauncherShown)
  BY InFlightFacts
<1>3. native \in Natives /\ (native.moving # "none" => native.stuck \/ \E u \in Callers : MovesFor(asked[u]))
  BY DEF ShellInv, Typed, MovingSound
<1> DEFINE x == [asked[t] EXCEPT !.step = "answered"]
<1>4. /\ asked' = [asked EXCEPT ![t] = x]
      /\ x \in Askings /\ x.kind = "restart" /\ x.step = "answered" /\ x.pass = asked[t].pass /\ x.alone = asked[t].alone
  BY <1>1, <1>2 DEF RestartServed, Askings
<1> HIDE DEF x
<1>5. SoundAsking(x, native', bridge', LauncherShown')
  BY <1>1, <1>2, <1>4 DEF SoundAsking
<1>6. native'.moving # "none" => native'.stuck \/ \E u \in Callers : u # t /\ MovesFor(asked[u])
  BY <1>1, <1>3 DEF MovesFor
<1> QED
  BY <1>1, <1>3, <1>4, <1>5, <1>6, ServedKeeps

\* A summary is true of a launcher that nobody else moves.
LEMMA SummaryServedKeeps == ASSUME ShellInv, NEW t \in Callers, SummaryServed(t) PROVE ShellInv'
<1>1. asked[t].step \in {"report", "status"} /\ UNCHANGED <<native, bridge, shell, form, locked, settled>>
  BY DEF SummaryServed
<1>2. asked \in [Callers -> Askings] /\ asked[t] \in Askings /\ SoundAsking(asked[t], native, bridge, LauncherShown)
      /\ asked[t].kind # "none"
  BY <1>1, InFlightFacts
<1>3. native \in Natives /\ (native.moving # "none" => native.stuck \/ \E u \in Callers : MovesFor(asked[u])) /\ AloneIsAlone
  BY DEF ShellInv, Typed, MovingSound, AskingsSound
<1>4. PICK reply \in {Summary, NoAnswer} : asked' = [asked EXCEPT ![t].reply = reply]
  BY DEF SummaryServed
<1> DEFINE x == [asked[t] EXCEPT !.reply = reply]
<1>5. reply \in Summaries \cup {NoReply, NoAnswer}
  BY <1>3, SummaryFacts
<1>6. /\ asked' = [asked EXCEPT ![t] = x]
      /\ x \in Askings /\ x.kind = asked[t].kind /\ x.step = asked[t].step /\ x.pass = asked[t].pass /\ x.alone = asked[t].alone
      /\ x.reply = reply
  BY <1>2, <1>4, <1>5 DEF Askings
<1> HIDE DEF x
<1>7. asked[t].alone /\ reply # NoAnswer => TrueSummary(reply, native)
  BY <1>3, <1>4, SummaryFacts
<1>8. SoundAsking(x, native', bridge', LauncherShown')
  BY <1>1, <1>2, <1>6, <1>7 DEF SoundAsking
<1>9. native'.moving # "none" => native'.stuck \/ \E u \in Callers : u # t /\ MovesFor(asked[u])
  BY <1>1, <1>3 DEF MovesFor
<1> QED
  BY <1>1, <1>2, <1>3, <1>6, <1>8, <1>9, ServedKeeps

-----------------------------------------------------------------------------
(* The answers *)

\* The page draws or not, and the call goes on to another step or ends.
LEMMA AnsweredKeeps ==
  ASSUME ShellInv, NEW t \in Callers, asked[t].kind # "none", asked[t].step # "serving", UNCHANGED <<native, bridge>>,
         AskingsSound', SettledSound', settled' \in BOOLEAN, \A u \in Callers : u # t => asked'[u] = asked[u],
         shell' \in Shells, form' \in FormShapes, locked' \in BOOLEAN, FormSound'
  PROVE  ShellInv'
<1>1. MovingSound'
  BY LauncherStill DEF MovesFor
<1>2. Typed'
  BY DEF ShellInv, Typed
<1> QED
  BY <1>1, <1>2 DEF ShellInv

LEMMA SynchronizesKeeps ==
  ASSUME ShellInv, NEW t \in Callers, asked[t].kind # "none", bridge = "whole", UNCHANGED <<native, bridge>>,
         NEW pass \in {"reload", "first", "last"}, asked[t].kind = "configure" => pass = "last", Synchronizes(t, pass)
  PROVE  AskingsSound' /\ SettledSound' /\ settled' \in BOOLEAN /\ \A u \in Callers : u # t => asked'[u] = asked[u]
<1>1. asked \in [Callers -> Askings] /\ asked[t] \in Askings
  BY InFlightFacts
<1> DEFINE x == [asked[t] EXCEPT !.step = "report", !.reply = NoReply, !.pass = pass]
<1>2. /\ asked' = [asked EXCEPT ![t] = x] /\ UNCHANGED settled
      /\ x \in Askings /\ x.kind = asked[t].kind /\ x.step = "report" /\ x.pass = pass /\ x.alone = asked[t].alone
  BY <1>1 DEF Synchronizes, Askings
<1> HIDE DEF x
<1>3. SoundAsking(x, native', bridge', LauncherShown')
  BY <1>2 DEF SoundAsking
<1>4. AskingsSound' /\ ~NoneOutstanding' /\ \A u \in Callers : u # t => asked'[u] = asked[u]
  BY <1>2, <1>3, CallGoesOn
<1> QED
  BY <1>2, <1>4 DEF ShellInv, Typed, SettledSound

LEMMA LoadsKeeps ==
  ASSUME ShellInv, NEW t \in Callers, asked[t].kind \in {"refresh", "restart"}, NEW drawn \in BOOLEAN, UNCHANGED <<native, bridge>>,
         LoadsPage(t, drawn), drawn => bridge = "whole" /\ (asked[t].alone => LauncherShown')
  PROVE  AskingsSound' /\ SettledSound' /\ settled' \in BOOLEAN /\ \A u \in Callers : u # t => asked'[u] = asked[u]
<1>1. asked \in [Callers -> Askings] /\ asked[t] \in Askings
  BY InFlightFacts
<1> DEFINE x == [asked[t] EXCEPT !.step = "loading", !.pass = "reload", !.reply = IF drawn THEN asked[t].reply ELSE NoAnswer]
<1>2. /\ asked' = [asked EXCEPT ![t] = x] /\ UNCHANGED settled
      /\ x \in Askings /\ x.kind = asked[t].kind /\ x.step = "loading" /\ x.pass = "reload" /\ x.alone = asked[t].alone
      /\ (~drawn => x.reply = NoAnswer)
  BY <1>1 DEF LoadsPage, Askings
<1> HIDE DEF x
<1>3. SoundAsking(x, native', bridge', LauncherShown')
  BY <1>2 DEF SoundAsking
<1>4. AskingsSound' /\ ~NoneOutstanding' /\ \A u \in Callers : u # t => asked'[u] = asked[u]
  BY <1>2, <1>3, CallGoesOn
<1> QED
  BY <1>2, <1>4 DEF ShellInv, Typed, SettledSound

\* After a synchronization the call ends, loads the page or synchronizes again.
LEMMA ContinuesKeeps ==
  ASSUME ShellInv, NEW t \in Callers, asked[t].kind # "none", bridge = "whole", NEW drawn \in BOOLEAN,
         UNCHANGED <<native, bridge>>, Continues(t, drawn), asked[t].alone /\ drawn => LauncherShown'
  PROVE  AskingsSound' /\ SettledSound' /\ settled' \in BOOLEAN /\ \A u \in Callers : u # t => asked'[u] = asked[u]
<1>1. asked[t] \in Askings /\ SoundAsking(asked[t], native, bridge, LauncherShown)
  BY InFlightFacts
<1>2. asked[t].pass \in {"reload", "first", "last"} /\ (asked[t].kind = "configure" => asked[t].pass = "last")
  BY <1>1 DEF SoundAsking, Askings
<1>3. CASE EndsHere(t, drawn)
  <2>1. EndsAsking(t, drawn)
    BY <1>2, <1>3 DEF Continues, EndsHere
  <2> QED
    BY <2>1, CallEnds
<1>4. CASE asked[t].pass = "first" /\ ~EndsHere(t, drawn)
  <2>1. Synchronizes(t, IF drawn THEN "reload" ELSE "last")
    BY <1>4 DEF Continues
  <2>2. CASE drawn
    BY <1>2, <1>4, <2>1, <2>2, SynchronizesKeeps
  <2>3. CASE ~drawn
    BY <1>2, <1>4, <2>1, <2>3, SynchronizesKeeps
  <2> QED
    BY <2>2, <2>3
<1>5. CASE asked[t].pass = "reload"
  <2>1. LoadsPage(t, drawn)
    BY <1>5 DEF Continues, EndsHere
  <2>2. asked[t].kind \in {"refresh", "restart"}
    BY <1>1, <1>2, <1>5 DEF Askings
  <2> QED
    BY <2>1, <2>2, LoadsKeeps
<1>6. CASE asked[t].pass = "last"
  BY <1>3, <1>6 DEF EndsHere
<1> QED
  BY <1>2, <1>3, <1>4, <1>5, <1>6

LEMMA ConfigureAnsweredKeeps == ASSUME ShellInv, NEW t \in Callers, ConfigureAnswered(t) PROVE ShellInv'
<1>1. asked[t].kind = "configure" /\ asked[t].step = "answered" /\ UNCHANGED <<native, bridge>>
  BY DEF ConfigureAnswered
<1>2. asked[t] \in Askings /\ SoundAsking(asked[t], native, bridge, LauncherShown) /\ Typed /\ FormSound
  BY InFlightFacts DEF ShellInv
<1>3. bridge = "whole" /\ asked[t].reply # NoReply /\ asked[t].pass = "last"
  BY <1>1, <1>2 DEF SoundAsking
<1>4. CASE asked[t].reply = NoAnswer
  <2>1. Synchronizes(t, "last") /\ KeepsDrawn
    BY <1>4 DEF ConfigureAnswered
  <2>2. AskingsSound' /\ SettledSound' /\ settled' \in BOOLEAN /\ \A u \in Callers : u # t => asked'[u] = asked[u]
    BY <1>1, <1>3, <2>1, SynchronizesKeeps
  <2>3. shell' \in Shells /\ form' \in FormShapes /\ locked' \in BOOLEAN /\ FormSound'
    BY <1>2, <2>1 DEF KeepsDrawn, Typed, FormSound
  <2> QED
    BY <1>1, <2>2, <2>3, AnsweredKeeps
<1>5. CASE asked[t].reply # NoAnswer
  <2>1. asked[t].reply \in Summaries /\ ShowsAnew(asked[t].reply)
    BY <1>2, <1>3, <1>5 DEF ConfigureAnswered, Askings
  <2>2. shell' \in Shells /\ form' \in FormShapes /\ FormSound'
    BY <2>1, DrawnIsSound, SummaryIsShell
  <2>3. CASE ReloadRuns
    <3>1. EndsAsking(t, TRUE) /\ locked' = FALSE
      BY <1>5, <2>3 DEF ConfigureAnswered
    <3>2. ~asked[t].alone
      <4>1. PICK u \in Callers : asked[u].pass = "reload"
        BY <2>3 DEF ReloadRuns
      <4>2. u # t /\ asked[u].kind # "none"
        BY <1>3, <4>1 DEF ShellInv, AskingsSound, SoundAsking
      <4> QED
        BY <4>2 DEF ShellInv, AskingsSound, AloneIsAlone
    <3>3. AskingsSound' /\ SettledSound' /\ settled' \in BOOLEAN /\ \A u \in Callers : u # t => asked'[u] = asked[u]
      BY <1>1, <3>1, <3>2, CallEnds
    <3> QED
      BY <1>1, <2>2, <3>1, <3>3, AnsweredKeeps
  <2>4. CASE ~ReloadRuns
    <3>1. Synchronizes(t, "last") /\ locked' \in BOOLEAN
      BY <1>5, <2>4 DEF ConfigureAnswered
    <3>2. AskingsSound' /\ SettledSound' /\ settled' \in BOOLEAN /\ \A u \in Callers : u # t => asked'[u] = asked[u]
      BY <1>1, <1>3, <3>1, SynchronizesKeeps
    <3> QED
      BY <1>1, <2>2, <3>1, <3>2, AnsweredKeeps
  <2> QED
    BY <2>3, <2>4
<1> QED
  BY <1>4, <1>5

LEMMA RestartAnsweredKeeps == ASSUME ShellInv, NEW t \in Callers, RestartAnswered(t) PROVE ShellInv'
<1>1. asked[t].kind = "restart" /\ asked[t].step = "answered" /\ UNCHANGED <<native, bridge>>
  BY DEF RestartAnswered
<1>2. Typed /\ FormSound
  BY DEF ShellInv
<1>3. CASE bridge = "whole"
  <2>1. Synchronizes(t, "first") /\ KeepsDrawn
    BY <1>3 DEF RestartAnswered
  <2>2. AskingsSound' /\ SettledSound' /\ settled' \in BOOLEAN /\ \A u \in Callers : u # t => asked'[u] = asked[u]
    BY <1>1, <1>3, <2>1, SynchronizesKeeps
  <2>3. shell' \in Shells /\ form' \in FormShapes /\ locked' \in BOOLEAN /\ FormSound'
    BY <1>2, <2>1 DEF KeepsDrawn, Typed, FormSound
  <2> QED
    BY <1>1, <2>2, <2>3, AnsweredKeeps
<1>4. CASE bridge # "whole" /\ ReloadRuns
  <2>1. EndsAsking(t, FALSE) /\ ShowsAnew([shell EXCEPT !.status = "degraded"]) /\ locked' = FALSE
    BY <1>4 DEF RestartAnswered
  <2>2. [shell EXCEPT !.status = "degraded"] \in Shells
    BY <1>2 DEF Typed, Shells
  <2>3. shell' \in Shells /\ form' \in FormShapes /\ FormSound'
    BY <2>1, <2>2, DrawnIsSound
  <2>4. AskingsSound' /\ SettledSound' /\ settled' \in BOOLEAN /\ \A u \in Callers : u # t => asked'[u] = asked[u]
    BY <1>1, <2>1, CallEnds
  <2> QED
    BY <1>1, <2>1, <2>3, <2>4, AnsweredKeeps
<1>5. CASE bridge # "whole" /\ ~ReloadRuns
  <2>1. LoadsPage(t, FALSE) /\ DrawsBroken
    BY <1>5 DEF RestartAnswered
  <2>2. AskingsSound' /\ SettledSound' /\ settled' \in BOOLEAN /\ \A u \in Callers : u # t => asked'[u] = asked[u]
    BY <1>1, <2>1, LoadsKeeps
  <2>3. shell' \in Shells /\ form' \in FormShapes /\ locked' \in BOOLEAN /\ FormSound'
    BY <2>1, BrokenIsSound
  <2> QED
    BY <1>1, <2>2, <2>3, AnsweredKeeps
<1> QED
  BY <1>3, <1>4, <1>5

LEMMA ReportAnsweredKeeps == ASSUME ShellInv, NEW t \in Callers, ReportAnswered(t) PROVE ShellInv'
<1>1. asked[t].step = "report" /\ asked[t].reply # NoReply /\ UNCHANGED <<native, bridge>>
  BY DEF ReportAnswered
<1>2. asked \in [Callers -> Askings] /\ asked[t] \in Askings /\ SoundAsking(asked[t], native, bridge, LauncherShown)
      /\ asked[t].kind # "none" /\ Typed /\ FormSound
  BY <1>1, InFlightFacts DEF ShellInv
<1>3. bridge = "whole"
  BY <1>1, <1>2 DEF SoundAsking
<1>4. CASE asked[t].reply = NoAnswer
  <2>1. Continues(t, FALSE) /\ UNCHANGED <<shell, form>> /\ locked' \in BOOLEAN
    BY <1>2, <1>4 DEF ReportAnswered, Typed
  <2>2. AskingsSound' /\ SettledSound' /\ settled' \in BOOLEAN /\ \A u \in Callers : u # t => asked'[u] = asked[u]
    BY <1>1, <1>2, <1>3, <2>1, ContinuesKeeps
  <2>3. shell' \in Shells /\ form' \in FormShapes /\ FormSound'
    BY <1>2, <2>1 DEF Typed, FormSound
  <2> QED
    BY <1>1, <1>2, <2>1, <2>2, <2>3, AnsweredKeeps
<1>5. CASE asked[t].reply # NoAnswer
  <2> DEFINE x == [asked[t] EXCEPT !.step = "status", !.reply = NoReply]
  <2>1. /\ asked' = [asked EXCEPT ![t] = x] /\ UNCHANGED settled /\ DrawsStrip(asked[t].reply)
        /\ x \in Askings /\ x.kind = asked[t].kind /\ x.step = "status" /\ x.pass = asked[t].pass /\ x.alone = asked[t].alone
        /\ x.reply = NoReply
    BY <1>2, <1>5 DEF ReportAnswered, Askings
  <2> HIDE DEF x
  <2>2. SoundAsking(x, native', bridge', LauncherShown')
    BY <1>1, <1>2, <1>3, <2>1 DEF SoundAsking
  <2>3. AskingsSound' /\ ~NoneOutstanding' /\ \A u \in Callers : u # t => asked'[u] = asked[u]
    BY <1>1, <1>2, <2>1, <2>2, CallGoesOn
  <2>4. SettledSound' /\ settled' \in BOOLEAN
    BY <1>1, <1>2, <2>1, <2>3 DEF ShellInv, SettledSound, Typed
  <2>5. asked[t].reply \in Summaries
    BY <1>1, <1>2, <1>5 DEF Askings
  <2>6. shell' \in Shells /\ form' \in FormShapes /\ FormSound' /\ locked' \in BOOLEAN
    BY <2>1, <2>5, DrawnIsSound, SummaryIsShell DEF DrawsStrip
  <2> QED
    BY <1>1, <1>2, <2>3, <2>4, <2>6, AnsweredKeeps
<1> QED
  BY <1>4, <1>5

\* The strip of a call that no other has crossed shows the launcher, its controls free.
LEMMA StatusAnsweredKeeps == ASSUME ShellInv, NEW t \in Callers, StatusAnswered(t) PROVE ShellInv'
<1> DEFINE drawn == asked[t].reply # NoAnswer
<1>1. asked[t].step = "status" /\ asked[t].reply # NoReply /\ UNCHANGED <<native, bridge>> /\ Continues(t, drawn)
      /\ (IF drawn THEN ShowsAnew(asked[t].reply) ELSE UNCHANGED <<shell, form>>)
      /\ locked' = (~EndsHere(t, drawn) /\ IF drawn THEN asked[t].reply.status \in Transitions ELSE locked)
  BY DEF StatusAnswered
<1>2. asked[t] \in Askings /\ SoundAsking(asked[t], native, bridge, LauncherShown)
      /\ asked[t].kind # "none" /\ Typed /\ FormSound
  BY <1>1, InFlightFacts DEF ShellInv
<1>3. bridge = "whole" /\ (drawn => asked[t].reply \in Summaries) /\ drawn \in BOOLEAN
  BY <1>1, <1>2 DEF SoundAsking, Askings
<1>4. locked' \in BOOLEAN
  BY <1>1, <1>2 DEF Typed
<1>5. shell' \in Shells /\ form' \in FormShapes /\ FormSound'
  <2>1. CASE drawn
    BY <1>1, <1>3, <2>1, DrawnIsSound, SummaryIsShell
  <2>2. CASE ~drawn
    BY <1>1, <1>2, <2>2 DEF Typed, FormSound
  <2> QED
    BY <2>1, <2>2
<1>6. asked[t].alone /\ drawn => LauncherShown'
  <2> SUFFICES ASSUME asked[t].alone, drawn PROVE LauncherShown'
    OBVIOUS
  <2>1. TrueSummary(asked[t].reply, native) /\ shell' = asked[t].reply
    BY <1>1, <1>2 DEF SoundAsking, ShowsAnew
  <2>2. native \in Natives /\ Summary = asked[t].reply /\ Summary' = Summary
    BY <1>1, <1>2, <2>1 DEF TrueSummary, Summary, Typed
  <2>3. ~native.stuck => native.moving = "none"
    BY <1>1, <1>2, AloneIsStill
  <2>4. ~native.stuck => ~locked'
    BY <1>1, <2>2, <2>3, SummaryFacts
  <2> QED
    BY <1>1, <2>1, <2>2, <2>4 DEF LauncherShown
<1> HIDE DEF drawn
<1>7. AskingsSound' /\ SettledSound' /\ settled' \in BOOLEAN /\ \A u \in Callers : u # t => asked'[u] = asked[u]
  BY <1>1, <1>2, <1>3, <1>6, ContinuesKeeps
<1> QED
  BY <1>1, <1>2, <1>4, <1>5, <1>7, AnsweredKeeps

LEMMA RefreshEndsKeeps == ASSUME ShellInv, NEW t \in Callers, RefreshEnds(t) PROVE ShellInv'
<1> DEFINE drawn == asked[t].reply # NoAnswer
<1>1. asked[t].step = "loading" /\ UNCHANGED <<native, bridge, shell, form>> /\ EndsAsking(t, drawn)
      /\ (locked' = FALSE \/ UNCHANGED locked)
  BY DEF RefreshEnds
<1>2. asked[t] \in Askings /\ SoundAsking(asked[t], native, bridge, LauncherShown)
      /\ asked[t].kind # "none" /\ Typed /\ FormSound
  BY <1>1, InFlightFacts DEF ShellInv
<1>3. asked[t].alone /\ drawn => LauncherShown' /\ bridge = "whole"
  BY <1>1, <1>2 DEF SoundAsking, LauncherShown, Summary
<1>4. AskingsSound' /\ SettledSound' /\ settled' \in BOOLEAN /\ \A u \in Callers : u # t => asked'[u] = asked[u]
  BY <1>1, <1>2, <1>3, CallEnds
<1>5. shell' \in Shells /\ form' \in FormShapes /\ locked' \in BOOLEAN /\ FormSound'
  BY <1>1, <1>2 DEF Typed, FormSound
<1> QED
  BY <1>1, <1>2, <1>4, <1>5, AnsweredKeeps

LEMMA NextShell == ShellInv /\ [ShellNext]_shellVars => ShellInv'
<1> SUFFICES ASSUME ShellInv, [ShellNext]_shellVars PROVE ShellInv'
  OBVIOUS
<1>1. CASE UNCHANGED shellVars
  BY <1>1 DEF shellVars, ShellInv, Typed, AskingsSound, AloneIsAlone, MovingSound, SettledSound, NoneOutstanding, Outstanding,
              LauncherShown, Summary, FormSound
<1>2. CASE PickAuth
  BY <1>2, PickKeeps
<1>3. ASSUME NEW t \in Callers, RefreshShell(t) \/ ConfigureShell(t) \/ RestartShell(t) PROVE ShellInv'
  BY <1>3, RefreshStartKeeps, ConfigureStartKeeps, RestartStartKeeps
<1>4. ASSUME NEW t \in Callers, ConfigureBegins(t) \/ ConfigureEnds(t) \/ RestartServed(t) \/ SummaryServed(t) PROVE ShellInv'
  BY <1>4, ConfigureBeginsKeeps, ConfigureEndsKeeps, RestartServedKeeps, SummaryServedKeeps
<1>5. ASSUME NEW t \in Callers,
             ConfigureAnswered(t) \/ RestartAnswered(t) \/ ReportAnswered(t) \/ StatusAnswered(t) \/ RefreshEnds(t)
      PROVE  ShellInv'
  BY <1>5, ConfigureAnsweredKeeps, RestartAnsweredKeeps, ReportAnsweredKeeps, StatusAnsweredKeeps, RefreshEndsKeeps
<1> QED
  BY <1>1, <1>2, <1>3, <1>4, <1>5 DEF ShellNext

LEMMA ShellInvariant == ShellSpec => []ShellInv
BY InitShell, NextShell, PTL DEF ShellSpec

-----------------------------------------------------------------------------
(* The theorems *)

\* The launcher, the strip, its form and the calls in flight stay well typed.
THEOREM ShellIsWellFormed == ShellSpec => []ShellTypeOK
<1>1. ShellInv => ShellTypeOK
  BY DEF ShellInv, Typed, AskingsSound, ShellTypeOK, Natives, Shells, FormShapes, Askings
<1> QED
  BY ShellInvariant, <1>1, PTL

\* A strip at rest shows the launcher, for any number of calls that have crossed before.
THEOREM QuietStripIsTrue == ShellSpec => []QuietShellIsLaunchers
<1>1. ShellInv => QuietShellIsLaunchers
  <2> SUFFICES ASSUME ShellInv, NoneOutstanding, settled
               PROVE  shell = Summary /\ (~native.stuck => ~locked /\ shell.enabled = native.enabled)
    BY DEF QuietShellIsLaunchers
  <2>1. native \in Natives /\ LauncherShown
    BY DEF ShellInv, Typed, SettledSound
  <2>2. \A t \in Callers : ~MovesFor(asked[t])
    BY DEF NoneOutstanding, Outstanding, MovesFor
  <2>3. ~native.stuck => native.moving = "none"
    BY <2>2 DEF ShellInv, MovingSound
  <2> QED
    BY <2>1, <2>3, SummaryFacts DEF LauncherShown
<1> QED
  BY ShellInvariant, <1>1, PTL

\* The saved token is cleared by nobody who saw it and did not choose so.
THEOREM TokensAreClearedByChoice == ShellSpec => TokenClearedByChoice
<1> DEFINE chosen == \E t \in Callers : asked[t].step = "sent" /\ asked[t].token = "clear" /\ (asked[t].chosen \/ ~asked[t].alone)
<1>1. ShellInv /\ [ShellNext]_shellVars => [native.token /\ ~native'.token => chosen]_native
  <2> SUFFICES ASSUME ShellInv, [ShellNext]_shellVars, native.token, ~native'.token PROVE chosen
    OBVIOUS
  <2>1. native \in Natives /\ native' # native
    BY DEF ShellInv, Typed
  <2>2. PICK t \in Callers : ConfigureBegins(t) \/ ConfigureEnds(t)
    BY <2>1 DEF shellVars, ShellNext, PickAuth, RefreshShell, ConfigureShell, RestartShell, RestartServed, SummaryServed,
                ConfigureAnswered, RestartAnswered, ReportAnswered, StatusAnswered, RefreshEnds
  <2>3. CASE ConfigureEnds(t)
    BY <2>1, <2>3 DEF ConfigureEnds, TransitionOver, NotMoving, Natives
  <2>4. CASE ConfigureBegins(t)
    <3>1. asked[t].step = "sent" /\ asked[t].token = "clear"
      BY <2>1, <2>4, InFlightFacts DEF ConfigureBegins, TransitionOver, NotMoving, Natives, Askings
    <3>2. asked[t].chosen \/ ~asked[t].alone
      BY <3>1, InFlightFacts DEF SoundAsking
    <3> QED
      BY <3>1, <3>2
  <2> QED
    BY <2>2, <2>3, <2>4
<1>2. ShellSpec => [][native.token /\ ~native'.token => chosen]_native
  BY <1>1, ShellInvariant, PTL DEF ShellSpec
<1> QED
  BY <1>2 DEF TokenClearedByChoice

(***************************************************************************)
(* Proofs about HomeQueue, for every number of requests.                   *)
(*                                                                         *)
(* The queue is cut three times: to the first of the reviews, of the       *)
(* incidents, and of them all.  FirstOnes says what a cut keeps: one who is*)
(* left out has as many before it as are kept, and all of these are before *)
(* it.  The receipt of a decision is drawn from what the page has seen, and*)
(* a decision that was seen stands.                                        *)
(***************************************************************************)

(* The home: what an order takes first *)

\* An order on a finite set, by what comes before each: the first n are all before one that
\* is not of them, and they are n.  The rank of an element is the number of those before it;
\* no two have the same rank, so that those before the element take all the lower ranks.
IsBefore(P, S) ==
  /\ P \in [S -> SUBSET S]
  /\ \A x \in S : x \notin P[x]
  /\ \A x, y \in S : y \in P[x] => P[y] \subseteq P[x]
  /\ \A x, y \in S : x = y \/ x \in P[y] \/ y \in P[x]

LEMMA RankGrows ==
  ASSUME NEW S, IsFiniteSet(S), NEW P, IsBefore(P, S), NEW x \in S, NEW y \in P[x]
  PROVE  y \in S /\ Cardinality(P[y]) \in Nat /\ Cardinality(P[x]) \in Nat /\ Cardinality(P[y]) < Cardinality(P[x])
<1>1. y \in S /\ P[x] \in SUBSET S /\ P[y] \in SUBSET P[x] /\ y \notin P[y]
  BY DEF IsBefore
<1>2. IsFiniteSet(P[x])
  BY <1>1, FS_Subset
<1>3. IsFiniteSet(P[y]) /\ Cardinality(P[y]) <= Cardinality(P[x]) /\ (Cardinality(P[x]) = Cardinality(P[y]) => P[x] = P[y])
  BY <1>1, <1>2, FS_Subset
<1>4. Cardinality(P[x]) \in Nat /\ Cardinality(P[y]) \in Nat
  BY <1>2, <1>3, FS_CardinalityType
<1> QED
  BY <1>1, <1>3, <1>4

LEMMA FirstOnes ==
  ASSUME NEW S, IsFiniteSet(S), NEW n \in Nat, NEW P, IsBefore(P, S), NEW x \in S, ~(Cardinality(P[x]) < n),
         NEW First, First = {y \in S : Cardinality(P[y]) < n}
  PROVE  IsFiniteSet(First) /\ Cardinality(First) = n /\ First \subseteq P[x]
<1> DEFINE Rank == [y \in S |-> Cardinality(P[y])]
<1>1. ASSUME NEW y \in S PROVE P[y] \in SUBSET S /\ IsFiniteSet(P[y]) /\ Rank[y] \in Nat
  <2>1. P[y] \in SUBSET S
    BY DEF IsBefore
  <2>2. IsFiniteSet(P[y])
    BY <2>1, FS_Subset
  <2> QED
    BY <2>1, <2>2, FS_CardinalityType
<1>2. ASSUME NEW y \in S, NEW z \in P[y] PROVE z \in S /\ Rank[z] < Rank[y]
  BY RankGrows
<1>3. ASSUME NEW y \in S, NEW z \in S PROVE y = z \/ y \in P[z] \/ z \in P[y]
  BY DEF IsBefore
<1>4. Rank[x] >= n /\ First = {y \in S : Rank[y] < n} /\ \A y \in S : Rank[y] = Cardinality(P[y])
  BY <1>1
<1> HIDE DEF Rank
<1>5. ASSUME NEW y \in S, NEW z \in S, Rank[y] = Rank[z] PROVE y = z
  BY <1>1, <1>2, <1>3, <1>5
<1>6. First \subseteq P[x]
  <2>1. SUFFICES ASSUME NEW y \in First PROVE y \in P[x]
    OBVIOUS
  <2>2. y \in S /\ Rank[y] < n /\ Rank[y] \in Nat /\ Rank[x] \in Nat
    BY <1>1, <1>4
  <2>3. y # x /\ x \notin P[y]
    BY <1>2, <1>4, <2>2
  <2> QED
    BY <1>3, <2>2, <2>3
<1>7. ASSUME NEW i \in 0 .. (n - 1) PROVE \E y \in P[x] : Rank[y] = i
  <2> DEFINE R == [y \in P[x] |-> Rank[y]]
             K == 0 .. (Rank[x] - 1)
  <2>1. R \in Injection(P[x], K)
    <3>1. \A y \in P[x] : y \in S /\ Rank[y] \in K
      BY <1>1, <1>2
    <3> QED
      BY <1>5, <3>1 DEF Injection, IsInjective
  <2>2. IsFiniteSet(K) /\ Cardinality(K) = Rank[x]
    <3>1. Rank[x] \in Nat /\ Rank[x] - 1 \in Int /\ 0 \in Int
      BY <1>1
    <3>2. IsFiniteSet(K) /\ Cardinality(K) = IF 0 > Rank[x] - 1 THEN 0 ELSE (Rank[x] - 1) - 0 + 1
      BY <3>1, FS_Interval, Zenon
    <3> HIDE DEF K
    <3> QED
      BY <3>1, <3>2
  <2>3. Cardinality(P[x]) = Cardinality(K)
    BY <1>4, <2>2
  <2> HIDE DEF R, K
  <2>4. R \in Surjection(P[x], K)
    BY <2>1, <2>2, <2>3, FS_Injection
  <2>5. i \in K
    BY <1>1, <1>4 DEF K
  <2> QED
    BY <2>4, <2>5 DEF Surjection, R
<1>8. IsFiniteSet(First)
  BY <1>1, <1>6, FS_Subset
<1>9. Cardinality(First) = n
  <2> DEFINE R == [y \in First |-> Rank[y]]
             K == 0 .. (n - 1)
  <2>1. \A y \in First : y \in S /\ Rank[y] \in K
    BY <1>1, <1>4
  <2>2. R \in Injection(First, K)
    BY <1>5, <2>1 DEF Injection, IsInjective
  <2>3. \A i \in K : \E y \in First : Rank[y] = i
    <3>1. SUFFICES ASSUME NEW i \in K PROVE \E y \in First : Rank[y] = i
      OBVIOUS
    <3>2. PICK y \in P[x] : Rank[y] = i
      BY <1>7
    <3> QED
      BY <1>1, <1>4, <3>2
  <2>4. R \in Surjection(First, K)
    BY <2>1, <2>3 DEF Surjection
  <2>5. IsFiniteSet(K) /\ Cardinality(K) = n
    <3>1. n - 1 \in Int /\ 0 \in Int
      OBVIOUS
    <3>2. IsFiniteSet(K) /\ Cardinality(K) = IF 0 > n - 1 THEN 0 ELSE (n - 1) - 0 + 1
      BY <3>1, FS_Interval, Zenon
    <3> HIDE DEF K
    <3> QED
      BY <3>2
  <2> HIDE DEF R, K
  <2> QED
    BY <2>2, <2>4, <2>5, FS_Injection
<1> QED
  BY <1>6, <1>8, <1>9

LEMMA NewestOnes ==
  ASSUME NEW S, IsFiniteSet(S), S \subseteq Nat, NEW n \in Nat, NEW x \in S, x \notin FirstOf(S, n, Newer)
  PROVE  Cardinality({q \in FirstOf(S, n, Newer) : q > x}) = n
<1> DEFINE P == [y \in S |-> {z \in S : z > y}]
           First == {y \in S : Cardinality(P[y]) < n}
<1>1. FirstOf(S, n, Newer) = First
  BY DEF FirstOf, Newer
<1>2. IsBefore(P, S)
  <2>1. P \in [S -> SUBSET S]
    OBVIOUS
  <2>2. \A y, z \in S : z \in P[y] <=> z > y
    OBVIOUS
  <2> HIDE DEF P
  <2>3. \A y, z \in S : z \in P[y] => P[z] \subseteq P[y]
    <3>1. SUFFICES ASSUME NEW y \in S, NEW z \in P[y], NEW w \in P[z] PROVE w \in P[y]
      OBVIOUS
    <3>2. w \in S /\ z \in S /\ w \in Nat /\ z \in Nat /\ y \in Nat
      BY <2>1
    <3> QED
      BY <2>2, <3>2
  <2> QED
    BY <2>1, <2>2, <2>3 DEF IsBefore
<1>3. ~(Cardinality(P[x]) < n)
  BY <1>1
<1>4. P[x] = {z \in S : z > x}
  OBVIOUS
<1> HIDE DEF P
<1>5. First = {y \in S : Cardinality(P[y]) < n}
  OBVIOUS
<1> HIDE DEF First
<1>6. Cardinality(First) = n /\ First \subseteq P[x]
  BY <1>2, <1>3, <1>5, FirstOnes
<1>7. {q \in First : q > x} = First
  BY <1>4, <1>6
<1> QED
  BY <1>1, <1>6, <1>7

-----------------------------------------------------------------------------
(* The home: what it knows *)

HomeShaped ==
  /\ world \in [Items -> Stands] /\ seen \in [Items -> Stands]
  /\ lane \in [Items -> {"hold", "thread", "run"}] /\ near \subseteq Items
  /\ cases \in [Items -> {"none", "drafted", "filed", "closed"}] /\ reading \in BOOLEAN
  /\ openers \in [Openers -> Items \cup {NoRequest}]
  /\ banner \in [target : Items \cup {NoRequest}, receipt : {"none", "ready", "pending", "linked", "checkpoint"}]

\* Finitely many requests have come; the page has seen none that has not, and made no
\* incident of one it has not seen; a decision it has seen stands.
Came == {r \in Items : world[r] # "none"}
HomeSound ==
  /\ IsFiniteSet(Came)
  /\ \A r \in Items : (seen[r] # "none" => world[r] # "none") /\ (cases[r] # "none" => seen[r] # "none")
  /\ \A r \in Items : seen[r] \in {"approved", "denied"} => world[r] = seen[r]

BannerSound == banner.receipt = "ready" => banner.target \in Items /\ world[banner.target] \in {"approved", "denied"}

HomeInv == HomeShaped /\ HomeSound /\ BannerSound

LEMMA HomeStarts == HomeInit => HomeInv
<1> SUFFICES ASSUME HomeInit PROVE HomeInv
  OBVIOUS
<1>1. HomeShaped
  BY DEF HomeInit, HomeShaped, Stands, NoBanner
<1>2. Came = {}
  BY DEF HomeInit, Came
<1>3. HomeSound
  BY <1>2, FS_EmptySet DEF HomeInit, HomeSound
<1>4. BannerSound
  BY DEF HomeInit, BannerSound, NoBanner
<1> QED
  BY <1>1, <1>3, <1>4 DEF HomeInv

\* The banner of a request is right when it is drawn.
LEMMA LandsRight ==
  ASSUME HomeInv, NEW r \in Items, Lands(r), UNCHANGED world
  PROVE  banner' \in [target : Items \cup {NoRequest}, receipt : {"none", "ready", "pending", "linked", "checkpoint"}] /\ BannerSound'
<1>1. banner' = [target |-> r, receipt |-> Receipt(r)] /\ Receipt(r) \in {"ready", "pending", "linked", "checkpoint"}
  BY DEF Lands, Receipt
<1>2. Receipt(r) = "ready" => seen[r] \in {"approved", "denied"}
  BY DEF Receipt
<1>3. Receipt(r) = "ready" => world[r] \in {"approved", "denied"}
  BY <1>2 DEF HomeInv, HomeSound
<1> QED
  BY <1>1, <1>3 DEF BannerSound

LEMMA HomeSteps == HomeInv /\ [HomeNext]_homeVars => HomeInv'
<1> SUFFICES ASSUME HomeInv, [HomeNext]_homeVars PROVE HomeInv'
  OBVIOUS
<1>0. HomeShaped /\ HomeSound /\ BannerSound /\ NoRequest \notin Items
  BY HomeAssumption DEF HomeInv
<1>1. ASSUME NEW r \in Items, Arrives(r) PROVE HomeInv'
  <2>1. world[r] = "none" /\ world' \in [Items -> Stands] /\ world'[r] # "none" /\ (\A q \in Items : q # r => world'[q] = world[q])
    BY <1>0, <1>1 DEF Arrives, HomeShaped, Stands
  <2>2. UNCHANGED <<lane, near, cases, seen, reading, openers, banner>>
    BY <1>1 DEF Arrives
  <2>3. Came' = Came \cup {r}
    BY <2>1 DEF Came
  <2>4. IsFiniteSet(Came')
    BY <1>0, <2>3, FS_AddElement DEF HomeSound
  <2>5. HomeSound'
    BY <1>0, <2>1, <2>2, <2>4 DEF HomeSound
  <2>6. HomeShaped' /\ BannerSound'
    BY <1>0, <2>1, <2>2 DEF HomeShaped, BannerSound
  <2> QED
    BY <2>5, <2>6 DEF HomeInv
<1>2. ASSUME NEW r \in Items, Moves(r) PROVE HomeInv'
  <2>1. world[r] \in {"waiting", "deferred"} /\ world' \in [Items -> Stands] /\ world'[r] # "none" /\ (\A q \in Items : q # r => world'[q] = world[q])
    BY <1>0, <1>2 DEF Moves, HomeShaped, Stands
  <2>2. UNCHANGED <<lane, near, cases, seen, reading, openers, banner>>
    BY <1>2 DEF Moves
  <2>3. Came' = Came
    BY <2>1 DEF Came
  <2>4. HomeSound'
    BY <1>0, <2>1, <2>2, <2>3 DEF HomeSound
  <2>5. HomeShaped' /\ BannerSound'
    BY <1>0, <2>1, <2>2 DEF HomeShaped, BannerSound
  <2> QED
    BY <2>4, <2>5 DEF HomeInv
<1>3. ASSUME NEW r \in Items, DeadlineNears(r) PROVE HomeInv'
  BY <1>0, <1>3 DEF DeadlineNears, HomeInv, HomeShaped, HomeSound, BannerSound, Came
<1>4. ASSUME NEW r \in Items, Incident(r) PROVE HomeInv'
  <2>1. seen[r] # "none" /\ cases' \in [Items -> {"none", "drafted", "filed", "closed"}] /\ (\A q \in Items : q # r => cases'[q] = cases[q])
    BY <1>0, <1>4 DEF Incident, HomeShaped
  <2>2. UNCHANGED <<world, lane, near, seen, reading, openers, banner>>
    BY <1>4 DEF Incident
  <2>3. HomeSound'
    BY <1>0, <2>1, <2>2 DEF HomeSound, Came
  <2> QED
    BY <1>0, <2>1, <2>2, <2>3 DEF HomeInv, HomeShaped, BannerSound
<1>5. CASE RefreshBegins
  BY <1>0, <1>5 DEF RefreshBegins, HomeInv, HomeShaped, HomeSound, BannerSound, Came
<1>6. CASE RefreshReads
  <2>1. seen' \in {seen, world} /\ reading' = FALSE /\ UNCHANGED <<world, lane, near, cases, openers, banner>>
    BY <1>6 DEF RefreshReads
  <2>2. HomeSound'
    BY <1>0, <2>1 DEF HomeSound, Came
  <2> QED
    BY <1>0, <2>1, <2>2 DEF HomeInv, HomeShaped, BannerSound
<1>7. ASSUME NEW r \in Items, OpenNow(r) PROVE HomeInv'
  <2>1. UNCHANGED <<world, lane, near, cases, seen, reading, openers>>
    BY <1>7 DEF OpenNow
  <2>2. banner' \in [target : Items \cup {NoRequest}, receipt : {"none", "ready", "pending", "linked", "checkpoint"}] /\ BannerSound'
    BY <1>7, <2>1, LandsRight DEF OpenNow
  <2> QED
    BY <1>0, <2>1, <2>2 DEF HomeInv, HomeShaped, HomeSound, Came
<1>8. ASSUME NEW o \in Openers, NEW r \in Items, OpenFresh(o, r) PROVE HomeInv'
  <2>1. UNCHANGED <<world, lane, near, cases, seen, banner>> /\ reading' = TRUE /\ openers' \in [Openers -> Items \cup {NoRequest}]
    BY <1>0, <1>8 DEF OpenFresh, HomeShaped
  <2> QED
    BY <1>0, <2>1 DEF HomeInv, HomeShaped, HomeSound, BannerSound, Came
<1>9. ASSUME NEW o \in Openers, Arrive(o) PROVE HomeInv'
  <2>1. UNCHANGED <<world, lane, near, cases, seen, reading>> /\ openers' \in [Openers -> Items \cup {NoRequest}]
        /\ openers[o] \in Items /\ Lands(openers[o])
    BY <1>0, <1>9 DEF Arrive, HomeShaped
  <2>2. banner' \in [target : Items \cup {NoRequest}, receipt : {"none", "ready", "pending", "linked", "checkpoint"}] /\ BannerSound'
    BY <2>1, LandsRight
  <2> QED
    BY <1>0, <2>1, <2>2 DEF HomeInv, HomeShaped, HomeSound, Came
<1>10. CASE UNCHANGED homeVars
  BY <1>0, <1>10 DEF homeVars, HomeInv, HomeShaped, HomeSound, BannerSound, Came
<1> QED
  BY <1>1, <1>2, <1>3, <1>4, <1>5, <1>6, <1>7, <1>8, <1>9, <1>10 DEF HomeNext

-----------------------------------------------------------------------------
(* The home: its queue *)

Known == {r \in Items : seen[r] # "none"}
Takable == ApprovalItems \cup IncidentItems \cup RunItems
QueueItems == [kind : {"approval", "incident", "run"}, request : Items, tone : {"danger", "warn", "ok"}]
ReviewsWaiting == {r \in Items : seen[r] = "waiting" /\ lane[r] \in {"hold", "thread"}}

LEMMA SetsAreKnown ==
  ASSUME HomeInv
  PROVE  /\ IsFiniteSet(Known) /\ Known \subseteq Nat
         /\ ReviewsWaiting \subseteq Known /\ Live \subseteq ReviewsWaiting /\ Attention \subseteq Known /\ Escalated \subseteq Known
         /\ IsFiniteSet(ReviewsWaiting) /\ ReviewsWaiting \subseteq Nat
<1>1. Known \in SUBSET Came /\ IsFiniteSet(Came)
  BY DEF HomeInv, HomeSound, Known, Came
<1>2. IsFiniteSet(Known) /\ Known \subseteq Nat
  BY <1>1, FS_Subset, HomeAssumption DEF Known
<1>3. ReviewsWaiting \in SUBSET Known
  BY DEF ReviewsWaiting, Known
<1>4. Live \subseteq ReviewsWaiting
  BY DEF Live, FirstOf, ReviewsWaiting
<1>5. Attention \subseteq Known
  BY DEF Attention, Deferred, Known
<1>6. {r \in Items : cases[r] # "none"} \subseteq Known
  BY DEF HomeInv, HomeSound, Known
<1>7. Escalated \subseteq Known
  BY <1>5, <1>6 DEF Escalated, FirstOf
<1> QED
  BY <1>2, <1>3, <1>4, <1>5, <1>7, FS_Subset

\* What can be queued is one item for each request, in an order.
LEMMA TakableItems ==
  ASSUME HomeInv
  PROVE  /\ Takable \subseteq QueueItems /\ IsFiniteSet(Takable)
         /\ \A i, j \in Takable : i.request = j.request => i = j
<1>1. Takable \subseteq QueueItems
  <2>1. Live \subseteq Items /\ Escalated \subseteq Items /\ Attention \subseteq Items
    BY SetsAreKnown DEF Known
  <2> QED
    BY <2>1 DEF Takable, QueueItems, ApprovalItems, IncidentItems, RunItems
<1>2. ASSUME NEW i \in Takable, NEW j \in Takable, i.request = j.request PROVE i = j
  <2> DEFINE r == i.request
  <2>1. CASE r \in Live
    <3>1. i \in ApprovalItems /\ j \in ApprovalItems
      BY <1>2, <2>1 DEF Takable, IncidentItems, RunItems
    <3> QED
      BY <1>2, <3>1 DEF ApprovalItems
  <2>2. CASE r \in Escalated \ Live
    <3>1. i \in IncidentItems /\ j \in IncidentItems
      BY <1>2, <2>2 DEF Takable, ApprovalItems, RunItems
    <3> QED
      BY <1>2, <3>1 DEF IncidentItems
  <2>3. CASE r \notin Live \cup Escalated
    <3>1. i \in RunItems /\ j \in RunItems
      BY <1>2, <2>3 DEF Takable, ApprovalItems, IncidentItems
    <3> QED
      BY <1>2, <3>1 DEF RunItems
  <2> QED
    BY <2>1, <2>2, <2>3
<1>3. IsFiniteSet(Takable)
  <2> DEFINE f == [i \in Takable |-> i.request]
  <2>1. \A i \in Takable : i.request \in Known
    BY SetsAreKnown DEF Takable, ApprovalItems, IncidentItems, RunItems
  <2>2. f \in Injection(Takable, Known)
    BY <1>2, <2>1 DEF Injection, IsInjective
  <2> HIDE DEF f
  <2> QED
    BY <2>2, FS_Injection, SetsAreKnown
<1> QED
  BY <1>1, <1>2, <1>3

LEMMA SoonerOrders ==
  /\ \A i \in QueueItems : ToneWeight(i.tone) \in 0 .. 2 /\ KindWeight(i.kind) \in 0 .. 2
  /\ \A i \in QueueItems : ~Sooner(i, i)
  /\ \A i, j, k \in QueueItems : Sooner(i, j) /\ Sooner(j, k) => Sooner(i, k)
  /\ \A i, j \in QueueItems : i.request # j.request => Sooner(i, j) \/ Sooner(j, i)
  /\ \A i, j \in QueueItems : Sooner(i, j) => ToneWeight(i.tone) <= ToneWeight(j.tone)
<1>1. \A i \in QueueItems : ToneWeight(i.tone) \in 0 .. 2 /\ KindWeight(i.kind) \in 0 .. 2 /\ i.request \in Nat
  BY HomeAssumption DEF QueueItems, ToneWeight, KindWeight
<1>2. \A i, j \in QueueItems : (i.tone = j.tone <=> ToneWeight(i.tone) = ToneWeight(j.tone)) /\ (i.kind = j.kind <=> KindWeight(i.kind) = KindWeight(j.kind))
  BY DEF QueueItems, ToneWeight, KindWeight
<1>3. \A i \in QueueItems : ~Sooner(i, i)
  BY <1>1 DEF Sooner, Newer
<1>4. ASSUME NEW i \in QueueItems, NEW j \in QueueItems, NEW k \in QueueItems, Sooner(i, j), Sooner(j, k) PROVE Sooner(i, k)
  BY <1>1, <1>2, <1>4 DEF Sooner, Newer
<1>5. ASSUME NEW i \in QueueItems, NEW j \in QueueItems, i.request # j.request PROVE Sooner(i, j) \/ Sooner(j, i)
  BY <1>1, <1>2, <1>5 DEF Sooner, Newer
<1>6. ASSUME NEW i \in QueueItems, NEW j \in QueueItems, Sooner(i, j) PROVE ToneWeight(i.tone) <= ToneWeight(j.tone)
  BY <1>1, <1>2, <1>6 DEF Sooner
<1> QED
  BY <1>1, <1>3, <1>4, <1>5, <1>6

\* An item that is not taken is behind a whole queue of more urgent ones.
LEMMA TakenOrFull ==
  ASSUME HomeInv, NEW i \in Takable, i \notin Queue
  PROVE  Cardinality(Queue) = QueueLimit /\ \A item \in Queue : ToneWeight(item.tone) <= ToneWeight(i.tone)
<1> DEFINE P == [j \in Takable |-> {k \in Takable : Sooner(k, j)}]
<1>1. Takable \subseteq QueueItems /\ IsFiniteSet(Takable) /\ \A j, k \in Takable : j.request = k.request => j = k
  BY TakableItems
<1>2. Queue = {j \in Takable : Cardinality(P[j]) < QueueLimit} /\ P \in [Takable -> SUBSET Takable]
  BY DEF Queue, FirstOf, Takable
<1>3. \A j, k \in Takable : k \in P[j] <=> Sooner(k, j)
  OBVIOUS
<1> HIDE DEF P
<1>4. \A j \in Takable : j \notin P[j]
  BY <1>1, <1>3, SoonerOrders
<1>5. \A j, k \in Takable : k \in P[j] => P[k] \subseteq P[j]
  <2>1. SUFFICES ASSUME NEW j \in Takable, NEW k \in Takable, k \in P[j], NEW l \in P[k] PROVE l \in P[j]
    OBVIOUS
  <2>2. l \in Takable
    BY <1>2
  <2>3. Sooner(l, k) /\ Sooner(k, j)
    BY <1>3, <2>1, <2>2
  <2>4. Sooner(l, j)
    BY <1>1, <2>2, <2>3, SoonerOrders
  <2> QED
    BY <1>3, <2>2, <2>4
<1>6. \A j, k \in Takable : j = k \/ j \in P[k] \/ k \in P[j]
  <2>1. SUFFICES ASSUME NEW j \in Takable, NEW k \in Takable, j # k PROVE j \in P[k] \/ k \in P[j]
    OBVIOUS
  <2>2. Sooner(j, k) \/ Sooner(k, j)
    BY <1>1, <2>1, SoonerOrders
  <2> QED
    BY <1>3, <2>2
<1>7. IsBefore(P, Takable)
  BY <1>2, <1>4, <1>5, <1>6 DEF IsBefore
<1>8. ~(Cardinality(P[i]) < QueueLimit) /\ QueueLimit \in Nat
  BY <1>2, HomeAssumption
<1> DEFINE Q == Queue
<1>q. Q = {j \in Takable : Cardinality(P[j]) < QueueLimit} /\ Q = Queue /\ IsFiniteSet(Takable)
  BY <1>1, <1>2
<1> HIDE DEF Q
<1>9. Cardinality(Queue) = QueueLimit /\ Queue \subseteq P[i]
  <2>1. Cardinality(Q) = QueueLimit /\ Q \subseteq P[i]
    BY <1>7, <1>8, <1>q, FirstOnes
  <2> QED
    BY <1>q, <2>1
<1>10. ASSUME NEW item \in Queue PROVE ToneWeight(item.tone) <= ToneWeight(i.tone)
  <2>1. item \in Takable /\ Sooner(item, i)
    BY <1>2, <1>3, <1>9
  <2> QED
    BY <1>1, <2>1, SoonerOrders
<1> QED
  BY <1>9, <1>10

\* There is an item for each request that is taken up, of the urgency of the request.
LEMMA ItemOfRequest ==
  ASSUME HomeInv, NEW r \in Items, r \in Live \cup Escalated \cup Attention
  PROVE  \E i \in Takable : i.request = r /\ ToneWeight(i.tone) <= UrgencyOf(r)
<1>1. CASE r \in Live
  <2> DEFINE i == [kind |-> "approval", request |-> r, tone |-> IF r \in near THEN "danger" ELSE "warn"]
  <2>1. i \in Takable
    BY <1>1 DEF Takable, ApprovalItems
  <2>2. ToneWeight(i.tone) <= UrgencyOf(r)
    BY <1>1 DEF ToneWeight, UrgencyOf
  <2> QED
    BY <2>1, <2>2
<1>2. CASE r \in Escalated \ Live
  <2> DEFINE i == [kind |-> "incident", request |-> r,
                   tone |-> IF cases[r] = "none" \/ Severity(r) = "high" THEN "danger" ELSE IF Severity(r) = "medium" THEN "warn" ELSE "ok"]
  <2>1. i \in Takable
    BY <1>2 DEF Takable, IncidentItems
  <2>2. ToneWeight(i.tone) <= UrgencyOf(r)
    BY <1>2 DEF ToneWeight, UrgencyOf
  <2> QED
    BY <2>1, <2>2
<1>3. CASE r \in Attention \ (Live \cup Escalated)
  <2> DEFINE i == [kind |-> "run", request |-> r, tone |-> IF Deferred(r) THEN "warn" ELSE "danger"]
  <2>1. i \in Takable
    BY <1>3 DEF Takable, RunItems
  <2>2. ToneWeight(i.tone) <= UrgencyOf(r)
    BY <1>3 DEF ToneWeight, UrgencyOf
  <2> QED
    BY <2>1, <2>2
<1> QED
  BY <1>1, <1>2, <1>3

LEMMA NoneIsLost == HomeInv => NoneLost
<1> SUFFICES ASSUME HomeInv, NEW r \in Items, r \in Attention \/ (seen[r] = "waiting" /\ lane[r] # "run")
             PROVE  \/ Queued(r)
                    \/ Cardinality(Queue) >= QueueLimit /\ \A item \in Queue : ToneWeight(item.tone) <= UrgencyOf(r)
                    \/ lane[r] = "thread" /\ Cardinality({q \in Live : q > r}) >= LiveLimit
  BY DEF NoneLost
<1>0. QueueLimit \in Nat /\ LiveLimit \in Nat
  BY HomeAssumption
<1>1. CASE r \in Live \cup Escalated \cup Attention
  <2>1. PICK i \in Takable : i.request = r /\ ToneWeight(i.tone) <= UrgencyOf(r)
    BY <1>1, ItemOfRequest
  <2>2. CASE i \in Queue
    BY <2>1, <2>2 DEF Queued
  <2>3. CASE i \notin Queue
    <3>1. Cardinality(Queue) = QueueLimit /\ \A item \in Queue : ToneWeight(item.tone) <= ToneWeight(i.tone)
      BY <2>3, TakenOrFull
    <3>2. ToneWeight(i.tone) \in Nat /\ UrgencyOf(r) \in Nat
      BY TakableItems, SoonerOrders DEF UrgencyOf
    <3>3. \A item \in Queue : item \in Takable /\ ToneWeight(item.tone) \in Nat
      BY TakableItems, SoonerOrders DEF Queue, FirstOf, Takable
    <3> QED
      BY <1>0, <2>1, <3>1, <3>2, <3>3
  <2> QED
    BY <2>2, <2>3
<1>2. CASE r \notin Live \cup Escalated \cup Attention
  <2>1. lane[r] = "thread" /\ r \in ReviewsWaiting
    BY <1>2 DEF HomeInv, HomeShaped, Attention, Deferred, ReviewsWaiting
  <2>2. Live = FirstOf(ReviewsWaiting, LiveLimit, Newer)
    BY DEF Live, ReviewsWaiting
  <2>3. Cardinality({q \in Live : q > r}) = LiveLimit
    BY <1>0, <1>2, <2>1, <2>2, SetsAreKnown, NewestOnes
  <2> QED
    BY <1>0, <2>1, <2>3
<1> QED
  BY <1>1, <1>2

\* What has come, what the page has seen of it and the handoff shown stay well typed.
THEOREM HomeIsWellFormed == HomeSpec => []HomeTypeOK
<1>1. HomeInv => HomeTypeOK
  BY DEF HomeInv, HomeShaped, HomeTypeOK
<1> QED
  BY <1>1, HomeStarts, HomeSteps, PTL DEF HomeSpec

\* The home can be relied on: no request that needs attention is lost where the holds, the
\* incidents and the runs are put together and cut, and a receipt is announced only for a
\* decision that was made.
THEOREM HomeCanBeReliedOn == HomeSpec => []HomeIsReliable
<1>1. HomeInv => HomeIsReliable
  BY NoneIsLost DEF HomeInv, HomeIsReliable, BannerSound, ReceiptsAreTrue
<1> QED
  BY <1>1, HomeStarts, HomeSteps, PTL DEF HomeSpec

(***************************************************************************)
(* Proofs about RequestForms, for any number of submissions.               *)
(*                                                                         *)
(* What is told of a submission is told when it has come to its end: from  *)
(* there on it keeps what it has asked and what was done (Carries).  An    *)
(* entry of the history, the line beneath a form and the answer of an agent*)
(* test are true when they are written, of a submission that goes on.      *)
(***************************************************************************)

(* The forms: what they are told *)

Tones == {"ok", "warn", "blocked", "error"}
AskRecords ==
  [form : Forms \cup {"none", "agent", "view"}, sent : {"none"} \cup TerminalInputs \cup AgentDrafts \cup Asks,
   phase : {"none", "preparing", "sent", "replied", "loading", "refreshing", "over"},
   reply : {"none", "ok", "404", "error", "network"}, done : BOOLEAN, broken : BOOLEAN,
   context : Overlays \cup {NoOverlay}, saved : Overlays \cup {NoOverlay}]
HistoryEntries == [ask : Asks, input : TerminalInputs, tone : Tones]
AgentTests == [draft : AgentDrafts, status : {"clean", "dirty", "invalid", "running", "error", "warn", "success"},
               response : Asks \cup {"none"}, view : Asks \cup {"none"}]

FormsTyped ==
  /\ page \in [phase : {"none", "reading", "lost"}, queued : BOOLEAN]
  /\ selected \in RunIds \cup {NoRunId} /\ terminal \in TerminalInputs
  /\ overlay \in Overlays \cup {NoOverlay} /\ editing \in Overlays \cup {NoOverlay, Invalid}

\* A submission by its phase and its form.
SoundAsk(x) ==
  /\ x \in AskRecords
  /\ (x.phase = "none") = (x.form = "none")
  /\ x.phase = "preparing" => x.form \in {"agent", "view"}
  /\ x.phase \in {"sent", "replied"} => x.form # "view"
  /\ x.form = "terminal" => x.sent \in TerminalInputs
  /\ x.form = "agent" => x.sent \in AgentDrafts
  /\ x.form = "view" => x.sent \in Asks
  /\ x.phase = "replied" =>
       /\ x.reply # "none" /\ (x.done => x.reply # "404")
       /\ x.reply = "ok" /\ ~x.done => MethodOf(x.form).says = "runtime"
  /\ x.form = "agent" /\ x.phase \notin {"none", "preparing", "over"} => x.context = x.saved
AsksSound == asks \in [Asks -> AskRecords] /\ \A a \in Asks : SoundAsk(asks[a])

\* What has been told of a submission is told once it has been answered, or was refused; it
\* does not change from there on, but for a refresh that breaks off.
ToldAlready(x) == x.phase \in {"refreshing", "over"}

HistorySound ==
  /\ history \in Seq(HistoryEntries) /\ Len(history) <= HistoryLimit
  /\ \A n \in DOMAIN history : ToldAlready(asks[history[n].ask])
  /\ HistoryIsTrue

FeedbackSound ==
  /\ feedback \in [Forms -> [ask : Asks \cup {"none"}, tone : Tones \cup {"none"}]]
  /\ \A f \in Forms : feedback[f] # Nobody => feedback[f].ask \in Asks /\ ToldAlready(asks[feedback[f].ask])
  /\ FeedbackIsTrue

AgentSound ==
  /\ agent \in AgentTests
  /\ agent.response # "none" => ToldAlready(asks[agent.response]) /\ agent.draft.prompt = asks[agent.response].sent.prompt
  /\ (agent.view # "none" /\ agent.view # agent.response) => \E a \in Asks : asks[a].form = "view"

\* The inductive invariant.
FormsInv == FormsTyped /\ AsksSound /\ HistorySound /\ FeedbackSound /\ AgentSound

LEMMA NoAskIsSound == NoAsk \in AskRecords /\ SoundAsk(NoAsk)
<1>1. NoAsk \in AskRecords /\ NoAsk.phase = "none" /\ NoAsk.form = "none"
  BY DEF NoAsk, AskRecords
<1> QED
  BY <1>1 DEF SoundAsk

LEMMA FormsStart == FormsInit => FormsInv
<1> SUFFICES ASSUME FormsInit PROVE FormsInv
  OBVIOUS
<1>1. FormsTyped
  BY DEF FormsInit, FormsTyped, RunIds, TerminalInputs
<1>2. asks = [a \in Asks |-> NoAsk]
  BY DEF FormsInit
<1>3. AsksSound
  BY <1>2, NoAskIsSound DEF AsksSound
<1>4. HistorySound
  <2>1. history = <<>>
    BY DEF FormsInit
  <2> QED
    BY <2>1, FormsAssumption DEF HistorySound, HistoryIsTrue
<1>5. FeedbackSound
  <2>1. feedback = [f \in Forms |-> Nobody] /\ Nobody.ask = "none" /\ Nobody.tone = "none"
    BY DEF FormsInit, Nobody
  <2>2. Nobody \in [ask : Asks \cup {"none"}, tone : Tones \cup {"none"}]
    BY DEF Nobody
  <2> QED
    BY <2>1, <2>2 DEF FeedbackSound, FeedbackIsTrue
<1>6. AgentSound
  BY DEF FormsInit, AgentSound, AgentTests, AgentDrafts
<1> QED
  BY <1>1, <1>3, <1>4, <1>5, <1>6 DEF FormsInv

-----------------------------------------------------------------------------
(* The forms: a submission that goes on *)

\* It keeps what was told of it.
Carries(x, y) ==
  /\ ToldAlready(x) => ToldAlready(y) /\ y.sent = x.sent /\ y.done = x.done /\ y.reply = x.reply /\ (x.broken => y.broken)
  /\ x.form = "view" => y.form = "view"

GoesOn(a) ==
  /\ asks' \in [Asks -> AskRecords] /\ \A b \in Asks : b # a => asks'[b] = asks[b]
  /\ SoundAsk(asks'[a]) /\ Carries(asks[a], asks'[a])

LEMMA EntriesOfHistory ==
  ASSUME history \in Seq(HistoryEntries)
  PROVE  \A n \in DOMAIN history : n \in Nat /\ history[n] \in HistoryEntries /\ history[n].ask \in Asks /\ history[n].input \in TerminalInputs
<1>1. \A n \in DOMAIN history : n \in Nat /\ history[n] \in HistoryEntries
  OBVIOUS
<1> QED
  BY <1>1 DEF HistoryEntries

LEMMA KeepsTelling ==
  ASSUME FormsInv, NEW a \in Asks, GoesOn(a)
  PROVE  /\ AsksSound'
         /\ UNCHANGED history => HistorySound'
         /\ UNCHANGED feedback => FeedbackSound'
         /\ UNCHANGED agent => AgentSound'
         /\ \A b \in Asks : Carries(asks[b], asks'[b])
<1>1. \A b \in Asks : Carries(asks[b], asks'[b])
  BY DEF GoesOn, Carries
<1>2. AsksSound'
  BY DEF GoesOn, AsksSound, FormsInv
<1>3. ASSUME UNCHANGED history PROVE HistorySound'
  <2>1. \A n \in DOMAIN history : history[n].ask \in Asks
    BY EntriesOfHistory DEF FormsInv, HistorySound
  <2>2. \A n \in DOMAIN history : ToldAlready(asks[history[n].ask]) /\ Carries(asks[history[n].ask], asks'[history[n].ask])
    BY <1>1, <2>1 DEF FormsInv, HistorySound
  <2>3. HistoryIsTrue'
    BY <1>3, <2>2 DEF FormsInv, HistorySound, HistoryIsTrue, Carries
  <2> QED
    BY <1>3, <2>2, <2>3 DEF FormsInv, HistorySound, Carries
<1>4. ASSUME UNCHANGED feedback PROVE FeedbackSound'
  <2>1. \A f \in Forms : feedback[f] # Nobody =>
          feedback[f].ask \in Asks /\ ToldAlready(asks[feedback[f].ask]) /\ Carries(asks[feedback[f].ask], asks'[feedback[f].ask])
    BY <1>1 DEF FormsInv, FeedbackSound
  <2>2. FeedbackIsTrue'
    BY <1>4, <2>1 DEF FormsInv, FeedbackSound, FeedbackIsTrue, Carries
  <2> QED
    BY <1>4, <2>1, <2>2 DEF FormsInv, FeedbackSound, Carries
<1>5. ASSUME UNCHANGED agent PROVE AgentSound'
  <2>1. agent.response # "none" => agent.response \in Asks
    BY DEF FormsInv, AgentSound, AgentTests
  <2>2. (\E b \in Asks : asks[b].form = "view") => \E b \in Asks : asks'[b].form = "view"
    BY <1>1 DEF Carries
  <2>3. agent.response # "none" => ToldAlready(asks'[agent.response]) /\ asks'[agent.response].sent = asks[agent.response].sent
    BY <1>1, <2>1 DEF Carries, FormsInv, AgentSound
  <2> QED
    BY <1>5, <2>2, <2>3 DEF FormsInv, AgentSound
<1> QED
  BY <1>1, <1>2, <1>3, <1>4, <1>5

\* The history with an entry before the others.
LEMMA EnteredFacts ==
  ASSUME history \in Seq(HistoryEntries), Len(history) <= HistoryLimit, NEW a \in Asks, NEW input \in TerminalInputs, NEW tone \in Tones
  PROVE  /\ Entered(a, input, tone) \in Seq(HistoryEntries) /\ Len(Entered(a, input, tone)) <= HistoryLimit
         /\ \A n \in DOMAIN Entered(a, input, tone) :
              \/ n = 1 /\ Entered(a, input, tone)[n] = [ask |-> a, input |-> input, tone |-> tone]
              \/ n - 1 \in DOMAIN history /\ Entered(a, input, tone)[n] = history[n - 1]
<1> DEFINE e == [ask |-> a, input |-> input, tone |-> tone]
           all == <<e>> \o history
           k == IF Len(history) < HistoryLimit THEN Len(history) + 1 ELSE HistoryLimit
<1>1. e \in HistoryEntries
  BY DEF HistoryEntries
<1>2. Entered(a, input, tone) = SubSeq(all, 1, k)
  BY DEF Entered
<1>3. Len(history) \in Nat /\ HistoryLimit \in Nat
  BY FormsAssumption
<1>4. k \in Nat /\ k <= HistoryLimit /\ k <= Len(history) + 1
  BY <1>3
<1> HIDE DEF e, k
<1>5. all \in Seq(HistoryEntries) /\ Len(all) = Len(history) + 1
  BY <1>1
<1>6. all[1] = e /\ \A n \in 1 .. Len(all) : n > 1 => n - 1 \in 1 .. Len(history) /\ all[n] = history[n - 1]
  BY <1>1
<1> HIDE DEF all
<1>7. SubSeq(all, 1, k) \in Seq(HistoryEntries) /\ Len(SubSeq(all, 1, k)) = k /\ \A n \in 1 .. k : SubSeq(all, 1, k)[n] = all[n]
  BY <1>3, <1>4, <1>5
<1>8. DOMAIN SubSeq(all, 1, k) = 1 .. k /\ DOMAIN history = 1 .. Len(history)
  BY <1>7
<1>9. \A n \in 1 .. k : n \in 1 .. Len(all) /\ (n = 1 \/ n > 1)
  BY <1>3, <1>4, <1>5
<1> QED
  BY <1>2, <1>4, <1>6, <1>7, <1>8, <1>9 DEF e

LEMMA Enters ==
  ASSUME FormsInv, NEW a \in Asks, GoesOn(a), NEW input \in TerminalInputs, NEW tone \in Tones,
         history' = Entered(a, input, tone), ToldAlready(asks'[a]), input = asks'[a].sent,
         tone = "ok" => asks'[a].done, tone \in {"warn", "blocked"} => ~asks'[a].done,
         ToldAlready(asks[a]) => asks'[a].broken
  PROVE  HistorySound'
<1> DEFINE e == [ask |-> a, input |-> input, tone |-> tone]
<1>1. history \in Seq(HistoryEntries) /\ Len(history) <= HistoryLimit
  BY DEF FormsInv, HistorySound
<1>2. /\ history' \in Seq(HistoryEntries) /\ Len(history') <= HistoryLimit
      /\ \A n \in DOMAIN history' : (history'[n] = e /\ n = 1) \/ (n - 1 \in DOMAIN history /\ history'[n] = history[n - 1])
  BY <1>1, EnteredFacts
<1>3. \A n \in DOMAIN history : history[n].ask \in Asks
  BY <1>1, EntriesOfHistory
<1>4. \A n \in DOMAIN history : ToldAlready(asks[history[n].ask]) /\ Carries(asks[history[n].ask], asks'[history[n].ask])
  BY <1>3, KeepsTelling DEF FormsInv, HistorySound
<1>5. e.ask = a /\ e.input = input /\ e.tone = tone
  OBVIOUS
<1> HIDE DEF e
<1>6. \A n \in DOMAIN history' : ToldAlready(asks'[history'[n].ask])
  BY <1>2, <1>4, <1>5 DEF Carries
<1>7. ASSUME NEW n \in DOMAIN history'
      PROVE  /\ history'[n].input = asks'[history'[n].ask].sent
             /\ history'[n].tone = "ok" => asks'[history'[n].ask].done
             /\ history'[n].tone \in {"warn", "blocked"} => ~asks'[history'[n].ask].done
  <2>1. CASE history'[n] = e
    BY <1>5, <2>1
  <2>2. CASE n - 1 \in DOMAIN history /\ history'[n] = history[n - 1]
    BY <1>4, <2>2 DEF FormsInv, HistorySound, HistoryIsTrue, Carries
  <2> QED
    BY <1>2, <2>1, <2>2
<1>8. ASSUME NEW n \in DOMAIN history', NEW m \in DOMAIN history' \ {n}, history'[m].ask = history'[n].ask
      PROVE  asks'[history'[n].ask].broken
  <2>1. n \in Nat /\ m \in Nat /\ n # m
    BY <1>2
  <2>2. CASE n - 1 \in DOMAIN history /\ history'[n] = history[n - 1] /\ m - 1 \in DOMAIN history /\ history'[m] = history[m - 1]
    <3>1. m - 1 \in DOMAIN history \ {n - 1}
      BY <2>1, <2>2
    <3>2. asks[history[n - 1].ask].broken
      BY <1>8, <2>2, <3>1 DEF FormsInv, HistorySound, HistoryIsTrue
    <3> QED
      BY <1>4, <2>2, <3>2 DEF Carries
  <2>3. CASE (history'[n] = e /\ n = 1) \/ (history'[m] = e /\ m = 1)
    <3>1. history'[n].ask = a
      BY <1>5, <1>8, <2>3
    <3>2. \E l \in DOMAIN history : history[l].ask = a
      BY <1>2, <1>5, <1>8, <2>1, <2>3
    <3>3. ToldAlready(asks[a])
      BY <1>4, <3>2
    <3> QED
      BY <3>1, <3>3
  <2> QED
    BY <1>2, <2>2, <2>3
<1> QED
  BY <1>2, <1>6, <1>7, <1>8 DEF HistorySound, HistoryIsTrue

LEMMA TellsForm ==
  ASSUME FormsInv, NEW a \in Asks, GoesOn(a), NEW f \in Forms, NEW tone \in Tones,
         feedback' = [feedback EXCEPT ![f] = [ask |-> a, tone |-> tone]], ToldAlready(asks'[a]),
         tone = "ok" => asks'[a].done,
         tone = "error" /\ asks'[a].done => asks'[a].broken \/ asks'[a].reply \in {"error", "network"}
  PROVE  FeedbackSound'
<1>1. feedback' \in [Forms -> [ask : Asks \cup {"none"}, tone : Tones \cup {"none"}]]
      /\ feedback'[f].ask = a /\ feedback'[f].tone = tone /\ \A g \in Forms : g # f => feedback'[g] = feedback[g]
  BY DEF FormsInv, FeedbackSound
<1>2. \A g \in Forms : feedback[g] # Nobody =>
        feedback[g].ask \in Asks /\ ToldAlready(asks[feedback[g].ask]) /\ Carries(asks[feedback[g].ask], asks'[feedback[g].ask])
  BY KeepsTelling DEF FormsInv, FeedbackSound
<1>3. ASSUME NEW g \in Forms, feedback'[g] # Nobody
      PROVE  /\ feedback'[g].ask \in Asks /\ ToldAlready(asks'[feedback'[g].ask])
             /\ feedback'[g].tone = "ok" => asks'[feedback'[g].ask].done
             /\ feedback'[g].tone = "error" /\ asks'[feedback'[g].ask].done =>
                  asks'[feedback'[g].ask].broken \/ asks'[feedback'[g].ask].reply \in {"error", "network"}
  <2>1. CASE g = f
    BY <1>1, <2>1
  <2>2. CASE g # f
    BY <1>1, <1>2, <1>3, <2>2 DEF FormsInv, FeedbackSound, FeedbackIsTrue, Carries
  <2> QED
    BY <2>1, <2>2
<1> QED
  BY <1>1, <1>3 DEF FeedbackSound, FeedbackIsTrue

\* What the client makes of a reply is true of what was done.
LEMMA AnswersOfForms ==
  ASSUME NEW a \in Asks, SoundAsk(asks[a]), asks[a].phase = "replied"
  PROVE  /\ Answered(a) \in {"value", "refused", "throws"}
         /\ Answered(a) = "value" => asks[a].done
         /\ Answered(a) = "refused" => ~asks[a].done
         /\ Answered(a) = "throws" /\ asks[a].done => asks[a].reply \in {"error", "network"}
<1> DEFINE m == MethodOf(asks[a].form)
<1>1. m.writes /\ m.absentOn = NotThere /\ m.absent \in {"refused", "throws"}
  BY DEF SoundAsk, AskRecords, Forms, MethodOf, TerminalSession, CreateRun, InvokeAgent, Command, Plain
<1>2. asks[a].reply \in {"ok", "404", "error", "network"} /\ asks[a].done \in BOOLEAN
      /\ (asks[a].done => asks[a].reply # "404") /\ (asks[a].reply = "ok" /\ ~asks[a].done => m.says = "runtime")
  BY DEF SoundAsk, AskRecords
<1>3. Answered(a) = AnswerTo(m, asks[a].reply, asks[a].done)
  BY DEF Answered
<1> HIDE DEF m
<1> QED
  BY <1>1, <1>2, <1>3 DEF AnswerTo, Fine, NotThere

LEMMA PageIsPage == FormsTyped => PageAsked \in [phase : {"none", "reading", "lost"}, queued : BOOLEAN]
BY DEF FormsTyped, PageAsked

LEMMA Sends ==
  ASSUME FormsInv, NEW a \in Asks, asks[a].phase \in {"none", "preparing"}, asks[a].form # "view",
         NEW ofForm \in {"terminal", "run", "action", "agent"}, NEW what \in {"none"} \cup TerminalInputs \cup AgentDrafts,
         ofForm = "terminal" => what \in TerminalInputs, ofForm = "agent" => what \in AgentDrafts,
         asks' = Sending(a, ofForm, what, overlay)
  PROVE  GoesOn(a) /\ asks'[a].form = ofForm
<1> DEFINE x == [NoAsk EXCEPT !.form = ofForm, !.sent = what, !.phase = "sent", !.context = overlay, !.saved = overlay]
<1>1. overlay \in Overlays \cup {NoOverlay} /\ asks \in [Asks -> AskRecords]
  BY DEF FormsInv, FormsTyped, AsksSound
<1>2. /\ x \in AskRecords /\ x.form = ofForm /\ x.sent = what /\ x.phase = "sent" /\ x.context = overlay /\ x.saved = overlay
  BY <1>1, NoAskIsSound DEF AskRecords, NoAsk, Forms
<1>3. asks' = [asks EXCEPT ![a] = x]
  BY DEF Sending
<1> HIDE DEF x
<1>4. asks' \in [Asks -> AskRecords] /\ asks'[a] = x /\ \A b \in Asks : b # a => asks'[b] = asks[b]
  BY <1>1, <1>2, <1>3
<1>5. SoundAsk(x)
  BY <1>2 DEF SoundAsk
<1> QED
  BY <1>2, <1>4, <1>5 DEF GoesOn, Carries, ToldAlready

LEMMA Refuses ==
  ASSUME FormsInv, NEW a \in Asks, asks[a].phase = "none",
         NEW ofForm \in {"terminal", "run", "action", "agent"}, NEW what \in {"none"} \cup TerminalInputs \cup AgentDrafts,
         ofForm = "terminal" => what \in TerminalInputs, ofForm = "agent" => what \in AgentDrafts,
         asks' = Refused(a, ofForm, what)
  PROVE  GoesOn(a) /\ ToldAlready(asks'[a]) /\ asks'[a].sent = what /\ ~asks'[a].done /\ ~ToldAlready(asks[a])
<1> DEFINE x == [NoAsk EXCEPT !.form = ofForm, !.sent = what, !.phase = "over"]
<1>1. asks \in [Asks -> AskRecords] /\ SoundAsk(asks[a])
  BY DEF FormsInv, AsksSound
<1>2. x \in AskRecords /\ x.form = ofForm /\ x.sent = what /\ x.phase = "over" /\ x.done = FALSE
  BY NoAskIsSound DEF AskRecords, NoAsk, Forms
<1>3. asks' = [asks EXCEPT ![a] = x]
  BY DEF Refused
<1> HIDE DEF x
<1>4. asks' \in [Asks -> AskRecords] /\ asks'[a] = x /\ \A b \in Asks : b # a => asks'[b] = asks[b]
  BY <1>1, <1>2, <1>3
<1>5. SoundAsk(x)
  BY <1>2 DEF SoundAsk
<1> QED
  BY <1>1, <1>2, <1>4, <1>5 DEF GoesOn, Carries, ToldAlready, SoundAsk

LEMMA Proceeds ==
  ASSUME FormsInv, NEW a \in Asks, asks[a].phase \in {"preparing", "replied", "loading", "refreshing"},
         NEW p \in {"loading", "refreshing", "over"}, ToldAlready(asks[a]) => p # "loading",
         asks[a].form = "agent" /\ asks[a].phase = "preparing" => p = "over",
         asks' = [asks EXCEPT ![a].phase = p]
  PROVE  /\ GoesOn(a) /\ asks'[a].phase = p /\ asks'[a].sent = asks[a].sent /\ asks'[a].done = asks[a].done
         /\ asks'[a].reply = asks[a].reply /\ asks'[a].form = asks[a].form
<1>1. asks \in [Asks -> AskRecords] /\ SoundAsk(asks[a])
  BY DEF FormsInv, AsksSound
<1> DEFINE x == [asks[a] EXCEPT !.phase = p]
<1>2. /\ x \in AskRecords /\ x.form = asks[a].form /\ x.sent = asks[a].sent /\ x.phase = p /\ x.done = asks[a].done
      /\ x.context = asks[a].context /\ x.saved = asks[a].saved /\ x.broken = asks[a].broken /\ x.reply = asks[a].reply
  BY <1>1 DEF AskRecords
<1>3. asks' = [asks EXCEPT ![a] = x]
  OBVIOUS
<1> HIDE DEF x
<1>4. asks' \in [Asks -> AskRecords] /\ asks'[a] = x /\ \A b \in Asks : b # a => asks'[b] = asks[b]
  BY <1>1, <1>2, <1>3
<1>5. SoundAsk(x)
  BY <1>1, <1>2 DEF SoundAsk
<1> QED
  BY <1>2, <1>4, <1>5 DEF GoesOn, Carries, ToldAlready

LEMMA AskServedKeeps ==
  ASSUME FormsInv, NEW a \in Asks, AskServed(a)
  PROVE  FormsInv'
<1>1. asks \in [Asks -> AskRecords] /\ SoundAsk(asks[a]) /\ asks[a].phase = "sent"
  BY DEF FormsInv, AsksSound, AskServed
<1>2. PICK reply \in {"ok", "404", "error", "network"}, done \in BOOLEAN :
        /\ done => reply # "404"
        /\ (reply = "ok" /\ ~done) => MethodOf(asks[a].form).says = "runtime"
        /\ asks' = [asks EXCEPT ![a].phase = "replied", ![a].reply = reply, ![a].done = done]
  BY DEF AskServed
<1>3. UNCHANGED <<policy, page, selected, terminal, history, feedback, agent, overlay, editing>>
  BY DEF AskServed
<1> DEFINE x == asks'[a]
<1>4. /\ asks' \in [Asks -> AskRecords] /\ x \in AskRecords /\ x.form = asks[a].form /\ x.sent = asks[a].sent /\ x.phase = "replied"
      /\ x.done = done /\ x.context = asks[a].context /\ x.saved = asks[a].saved /\ x.reply = reply
      /\ \A b \in Asks : b # a => asks'[b] = asks[b]
  BY <1>1, <1>2 DEF AskRecords
<1> HIDE DEF x
<1>5. SoundAsk(x)
  BY <1>1, <1>2, <1>4 DEF SoundAsk
<1>6. GoesOn(a)
  BY <1>1, <1>4, <1>5 DEF GoesOn, Carries, ToldAlready, x
<1>7. AsksSound' /\ HistorySound' /\ FeedbackSound' /\ AgentSound'
  BY <1>3, <1>6, KeepsTelling
<1>8. FormsTyped'
  BY <1>3 DEF FormsInv, FormsTyped
<1> QED
  BY <1>7, <1>8 DEF FormsInv

LEMMA FilledInput ==
  ASSUME FormsInv, NEW i \in TerminalInputs
  PROVE  Filled(i) \in TerminalInputs
BY DEF FormsInv, FormsTyped, Filled, TerminalInputs

-----------------------------------------------------------------------------
(* The forms: the terminal and the builders *)

LEMMA CommandKeeps ==
  ASSUME FormsInv, NEW a \in Asks, NEW fields \in TerminalInputs, SubmitCommand(a, fields)
  PROVE  FormsInv'
<1> DEFINE input == Filled(fields)
<1>1. input \in TerminalInputs /\ asks[a].phase = "none" /\ terminal' = input /\ UNCHANGED <<policy, page, selected, agent, overlay, editing>>
  BY FilledInput DEF SubmitCommand
<1>2. asks[a].form # "view"
  BY <1>1 DEF FormsInv, AsksSound, SoundAsk
<1>3. CASE TerminalIssues(input) # {}
  <2>1. asks' = Refused(a, "terminal", input) /\ history' = Entered(a, input, "blocked")
        /\ feedback' = [feedback EXCEPT !["terminal"] = [ask |-> a, tone |-> "blocked"]]
    BY <1>3 DEF SubmitCommand
  <2> HIDE DEF input
  <2>2. GoesOn(a) /\ ToldAlready(asks'[a]) /\ asks'[a].sent = input /\ ~asks'[a].done /\ ~ToldAlready(asks[a])
    BY <1>1, <2>1, Refuses
  <2>3. HistorySound'
    BY <1>1, <2>1, <2>2, Enters DEF Tones
  <2>4. FeedbackSound'
    BY <2>1, <2>2, TellsForm DEF Tones, Forms
  <2>5. AsksSound' /\ AgentSound'
    BY <1>1, <2>2, KeepsTelling
  <2> QED
    BY <1>1, <2>3, <2>4, <2>5 DEF FormsInv, FormsTyped
<1>4. CASE TerminalIssues(input) = {}
  <2>1. asks' = Sending(a, "terminal", input, overlay) /\ history' = history /\ feedback' = feedback
    BY <1>4 DEF SubmitCommand
  <2> HIDE DEF input
  <2>2. GoesOn(a)
    BY <1>1, <1>2, <2>1, Sends
  <2>3. AsksSound' /\ AgentSound' /\ HistorySound' /\ FeedbackSound'
    BY <1>1, <2>1, <2>2, KeepsTelling
  <2> QED
    BY <1>1, <2>3 DEF FormsInv, FormsTyped
<1> QED
  BY <1>3, <1>4

\* An answered submission of a form.
LEMMA ToldAfterAnswer ==
  ASSUME FormsInv, NEW a \in Asks, asks[a].phase = "replied", asks[a].form \in Forms, Goes(a, ToneOf(Answered(a))),
         feedback' = [feedback EXCEPT ![asks[a].form] = [ask |-> a, tone |-> ToneOf(Answered(a))]]
  PROVE  /\ GoesOn(a) /\ FeedbackSound' /\ ToldAlready(asks'[a]) /\ ~ToldAlready(asks[a]) /\ asks'[a].sent = asks[a].sent
         /\ ToneOf(Answered(a)) \in Tones /\ page' \in [phase : {"none", "reading", "lost"}, queued : BOOLEAN]
         /\ ToneOf(Answered(a)) = "ok" => asks'[a].done
         /\ ToneOf(Answered(a)) \in {"warn", "blocked"} => ~asks'[a].done
<1> DEFINE tone == ToneOf(Answered(a))
           p == IF tone = "error" THEN "over" ELSE Step("refreshing", "over")
<1>1. asks' = [asks EXCEPT ![a].phase = p] /\ page' \in {page, PageAsked} /\ p \in {"refreshing", "over"}
  BY DEF Goes, Step
<1>2. /\ tone \in {"ok", "warn", "error"}
      /\ tone = "ok" => asks[a].done
      /\ tone = "warn" => ~asks[a].done
      /\ tone = "error" /\ asks[a].done => asks[a].reply \in {"error", "network"}
  BY AnswersOfForms DEF ToneOf, FormsInv, AsksSound
<1>3. page' \in [phase : {"none", "reading", "lost"}, queued : BOOLEAN]
  BY <1>1, PageIsPage DEF FormsInv, FormsTyped
<1> HIDE DEF tone, p
<1>4. /\ GoesOn(a) /\ asks'[a].phase = p /\ asks'[a].sent = asks[a].sent /\ asks'[a].done = asks[a].done
      /\ asks'[a].reply = asks[a].reply
  BY <1>1, Proceeds DEF ToldAlready, Forms
<1>5. ToldAlready(asks'[a]) /\ ~ToldAlready(asks[a])
  BY <1>1, <1>4 DEF ToldAlready
<1>6. feedback' = [feedback EXCEPT ![asks[a].form] = [ask |-> a, tone |-> tone]]
  BY DEF tone
<1>7. FeedbackSound'
  BY <1>2, <1>4, <1>5, <1>6, TellsForm DEF Tones
<1> QED
  BY <1>2, <1>3, <1>4, <1>5, <1>7 DEF Tones, tone

LEMMA CommandAnsweredKeeps ==
  ASSUME FormsInv, NEW a \in Asks, CommandAnswered(a)
  PROVE  FormsInv'
<1>1. /\ asks[a].phase = "replied" /\ asks[a].form = "terminal" /\ Goes(a, ToneOf(Answered(a)))
      /\ history' = Entered(a, asks[a].sent, ToneOf(Answered(a)))
      /\ feedback' = [feedback EXCEPT !["terminal"] = [ask |-> a, tone |-> ToneOf(Answered(a))]]
      /\ UNCHANGED <<policy, selected, terminal, agent, overlay, editing>>
  BY DEF CommandAnswered
<1>2. /\ GoesOn(a) /\ FeedbackSound' /\ ToldAlready(asks'[a]) /\ ~ToldAlready(asks[a]) /\ asks'[a].sent = asks[a].sent
      /\ ToneOf(Answered(a)) \in Tones /\ page' \in [phase : {"none", "reading", "lost"}, queued : BOOLEAN]
      /\ ToneOf(Answered(a)) = "ok" => asks'[a].done
      /\ ToneOf(Answered(a)) \in {"warn", "blocked"} => ~asks'[a].done
  BY <1>1, ToldAfterAnswer DEF Forms
<1>3. asks[a].sent \in TerminalInputs
  BY <1>1 DEF FormsInv, AsksSound, SoundAsk
<1>4. HistorySound'
  BY <1>1, <1>2, <1>3, Enters
<1>5. AsksSound' /\ AgentSound'
  BY <1>1, <1>2, KeepsTelling
<1> QED
  BY <1>1, <1>2, <1>4, <1>5 DEF FormsInv, FormsTyped

LEMMA TerminalKeeps ==
  ASSUME FormsInv, TerminalNext
  PROVE  FormsInv'
<1>1. ASSUME NEW i \in TerminalInputs, TypeTerminal(i) PROVE FormsInv'
  <2>1. terminal' \in TerminalInputs /\ UNCHANGED <<policy, page, selected, history, feedback, agent, overlay, editing, asks>>
    BY <1>1, FilledInput DEF TypeTerminal
  <2> QED
    BY <2>1 DEF FormsInv, FormsTyped, AsksSound, HistorySound, HistoryIsTrue, FeedbackSound, FeedbackIsTrue, AgentSound
<1>2. ASSUME NEW a \in Asks, SubmitTerminal(a) PROVE FormsInv'
  BY <1>2, CommandKeeps DEF SubmitTerminal, FormsInv, FormsTyped
<1>3. ASSUME NEW a \in Asks, NEW n \in 1 .. HistoryLimit, RerunTerminal(a, n) PROVE FormsInv'
  <2>1. history[n].input \in TerminalInputs
    BY <1>3, EntriesOfHistory DEF RerunTerminal, FormsInv, HistorySound
  <2> QED
    BY <1>3, <2>1, CommandKeeps DEF RerunTerminal
<1> QED
  BY <1>1, <1>2, <1>3, CommandAnsweredKeeps DEF TerminalNext, TerminalSteps

LEMMA SubmitFormKeeps ==
  ASSUME FormsInv, NEW a \in Asks, NEW f \in {"run", "action"}, NEW input, NEW issues, SubmitForm(a, f, input, issues)
  PROVE  FormsInv'
<1>1. asks[a].phase = "none" /\ UNCHANGED <<policy, page, selected, terminal, history, agent, overlay, editing>>
  BY DEF SubmitForm
<1>2. asks[a].form # "view"
  BY <1>1 DEF FormsInv, AsksSound, SoundAsk
<1>3. CASE issues # {}
  <2>1. asks' = Refused(a, f, "none") /\ feedback' = [feedback EXCEPT ![f] = [ask |-> a, tone |-> "blocked"]]
    BY <1>3 DEF SubmitForm
  <2>2. GoesOn(a) /\ ToldAlready(asks'[a])
    BY <1>1, <2>1, Refuses
  <2>3. FeedbackSound'
    BY <2>1, <2>2, TellsForm DEF Tones, Forms
  <2>4. AsksSound' /\ AgentSound' /\ HistorySound'
    BY <1>1, <2>2, KeepsTelling
  <2> QED
    BY <1>1, <2>3, <2>4 DEF FormsInv, FormsTyped
<1>4. CASE issues = {}
  <2>1. asks' = Sending(a, f, "none", overlay) /\ feedback' = feedback
    BY <1>4 DEF SubmitForm
  <2>2. GoesOn(a)
    BY <1>1, <1>2, <2>1, Sends
  <2>3. AsksSound' /\ AgentSound' /\ HistorySound' /\ FeedbackSound'
    BY <1>1, <2>1, <2>2, KeepsTelling
  <2> QED
    BY <1>1, <2>3 DEF FormsInv, FormsTyped
<1> QED
  BY <1>3, <1>4

LEMMA RunOfTerminal ==
  ASSUME FormsInv, NEW a \in Asks
  PROVE  a \in RunIds \cup {NoRunId} /\ [terminal EXCEPT !.run = a] \in TerminalInputs
BY DEF FormsInv, FormsTyped, RunIds, TerminalInputs

LEMMA FormAnsweredKeeps ==
  ASSUME FormsInv, NEW a \in Asks, FormAnswered(a)
  PROVE  FormsInv'
<1>1. /\ asks[a].phase = "replied" /\ asks[a].form \in {"run", "action"} /\ Goes(a, ToneOf(Answered(a)))
      /\ feedback' = [feedback EXCEPT ![asks[a].form] = [ask |-> a, tone |-> ToneOf(Answered(a))]]
      /\ UNCHANGED <<policy, history, agent, overlay, editing>>
  BY DEF FormAnswered
<1>2. GoesOn(a) /\ FeedbackSound' /\ page' \in [phase : {"none", "reading", "lost"}, queued : BOOLEAN]
  BY <1>1, ToldAfterAnswer DEF Forms
<1>3. selected' \in RunIds \cup {NoRunId} /\ terminal' \in TerminalInputs
  BY RunOfTerminal DEF FormAnswered, FormsInv, FormsTyped
<1>4. AsksSound' /\ AgentSound' /\ HistorySound'
  BY <1>1, <1>2, KeepsTelling
<1> QED
  BY <1>1, <1>2, <1>3, <1>4 DEF FormsInv, FormsTyped

LEMMA BuilderKeeps ==
  ASSUME FormsInv, BuilderNext
  PROVE  FormsInv'
<1>1. ASSUME NEW a \in Asks, SubmitRunBuilder(a) PROVE FormsInv'
  BY <1>1, SubmitFormKeeps DEF SubmitRunBuilder
<1>2. ASSUME NEW a \in Asks, SubmitAction(a) PROVE FormsInv'
  BY <1>2, SubmitFormKeeps DEF SubmitAction
<1> QED
  BY <1>1, <1>2, FormAnsweredKeeps DEF BuilderNext

-----------------------------------------------------------------------------
(* The forms: the agent test, the overlay and the refresh *)

\* The handler of a submission that has come back, or of a view that has been read, shows
\* it and goes on to the refresh.
LEMMA ShownKeeps ==
  ASSUME FormsInv, NEW a \in Asks, asks[a].phase \in {"replied", "loading"}, agent' \in AgentTests, page' = PageAsked,
         asks' = [asks EXCEPT ![a].phase = Step("refreshing", "over")],
         UNCHANGED <<policy, selected, terminal, history, feedback, overlay, editing>>,
         agent'.response # "none" => \/ agent'.response = a /\ agent'.draft.prompt = asks[a].sent.prompt
                                     \/ agent'.response = agent.response /\ agent'.draft.prompt = agent.draft.prompt,
         agent'.view # "none" /\ agent'.view # agent'.response => asks[a].form = "view"
  PROVE  FormsInv'
<1> DEFINE p == Step("refreshing", "over")
<1>1. p \in {"refreshing", "over"} /\ asks' = [asks EXCEPT ![a].phase = p]
  BY DEF Step
<1> HIDE DEF p
<1>2. GoesOn(a) /\ asks'[a].phase = p /\ asks'[a].sent = asks[a].sent /\ asks'[a].form = asks[a].form
  BY <1>1, Proceeds DEF ToldAlready
<1>3. AsksSound' /\ HistorySound' /\ FeedbackSound' /\ \A b \in Asks : Carries(asks[b], asks'[b])
  BY <1>2, KeepsTelling
<1>4. ToldAlready(asks'[a])
  BY <1>1, <1>2 DEF ToldAlready
<1>5. ASSUME agent'.response # "none" PROVE ToldAlready(asks'[agent'.response]) /\ agent'.draft.prompt = asks'[agent'.response].sent.prompt
  <2>1. CASE agent'.response = a /\ agent'.draft.prompt = asks[a].sent.prompt
    BY <1>2, <1>4, <2>1
  <2>2. CASE agent'.response = agent.response /\ agent'.draft.prompt = agent.draft.prompt
    <3>1. agent.response \in Asks /\ ToldAlready(asks[agent.response]) /\ agent.draft.prompt = asks[agent.response].sent.prompt
      BY <1>5, <2>2 DEF FormsInv, AgentSound, AgentTests
    <3> QED
      BY <1>3, <2>2, <3>1 DEF Carries
  <2> QED
    BY <1>5, <2>1, <2>2
<1>6. AgentSound'
  BY <1>2, <1>5 DEF AgentSound
<1>7. FormsTyped'
  BY PageIsPage DEF FormsInv, FormsTyped
<1> QED
  BY <1>3, <1>6, <1>7 DEF FormsInv

LEMMA TypeAgentKeeps ==
  ASSUME FormsInv, NEW d \in AgentDrafts, TypeAgent(d)
  PROVE  FormsInv'
<1>1. agent' = Retyped(d) /\ UNCHANGED <<policy, page, selected, terminal, history, feedback, overlay, editing, asks>>
  BY DEF TypeAgent
<1>2. agent' \in AgentTests /\ agent'.response = "none" /\ agent'.view = "none"
  BY <1>1 DEF Retyped, AgentTests
<1> QED
  BY <1>1, <1>2 DEF FormsInv, FormsTyped, AsksSound, HistorySound, HistoryIsTrue, FeedbackSound, FeedbackIsTrue, AgentSound

LEMMA PickProfileKeeps ==
  ASSUME FormsInv, NEW p \in Profiles, PickProfile(p)
  PROVE  FormsInv'
<1>1. agent' = [agent EXCEPT !.draft.profile = p] /\ page' = PageAsked
      /\ UNCHANGED <<policy, selected, terminal, history, feedback, overlay, editing, asks>>
  BY DEF PickProfile
<1>2. agent \in AgentTests /\ agent.draft \in AgentDrafts
  BY DEF FormsInv, AgentSound, AgentTests
<1>3. [agent.draft EXCEPT !.profile = p] \in AgentDrafts /\ [agent.draft EXCEPT !.profile = p].prompt = agent.draft.prompt
  BY <1>2 DEF AgentDrafts
<1>4. agent' \in AgentTests /\ agent'.response = agent.response /\ agent'.view = agent.view /\ agent'.draft.prompt = agent.draft.prompt
  BY <1>1, <1>2, <1>3 DEF AgentTests
<1>5. AgentSound'
  BY <1>1, <1>4 DEF FormsInv, AgentSound
<1>6. FormsTyped'
  BY <1>1, PageIsPage DEF FormsInv, FormsTyped
<1> QED
  BY <1>1, <1>5, <1>6 DEF FormsInv, AsksSound, HistorySound, HistoryIsTrue, FeedbackSound, FeedbackIsTrue

LEMMA InvokeKeeps ==
  ASSUME FormsInv, NEW a \in Asks, InvokeAgentTest(a)
  PROVE  FormsInv'
<1> DEFINE valid == AgentValid(agent.draft)
<1>1. /\ asks[a].phase = "none" /\ page' = PageAsked
      /\ agent' = [agent EXCEPT !.status = IF valid THEN "running" ELSE "invalid", !.response = "none", !.view = "none"]
      /\ UNCHANGED <<policy, selected, terminal, history, feedback, overlay, editing>>
  BY DEF InvokeAgentTest
<1>2. agent \in AgentTests /\ agent.draft \in AgentDrafts
  BY DEF FormsInv, AgentSound, AgentTests
<1>3. agent' \in AgentTests /\ agent'.response = "none" /\ agent'.view = "none"
  BY <1>1, <1>2 DEF AgentTests
<1>4. asks[a].form # "view" /\ ~ToldAlready(asks[a]) /\ asks \in [Asks -> AskRecords] /\ overlay \in Overlays \cup {NoOverlay}
  BY <1>1 DEF FormsInv, FormsTyped, AsksSound, SoundAsk, ToldAlready
<1>5. GoesOn(a)
  <2>1. CASE ~valid
    <3>1. asks' = Refused(a, "agent", agent.draft)
      BY <2>1 DEF InvokeAgentTest
    <3> QED
      BY <1>1, <1>2, <3>1, Refuses
  <2>2. CASE valid /\ PageBusy
    <3>1. asks' = Sending(a, "agent", agent.draft, overlay)
      BY <2>2 DEF InvokeAgentTest
    <3> QED
      BY <1>1, <1>2, <1>4, <3>1, Sends
  <2>3. CASE valid /\ ~PageBusy
    <3> DEFINE x == [NoAsk EXCEPT !.form = "agent", !.sent = agent.draft, !.phase = "preparing", !.context = overlay]
    <3>1. asks' = [asks EXCEPT ![a] = x]
      BY <2>3 DEF InvokeAgentTest
    <3>2. x \in AskRecords /\ x.form = "agent" /\ x.phase = "preparing" /\ x.sent = agent.draft
      BY <1>2, <1>4, NoAskIsSound DEF AskRecords, NoAsk
    <3> HIDE DEF x
    <3>3. asks' \in [Asks -> AskRecords] /\ asks'[a] = x /\ \A b \in Asks : b # a => asks'[b] = asks[b]
      BY <1>4, <3>1, <3>2
    <3>4. SoundAsk(x)
      BY <1>2, <3>2 DEF SoundAsk
    <3> QED
      BY <1>4, <3>3, <3>4 DEF GoesOn, Carries
  <2> QED
    BY <2>1, <2>2, <2>3
<1>6. AsksSound' /\ HistorySound' /\ FeedbackSound'
  BY <1>1, <1>5, KeepsTelling
<1>7. AgentSound'
  BY <1>3 DEF AgentSound
<1>8. FormsTyped'
  BY <1>1, PageIsPage DEF FormsInv, FormsTyped
<1> QED
  BY <1>6, <1>7, <1>8 DEF FormsInv

LEMMA AgentAnsweredKeeps ==
  ASSUME FormsInv, NEW a \in Asks, AgentAnswered(a)
  PROVE  FormsInv'
<1>1. asks[a].phase = "replied" /\ asks[a].form = "agent" /\ UNCHANGED <<policy, selected, terminal, history, feedback, overlay, editing>>
  BY DEF AgentAnswered
<1>2. CASE Answered(a) = "value"
  <2>1. asks' = [asks EXCEPT ![a].phase = "loading"] /\ UNCHANGED <<agent, page>>
    BY <1>2 DEF AgentAnswered
  <2>2. GoesOn(a)
    BY <1>1, <2>1, Proceeds DEF ToldAlready
  <2>3. AsksSound' /\ HistorySound' /\ FeedbackSound' /\ AgentSound'
    BY <1>1, <2>1, <2>2, KeepsTelling
  <2> QED
    BY <1>1, <2>1, <2>3 DEF FormsInv, FormsTyped
<1>3. CASE Answered(a) # "value"
  <2> DEFINE failed == Answered(a) = "throws" \/ asks[a].reply = "404"
  <2>1. /\ agent' = [draft |-> asks[a].sent, status |-> IF failed THEN "error" ELSE "warn",
                     response |-> IF Answered(a) = "throws" THEN "none" ELSE a, view |-> "none"]
        /\ asks' = [asks EXCEPT ![a].phase = Step("refreshing", "over")] /\ page' = PageAsked
    BY <1>3 DEF AgentAnswered
  <2>2. asks[a].sent \in AgentDrafts
    BY <1>1 DEF FormsInv, AsksSound, SoundAsk
  <2>3. agent' \in AgentTests /\ agent'.response \in {"none", a} /\ agent'.draft = asks[a].sent /\ agent'.view = "none"
    BY <2>1, <2>2 DEF AgentTests
  <2> QED
    BY <1>1, <2>1, <2>3, ShownKeeps
<1> QED
  BY <1>2, <1>3

LEMMA AgentShownKeeps ==
  ASSUME FormsInv, NEW a \in Asks, AgentShown(a)
  PROVE  FormsInv'
<1>1. /\ asks[a].phase = "loading" /\ asks[a].form = "agent" /\ page' = PageAsked
      /\ agent' = [draft |-> asks[a].sent, status |-> "success", response |-> a, view |-> a]
      /\ asks' = [asks EXCEPT ![a].phase = Step("refreshing", "over")]
      /\ UNCHANGED <<policy, selected, terminal, history, feedback, overlay, editing>>
  BY DEF AgentShown
<1>2. asks[a].sent \in AgentDrafts
  BY <1>1 DEF FormsInv, AsksSound, SoundAsk
<1>3. agent' \in AgentTests /\ agent'.response = a /\ agent'.draft = asks[a].sent /\ agent'.view = a
  BY <1>1, <1>2 DEF AgentTests
<1> QED
  BY <1>1, <1>3, ShownKeeps

LEMMA ReloadViewKeeps ==
  ASSUME FormsInv, NEW a \in Asks, ReloadView(a)
  PROVE  FormsInv'
<1> DEFINE session == IF agent.view # "none" THEN agent.view ELSE agent.response
           p == Step("preparing", "loading")
           x == [NoAsk EXCEPT !.form = "view", !.sent = session, !.phase = p]
<1>1. /\ asks[a].phase = "none" /\ session # "none" /\ agent' = [agent EXCEPT !.view = session]
      /\ asks' = [asks EXCEPT ![a] = x] /\ page' = PageAsked
      /\ UNCHANGED <<policy, selected, terminal, history, feedback, overlay, editing>>
  BY DEF ReloadView
<1>2. session \in Asks
  BY <1>1 DEF FormsInv, AgentSound, AgentTests
<1>3. p \in {"preparing", "loading"}
  BY DEF Step
<1>4. agent' \in AgentTests /\ agent'.response = agent.response /\ agent'.draft = agent.draft /\ agent'.view = session
  BY <1>1, <1>2 DEF FormsInv, AgentSound, AgentTests
<1> HIDE DEF session, p
<1>5. x \in AskRecords /\ x.form = "view" /\ x.phase = p /\ x.sent = session
  BY <1>2, <1>3, NoAskIsSound DEF AskRecords, NoAsk
<1> HIDE DEF x
<1>6. asks' \in [Asks -> AskRecords] /\ asks'[a] = x /\ \A b \in Asks : b # a => asks'[b] = asks[b]
  BY <1>1, <1>5 DEF FormsInv, AsksSound
<1>7. SoundAsk(x)
  BY <1>2, <1>3, <1>5 DEF SoundAsk
<1>8. GoesOn(a)
  BY <1>1, <1>5, <1>6, <1>7 DEF GoesOn, Carries, ToldAlready
<1>9. AsksSound' /\ HistorySound' /\ FeedbackSound' /\ \A b \in Asks : Carries(asks[b], asks'[b])
  BY <1>1, <1>8, KeepsTelling
<1>10. agent.response # "none" => agent.response \in Asks /\ ToldAlready(asks[agent.response])
  BY DEF FormsInv, AgentSound, AgentTests
<1>11. AgentSound'
  <2>1. agent.response # "none" => ToldAlready(asks'[agent.response]) /\ asks'[agent.response].sent = asks[agent.response].sent
    BY <1>9, <1>10 DEF Carries
  <2>2. \E b \in Asks : asks'[b].form = "view"
    BY <1>5, <1>6
  <2> QED
    BY <1>4, <2>1, <2>2 DEF FormsInv, AgentSound
<1>12. FormsTyped'
  BY <1>1, PageIsPage DEF FormsInv, FormsTyped
<1> QED
  BY <1>9, <1>11, <1>12 DEF FormsInv

LEMMA ViewShownKeeps ==
  ASSUME FormsInv, NEW a \in Asks, ViewShown(a)
  PROVE  FormsInv'
<1>1. /\ asks[a].phase = "loading" /\ asks[a].form = "view" /\ page' = PageAsked
      /\ agent' = [agent EXCEPT !.view = asks[a].sent]
      /\ asks' = [asks EXCEPT ![a].phase = Step("refreshing", "over")]
      /\ UNCHANGED <<policy, selected, terminal, history, feedback, overlay, editing>>
  BY DEF ViewShown
<1>2. asks[a].sent \in Asks
  BY <1>1 DEF FormsInv, AsksSound, SoundAsk
<1>3. agent' \in AgentTests /\ agent'.response = agent.response /\ agent'.draft = agent.draft
  BY <1>1, <1>2 DEF FormsInv, AgentSound, AgentTests
<1> QED
  BY <1>1, <1>3, ShownKeeps

LEMMA AgentKeeps ==
  ASSUME FormsInv, AgentNext
  PROVE  FormsInv'
BY TypeAgentKeeps, PickProfileKeeps, InvokeKeeps, AgentAnsweredKeeps, AgentShownKeeps, ReloadViewKeeps, ViewShownKeeps DEF AgentNext

LEMMA OverlayKeeps ==
  ASSUME FormsInv, OverlayNext
  PROVE  FormsInv'
<1>1. UNCHANGED <<policy, selected, terminal, history, feedback, agent, asks>> /\ page' \in {page, PageAsked}
      /\ overlay' \in Overlays \cup {NoOverlay} /\ editing' \in Overlays \cup {NoOverlay, Invalid}
  BY DEF OverlayNext, TypeOverlay, SaveOverlay, ClearOverlay, ResetOverlay, FormsInv, FormsTyped
<1>2. FormsTyped'
  BY <1>1, PageIsPage DEF FormsInv, FormsTyped
<1> QED
  BY <1>1, <1>2 DEF FormsInv, AsksSound, HistorySound, HistoryIsTrue, FeedbackSound, FeedbackIsTrue, AgentSound

LEMMA ResumedKeeps ==
  ASSUME FormsInv, NEW a \in Asks, asks[a].phase \in {"preparing", "refreshing"}, Resumed(a),
         UNCHANGED <<history, feedback, agent>>
  PROVE  AsksSound' /\ HistorySound' /\ FeedbackSound' /\ AgentSound' /\ selected' \in RunIds \cup {NoRunId} /\ terminal' \in TerminalInputs
<1>1. SoundAsk(asks[a])
  BY DEF FormsInv, AsksSound
<1>2. GoesOn(a)
  <2>1. CASE asks[a].phase = "refreshing"
    <3>1. asks' = [asks EXCEPT ![a].phase = "over"]
      BY <2>1 DEF Resumed
    <3> QED
      BY <2>1, <3>1, Proceeds
  <2>2. CASE asks[a].phase = "preparing" /\ asks[a].form = "view"
    <3>1. asks' = [asks EXCEPT ![a].phase = "loading"]
      BY <2>2 DEF Resumed
    <3> QED
      BY <2>2, <3>1, Proceeds DEF ToldAlready
  <2>3. CASE asks[a].phase = "preparing" /\ asks[a].form # "view"
    <3>1. asks' = Sending(a, "agent", asks[a].sent, overlay)
      BY <2>3 DEF Resumed, ContextAtSend
    <3>2. asks[a].form = "agent" /\ asks[a].sent \in AgentDrafts
      BY <1>1, <2>3 DEF SoundAsk
    <3> QED
      BY <2>3, <3>1, <3>2, Sends
  <2> QED
    BY <2>1, <2>2, <2>3
<1>3. selected' \in RunIds \cup {NoRunId} /\ terminal' \in TerminalInputs
  BY RunOfTerminal DEF Resumed, FormsInv, FormsTyped
<1> QED
  BY <1>2, <1>3, KeepsTelling

LEMMA BrokenKeeps ==
  ASSUME FormsInv, NEW a \in Asks, asks[a].phase \in {"preparing", "refreshing"}, Broken(a), UNCHANGED agent
  PROVE  AsksSound' /\ HistorySound' /\ FeedbackSound' /\ AgentSound'
<1>1. asks \in [Asks -> AskRecords] /\ SoundAsk(asks[a])
  BY DEF FormsInv, AsksSound
<1>2. asks' = [asks EXCEPT ![a].phase = "over", ![a].broken = TRUE]
  BY DEF Broken
<1> DEFINE x == asks'[a]
<1>3. /\ asks' \in [Asks -> AskRecords] /\ x \in AskRecords /\ x.form = asks[a].form /\ x.sent = asks[a].sent /\ x.phase = "over"
      /\ x.done = asks[a].done /\ x.context = asks[a].context /\ x.saved = asks[a].saved /\ x.reply = asks[a].reply /\ x.broken = TRUE
      /\ \A b \in Asks : b # a => asks'[b] = asks[b]
  BY <1>1, <1>2 DEF AskRecords
<1> HIDE DEF x
<1>4. SoundAsk(x)
  BY <1>1, <1>3 DEF SoundAsk
<1>5. GoesOn(a) /\ ToldAlready(asks'[a]) /\ asks'[a].broken /\ asks'[a].sent = asks[a].sent
  BY <1>3, <1>4 DEF GoesOn, Carries, ToldAlready, x
<1>6. HistorySound'
  <2>1. CASE asks[a].form = "terminal"
    <3>1. history' = Entered(a, asks[a].sent, "error") /\ asks[a].sent \in TerminalInputs
      BY <1>1, <2>1 DEF Broken, SoundAsk
    <3> QED
      BY <1>5, <3>1, Enters DEF Tones
  <2>2. CASE asks[a].form # "terminal"
    BY <1>5, <2>2, KeepsTelling DEF Broken
  <2> QED
    BY <2>1, <2>2
<1>7. FeedbackSound'
  <2>1. CASE asks[a].form \in Forms
    <3>1. feedback' = [feedback EXCEPT ![asks[a].form] = [ask |-> a, tone |-> "error"]]
      BY <2>1 DEF Broken
    <3> QED
      BY <1>5, <2>1, <3>1, TellsForm DEF Tones
  <2>2. CASE asks[a].form \notin Forms
    BY <1>5, <2>2, KeepsTelling DEF Broken
  <2> QED
    BY <2>1, <2>2
<1> QED
  BY <1>5, <1>6, <1>7, KeepsTelling

LEMMA PageKeeps ==
  ASSUME FormsInv, PageSteps
  PROVE  FormsInv'
<1>1. CASE PageEnds
  <2>1. page' = PageNext /\ UNCHANGED <<policy, history, feedback, agent, overlay, editing>>
    BY <1>1 DEF PageEnds
  <2>2. page' \in [phase : {"none", "reading", "lost"}, queued : BOOLEAN]
    BY <2>1 DEF PageNext
  <2>3. CASE Awaiting = {}
    <3>1. UNCHANGED <<selected, terminal, asks>>
      BY <1>1, <2>3 DEF PageEnds
    <3> QED
      BY <2>1, <2>2, <3>1 DEF FormsInv, FormsTyped, AsksSound, HistorySound, HistoryIsTrue, FeedbackSound, FeedbackIsTrue, AgentSound
  <2>4. CASE Awaiting # {}
    <3>1. PICK a \in Awaiting : Resumed(a)
      BY <1>1, <2>4 DEF PageEnds
    <3>2. a \in Asks /\ asks[a].phase \in {"preparing", "refreshing"}
      BY DEF Awaiting
    <3>3. AsksSound' /\ HistorySound' /\ FeedbackSound' /\ AgentSound' /\ selected' \in RunIds \cup {NoRunId} /\ terminal' \in TerminalInputs
      BY <2>1, <3>1, <3>2, ResumedKeeps
    <3> QED
      BY <2>1, <2>2, <3>3 DEF FormsInv, FormsTyped
  <2> QED
    BY <2>3, <2>4
<1>2. CASE PageBreaks
  <2>1. page' = [page EXCEPT !.phase = "lost"] /\ UNCHANGED <<policy, selected, terminal, agent, overlay, editing>>
    BY <1>2 DEF PageBreaks
  <2>2. page' \in [phase : {"none", "reading", "lost"}, queued : BOOLEAN]
    BY <2>1 DEF FormsInv, FormsTyped
  <2>3. CASE Awaiting = {}
    <3>1. UNCHANGED <<history, feedback, asks>>
      BY <1>2, <2>3 DEF PageBreaks
    <3> QED
      BY <2>1, <2>2, <3>1 DEF FormsInv, FormsTyped, AsksSound, HistorySound, HistoryIsTrue, FeedbackSound, FeedbackIsTrue, AgentSound
  <2>4. CASE Awaiting # {}
    <3>1. PICK a \in Awaiting : Broken(a)
      BY <1>2, <2>4 DEF PageBreaks
    <3>2. a \in Asks /\ asks[a].phase \in {"preparing", "refreshing"}
      BY DEF Awaiting
    <3>3. AsksSound' /\ HistorySound' /\ FeedbackSound' /\ AgentSound'
      BY <2>1, <3>1, <3>2, BrokenKeeps
    <3> QED
      BY <2>1, <2>2, <3>3 DEF FormsInv, FormsTyped
  <2> QED
    BY <2>3, <2>4
<1> QED
  BY <1>1, <1>2 DEF PageSteps

LEMMA FormsStep == FormsInv /\ [FormsNext]_formVars => FormsInv'
<1> SUFFICES ASSUME FormsInv, [FormsNext]_formVars PROVE FormsInv'
  OBVIOUS
<1>1. CASE UNCHANGED formVars
  BY <1>1 DEF formVars, FormsInv, FormsTyped, AsksSound, HistorySound, HistoryIsTrue, FeedbackSound, FeedbackIsTrue, AgentSound
<1> QED
  BY <1>1, PageKeeps, TerminalKeeps, BuilderKeeps, AgentKeeps, OverlayKeeps, AskServedKeeps DEF FormsNext

LEMMA FormsAreTrue == FormsInv => FormsTellTheTruth
<1> SUFFICES ASSUME FormsInv PROVE FormsTellTheTruth
  OBVIOUS
<1>1. \A a \in Asks : (asks[a].form = "agent" /\ asks[a].phase \notin {"none", "preparing", "over"}) => asks[a].context = asks[a].saved
  BY DEF FormsInv, AsksSound, SoundAsk
<1>2. AgentIsTrue
  BY <1>1 DEF FormsInv, AgentSound, AgentIsTrue
<1> QED
  BY <1>2 DEF FormsInv, HistorySound, FeedbackSound, FormsTellTheTruth

\* The terminal policy is the deployment's: no form changes it.
PolicyTyped == policy \in [readOnly : BOOLEAN, hostBlocked : BOOLEAN]

LEMMA PolicyStays == PolicyTyped /\ [FormsNext]_formVars => PolicyTyped'
<1> SUFFICES ASSUME [FormsNext]_formVars PROVE policy' = policy
  BY DEF PolicyTyped
<1>1. PageSteps \/ (\E a \in Asks : AskServed(a)) => policy' = policy
  BY DEF PageSteps, PageEnds, PageBreaks, AskServed
<1>2. TerminalNext => policy' = policy
  BY DEF TerminalNext, TerminalSteps, TypeTerminal, SubmitTerminal, SubmitCommand, RerunTerminal, CommandAnswered
<1>3. BuilderNext => policy' = policy
  BY DEF BuilderNext, SubmitRunBuilder, SubmitAction, SubmitForm, FormAnswered
<1>4. AgentNext => policy' = policy
  BY DEF AgentNext, TypeAgent, PickProfile, InvokeAgentTest, AgentAnswered, AgentShown, ReloadView, ViewShown
<1>5. OverlayNext => policy' = policy
  BY DEF OverlayNext, TypeOverlay, SaveOverlay, ClearOverlay, ResetOverlay
<1> QED
  BY <1>1, <1>2, <1>3, <1>4, <1>5 DEF FormsNext, formVars

\* The forms, the terminal's history, the agent's test and the submissions stay well typed.
THEOREM FormsAreWellFormed == FormsSpec => []FormsTypeOK
<1>1. FormsInit => PolicyTyped
  BY DEF FormsInit, PolicyTyped
<1>2. PolicyTyped /\ FormsInv => FormsTypeOK
  <2> SUFFICES ASSUME PolicyTyped, FormsInv PROVE FormsTypeOK
    OBVIOUS
  <2>1. \A n \in DOMAIN history : history[n].ask \in Asks /\ history[n].input \in TerminalInputs
    <3> SUFFICES ASSUME NEW n \in DOMAIN history PROVE history[n].ask \in Asks /\ history[n].input \in TerminalInputs
      OBVIOUS
    <3>1. history \in Seq(HistoryEntries)
      BY DEF FormsInv, HistorySound
    <3>2. history[n] \in HistoryEntries
      BY <3>1
    <3> QED
      BY <3>2 DEF HistoryEntries
  <2>2. \A f \in Forms : feedback[f].tone \in {"none", "ok", "warn", "blocked", "error"}
    BY DEF FormsInv, FeedbackSound, Tones
  <2>3. \A a \in Asks : asks[a].phase \in {"none", "preparing", "sent", "replied", "loading", "refreshing", "over"}
    BY DEF FormsInv, AsksSound, AskRecords
  <2>4. agent.draft \in AgentDrafts /\ agent.response \in Asks \cup {"none"} /\ agent.view \in Asks \cup {"none"}
    BY DEF FormsInv, AgentSound, AgentTests
  <2> QED
    BY <2>1, <2>2, <2>3, <2>4 DEF PolicyTyped, FormsInv, FormsTyped, HistorySound, FormsTypeOK
<1> QED
  BY <1>1, <1>2, FormsStart, FormsStep, PolicyStays, PTL DEF FormsSpec

-----------------------------------------------------------------------------
(* The forms and the approvals together *)

\* What the page tells its operator is true: of a decision, when the approvals and the holds
\* are decided, and of a command, a run or an answer, when the forms are submitted, however
\* the two interleave.
THEOREM PageIsTruthful == DeskSpec /\ FormsSpec => []PageTellsTheTruth
<1>1. FormsSpec => []FormsTellTheTruth
  BY FormsStart, FormsStep, FormsAreTrue, PTL DEF FormsSpec
<1>2. PageTellsTheTruth <=> ToldTheTruth /\ FormsTellTheTruth
  BY DEF PageTellsTheTruth
<1> QED
  BY <1>1, <1>2, OperatorIsToldTheTruth, PTL
=============================================================================

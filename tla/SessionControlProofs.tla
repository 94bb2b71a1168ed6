------------------------ MODULE SessionControlProofs ------------------------
(***************************************************************************)
(* What SessionControl guarantees for every set of handlers, checkpoints   *)
(* and workers: an ended session has its time, a selected worker has its   *)
(* row, a resolved checkpoint is not opened again and a session does not   *)
(* return to PENDING.                                                      *)
(*                                                                         *)
(* Each needs the same idea.  The session row is always some handler's     *)
(* earlier copy, changed; so whatever is to hold of the row has to hold of *)
(* every copy as well (RowsSound).  And what a handler read before it      *)
(* writes must still be true when it writes, although others write in      *)
(* between (CreateInv, CheckpointInv, AttachInv): rows are only ever       *)
(* added, and ids are used by one request.                                 *)
(***************************************************************************)
EXTENDS SessionControl, TLAPS

-----------------------------------------------------------------------------
(* Type correctness *)

(* A changed row is a row. *)
LEMMA ChangedType ==
  ASSUME NEW r \in Request, NEW row \in Row
  PROVE  Changed(r, row) \in Row
<1> USE StatusesAssumption DEF Row, Changed
<1>1. CASE r.kind = "create"
  BY <1>1 DEF Absent, SessionStatus
<1>2. CASE r.kind = "checkpoint"
  BY <1>2 DEF SessionStatus
<1>3. CASE r.kind = "decision"
  BY <1>3 DEF AfterDecision, SessionStatus, Terminal
<1>4. CASE r.kind = "attach"
  <2>1. r.worker \in Workers
    BY <1>4 DEF Request
  <2> QED BY <1>4, <2>1 DEF AfterAttach, SessionStatus
<1>5. CASE r.kind = "report"
  <2>1. r.status \in WorkerStatus
    BY <1>5 DEF Request
  <2>2. StatusForReport(r.status, row.status) \in SessionStatus \cup {"none"}
    BY <2>1 DEF StatusForReport, SessionStatus, Terminal, WorkerStatus
  <2> QED BY <1>5, <2>2 DEF AfterReport
<1>6. CASE r.kind = "action"
  BY <1>6 DEF AfterAction, SessionStatus
<1>7. CASE r.kind = "close"
  BY <1>7 DEF Request, SessionStatus
<1>8. r.kind \in {"create", "checkpoint", "decision", "attach", "report",
                  "action", "close"}
  BY DEF Request
<1> QED BY <1>1, <1>2, <1>3, <1>4, <1>5, <1>6, <1>7, <1>8

(* Answering resets the handler. *)
LEMMA AnswerType ==
  ASSUME TypeOK, NEW h \in Handlers, Answer(h)
  PROVE  /\ pc' \in [Handlers -> {"idle", "look", "expire", "row", "session", "task"}]
         /\ req' \in [Handlers -> Request \cup {NoRequest}]
         /\ copy' \in [Handlers -> Row]
         /\ seen' \in [Handlers -> {"none"} \cup WorkerStatus]
         /\ crossed' \subseteq Handlers
BY DEF TypeOK, Answer, Absent, Row

(* A handler under way serves a request. *)
Serving == \A h \in Handlers : pc[h] # "idle" => req[h] \in Request

TypeInv == TypeOK /\ Serving

LEMMA TypeInit == Init => TypeInv
<1>1. Absent \in Row
  BY DEF Absent, Row
<1>2. Init => TypeOK
  BY <1>1 DEF Init, TypeOK, TaskStatus
<1>3. Init => Serving
  BY DEF Init, Serving
<1> QED BY <1>2, <1>3 DEF TypeInv

LEMMA TypeStep == TypeInv /\ [Next]_vars => TypeInv'
<1> SUFFICES ASSUME TypeInv, [Next]_vars PROVE TypeInv'
  OBVIOUS
<1> USE StatusesAssumption DEF TypeInv
<1>1. ASSUME NEW h \in Handlers, NEW r \in Request, Receive(h, r) PROVE TypeInv'
  <2>1. FirstStep(r) \in {"session", "row", "look"}
    BY DEF FirstStep, Request
  <2> QED BY <1>1, <2>1 DEF Receive, Busy, TypeOK, Serving, rowVars
<1>2. ASSUME NEW h \in Handlers, LookAtCheckpoint(h) PROVE TypeInv'
  <2>1. CASE checkpoint[req[h].checkpoint] = "PENDING"
    BY <1>2, <2>1 DEF LookAtCheckpoint, TypeOK, Serving, rowVars
  <2>2. CASE checkpoint[req[h].checkpoint] # "PENDING"
    <3>1. Answer(h)
      BY <1>2, <2>2 DEF LookAtCheckpoint
    <3> QED BY <1>2, <3>1, AnswerType DEF LookAtCheckpoint, TypeOK, Serving, rowVars, Answer
  <2> QED BY <2>1, <2>2
<1>3. ASSUME NEW h \in Handlers, LookAtWorker(h) PROVE TypeInv'
  <2>1. CASE req[h].worker # NoWorker => worker[req[h].worker] # "none"
    <3>1. req[h].kind = "report" => worker[req[h].worker] \in {"none"} \cup WorkerStatus
      BY <1>3 DEF LookAtWorker, TypeOK, Serving, Request
    <3> QED BY <1>3, <2>1, <3>1 DEF LookAtWorker, TypeOK, Serving, rowVars
  <2>2. CASE ~(req[h].worker # NoWorker => worker[req[h].worker] # "none")
    <3>1. Answer(h)
      BY <1>3, <2>2 DEF LookAtWorker
    <3> QED BY <1>3, <3>1, AnswerType DEF LookAtWorker, TypeOK, Serving, rowVars, Answer
  <2> QED BY <2>1, <2>2
<1>4. ASSUME NEW h \in Handlers, Expire(h) PROVE TypeInv'
  BY <1>4, AnswerType DEF Expire, TypeOK, Serving, Answer, Resolved
<1>5. ASSUME NEW h \in Handlers, WriteRow(h) PROVE TypeInv'
  <2>1. req[h] \in Request
    BY <1>5 DEF WriteRow, Serving
  <2>2. /\ req[h].kind = "decision" => req[h].verdict \in {"APPROVED", "DENIED"}
        /\ req[h].kind = "report" => req[h].status \in WorkerStatus
    BY <2>1 DEF Request
  <2>3. checkpoint' \in [Checkpoints -> {"none", "PENDING"} \cup Resolved]
    BY <1>5, <2>2 DEF WriteRow, TypeOK, Resolved
  <2>4. worker' \in [Workers -> {"none"} \cup WorkerStatus]
    BY <1>5, <2>2 DEF WriteRow, TypeOK, WorkerStatus
  <2> QED BY <1>5, <2>3, <2>4 DEF WriteRow, TypeOK, Serving, pastVars
<1>6. ASSUME NEW h \in Handlers, WriteSession(h) PROVE TypeInv'
  <2>5. applied' \subseteq Checkpoints
    <3>1. Approves(req[h]) => req[h].checkpoint \in Checkpoints
      BY <1>6 DEF WriteSession, Serving, Approves, Request
    <3> QED BY <1>6, <3>1 DEF WriteSession, TypeOK
  <2>1. Changed(req[h], copy[h]) \in Row
    BY <1>6, ChangedType DEF WriteSession, TypeOK, Serving
  <2>2. session' \in Row
    BY <1>6, <2>1 DEF WriteSession, TypeOK
  <2>3. CASE Answer(h)
    BY <1>6, <2>2, <2>3, <2>5, AnswerType DEF WriteSession, TypeOK, Serving, Answer
  <2>4. CASE pc' = [pc EXCEPT ![h] = "task"] /\ UNCHANGED <<req, copy, seen, crossed>>
    BY <1>6, <2>2, <2>4, <2>5 DEF WriteSession, TypeOK, Serving
  <2> QED BY <1>6, <2>3, <2>4 DEF WriteSession
<1>7. ASSUME NEW h \in Handlers, WriteTask(h) PROVE TypeInv'
  <2>1. task' \in TaskStatus
    BY <1>7 DEF WriteTask, TaskStatusFor, TaskStatus
  <2> QED BY <1>7, <2>1, AnswerType DEF WriteTask, TypeOK, Serving, Answer
<1>8. ASSUME NEW h \in Handlers, Abort(h) PROVE TypeInv'
  BY <1>8, AnswerType DEF Abort, TypeOK, Serving, Answer, rowVars
<1>9. ASSUME NEW c \in Checkpoints, Elapse(c) PROVE TypeInv'
  BY <1>9 DEF Elapse, TypeOK, Serving, rowVars, pastVars
<1>10. CASE OtherSession
  BY <1>10 DEF OtherSession, pastVars, TypeOK, TaskStatus, Serving
<1>11. CASE UNCHANGED vars
  BY <1>11 DEF vars, rowVars, pastVars, TypeOK, Serving
<1> QED
  BY <1>1, <1>2, <1>3, <1>4, <1>5, <1>6, <1>7, <1>8, <1>9, <1>10, <1>11 DEF Next, Handle

LEMMA TypeInvariant == Spec => []TypeInv
BY TypeInit, TypeStep, PTL DEF Spec

(* Every reachable state is well typed. *)
THEOREM TypeCorrect == Spec => []TypeOK
<1>1. TypeInv => TypeOK
  BY DEF TypeInv
<1> QED BY <1>1, TypeInvariant, PTL

-----------------------------------------------------------------------------
(* Rows and copies *)

(* What is to hold of the session row, and of every copy of it. *)
RowSound(row) ==
  /\ row.status \in Terminal => row.ended
  /\ row.selected # NoWorker => worker[row.selected] # "none"

RowsSound == RowSound(session) /\ \A h \in Handlers : RowSound(copy[h])

(* The worker that an attach is about to select has its row. *)
AttachInv ==
  \A h \in Handlers :
    pc[h] = "session" /\ req[h].kind = "attach" => worker[req[h].worker] # "none"

(* No handler takes a worker's row away. *)
LEMMA WorkersStay ==
  ASSUME TypeInv, [Next]_vars, NEW w \in Workers, worker[w] # "none"
  PROVE  worker'[w] # "none"
<1>1. ASSUME NEW h \in Handlers, WriteRow(h) PROVE worker'[w] # "none"
  <2>1. req[h].kind = "report" => req[h].status # "none"
    BY <1>1, StatusesAssumption DEF TypeInv, Serving, WriteRow, Request, WorkerStatus
  <2> QED BY <1>1, <2>1 DEF WriteRow, TypeInv, TypeOK
<1>2. ASSUME NEW h \in Handlers,
             \/ \E r \in Request : Receive(h, r)
             \/ LookAtCheckpoint(h) \/ LookAtWorker(h) \/ Expire(h)
             \/ WriteSession(h) \/ WriteTask(h) \/ Abort(h)
      PROVE  worker'[w] # "none"
  BY <1>2 DEF Receive, LookAtCheckpoint, LookAtWorker, Expire, WriteSession,
              WriteTask, Abort, rowVars
<1>3. ASSUME NEW c \in Checkpoints, Elapse(c) PROVE worker'[w] # "none"
  BY <1>3 DEF Elapse, rowVars
<1>4. CASE OtherSession \/ UNCHANGED vars
  BY <1>4 DEF OtherSession, vars, rowVars, pastVars
<1> QED BY <1>1, <1>2, <1>3, <1>4 DEF Next, Handle

(* A sound row is sound after any change a handler makes to it. *)
LEMMA ChangedSound ==
  ASSUME NEW r \in Request, NEW row \in Row, RowSound(row),
         r.kind = "attach" => worker[r.worker] # "none"
  PROVE  RowSound(Changed(r, row))
<1> USE DEF Row, Changed, RowSound
<1>1. CASE r.kind = "create"
  BY <1>1 DEF Absent, Terminal
<1>2. CASE r.kind = "checkpoint"
  BY <1>2 DEF Terminal
<1>3. CASE r.kind = "decision"
  BY <1>3 DEF AfterDecision, Terminal
<1>4. CASE r.kind = "attach"
  BY <1>4 DEF AfterAttach, Terminal
<1>5. CASE r.kind = "report"
  BY <1>5 DEF AfterReport
<1>6. CASE r.kind = "action"
  BY <1>6 DEF AfterAction, Terminal
<1>7. CASE r.kind = "close"
  BY <1>7
<1>8. r.kind \in {"create", "checkpoint", "decision", "attach", "report",
                  "action", "close"}
  BY DEF Request
<1> QED BY <1>1, <1>2, <1>3, <1>4, <1>5, <1>6, <1>7, <1>8

(* A row that was sound stays so while workers' rows stay. *)
LEMMA SoundStays ==
  ASSUME TypeInv, [Next]_vars, NEW row \in Row, RowSound(row)
  PROVE  RowSound(row)'
<1>1. row.selected # NoWorker => row.selected \in Workers
  BY DEF Row
<1> QED BY <1>1, WorkersStay DEF RowSound

SoundInv == TypeInv /\ RowsSound /\ AttachInv

LEMMA SoundInit == Init => SoundInv
BY TypeInit DEF Init, SoundInv, RowsSound, RowSound, AttachInv, Absent, Terminal

(* The copy of every handler is its old one, the session row, or Absent. *)
LEMMA CopyComesFromRow ==
  ASSUME TypeInv, [Next]_vars, NEW g \in Handlers
  PROVE  copy'[g] \in {copy[g], session, Absent}
<1>1. ASSUME NEW h \in Handlers, NEW r \in Request, Receive(h, r)
      PROVE  copy'[g] \in {copy[g], session, Absent}
  BY <1>1 DEF Receive, TypeInv, TypeOK
<1>2. ASSUME NEW h \in Handlers, Answer(h)
      PROVE  copy'[g] \in {copy[g], session, Absent}
  BY <1>2 DEF Answer, TypeInv, TypeOK
<1>3. ASSUME NEW h \in Handlers, Handle(h)
      PROVE  Answer(h) \/ copy' = copy
  BY <1>3 DEF Handle, LookAtCheckpoint, LookAtWorker, Expire, WriteRow,
              WriteSession, WriteTask, Abort
<1>4. ASSUME NEW c \in Checkpoints, Elapse(c) PROVE copy' = copy
  BY <1>4 DEF Elapse
<1>5. CASE OtherSession \/ UNCHANGED vars
  BY <1>5 DEF OtherSession, vars, rowVars, pastVars
<1> QED BY <1>1, <1>2, <1>3, <1>4, <1>5 DEF Next

(* The session row is the old one or a handler's changed copy. *)
LEMMA RowComesFromCopy ==
  ASSUME TypeInv, [Next]_vars, session' # session
  PROVE  \E h \in Handlers :
           pc[h] = "session" /\ WriteSession(h) /\ session' = Changed(req[h], copy[h])
<1>1. ASSUME NEW h \in Handlers,
             \/ \E r \in Request : Receive(h, r)
             \/ LookAtCheckpoint(h) \/ LookAtWorker(h) \/ Expire(h)
             \/ WriteRow(h) \/ WriteTask(h) \/ Abort(h)
      PROVE  FALSE
  BY <1>1 DEF Receive, LookAtCheckpoint, LookAtWorker, Expire, WriteRow,
              WriteTask, Abort, rowVars
<1>2. ASSUME NEW c \in Checkpoints, Elapse(c) PROVE FALSE
  BY <1>2 DEF Elapse, rowVars
<1>3. ~OtherSession /\ ~UNCHANGED vars
  BY DEF OtherSession, vars, rowVars, pastVars
<1>4. PICK h \in Handlers : WriteSession(h)
  BY <1>1, <1>2, <1>3 DEF Next, Handle
<1> QED BY <1>4 DEF WriteSession

LEMMA SoundStep == SoundInv /\ [Next]_vars => SoundInv'
<1> SUFFICES ASSUME SoundInv, [Next]_vars PROVE SoundInv'
  OBVIOUS
<1> USE DEF SoundInv
<1>1. TypeInv'
  BY TypeStep
<1>2. RowSound(session)'
  <2>1. CASE session' = session
    <3>1. RowSound(session)
      BY DEF RowsSound
    <3>2. session \in Row
      BY DEF TypeInv, TypeOK
    <3> QED BY <2>1, <3>1, <3>2, SoundStays DEF RowSound
  <2>2. CASE session' # session
    <3>1. PICK h \in Handlers : /\ pc[h] = "session"
                                /\ WriteSession(h)
                                /\ session' = Changed(req[h], copy[h])
      BY <2>2, RowComesFromCopy
    <3>2. req[h] \in Request /\ copy[h] \in Row
      BY <3>1 DEF TypeInv, TypeOK, Serving
    <3>3. RowSound(Changed(req[h], copy[h]))
      BY <3>1, <3>2, ChangedSound DEF RowsSound, AttachInv
    <3>4. worker' = worker
      BY <3>1 DEF WriteSession
    <3> QED BY <3>1, <3>3, <3>4 DEF RowSound
  <2> QED BY <2>1, <2>2
<1>3. ASSUME NEW g \in Handlers PROVE RowSound(copy[g])'
  <2>1. copy'[g] \in {copy[g], session, Absent}
    BY CopyComesFromRow
  <2>2. /\ copy[g] \in Row /\ session \in Row /\ Absent \in Row
        /\ RowSound(copy[g]) /\ RowSound(session) /\ RowSound(Absent)
    BY DEF RowsSound, TypeInv, TypeOK, RowSound, Absent, Row, Terminal
  <2>3. ASSUME NEW row \in Row, RowSound(row), copy'[g] = row
        PROVE  RowSound(copy[g])'
    BY <2>3, SoundStays DEF RowSound
  <2> QED BY <2>1, <2>2, <2>3
<1>4. ASSUME NEW g \in Handlers, pc'[g] = "session", req'[g].kind = "attach"
      PROVE  worker'[req'[g].worker] # "none"
  <2>1. CASE WriteRow(g)
    <3>1. req[g].kind = "attach" /\ req' = req /\ req[g].worker \in Workers
      BY <1>4, <2>1 DEF WriteRow, TypeInv, Serving, Request
    <3> QED BY <2>1, <3>1 DEF WriteRow, TypeInv, TypeOK
  <2>2. CASE ~WriteRow(g)
    <3>1. pc[g] = "session" /\ req'[g] = req[g]
      <4>1. ASSUME NEW h \in Handlers, NEW r \in Request, Receive(h, r)
            PROVE  pc[g] = "session" /\ req'[g] = req[g]
        BY <1>4, <4>1 DEF Receive, FirstStep, TypeInv, TypeOK
      <4>2. ASSUME NEW h \in Handlers, Answer(h)
            PROVE  pc[g] = "session" /\ req'[g] = req[g]
        BY <1>4, <4>2 DEF Answer, TypeInv, TypeOK
      <4>3. ASSUME NEW h \in Handlers, Handle(h), ~Answer(h)
            PROVE  pc[g] = "session" /\ req'[g] = req[g]
        <5>1. CASE h # g
          BY <4>3, <5>1, <1>4 DEF Handle, LookAtCheckpoint, LookAtWorker, Expire,
               WriteRow, WriteSession, WriteTask, Abort, TypeInv, TypeOK
        <5>2. CASE h = g
          BY <4>3, <5>2, <1>4, <2>2 DEF Handle, LookAtCheckpoint, LookAtWorker, Expire,
               WriteSession, WriteTask, Abort, TypeInv, TypeOK
        <5> QED BY <5>1, <5>2
      <4>4. ASSUME NEW c \in Checkpoints, Elapse(c)
            PROVE  pc[g] = "session" /\ req'[g] = req[g]
        BY <1>4, <4>4 DEF Elapse
      <4>5. CASE OtherSession \/ UNCHANGED vars
        BY <1>4, <4>5 DEF OtherSession, vars, rowVars, pastVars
      <4> QED BY <4>1, <4>2, <4>3, <4>4, <4>5 DEF Next
    <3>2. worker[req[g].worker] # "none" /\ req[g].worker \in Workers
      BY <1>4, <3>1 DEF AttachInv, TypeInv, Serving, Request
    <3> QED BY <3>1, <3>2, WorkersStay
  <2> QED BY <2>1, <2>2
<1> QED BY <1>1, <1>2, <1>3, <1>4 DEF RowsSound, AttachInv

LEMMA SoundInvariant == Spec => []SoundInv
BY SoundInit, SoundStep, PTL DEF Spec

(* An ended session says when it ended, whichever handlers overlap. *)
THEOREM EndedHasItsTime == Spec => []EndedHasTime
<1>1. SoundInv => EndedHasTime
  BY DEF SoundInv, RowsSound, RowSound, EndedHasTime
<1> QED BY <1>1, SoundInvariant, PTL

(* The selected worker has its row, wherever a handler stops. *)
THEOREM SelectedHasItsRow == Spec => []SelectedIsAttached
<1>1. SoundInv => SelectedIsAttached
  BY DEF SoundInv, RowsSound, RowSound, SelectedIsAttached
<1> QED BY <1>1, SoundInvariant, PTL

-----------------------------------------------------------------------------
(* Requests that make a row are alone in making it *)

(* A session is created by one handler, before anything else is asked of   *)
(* it.                                                                     *)
CreateInv ==
  /\ \A h \in Handlers : pc[h] = "session" /\ req[h].kind = "create" => session = Absent
  /\ \A h \in Handlers : pc[h] # "idle" /\ req[h].kind # "create" => session # Absent
  /\ \A g, h \in Handlers :
       /\ pc[g] = "session" /\ req[g].kind = "create"
       /\ pc[h] = "session" /\ req[h].kind = "create"
       => g = h

(* A checkpoint is created by one handler, and decided only after that. *)
CheckpointInv ==
  /\ \A h \in Handlers :
       pc[h] = "row" /\ req[h].kind = "checkpoint" =>
         checkpoint[req[h].checkpoint] = "none"
  /\ \A h \in Handlers :
       pc[h] \in {"row", "expire"} /\ req[h].kind = "decision" =>
         checkpoint[req[h].checkpoint] # "none"
  /\ \A h \in Handlers : pc[h] = "expire" => req[h].kind = "decision"
  /\ \A g, h \in Handlers :
       /\ pc[g] = "row" /\ req[g].kind = "checkpoint"
       /\ pc[h] = "row" /\ req[h].kind = "checkpoint"
       /\ req[g].checkpoint = req[h].checkpoint
       => g = h

ControlInv == TypeInv /\ CreateInv /\ CheckpointInv

LEMMA ControlInit == Init => ControlInv
BY TypeInit DEF Init, ControlInv, CreateInv, CheckpointInv

(* A step is one handler's: the others keep their place and their request, *)
(* and it keeps its own request or answers it.                             *)
LEMMA OneHandlerMoves ==
  ASSUME TypeInv, NEW h \in Handlers, Handle(h), NEW g \in Handlers
  PROVE  \/ pc'[g] = pc[g] /\ req'[g] = req[g]
         \/ g = h /\ pc'[g] = "idle"
         \/ g = h /\ req'[g] = req[g]
<1>1. CASE Answer(h)
  BY <1>1 DEF Answer, TypeInv, TypeOK
<1>2. CASE ~Answer(h)
  BY <1>2 DEF Handle, LookAtCheckpoint, LookAtWorker, Expire, WriteRow,
              WriteSession, WriteTask, Abort, TypeInv, TypeOK
<1> QED BY <1>1, <1>2

(* What a handler writes that does not create the session is neither       *)
(* PENDING nor Absent.                                                     *)
LEMMA WritesNoPending ==
  ASSUME TypeInv, NEW h \in Handlers, WriteSession(h), req[h].kind # "create",
         session' # session
  PROVE  session'.status # "PENDING" /\ session' # Absent
<1> DEFINE row == copy[h]
           r == req[h]
           new == Changed(r, row)
<1>1. row \in Row /\ r \in Request
  BY DEF WriteSession, TypeInv, TypeOK, Serving
<1>2. session' = new /\ (new.status # row.status \/ r.kind \in {"checkpoint", "attach", "close"})
  BY DEF WriteSession, Upserts, StatusChanges
<1>3. r.kind \in {"checkpoint", "decision", "attach", "report", "action", "close"}
  BY <1>1 DEF Request
<1>4. CASE r.kind = "checkpoint"
  BY <1>1, <1>2, <1>4 DEF Changed, Row, Absent, Terminal
<1>5. CASE r.kind = "decision"
  BY <1>1, <1>2, <1>5 DEF Changed, AfterDecision, Row, Absent
<1>6. CASE r.kind = "attach"
  <2>1. r.worker \in Workers
    BY <1>1, <1>6 DEF Request
  <2> QED BY <1>1, <1>2, <1>6, <2>1, NoWorkerAssumption DEF Changed, AfterAttach, Row, Absent
<1>7. CASE r.kind = "report"
  <2>1. r.status \in WorkerStatus
    BY <1>1, <1>7, StatusesAssumption DEF Request
  <2>2. StatusForReport(r.status, row.status) = row.status
          \/ StatusForReport(r.status, row.status) \notin {"PENDING", "none"}
    BY <2>1 DEF StatusForReport, WorkerStatus
  <2> QED BY <1>1, <1>2, <1>7, <2>2 DEF Changed, AfterReport, Row, Absent
<1>8. CASE r.kind = "action"
  BY <1>1, <1>2, <1>8 DEF Changed, AfterAction, Row, Absent
<1>9. CASE r.kind = "close"
  <2>1. r.status \in Terminal
    BY <1>1, <1>9, StatusesAssumption DEF Request
  <2> QED BY <1>1, <1>2, <1>9, <2>1 DEF Changed, Row, Absent, Terminal
<1> QED BY <1>3, <1>4, <1>5, <1>6, <1>7, <1>8, <1>9

(* A stored session stays stored. *)
LEMMA SessionStays ==
  ASSUME ControlInv, [Next]_vars, session # Absent
  PROVE  session' # Absent
<1>1. SUFFICES ASSUME session' # session PROVE session' # Absent
  OBVIOUS
<1>2. PICK h \in Handlers : pc[h] = "session" /\ WriteSession(h)
  BY <1>1, RowComesFromCopy DEF ControlInv
<1>3. req[h].kind # "create"
  BY <1>2 DEF ControlInv, CreateInv
<1> QED BY <1>1, <1>2, <1>3, WritesNoPending DEF ControlInv

LEMMA CreateStep == ControlInv /\ [Next]_vars => CreateInv'
<1> SUFFICES ASSUME ControlInv, [Next]_vars PROVE CreateInv'
  OBVIOUS
<1> USE DEF ControlInv
<1>1. ASSUME NEW h \in Handlers, NEW r \in Request, Receive(h, r) PROVE CreateInv'
  <2>1. r.kind = "create" => session = Absent /\ \A g \in Handlers : req[g] # r
    BY <1>1 DEF Receive, Acceptable, Fresh
  <2>2. r.kind # "create" => session # Absent
    BY <1>1 DEF Receive, Acceptable, Fresh, Request
  <2>3. r.kind = "create" => r = [kind |-> "create"]
    BY DEF Request
  <2>4. ASSUME NEW g \in Handlers, pc[g] # "idle", req[g].kind = "create"
        PROVE  req[g] = [kind |-> "create"]
    BY <2>4 DEF TypeInv, Serving, Request
  <2>5. session' = session /\ pc' = [pc EXCEPT ![h] = FirstStep(r)]
          /\ req' = [req EXCEPT ![h] = r]
    BY <1>1 DEF Receive, rowVars
  <2> QED BY <2>1, <2>2, <2>3, <2>4, <2>5 DEF CreateInv, TypeInv, TypeOK
<1>2. ASSUME NEW h \in Handlers, Handle(h) PROVE CreateInv'
  <2>1. ASSUME NEW g \in Handlers, pc'[g] = "session", req'[g].kind = "create"
        PROVE  pc[g] = "session" /\ req[g].kind = "create"
    <3>1. CASE g = h
      BY <1>2, <2>1, <3>1 DEF Handle, LookAtCheckpoint, LookAtWorker, Expire, WriteRow,
           WriteSession, WriteTask, Abort, Answer, TypeInv, TypeOK
    <3>2. CASE g # h
      BY <1>2, <2>1, <3>2, OneHandlerMoves
    <3> QED BY <3>1, <3>2
  <2>2. ASSUME NEW g \in Handlers, pc'[g] = "session", req'[g].kind = "create"
        PROVE  session' = Absent
    <3>1. session = Absent
      BY <2>1, <2>2 DEF CreateInv
    <3>2. SUFFICES ASSUME session' # session PROVE FALSE
      BY <3>1
    <3>3. PICK k \in Handlers : pc[k] = "session" /\ WriteSession(k)
      BY <3>2, RowComesFromCopy
    <3>4. req[k].kind = "create"
      BY <3>1, <3>3 DEF CreateInv
    <3>5. k = g
      BY <2>1, <2>2, <3>3, <3>4 DEF CreateInv
    <3>6. pc'[k] # "session"
      BY <3>3, <3>4 DEF WriteSession, Answer, TypeInv, TypeOK
    <3> QED BY <2>2, <3>5, <3>6
  <2>3. ASSUME NEW g \in Handlers, pc'[g] # "idle", req'[g].kind # "create"
        PROVE  session' # Absent
    <3>1. pc[g] # "idle" /\ req[g].kind # "create"
      BY <1>2, <2>3, OneHandlerMoves DEF Handle, LookAtCheckpoint, LookAtWorker, Expire,
           WriteRow, WriteSession, WriteTask, Abort
    <3> QED BY <3>1, SessionStays DEF CreateInv
  <2> QED BY <2>1, <2>2, <2>3 DEF CreateInv
<1>3. ASSUME NEW c \in Checkpoints, Elapse(c) PROVE CreateInv'
  BY <1>3 DEF Elapse, rowVars, CreateInv
<1>4. CASE OtherSession \/ UNCHANGED vars
  BY <1>4 DEF OtherSession, vars, rowVars, pastVars, CreateInv
<1> QED BY <1>1, <1>2, <1>3, <1>4 DEF Next

(* What a handler writes to a checkpoint's row, and when. *)
LEMMA CheckpointWrites ==
  ASSUME ControlInv, [Next]_vars, checkpoint' # checkpoint
  PROVE  \E h \in Handlers :
           /\ Handle(h)
           /\ pc'[h] \notin {"row", "expire"}
           /\ req[h].checkpoint \in Checkpoints
           /\ \/ /\ pc[h] = "row" /\ req[h].kind = "checkpoint"
                 /\ checkpoint' = [checkpoint EXCEPT ![req[h].checkpoint] = "PENDING"]
              \/ /\ pc[h] \in {"row", "expire"} /\ req[h].kind = "decision"
                 /\ \E v \in Resolved :
                      checkpoint' = [checkpoint EXCEPT ![req[h].checkpoint] = v]
<1> USE DEF ControlInv
<1>1. ASSUME NEW h \in Handlers,
             \/ \E r \in Request : Receive(h, r)
             \/ LookAtCheckpoint(h) \/ LookAtWorker(h)
             \/ WriteSession(h) \/ WriteTask(h) \/ Abort(h)
      PROVE  FALSE
  BY <1>1 DEF Receive, LookAtCheckpoint, LookAtWorker, WriteSession, WriteTask,
              Abort, rowVars
<1>2. ASSUME NEW c \in Checkpoints, Elapse(c) PROVE FALSE
  BY <1>2 DEF Elapse, rowVars
<1>3. ~OtherSession /\ ~UNCHANGED vars
  BY DEF OtherSession, vars, rowVars, pastVars
<1>4. PICK h \in Handlers : WriteRow(h) \/ Expire(h)
  BY <1>1, <1>2, <1>3 DEF Next, Handle
<1>5. req[h] \in Request
  BY <1>4 DEF TypeInv, Serving, WriteRow, Expire
<1>6. CASE WriteRow(h)
  <2>1. pc'[h] = "session" /\ pc[h] = "row"
    BY <1>6 DEF WriteRow, TypeInv, TypeOK
  <2>2. CASE req[h].kind = "checkpoint"
    BY <1>5, <1>6, <2>1, <2>2 DEF WriteRow, Request, Handle
  <2>3. CASE req[h].kind = "decision"
    <3>1. req[h].verdict \in Resolved /\ req[h].checkpoint \in Checkpoints
      BY <1>5, <2>3 DEF Request, Resolved
    <3>2. checkpoint' = [checkpoint EXCEPT ![req[h].checkpoint] = req[h].verdict]
      BY <1>6, <2>3 DEF WriteRow
    <3> QED BY <1>6, <2>1, <2>3, <3>1, <3>2 DEF Handle
  <2> QED BY <1>6, <2>2, <2>3 DEF WriteRow
<1>7. CASE Expire(h)
  <2>1. pc'[h] = "idle" /\ pc[h] = "expire"
    BY <1>7 DEF Expire, Answer, TypeInv, TypeOK
  <2>2. checkpoint' = [checkpoint EXCEPT ![req[h].checkpoint] = "EXPIRED"]
    BY <1>7 DEF Expire
  <2>3. req[h].kind = "decision"
    BY <2>1 DEF CheckpointInv
  <2>4. req[h].checkpoint \in Checkpoints
    BY <1>5, <2>3 DEF Request
  <2> QED BY <1>7, <2>1, <2>2, <2>3, <2>4 DEF Handle, Resolved
<1> QED BY <1>4, <1>6, <1>7

LEMMA CheckpointStep == ControlInv /\ [Next]_vars => CheckpointInv'
<1> SUFFICES ASSUME ControlInv, [Next]_vars PROVE CheckpointInv'
  OBVIOUS
<1> USE DEF ControlInv
<1>1. ASSUME NEW h \in Handlers, NEW r \in Request, Receive(h, r) PROVE CheckpointInv'
  <2>1. /\ pc' = [pc EXCEPT ![h] = FirstStep(r)] /\ req' = [req EXCEPT ![h] = r]
        /\ checkpoint' = checkpoint
    BY <1>1 DEF Receive, rowVars
  <2>2. /\ FirstStep(r) # "expire"
        /\ FirstStep(r) = "row" => r.kind # "decision"
    BY DEF FirstStep, Request
  <2>3. r.kind = "checkpoint" => /\ checkpoint[r.checkpoint] = "none"
                                /\ \A g \in Handlers : req[g] # r
    BY <1>1 DEF Receive, Acceptable, Fresh
  <2>4. ASSUME NEW g \in Handlers, pc[g] = "row", req[g].kind = "checkpoint",
               r.kind = "checkpoint", req[g].checkpoint = r.checkpoint
        PROVE  req[g] = r
    <3>1. req[g] \in Request
      BY <2>4 DEF TypeInv, Serving
    <3>2. ASSUME NEW q \in Request, q.kind = "checkpoint"
          PROVE  q = [kind |-> "checkpoint", checkpoint |-> q.checkpoint]
      BY <3>2 DEF Request
    <3> QED BY <2>4, <3>1, <3>2
  <2> QED BY <2>1, <2>2, <2>3, <2>4 DEF CheckpointInv, TypeInv, TypeOK
<1>2. ASSUME NEW h \in Handlers, Handle(h) PROVE CheckpointInv'
  <2>1. ASSUME NEW g \in Handlers, pc'[g] = "row", req'[g].kind = "checkpoint"
        PROVE  pc[g] = "row" /\ req[g].kind = "checkpoint" /\ req'[g] = req[g]
    <3>1. CASE g = h
      BY <1>2, <2>1, <3>1 DEF Handle, LookAtCheckpoint, LookAtWorker, Expire, WriteRow,
           WriteSession, WriteTask, Abort, Answer, TypeInv, TypeOK
    <3>2. CASE g # h
      BY <1>2, <2>1, <3>2, OneHandlerMoves
    <3> QED BY <3>1, <3>2
  <2>2. ASSUME NEW g \in Handlers, pc'[g] \in {"row", "expire"}, req'[g].kind = "decision"
        PROVE  /\ req'[g] = req[g]
               /\ checkpoint[req[g].checkpoint] # "none"
    <3>1. CASE g = h
      <4>1. CASE LookAtCheckpoint(h)
        BY <2>2, <3>1, <4>1 DEF LookAtCheckpoint, Answer, TypeInv, TypeOK
      <4>2. CASE ~LookAtCheckpoint(h)
        BY <1>2, <2>2, <3>1, <4>2 DEF Handle, LookAtWorker, Expire, WriteRow,
           WriteSession, WriteTask, Abort, Answer, TypeInv, TypeOK
      <4> QED BY <4>1, <4>2
    <3>2. CASE g # h
      BY <1>2, <2>2, <3>2, OneHandlerMoves DEF CheckpointInv
    <3> QED BY <3>1, <3>2
  <2>3. ASSUME NEW g \in Handlers, pc'[g] = "expire"
        PROVE  req'[g].kind = "decision"
    <3>1. CASE g = h
      BY <1>2, <2>3, <3>1 DEF Handle, LookAtCheckpoint, LookAtWorker, Expire, WriteRow,
           WriteSession, WriteTask, Abort, Answer, TypeInv, TypeOK
    <3>2. CASE g # h
      BY <1>2, <2>3, <3>2, OneHandlerMoves DEF CheckpointInv
    <3> QED BY <3>1, <3>2
  <2>4. CASE checkpoint' = checkpoint
    BY <2>1, <2>2, <2>3, <2>4 DEF CheckpointInv
  <2>5. CASE checkpoint' # checkpoint
    <3>1. PICK k \in Handlers :
            /\ Handle(k)
            /\ pc'[k] \notin {"row", "expire"}
            /\ req[k].checkpoint \in Checkpoints
            /\ \/ /\ pc[k] = "row" /\ req[k].kind = "checkpoint"
                  /\ checkpoint' = [checkpoint EXCEPT ![req[k].checkpoint] = "PENDING"]
               \/ /\ pc[k] \in {"row", "expire"} /\ req[k].kind = "decision"
                  /\ \E v \in Resolved :
                       checkpoint' = [checkpoint EXCEPT ![req[k].checkpoint] = v]
      BY <2>5, CheckpointWrites
    <3>2. PICK v \in {"PENDING"} \cup Resolved :
            checkpoint' = [checkpoint EXCEPT ![req[k].checkpoint] = v]
      BY <3>1
    <3>3. v # "none"
      BY DEF Resolved
    <3>4. ASSUME NEW g \in Handlers, pc'[g] = "row", req'[g].kind = "checkpoint"
          PROVE  checkpoint'[req'[g].checkpoint] = "none"
      <4>1. checkpoint[req[g].checkpoint] = "none"
        BY <2>1, <3>4 DEF CheckpointInv
      <4>2. g # k
        BY <3>1, <3>4
      <4>3. req[g].checkpoint # req[k].checkpoint
        BY <2>1, <3>1, <3>4, <4>1, <4>2 DEF CheckpointInv
      <4>4. req[g].checkpoint \in Checkpoints
        BY <2>1, <3>4 DEF TypeInv, Serving, Request
      <4> QED BY <2>1, <3>2, <3>4, <4>1, <4>3, <4>4 DEF TypeInv, TypeOK
    <3>5. ASSUME NEW g \in Handlers, pc'[g] \in {"row", "expire"},
                 req'[g].kind = "decision"
          PROVE  checkpoint'[req'[g].checkpoint] # "none"
      BY <2>2, <3>2, <3>3, <3>5 DEF TypeInv, TypeOK
    <3> QED BY <2>1, <2>3, <3>4, <3>5 DEF CheckpointInv
  <2> QED BY <2>4, <2>5
<1>3. ASSUME NEW c \in Checkpoints, Elapse(c) PROVE CheckpointInv'
  BY <1>3 DEF Elapse, rowVars, CheckpointInv
<1>4. CASE OtherSession \/ UNCHANGED vars
  BY <1>4 DEF OtherSession, vars, rowVars, pastVars, CheckpointInv
<1> QED BY <1>1, <1>2, <1>3, <1>4 DEF Next

LEMMA ControlInvariant == Spec => []ControlInv
<1>1. ControlInv /\ [Next]_vars => ControlInv'
  BY TypeStep, CreateStep, CheckpointStep DEF ControlInv
<1> QED BY <1>1, ControlInit, PTL DEF Spec

(* A resolved checkpoint is not opened again, by whichever handler. *)
LEMMA ResolvedStays ==
  ASSUME ControlInv, [Next]_vars, NEW c \in Checkpoints, checkpoint[c] \in Resolved
  PROVE  checkpoint'[c] \in Resolved
<1>1. CASE checkpoint' = checkpoint
  BY <1>1
<1>2. CASE checkpoint' # checkpoint
  <2>1. PICK k \in Handlers :
          /\ req[k].checkpoint \in Checkpoints
          /\ \/ /\ pc[k] = "row" /\ req[k].kind = "checkpoint"
                /\ checkpoint' = [checkpoint EXCEPT ![req[k].checkpoint] = "PENDING"]
             \/ \E v \in Resolved :
                  checkpoint' = [checkpoint EXCEPT ![req[k].checkpoint] = v]
    BY <1>2, CheckpointWrites
  <2>2. CASE pc[k] = "row" /\ req[k].kind = "checkpoint"
               /\ checkpoint' = [checkpoint EXCEPT ![req[k].checkpoint] = "PENDING"]
    <3>1. checkpoint[req[k].checkpoint] = "none"
      BY <2>2 DEF ControlInv, CheckpointInv
    <3>2. req[k].checkpoint # c
      BY <3>1 DEF Resolved
    <3> QED BY <2>1, <2>2, <3>2 DEF ControlInv, TypeInv, TypeOK
  <2>3. CASE \E v \in Resolved :
               checkpoint' = [checkpoint EXCEPT ![req[k].checkpoint] = v]
    BY <2>1, <2>3 DEF ControlInv, TypeInv, TypeOK
  <2> QED BY <2>1, <2>2, <2>3
<1> QED BY <1>1, <1>2

(* A resolved checkpoint is never open again, whichever handlers overlap   *)
(* and wherever they stop.                                                 *)
THEOREM ResolvedIsNotReopened == Spec => ResolvedStaysResolved
<1>1. ControlInv /\ [Next]_vars =>
        [\A c \in Checkpoints : checkpoint[c] \in Resolved => checkpoint'[c] \in Resolved]_vars
  BY ResolvedStays
<1> QED BY <1>1, ControlInvariant, PTL DEF Spec, ResolvedStaysResolved

(* No handler, however old its copy, takes a session back to PENDING. *)
THEOREM PendingIsLeftOnce == Spec => NeverPendingAgain
<1>1. ASSUME ControlInv, [Next]_vars, session.status \notin {"none", "PENDING"}
      PROVE  session'.status # "PENDING"
  <2>1. SUFFICES ASSUME session' # session PROVE session'.status # "PENDING"
    BY <1>1
  <2>2. PICK h \in Handlers : pc[h] = "session" /\ WriteSession(h)
    BY <1>1, <2>1, RowComesFromCopy DEF ControlInv
  <2>3. req[h].kind # "create"
    BY <1>1, <2>2 DEF ControlInv, CreateInv, Absent
  <2> QED BY <1>1, <2>1, <2>2, <2>3, WritesNoPending DEF ControlInv
<1>2. ControlInv /\ [Next]_vars =>
        [session.status \notin {"none", "PENDING"} => session'.status # "PENDING"]_vars
  BY <1>1
<1> QED BY <1>2, ControlInvariant, PTL DEF Spec, NeverPendingAgain
-----------------------------------------------------------------------------
(* An ended session *)

(* What a handler makes of an ended row is ended, unless it approves.       *)
LEMMA EndedStaysEnded ==
  ASSUME NEW r \in Request, NEW row \in Row, row.status \in Terminal, r.kind # "create",
         ~(r.kind = "decision" /\ r.verdict = "APPROVED")
  PROVE  Changed(r, row).status \in Terminal
<1> USE DEF Row, Changed
<1>1. CASE r.kind = "decision"
  <2>1. r.verdict = "DENIED"
    BY <1>1 DEF Request
  <2> QED BY <1>1, <2>1 DEF AfterDecision, Terminal
<1>2. CASE r.kind = "attach"
  BY <1>2 DEF AfterAttach, Terminal
<1>3. CASE r.kind = "report"
  BY <1>3 DEF AfterReport, StatusForReport
<1>4. CASE r.kind = "action"
  BY <1>4 DEF AfterAction, Terminal
<1>5. CASE r.kind = "close"
  BY <1>5, StatusesAssumption DEF Request
<1>6. CASE r.kind = "checkpoint"
  BY <1>6
<1>7. r.kind \in {"checkpoint", "decision", "attach", "report", "action", "close"}
  BY DEF Request
<1> QED BY <1>1, <1>2, <1>3, <1>4, <1>5, <1>6, <1>7

(* Only an approval sets an ended session going again, unless the handler  *)
(* read the row before the end; and a handler that nobody crosses has read *)
(* the row as it is (LoneInv).  That the approval was not applied before   *)
(* rests on the checkpoint, which such a handler finds pending: what has   *)
(* been applied is resolved and stays so, whoever crosses (AppliedInv).    *)
Lone(h) ==
  /\ \A g \in Handlers : pc[g] # "idle" => g = h
  /\ pc[h] # "task" => copy[h] = session
  /\ pc[h] = "row" /\ req[h].kind = "decision" => checkpoint[req[h].checkpoint] = "PENDING"
  /\ pc[h] = "session" /\ Approves(req[h]) =>
       checkpoint[req[h].checkpoint] = "APPROVED" /\ req[h].checkpoint \notin applied

LoneInv == \A h \in Handlers \ crossed : pc[h] # "idle" => Lone(h)

AppliedInv ==
  /\ \A c \in applied : checkpoint[c] \in Resolved
  /\ \A h \in Handlers :
       pc[h] = "session" /\ Approves(req[h]) => checkpoint[req[h].checkpoint] \in Resolved

LEMMA AppliedStep ==
  ASSUME ControlInv, AppliedInv, [Next]_vars
  PROVE  AppliedInv'
<1> USE DEF ControlInv
<1>1. ASSUME NEW c \in Checkpoints, checkpoint[c] \in Resolved
      PROVE  checkpoint'[c] \in Resolved
  BY <1>1, ResolvedStays
<1>2. applied' = applied \/ \E h \in Handlers :
        /\ pc[h] = "session" /\ Approves(req[h])
        /\ applied' = applied \cup {req[h].checkpoint}
  BY DEF Next, Handle, Receive, LookAtCheckpoint, LookAtWorker, Expire, WriteRow, WriteSession,
         WriteTask, Abort, Elapse, OtherSession, vars, pastVars
<1>3. ASSUME NEW h \in Handlers, pc[h] = "session", Approves(req[h])
      PROVE  req[h].checkpoint \in Checkpoints /\ checkpoint[req[h].checkpoint] \in Resolved
  BY <1>3 DEF AppliedInv, TypeInv, Serving, Approves, Request
<1>4. ASSUME NEW c \in applied' PROVE checkpoint'[c] \in Resolved
  BY <1>1, <1>2, <1>3, <1>4 DEF AppliedInv, TypeInv, TypeOK
<1>5. ASSUME NEW g \in Handlers, pc'[g] = "session", Approves(req'[g])
      PROVE  checkpoint'[req'[g].checkpoint] \in Resolved
  <2>1. CASE pc[g] = "session" /\ req'[g] = req[g]
    BY <1>1, <1>3, <1>5, <2>1
  <2>2. CASE WriteRow(g)
    <3>1. /\ req' = req /\ req[g] \in Request
          /\ checkpoint' = [checkpoint EXCEPT ![req[g].checkpoint] = req[g].verdict]
      BY <1>5, <2>2 DEF WriteRow, Approves, TypeInv, Serving
    <3>2. req[g].checkpoint \in Checkpoints /\ req[g].verdict = "APPROVED"
      BY <1>5, <3>1 DEF Approves, Request
    <3> QED BY <3>1, <3>2 DEF TypeInv, TypeOK, Resolved
  <2>3. ASSUME NEW h \in Handlers, NEW r \in Request, Receive(h, r)
        PROVE  pc[g] = "session" /\ req'[g] = req[g]
    BY <1>5, <2>3 DEF Receive, FirstStep, Approves, TypeInv, TypeOK
  <2>4. ASSUME NEW h \in Handlers, Handle(h), ~WriteRow(g)
        PROVE  pc[g] = "session" /\ req'[g] = req[g]
    <3>1. CASE h # g
      BY <1>5, <2>4, <3>1, OneHandlerMoves
    <3>2. CASE h = g
      BY <1>5, <2>4, <3>2 DEF Handle, LookAtCheckpoint, LookAtWorker, Expire, WriteSession,
           WriteTask, Abort, Answer, Approves, TypeInv, TypeOK
    <3> QED BY <3>1, <3>2
  <2>5. CASE OtherSession \/ UNCHANGED vars \/ \E c \in Checkpoints : Elapse(c)
    BY <1>5, <2>1, <2>5 DEF OtherSession, Elapse, vars
  <2> QED BY <2>1, <2>2, <2>3, <2>4, <2>5 DEF Next
<1> QED BY <1>4, <1>5 DEF AppliedInv

LEMMA LoneStep ==
  ASSUME ControlInv, AppliedInv, LoneInv, [Next]_vars
  PROVE  LoneInv'
<1> USE DEF ControlInv
<1>1. ASSUME NEW h \in Handlers, NEW r \in Request, Receive(h, r) PROVE LoneInv'
  <2>1. /\ pc' = [pc EXCEPT ![h] = FirstStep(r)] /\ req' = [req EXCEPT ![h] = r]
        /\ copy' = [copy EXCEPT ![h] = session] /\ session' = session
    BY <1>1 DEF Receive, rowVars
  <2>2. FirstStep(r) \in {"session", "row", "look"} /\ (r.kind = "decision" => FirstStep(r) = "look")
    BY DEF FirstStep, Request
  <2>3. CASE Busy = {}
    BY <2>1, <2>2, <2>3 DEF LoneInv, Lone, Busy, Approves, TypeInv, TypeOK
  <2>4. CASE Busy # {}
    <3>1. crossed' = Busy \cup {h}
      BY <1>1, <2>4 DEF Receive
    <3> QED BY <2>1, <3>1 DEF LoneInv, Busy, TypeInv, TypeOK
  <2> QED BY <2>3, <2>4
<1>2. ASSUME NEW h \in Handlers, Handle(h), NEW g \in Handlers, g \notin crossed', pc'[g] # "idle"
      PROVE  Lone(g)'
  <2>1. pc[h] # "idle"
    BY <1>2 DEF Handle, LookAtCheckpoint, LookAtWorker, Expire, WriteRow, WriteSession, WriteTask, Abort
  <2>2. crossed' = crossed \/ crossed' = crossed \ {h}
    BY <1>2 DEF Handle, LookAtCheckpoint, LookAtWorker, Expire, WriteRow, WriteSession, WriteTask,
                Abort, Answer, pastVars
  <2>3. g = h
    <3>1. SUFFICES ASSUME g # h PROVE FALSE
      OBVIOUS
    <3>2. pc[g] # "idle"
      BY <1>2, <3>1, OneHandlerMoves
    <3> QED BY <1>2, <2>1, <2>2, <3>1, <3>2 DEF LoneInv, Lone
  <2>4. ~Answer(h)
    BY <1>2, <2>3 DEF Answer, TypeInv, TypeOK
  <2>5. h \notin crossed /\ Lone(h)
    <3>1. h \notin crossed
      BY <1>2, <2>3, <2>4 DEF Handle, LookAtCheckpoint, LookAtWorker, Expire, WriteRow,
                WriteSession, WriteTask, Abort, pastVars
    <3> QED BY <2>1, <3>1 DEF LoneInv
  <2>6. \A k \in Handlers : pc'[k] # "idle" => k = h
    BY <1>2, <2>5, OneHandlerMoves DEF Lone
  <2>7. req[h] \in Request
    BY <2>1 DEF TypeInv, Serving
  <2>8. CASE LookAtCheckpoint(h) \/ LookAtWorker(h)
    <3>1. /\ pc[h] = "look" /\ copy' = copy /\ req' = req /\ UNCHANGED <<session, checkpoint>>
          /\ pc'[h] \in {"expire", "row", "session"}
          /\ req[h].kind = "decision" => pc'[h] # "session" /\ checkpoint[req[h].checkpoint] = "PENDING"
      BY <2>4, <2>8 DEF LookAtCheckpoint, LookAtWorker, rowVars, TypeInv, TypeOK
    <3> QED BY <2>3, <2>5, <2>6, <3>1 DEF Lone, Approves
  <2>9. CASE WriteRow(h)
    <3>1. /\ pc[h] = "row" /\ pc'[h] = "session"
          /\ UNCHANGED <<session, copy, req, applied>>
      BY <2>9 DEF WriteRow, pastVars, TypeInv, TypeOK
    <3>2. ASSUME Approves(req[h])
          PROVE  checkpoint'[req[h].checkpoint] = "APPROVED" /\ req[h].checkpoint \notin applied
      <4>1. req[h].checkpoint \in Checkpoints
        BY <2>7, <3>2 DEF Approves, Request
      <4>2. checkpoint[req[h].checkpoint] = "PENDING"
        BY <2>5, <3>1, <3>2 DEF Lone, Approves
      <4>3. req[h].checkpoint \notin applied
        BY <4>2 DEF AppliedInv, Resolved
      <4> QED BY <2>9, <3>2, <4>1, <4>3 DEF WriteRow, Approves, TypeInv, TypeOK
    <3> QED BY <2>3, <2>5, <2>6, <3>1, <3>2 DEF Lone
  <2>10. CASE WriteSession(h)
    <3>1. pc'[h] = "task"
      BY <2>4, <2>10 DEF WriteSession, TypeInv, TypeOK
    <3> QED BY <2>3, <2>6, <3>1 DEF Lone
  <2> QED BY <1>2, <2>4, <2>8, <2>9, <2>10 DEF Handle, Expire, WriteTask, Abort
<1>3. CASE OtherSession \/ UNCHANGED vars \/ \E c \in Checkpoints : Elapse(c)
  <2>1. UNCHANGED <<session, checkpoint, pc, req, copy, crossed, applied>>
    BY <1>3 DEF OtherSession, Elapse, vars, rowVars, pastVars
  <2> QED BY <2>1 DEF LoneInv, Lone
<1> QED BY <1>1, <1>2, <1>3 DEF Next, LoneInv

LEMMA LoneInvariant == Spec => [](ControlInv /\ AppliedInv /\ LoneInv)
<1>1. Init => AppliedInv /\ LoneInv
  BY DEF Init, AppliedInv, LoneInv
<1> QED BY <1>1, ControlInvariant, AppliedStep, LoneStep, PTL DEF Spec

(* A handler that no other crosses sets an ended session going again only  *)
(* to apply an approval, and once for a checkpoint.                        *)
THEOREM ApprovalReopensOnce == Spec => ReopenedOncePerApproval
<1>1. ASSUME ControlInv, LoneInv, [Next]_vars, NEW h \in Handlers \ crossed,
             pc[h] = "session", session.status \in Terminal, session'.status \notin Terminal
      PROVE  \E c \in applied' \ applied : checkpoint[c] = "APPROVED"
  <2>1. PICK k \in Handlers : /\ pc[k] = "session" /\ WriteSession(k)
                              /\ session' = Changed(req[k], copy[k])
    BY <1>1, RowComesFromCopy DEF ControlInv
  <2>2. Lone(h)
    BY <1>1 DEF LoneInv
  <2>3. k = h /\ copy[h] = session
    BY <1>1, <2>1, <2>2 DEF Lone
  <2>4. req[h] \in Request /\ copy[h] \in Row /\ req[h].kind # "create"
    BY <1>1 DEF ControlInv, CreateInv, TypeInv, TypeOK, Serving, Absent, Terminal
  <2>5. Approves(req[h])
    BY <1>1, <2>1, <2>3, <2>4, EndedStaysEnded DEF Approves
  <2>6. applied' = applied \cup {req[h].checkpoint}
    BY <2>1, <2>3, <2>5 DEF WriteSession
  <2> QED BY <1>1, <2>2, <2>5, <2>6 DEF Lone
<1>2. ControlInv /\ AppliedInv /\ LoneInv /\ [Next]_vars =>
        [\A h \in Handlers \ crossed :
           /\ pc[h] = "session" /\ pc'[h] # "session"
           /\ session.status \in Terminal /\ session'.status \notin Terminal
           => \E c \in applied' \ applied : checkpoint[c] = "APPROVED"]_vars
  BY <1>1
<1> QED BY <1>2, LoneInvariant, PTL DEF Spec, ReopenedOncePerApproval

-----------------------------------------------------------------------------
(* Requests that come singly *)

Answerable ==
  session.status = "AWAITING_APPROVAL" =>
    \E c \in Checkpoints :
      checkpoint[c] = "PENDING" \/ (checkpoint[c] = "EXPIRED" /\ c \in overdue)
Manned == session.status = "READY" => session.selected # NoWorker
Tracked == ours => task = TaskStatusFor(session.status)
(* A session with a worker has selected one. *)
Selecting == (\E w \in Workers : worker[w] # "none") => session.selected # NoWorker

Agrees == Answerable /\ Manned /\ Tracked /\ Selecting

(* Half way through the only handler the session still agrees, but for what *)
(* this handler is about to write: a decision took the checkpoint, an       *)
(* attach brought the worker, and the task comes last.                      *)
Midway(h) ==
  /\ pc[h] # "task" => copy[h] = session /\ Manned /\ Tracked
  /\ pc[h] = "task" => /\ session # Absent /\ Manned
                       /\ session.status = Changed(req[h], copy[h]).status
  /\ ~(pc[h] = "session" /\ req[h].kind = "decision") => Answerable
  /\ ~(pc[h] = "session" /\ req[h].kind = "attach") => Selecting
  /\ pc[h] = "session" /\ req[h].kind = "checkpoint" => checkpoint[req[h].checkpoint] = "PENDING"
  /\ pc[h] = "expire" => req[h].checkpoint \in overdue
  /\ pc[h] \in {"row", "session"} /\ req[h].kind = "report" => worker[req[h].worker] # "none"

CalmInv ==
  calm => /\ \A g, h \in Handlers : pc[g] # "idle" /\ pc[h] # "idle" => g = h
          /\ (\A h \in Handlers : pc[h] = "idle") => Agrees
          /\ \A h \in Handlers : pc[h] # "idle" => Midway(h)
(* What a handler makes of a row: it waits for an approval only when asked  *)
(* to or when it did, is ready only with a worker, keeps the worker it has  *)
(* selected, and ends or goes on only where the task is written afterwards. *)
LEMMA ChangedAgrees ==
  ASSUME NEW r \in Request, NEW row \in Row,
         row.status = "READY" \/ r.kind = "report" => row.selected # NoWorker
  PROVE  LET new == Changed(r, row) IN
         /\ new.status = "READY" => new.selected # NoWorker
         /\ new.status = "AWAITING_APPROVAL" =>
              r.kind = "checkpoint" \/ (row.status = "AWAITING_APPROVAL" /\ r.kind # "decision")
         /\ r.kind \notin {"create", "attach"} => new.selected = row.selected
         /\ r.kind = "attach" => new.selected = r.worker /\ r.worker \in Workers
         /\ r.kind = "create" => new.status = "PENDING" /\ new.selected = NoWorker
         /\ r.kind \in {"checkpoint", "attach", "action"} => TaskStatusFor(new.status) = TaskStatusFor(row.status)
<1> USE DEF Row, Changed
<1>1. CASE r.kind = "create"
  BY <1>1 DEF Absent
<1>2. CASE r.kind = "checkpoint"
  BY <1>2 DEF TaskStatusFor, Terminal
<1>3. CASE r.kind = "decision"
  BY <1>3 DEF AfterDecision, Request
<1>4. CASE r.kind = "attach"
  <2>1. r.worker \in Workers
    BY <1>4 DEF Request
  <2> QED BY <1>4, <2>1, NoWorkerAssumption DEF AfterAttach, TaskStatusFor, Terminal
<1>5. CASE r.kind = "report"
  <2>1. r.status \in WorkerStatus
    BY <1>5, StatusesAssumption DEF Request
  <2>2. /\ StatusForReport(r.status, row.status) = "AWAITING_APPROVAL" => row.status = "AWAITING_APPROVAL"
    BY <2>1 DEF StatusForReport, WorkerStatus
  <2> QED BY <1>5, <2>2 DEF AfterReport
<1>6. CASE r.kind = "action"
  BY <1>6 DEF AfterAction, TaskStatusFor, Terminal
<1>7. CASE r.kind = "close"
  <2>1. r.status \in Terminal
    BY <1>7, StatusesAssumption DEF Request
  <2> QED BY <1>7, <2>1 DEF Terminal
<1>8. r.kind \in {"create", "checkpoint", "decision", "attach", "report", "action", "close"}
  BY DEF Request
<1> QED BY <1>1, <1>2, <1>3, <1>4, <1>5, <1>6, <1>7, <1>8

(* While it is calm the handler that moves is the only one, and only its    *)
(* place and the rows matter.                                               *)
LEMMA CalmHandler ==
  ASSUME TypeInv, CalmInv, calm, NEW h \in Handlers, Handle(h), pc[h] # "idle",
         pc'[h] = "idle" => Agrees',
         pc'[h] # "idle" => Midway(h)'
  PROVE  CalmInv'
<1>1. \A g \in Handlers \ {h} : pc[g] = "idle"
  BY DEF CalmInv
<1>2. \A g \in Handlers \ {h} : pc'[g] = "idle"
  BY <1>1, OneHandlerMoves
<1> QED BY <1>2 DEF CalmInv

LEMMA CalmWriteSession ==
  ASSUME ControlInv, CalmInv, calm, NEW h \in Handlers, WriteSession(h), [Next]_vars
  PROVE  CalmInv'
<1> DEFINE r == req[h]
           row == copy[h]
           new == Changed(r, row)
<1>1. /\ pc[h] = "session" /\ r \in Request /\ row \in Row /\ Midway(h) /\ row = session
      /\ UNCHANGED <<task, ours, checkpoint, worker, overdue, calm>>
  BY DEF WriteSession, ControlInv, TypeInv, TypeOK, Serving, CalmInv, Midway
<1>2. Manned /\ Tracked /\ (r.kind # "decision" => Answerable) /\ (r.kind # "attach" => Selecting)
      /\ (r.kind = "checkpoint" => checkpoint[r.checkpoint] = "PENDING" /\ r.checkpoint \in Checkpoints)
  BY <1>1 DEF Midway, Request
<1>3. r.kind = "create" => session = Absent
  BY <1>1 DEF ControlInv, CreateInv
<1>4. r.kind # "create" => session # Absent /\ session' # Absent
  BY <1>1, SessionStays DEF ControlInv, CreateInv
<1>5. r.kind = "report" => row.selected # NoWorker
  <2>1. r.kind = "report" => worker[r.worker] # "none" /\ r.worker \in Workers
    BY <1>1 DEF Midway, Request
  <2> QED BY <1>1, <1>2, <2>1 DEF Selecting
<1>6. /\ new.status = "READY" => new.selected # NoWorker
      /\ new.status = "AWAITING_APPROVAL" =>
           r.kind = "checkpoint" \/ (row.status = "AWAITING_APPROVAL" /\ r.kind # "decision")
      /\ r.kind \notin {"create", "attach"} => new.selected = row.selected
      /\ r.kind = "attach" => new.selected = r.worker /\ r.worker \in Workers
      /\ r.kind = "create" => new.status = "PENDING" /\ new.selected = NoWorker
      /\ r.kind \in {"checkpoint", "attach", "action"} => TaskStatusFor(new.status) = TaskStatusFor(row.status)
  <2>1. row.status = "READY" \/ r.kind = "report" => row.selected # NoWorker
    BY <1>1, <1>2, <1>5 DEF Manned
  <2> QED BY <1>1, <2>1, ChangedAgrees
<1>7. session'.status = new.status /\ session'.selected = new.selected
  <2>1. CASE Upserts(h)
    BY <2>1 DEF WriteSession
  <2>2. CASE ~Upserts(h)
    <3>1. session' = row /\ new.status = row.status /\ r.kind # "attach"
      BY <1>1, <2>2 DEF WriteSession, Upserts, StatusChanges
    <3>2. r.kind # "create"
      BY <1>3, <1>1, <1>6, <3>1 DEF Absent
    <3> QED BY <1>6, <2>2, <3>1, <3>2
  <2> QED BY <2>1, <2>2
<1> HIDE DEF new
<1>8. Answerable'
  BY <1>1, <1>2, <1>6, <1>7 DEF Answerable
<1>9. Manned'
  BY <1>6, <1>7 DEF Manned
<1>10. Selecting'
  <2>1. CASE r.kind = "create"
    <3>1. \A w \in Workers : worker[w] = "none"
      BY <1>2, <1>3, <2>1 DEF Selecting, Absent
    <3> QED BY <1>1, <3>1 DEF Selecting
  <2>2. CASE r.kind = "attach"
    BY <1>6, <1>7, <2>2, NoWorkerAssumption DEF Selecting
  <2>3. CASE r.kind \notin {"create", "attach"}
    BY <1>1, <1>2, <1>6, <1>7, <2>3 DEF Selecting
  <2> QED BY <2>1, <2>2, <2>3
<1>11. session' # Absent
  BY <1>4, <1>6, <1>7 DEF Absent
<1>12. CASE pc' = [pc EXCEPT ![h] = "task"] /\ UNCHANGED <<req, copy, seen, crossed>>
  <2>1. pc'[h] = "task" /\ session'.status = Changed(req[h], copy[h])'.status
    BY <1>7, <1>12 DEF new, ControlInv, TypeInv, TypeOK
  <2>2. Midway(h)'
    BY <1>8, <1>9, <1>10, <1>11, <2>1 DEF Midway
  <2> QED BY <1>1, <2>1, <2>2, CalmHandler DEF Handle, ControlInv
<1>13. CASE /\ ~(r.kind \in {"create", "decision", "close"} \/ (r.kind = "report" /\ StatusChanges(h)))
            /\ Answer(h)
  <2>1. pc'[h] = "idle"
    BY <1>13 DEF Answer, ControlInv, TypeInv, TypeOK
  <2>2. TaskStatusFor(session'.status) = TaskStatusFor(session.status)
    <3>1. r.kind \in {"checkpoint", "attach", "action"} \/ (r.kind = "report" /\ new.status = row.status)
      BY <1>1, <1>13 DEF Request, StatusChanges, new
    <3> QED BY <1>1, <1>6, <1>7, <3>1
  <2>3. Tracked'
    BY <1>1, <1>2, <1>4, <1>13, <2>2 DEF Tracked
  <2>4. Agrees'
    BY <1>8, <1>9, <1>10, <2>3 DEF Agrees
  <2> QED BY <1>1, <2>1, <2>4, CalmHandler DEF Handle, ControlInv
<1> QED BY <1>12, <1>13 DEF WriteSession

LEMMA CalmStep == ControlInv /\ CalmInv /\ [Next]_vars => CalmInv'
<1> SUFFICES ASSUME ControlInv, CalmInv, [Next]_vars, calm' PROVE CalmInv'
  BY DEF CalmInv
<1> USE DEF ControlInv
<1>1. ASSUME NEW h \in Handlers, NEW r \in Request, Receive(h, r) PROVE CalmInv'
  <2>1. calm /\ (\A g \in Handlers : pc[g] = "idle") /\ Agrees
    BY <1>1 DEF Receive, Busy, CalmInv
  <2>2. /\ \A g \in Handlers \ {h} : pc'[g] = "idle"
        /\ pc'[h] = FirstStep(r) /\ req'[h] = r /\ copy'[h] = session
        /\ UNCHANGED <<session, task, ours, checkpoint, worker, overdue>>
    BY <1>1, <2>1 DEF Receive, rowVars, TypeInv, TypeOK
  <2>3. FirstStep(r) \in {"session", "row", "look"} /\ (r.kind = "checkpoint" => FirstStep(r) = "row")
        /\ (r.kind = "report" => FirstStep(r) = "look")
    BY DEF FirstStep, Request
  <2>4. Midway(h)'
    BY <2>1, <2>2, <2>3 DEF Midway, Agrees, Answerable, Manned, Tracked, Selecting
  <2> QED BY <2>2, <2>3, <2>4 DEF CalmInv
<1>2. ASSUME NEW h \in Handlers, Handle(h) PROVE CalmInv'
  <2>1. calm /\ pc[h] # "idle" /\ ~Abort(h)
    BY <1>2 DEF Handle, LookAtCheckpoint, LookAtWorker, Expire, WriteRow, WriteSession, WriteTask,
                Abort, pastVars
  <2>2. Midway(h) /\ req[h] \in Request
    BY <2>1 DEF CalmInv, TypeInv, Serving
  <2>3. CASE LookAtCheckpoint(h) \/ LookAtWorker(h)
    <3>1. pc[h] = "look" /\ UNCHANGED <<session, task, ours, checkpoint, worker, overdue>>
      BY <2>3 DEF LookAtCheckpoint, LookAtWorker, rowVars
    <3>2. Agrees
      BY <2>2, <3>1 DEF Midway, Agrees
    <3>3. Agrees'
      BY <3>1, <3>2 DEF Agrees, Answerable, Manned, Tracked, Selecting
    <3>4. pc'[h] # "idle" => /\ pc'[h] \in {"expire", "row", "session"} /\ copy'[h] = session /\ req'[h] = req[h]
                             /\ req[h].kind = "report" => worker[req[h].worker] # "none"
                             /\ req[h].kind # "checkpoint"
                             /\ pc'[h] = "expire" => req[h].checkpoint \in overdue
      <4>1. CASE Answer(h)
        BY <4>1 DEF Answer, TypeInv, TypeOK
      <4>2. CASE ~Answer(h)
        <5>1. copy[h] = session /\ (req[h].kind = "report" => req[h].worker # NoWorker)
          BY <2>2, <3>1, NoWorkerAssumption DEF Midway, Request
        <5> QED BY <2>3, <4>2, <5>1 DEF LookAtCheckpoint, LookAtWorker, TypeInv, TypeOK
      <4> QED BY <4>1, <4>2
    <3>5. pc'[h] # "idle" => Midway(h)'
      BY <3>1, <3>3, <3>4 DEF Midway, Agrees
    <3> QED BY <1>2, <2>1, <3>3, <3>5, CalmHandler
  <2>4. CASE Expire(h)
    <3>1. Agrees
      BY <2>2, <2>4 DEF Expire, Midway, Agrees
    <3>2. pc'[h] = "idle" /\ UNCHANGED <<session, task, ours, worker, overdue>>
      BY <2>4 DEF Expire, Answer, TypeInv, TypeOK
    <3>3. Answerable'
      <4>1. /\ req[h].checkpoint \in overdue
            /\ checkpoint' = [checkpoint EXCEPT ![req[h].checkpoint] = "EXPIRED"]
        BY <2>2, <2>4 DEF Expire, Midway
      <4> QED BY <3>1, <3>2, <4>1 DEF Agrees, Answerable, TypeInv, TypeOK
    <3>4. Agrees'
      BY <3>1, <3>2, <3>3 DEF Agrees, Manned, Tracked, Selecting
    <3> QED BY <1>2, <2>1, <3>2, <3>4, CalmHandler
  <2>5. CASE WriteRow(h)
    <3>1. /\ pc[h] = "row" /\ pc'[h] = "session" /\ req'[h] = req[h] /\ copy'[h] = session
          /\ UNCHANGED <<session, task, ours, overdue>> /\ Agrees
      BY <2>2, <2>5 DEF WriteRow, Midway, Agrees, TypeInv, TypeOK
    <3>2. Manned' /\ Tracked'
      BY <3>1 DEF Agrees, Manned, Tracked
    <3>3. req[h].kind # "decision" => Answerable'
      BY <2>5, <3>1 DEF WriteRow, Agrees, Answerable, TypeInv, TypeOK
    <3>4. req[h].kind # "attach" => Selecting'
      <4>1. req[h].kind = "report" => worker[req[h].worker] # "none" /\ req[h].worker \in Workers
        BY <2>2, <3>1 DEF Midway, Request
      <4> QED BY <2>5, <3>1, <4>1 DEF WriteRow, Agrees, Selecting, TypeInv, TypeOK
    <3>5. req[h].kind = "checkpoint" => checkpoint'[req[h].checkpoint] = "PENDING"
      <4>1. req[h].kind = "checkpoint" => req[h].checkpoint \in Checkpoints
        BY <2>2 DEF Request
      <4> QED BY <2>5, <4>1 DEF WriteRow, TypeInv, TypeOK
    <3>6. req[h].kind = "report" => worker'[req[h].worker] # "none"
      <4>1. req[h].kind = "report" => /\ worker[req[h].worker] # "none" /\ req[h].worker \in Workers
                                      /\ req[h].status \in WorkerStatus
        BY <2>2, <3>1, StatusesAssumption DEF Midway, Request
      <4> QED BY <2>5, <4>1 DEF WriteRow, TypeInv, TypeOK, WorkerStatus
    <3>7. Midway(h)'
      BY <3>1, <3>2, <3>3, <3>4, <3>5, <3>6 DEF Midway
    <3> QED BY <1>2, <2>1, <3>1, <3>7, CalmHandler
  <2>6. CASE WriteSession(h)
    BY <2>1, <2>6, CalmWriteSession
  <2>7. CASE WriteTask(h)
    <3>1. /\ pc'[h] = "idle" /\ UNCHANGED <<session, checkpoint, worker, overdue>>
          /\ task' = TaskStatusFor(session.status) /\ Answerable /\ Manned /\ Selecting
      BY <2>2, <2>7 DEF WriteTask, Answer, Midway, TypeInv, TypeOK
    <3>2. Agrees'
      BY <3>1 DEF Agrees, Answerable, Manned, Tracked, Selecting
    <3> QED BY <1>2, <2>1, <3>1, <3>2, CalmHandler
  <2> QED BY <1>2, <2>1, <2>3, <2>4, <2>5, <2>6, <2>7 DEF Handle
<1>3. CASE UNCHANGED vars \/ \E c \in Checkpoints : Elapse(c)
  <2>1. /\ UNCHANGED <<session, task, ours, checkpoint, worker, pc, req, copy, seen, calm>>
        /\ overdue \subseteq overdue'
    BY <1>3 DEF vars, Elapse, rowVars, pastVars
  <2> QED BY <2>1 DEF CalmInv, Agrees, Midway, Answerable, Manned, Tracked, Selecting
<1>4. CASE OtherSession
  <2>1. ours' = FALSE /\ UNCHANGED <<session, checkpoint, worker, overdue, pc, req, copy, seen, calm>>
    BY <1>4 DEF OtherSession, pastVars
  <2> QED BY <2>1 DEF CalmInv, Agrees, Midway, Answerable, Manned, Tracked, Selecting
<1> QED BY <1>1, <1>2, <1>3, <1>4 DEF Next

LEMMA CalmInvariant == Spec => [](ControlInv /\ CalmInv)
<1>1. Init => CalmInv
  BY DEF Init, CalmInv, Agrees, Answerable, Manned, Tracked, Selecting, Absent
<1> QED BY <1>1, ControlInvariant, CalmStep, PTL DEF Spec

(* Requests that come one at a time and do not fail leave the session's     *)
(* status, its checkpoints, its workers and its task in agreement.          *)
THEOREM CalmSessionsAgree == Spec => []CalmSessionAgrees
<1>1. CalmInv => CalmSessionAgrees
  <2> SUFFICES ASSUME CalmInv, AtRest PROVE AwaitingIsUndecided /\ ReadyHasWorker /\ TaskFollowsSession
    BY DEF CalmSessionAgrees, AwaitingIsUndecided, ReadyHasWorker, TaskFollowsSession
  <2>1. Agrees
    BY DEF AtRest, CalmInv
  <2> QED BY <2>1 DEF Agrees, Answerable, Manned, Tracked, TaskStatusFor, AwaitingIsUndecided,
                      ReadyHasWorker, TaskFollowsSession
<1> QED BY <1>1, CalmInvariant, PTL
=============================================================================

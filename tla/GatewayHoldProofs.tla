------------------------- MODULE GatewayHoldProofs -------------------------
(***************************************************************************)
(* Proofs about GatewayHold, for every set of requests, operators and      *)
(* clients, every plan and every bound.                                    *)
(*                                                                         *)
(* The invariant says of every file, and of every file about to be         *)
(* written, that what it claims is true: a grant was written by an         *)
(* operator, a completion was forwarded, and the request a hold names has  *)
(* claimed it.  A write can then undo another one, but whatever survives   *)
(* is true, because such claims stay true.  The one claim that a further   *)
(* request could falsify, that a granted hold was granted to all that have *)
(* claimed it, is made of the files alone: claiming a hold unresolves it.  *)
(***************************************************************************)
EXTENDS GatewayHold, TLAPS

(* Before its run is known a request has no file, and nobody writes one. *)
Early == {"new", "lookup", "run"}

(* Stages of a request that goes on to the upstream. *)
Forwarding == {"resume", "announce", "forward", "trace", "keepEvent",
               "finishRequest", "finishHold"}

Retrying == {"consumeHold", "consumeRequest"} \cup DOMAIN AnswerOfRetry

Approved(q) == "APPROVE" \in resolved[q]

RecordTrue(q, record) ==
  /\ run[q] \in Decisions
  /\ record.inter = "approval_granted" => Approved(q)
  /\ record.state = "completed" /\ run[q] = "DEFER" => q \in forwarded

HoldTrue(h, hold) ==
  /\ hold.owner \in claimed /\ plan[hold.owner].hold = h
  /\ hold.state = "completed" =>
       \E x \in forwarded : plan[x].hold = h /\ run[x] = "DEFER"

(* The file by which q claims its hold. *)
Claim(q, w) ==
  /\ w.file = "hold" /\ w.id = plan[q].hold
  /\ w.content.owner = q /\ w.content.state = "held_pending_approval"

(* What the handler of q may rely on at a stage. *)
Fits(q, stage) ==
  /\ stage \in Early =>
       /\ requests[q] = None /\ q \notin forwarded /\ q \notin claimed
       /\ \A a \in Actors :
            saving[a] # None /\ saving[a].file = "request" => saving[a].id # q
  /\ stage \in {"consumeHold", "consumeRequest", "record"} => run[q] \in Decisions
  /\ stage \in {"waiting", "expireHold", "expireRequest"} => plan[q].kind # "tool"
  /\ stage = "trace" => went[q] # None
  /\ stage = "finishHold" => run[q] = "DEFER"
  /\ stage \in Forwarding /\ run[q] = "DEFER" => Approved(q)

ActsOnAnother == Retrying \cup {"expireRequest"}

OwnInv(q) ==
  /\ q \in forwarded /\ run[q] = "DEFER" => Approved(q)
  /\ went[q] = "ok" => q \in forwarded
  /\ plan[q].kind = "tool" /\ found[q] # None =>
       Approved(found[q]) /\ SameTurn(q, found[q])
  /\ pc[q] \in ActsOnAnother => found[q] \in Requests

(* A request waits for the hold it has claimed, once the claim is written. *)
WaitInv(q) ==
  pc[q] = "waiting" =>
    IF saving[q] = None THEN q \in claimed
                        ELSE Claim(q, saving[q]) /\ saving[q].must

FileInv(q) == requests[q] # None => RecordTrue(q, requests[q])

HoldInv(h) ==
  holds[h] # None =>
    /\ HoldTrue(h, holds[h])
    /\ holds[h].state = "approval_granted" =>
         \A q \in claimed : plan[q].hold = h => Approved(q)

WriteInv(a) ==
  saving[a] # None =>
    /\ saving[a].file = "request" => RecordTrue(saving[a].id, saving[a].content)
    /\ saving[a].file = "hold" =>
         /\ \/ HoldTrue(saving[a].id, saving[a].content)
            \/ a \in Requests /\ Claim(a, saving[a]) /\ pc[a] \notin Early
         /\ IF a \in Operators THEN resolving[a] # None
                                ELSE saving[a].content.state # "approval_granted"

(* An operator's window decides the request only after the hold. *)
ResolvingInv(o) ==
  resolving[o] # None =>
    IF saving[o] = None
    THEN resolving[o].verdict \in resolved[resolving[o].owner]
    ELSE /\ saving[o].file = "hold"
         /\ HoldTrue(saving[o].id, saving[o].content)
         /\ saving[o].content.owner = resolving[o].owner
         /\ saving[o].content.state = ResolvedState(resolving[o].verdict)

GatewayInv ==
  /\ TypeOK
  /\ \A q \in Requests : Fits(q, pc[q])
  /\ \A q \in Requests : OwnInv(q) /\ WaitInv(q)
  /\ \A q \in Requests : FileInv(q)
  /\ \A h \in Holds : HoldInv(h)
  /\ \A a \in Actors : WriteInv(a)
  /\ \A o \in Operators : ResolvingInv(o)

-----------------------------------------------------------------------------
(* Values *)

LEMMA WriteToTyped ==
  ASSUME NEW must \in BOOLEAN
  PROVE  /\ \A q \in Requests, r \in Record : WriteTo("request", q, r, must) \in Write
         /\ \A h \in Holds, c \in Hold : WriteTo("hold", h, c, must) \in Write
BY DEF WriteTo, Write

LEMMA WriteTyped ==
  ASSUME NEW w \in Write
  PROVE  /\ w.must \in BOOLEAN
         /\ w.file \in {"request", "hold"}
         /\ w.file = "request" => w.id \in Requests /\ w.content \in Record
         /\ w.file = "hold" => w.id \in Holds /\ w.content \in Hold
BY DEF Write

LEMMA HoldTyped ==
  ASSUME NEW c \in Hold
  PROVE  /\ c.owner \in Requests /\ c.state \in HoldStates
         /\ \A s \in HoldStates :
              LET d == [c EXCEPT !.state = s]
              IN  d \in Hold /\ d.owner = c.owner /\ d.state = s
BY DEF Hold

LEMMA PlanTyped ==
  ASSUME GatewayInv, NEW q \in Requests
  PROVE  plan[q].hold \in Holds /\ plan[q].kind \in {"http", "socket", "tool"}
BY DEF GatewayInv, TypeOK, Plan

LEMMA FirstRecordTyped ==
  ASSUME NEW d \in Decisions
  PROVE  /\ FirstRecord(d) \in Record
         /\ FirstRecord(d).inter # "approval_granted"
         /\ FirstRecord(d).state = "completed" => d # "DEFER"
<1>1. d \in {"ALLOW", "DENY", "DEFER"}
  BY GatewayDecisionsAssumption
<1> QED
  BY <1>1 DEF FirstRecord, Record, ResultStates, InterStates, HoldStates

LEMMA EventKept ==
  ASSUME NEW r \in Record, NEW b \in BOOLEAN
  PROVE  LET c == [r EXCEPT !.event = b]
         IN  c \in Record /\ c.state = r.state /\ c.inter = r.inter
BY DEF Record

LEMMA ResolvedStateTyped ==
  ASSUME NEW v \in Verdicts
  PROVE  /\ ResolvedState(v) \in HoldStates \cap InterStates
         /\ ResolvedState(v) \notin {"completed", "held_pending_approval"}
         /\ ResolvedState(v) = "approval_granted" => v = "APPROVE"
BY DEF ResolvedState, Verdicts, HoldStates, InterStates

-----------------------------------------------------------------------------
LEMMA InitInv == Init => GatewayInv
<1> SUFFICES ASSUME Init PROVE GatewayInv
  OBVIOUS
<1> USE DEF Init
<1>1. TypeOK
  BY PlansAssumption, GatewayBoundsAssumption DEF TypeOK, Stages
<1>2. ASSUME NEW q \in Requests
      PROVE  Fits(q, pc[q]) /\ OwnInv(q) /\ WaitInv(q) /\ FileInv(q)
  BY NoneAssumption
     DEF Fits, OwnInv, WaitInv, FileInv, ActsOnAnother, Retrying, Forwarding, AnswerOfRetry
<1>5. \A h \in Holds : HoldInv(h)
  BY DEF HoldInv
<1>3. \A a \in Actors : WriteInv(a)
  BY DEF WriteInv
<1>4. \A o \in Operators : ResolvingInv(o)
  BY DEF ResolvingInv
<1> QED
  BY <1>1, <1>2, <1>3, <1>4, <1>5 DEF GatewayInv

-----------------------------------------------------------------------------
(* A step of a handler that moves on, perhaps starts a write, and perhaps  *)
(* turns to another request.                                               *)
Moves(q, stage, w, other) ==
  /\ pc' = [pc EXCEPT ![q] = stage]
  /\ saving' = [saving EXCEPT ![q] = w]
  /\ found' = [found EXCEPT ![q] = other]
  /\ UNCHANGED <<plan, run, went, fileVars, resolving, forwarded>>

MayWrite(q, stage, w) ==
  /\ w # None =>
       /\ w \in Write
       /\ w.file = "request" => RecordTrue(w.id, w.content) /\ pc[w.id] \notin Early
       /\ w.file = "hold" =>
            /\ HoldTrue(w.id, w.content) \/ Claim(q, w)
            /\ w.content.state # "approval_granted"
  /\ stage = "waiting" => w # None /\ Claim(q, w) /\ w.must
  /\ stage \in Early => pc[q] \in Early /\ w = None

MayTurnTo(q, stage, other) ==
  /\ other \in Requests \cup {None}
  /\ other = found[q] \/ plan[q].kind # "tool"
  /\ stage \in ActsOnAnother => other \in Requests

LEMMA MovesKeepsInv ==
  ASSUME GatewayInv, NEW q \in Requests, NEW stage \in Stages \cup Answers, NEW w, NEW other,
         Moves(q, stage, w, other), MayWrite(q, stage, w), MayTurnTo(q, stage, other),
         Fits(q, stage), late' \subseteq Requests, events' \in 0..MaxEvents
  PROVE  GatewayInv'
<1> USE DEF GatewayInv
<1>0. q \in Actors /\ q \notin Operators
  BY ActorsAssumption DEF Actors
<1>1. TypeOK'
  BY DEF Moves, MayWrite, MayTurnTo, TypeOK, fileVars
<1>2. \A x \in Requests : /\ pc'[x] = IF x = q THEN stage ELSE pc[x]
                          /\ found'[x] = IF x = q THEN other ELSE found[x]
  BY DEF Moves, TypeOK
<1>3. \A a \in Actors : saving'[a] = IF a = q THEN w ELSE saving[a]
  BY DEF Moves, TypeOK
<1>4. ASSUME NEW x \in Requests
      PROVE  Fits(x, pc[x])'
  <2>1. Fits(x, pc'[x])
    BY <1>2 DEF Fits
  <2>2. ASSUME pc'[x] \in Early, NEW a \in Actors, saving'[a] # None,
               saving'[a].file = "request"
        PROVE  saving'[a].id # x
    <3>1. CASE a = q
      BY <2>1, <2>2, <3>1, <1>2, <1>3 DEF MayWrite
    <3>2. CASE a # q
      BY <2>1, <2>2, <3>2, <1>3 DEF Fits
    <3> QED
      BY <3>1, <3>2
  <2> QED
    BY <2>1, <2>2 DEF Fits, Moves, Approved, fileVars
<1>5. ASSUME NEW x \in Requests
      PROVE  OwnInv(x)' /\ FileInv(x)'
  <2>1. FileInv(x)'
    BY DEF FileInv, Moves, Approved, RecordTrue, fileVars
  <2>2. CASE x = q
    BY <2>1, <2>2, <1>2 DEF OwnInv, Moves, MayTurnTo, Approved, SameTurn, fileVars
  <2>3. CASE x # q
    BY <2>1, <2>3, <1>2 DEF OwnInv, Moves, Approved, SameTurn, fileVars
  <2> QED
    BY <2>1, <2>2, <2>3
<1>6. ASSUME NEW x \in Requests
      PROVE  WaitInv(x)'
  <2>1. x \in Actors
    BY DEF Actors
  <2>2. CASE x = q
    BY <2>1, <2>2, <1>2, <1>3 DEF WaitInv, MayWrite, Claim, Moves
  <2>3. CASE x # q
    BY <2>1, <2>3, <1>2, <1>3 DEF WaitInv, Claim, Moves, fileVars
  <2> QED
    BY <2>2, <2>3
<1>7. ASSUME NEW h \in Holds
      PROVE  HoldInv(h)'
  BY DEF HoldInv, HoldTrue, Approved, Moves, fileVars
<1>8. ASSUME NEW a \in Actors
      PROVE  WriteInv(a)'
  <2>1. CASE a = q
    <3>1. w # None /\ w.file = "hold" => stage \notin Early
      BY DEF MayWrite
    <3> QED
      BY <2>1, <3>1, <1>0, <1>2, <1>3
         DEF WriteInv, MayWrite, RecordTrue, HoldTrue, Claim, Approved, Moves, fileVars
  <2>2. CASE a # q
    BY <2>2, <1>2, <1>3 DEF WriteInv, RecordTrue, HoldTrue, Claim, Approved, Moves, fileVars
  <2> QED
    BY <2>1, <2>2
<1>9. ASSUME NEW o \in Operators
      PROVE  ResolvingInv(o)'
  BY <1>0, <1>3 DEF ResolvingInv, HoldTrue, Moves, fileVars, Actors
<1> QED
  BY <1>1, <1>4, <1>5, <1>6, <1>7, <1>8, <1>9

(* The request found stays the one it was. *)
LEMMA MayStay ==
  ASSUME GatewayInv, NEW q \in Requests, NEW stage,
         stage \in ActsOnAnother => found[q] \in Requests
  PROVE  /\ MayTurnTo(q, stage, found[q])
         /\ UNCHANGED found => found' = [found EXCEPT ![q] = found[q]]
BY DEF MayTurnTo, GatewayInv, TypeOK

(* Nothing is written and nothing but the stage changes. *)
LEMMA OnlyMovesKeepsInv ==
  ASSUME GatewayInv, NEW q \in Requests, NEW old \in Stages,
         NEW new \in (Stages \cup Answers) \ ({"waiting"} \cup ActsOnAnother),
         At(q, old), Goto(q, new), Unwritten, UNCHANGED <<plan, run, found, went, forwarded, resolving>>,
         late' \subseteq Requests, events' \in 0..MaxEvents,
         Fits(q, new), new \in Early => old \in Early
  PROVE  GatewayInv'
<1>1. q \in Actors
  BY DEF Actors
<1>2. MayTurnTo(q, new, found[q]) /\ found' = [found EXCEPT ![q] = found[q]]
  BY MayStay
<1>3. Moves(q, new, None, found[q])
  BY <1>1, <1>2 DEF Moves, At, Goto, Unwritten, fileVars, GatewayInv, TypeOK
<1>4. MayWrite(q, new, None)
  BY DEF MayWrite, At
<1> QED
  BY <1>2, <1>3, <1>4, MovesKeepsInv

Rest == UNCHANGED <<plan, late, resolving, events>>

(* An update that writes what is true. *)
TrueUpdate(q, other, stage, file, id, content, must, next) ==
  /\ Update(q, stage, file, id, content, must, next)
  /\ found' = [found EXCEPT ![q] = other]
  /\ stage \in Stages \ Early /\ must \in BOOLEAN
  /\ next \in (Stages \cup Answers) \ (Early \cup {"waiting"})
  /\ Fits(q, next)
  /\ other \in Requests \cup {None}
  /\ other = found[q] \/ plan[q].kind # "tool"
  /\ next \in ActsOnAnother /\ (File(file, id) # None \/ ~must) => other \in Requests
  /\ File(file, id) # None =>
       \/ /\ file = "request" /\ id \in Requests
          /\ content \in Record /\ RecordTrue(id, content)
       \/ /\ file = "hold" /\ id \in Holds
          /\ content \in Hold /\ HoldTrue(id, content)
          /\ content.state # "approval_granted"

LEMMA UpdateKeepsInv ==
  ASSUME GatewayInv, NEW q \in Requests, NEW other, NEW stage, NEW file, NEW id,
         NEW content, NEW must, NEW next, Rest,
         TrueUpdate(q, other, stage, file, id, content, must, next)
  PROVE  GatewayInv'
<1> USE DEF TrueUpdate, Rest
<1>0. late' \subseteq Requests /\ events' \in 0..MaxEvents /\ q \in Actors
  BY DEF GatewayInv, TypeOK, Actors
<1>1. CASE /\ File(file, id) # None
           /\ saving' = [saving EXCEPT ![q] = WriteTo(file, id, content, must)]
           /\ Goto(q, next)
  <2> DEFINE w == WriteTo(file, id, content, must)
  <2>1. w \in Write /\ w.file = file /\ w.id = id /\ w.content = content
    BY <1>1, WriteToTyped DEF WriteTo
  <2>2. file = "request" => pc[id] \notin Early
    BY <1>1 DEF GatewayInv, Fits, File
  <2>3. MayWrite(q, next, w)
    BY <1>1, <2>1, <2>2 DEF MayWrite
  <2>4. Moves(q, next, w, other)
    BY <1>1 DEF Moves, Update, Goto
  <2>5. MayTurnTo(q, next, other)
    BY <1>1 DEF MayTurnTo
  <2> HIDE DEF w
  <2> QED
    BY <1>0, <2>3, <2>4, <2>5, MovesKeepsInv
<1>2. CASE /\ UNCHANGED saving
           /\ Goto(q, IF must THEN "error" ELSE next)
  <2> DEFINE new == IF must THEN "error" ELSE next
  <2>1. Fits(q, "error") /\ "error" \in Answers \ (Early \cup {"waiting"} \cup ActsOnAnother)
    BY DEF Fits, Early, Retrying, ActsOnAnother, Forwarding, AnswerOfRetry, Answers
  <2>2. new \in (Stages \cup Answers) \ (Early \cup {"waiting"}) /\ Fits(q, new)
    BY <2>1
  <2>3. Moves(q, new, None, other)
    BY <1>0, <1>2 DEF Moves, Update, At, Goto, GatewayInv, TypeOK
  <2>4. MayWrite(q, new, None)
    BY <2>2 DEF MayWrite
  <2>5. MayTurnTo(q, new, other)
    BY <2>1 DEF MayTurnTo
  <2> HIDE DEF new
  <2> QED
    BY <1>0, <2>2, <2>3, <2>4, <2>5, MovesKeepsInv
<1> QED
  BY <1>1, <1>2 DEF Update

-----------------------------------------------------------------------------
(* The steps of a handler, but for those that forward or look up *)

LEMMA AnswersFit ==
  ASSUME NEW q \in Requests, NEW s \in Answers
  PROVE  /\ Fits(q, s)
         /\ s \in (Stages \cup Answers) \ (Early \cup {"waiting"} \cup ActsOnAnother)
BY DEF Answers, Fits, Early, Retrying, ActsOnAnother, Forwarding, AnswerOfRetry

LEMMA RestTyped ==
  ASSUME GatewayInv, Rest
  PROVE  late' \subseteq Requests /\ events' \in 0..MaxEvents
BY DEF GatewayInv, TypeOK, Rest

LEMMA ArriveKeepsInv ==
  ASSUME GatewayInv, NEW q \in Requests, Arrive(q), Rest
  PROVE  GatewayInv'
<1>1. ASSUME NEW new \in {"run", "lookup", "error"}, Goto(q, new)
      PROVE  GatewayInv'
  <2>1. Fits(q, "new")
    BY DEF Arrive, At, GatewayInv
  <2>2. Fits(q, new)
    BY <1>1, <2>1 DEF Fits, Early, Retrying, Forwarding, AnswerOfRetry
  <2>3. /\ new \in (Stages \cup Answers) \ ({"waiting"} \cup ActsOnAnother)
        /\ "new" \in Stages /\ "new" \in Early
    BY <1>1 DEF Stages, Answers, Early, ActsOnAnother, Retrying, AnswerOfRetry
  <2> QED
    BY <1>1, <2>2, <2>3, RestTyped, OnlyMovesKeepsInv DEF Arrive, Rest
<1> QED
  BY <1>1 DEF Arrive

LEMMA ObserveKeepsInv ==
  ASSUME GatewayInv, NEW q \in Requests, Observe(q), Rest
  PROVE  GatewayInv'
<1>1. PICK stage \in DOMAIN AnswerOfRetry :
        /\ Update(q, stage, "request", found[q], requests[found[q]], FALSE, AnswerOfRetry[stage])
        /\ UNCHANGED found
  BY DEF Observe
<1>2. stage \in Stages \ Early /\ AnswerOfRetry[stage] \in Answers
  BY DEF AnswerOfRetry, Stages, Early, Answers
<1>3. found[q] \in Requests
  BY <1>1 DEF Update, At, GatewayInv, OwnInv, Retrying, ActsOnAnother
<1>4. File("request", found[q]) # None =>
        requests[found[q]] \in Record /\ RecordTrue(found[q], requests[found[q]])
  BY <1>3 DEF File, GatewayInv, TypeOK, FileInv
<1>5. found' = [found EXCEPT ![q] = found[q]]
  BY <1>1, <1>3, MayStay
<1>6. TrueUpdate(q, found[q], stage, "request", found[q], requests[found[q]], FALSE,
                 AnswerOfRetry[stage])
  BY <1>1, <1>2, <1>3, <1>4, <1>5, AnswersFit DEF TrueUpdate
<1> QED
  BY <1>6, UpdateKeepsInv

(* A lifecycle update that claims nothing, or a completion that happened. *)
LEMMA LifecycleKeepsInv ==
  ASSUME GatewayInv, NEW q \in Requests, NEW x \in Requests, NEW stage \in Stages \ Early,
         NEW state \in {"approval_consumed", "timed_out", "resumed_forwarding",
                        "forwarding", "failed", "completed"},
         NEW must \in BOOLEAN,
         NEW next \in (Stages \cup Answers) \ (Early \cup {"waiting"} \cup ActsOnAnother),
         Lifecycle(q, stage, x, state, must, next), Rest, Fits(q, next),
         state = "completed" => x \in forwarded
  PROVE  GatewayInv'
<1> DEFINE content == [requests[x] EXCEPT !.state = state, !.inter = state]
<1>1. state \in ResultStates /\ state \in InterStates
  BY DEF ResultStates, InterStates, HoldStates
<1>2. File("request", x) # None => content \in Record /\ RecordTrue(x, content)
  <2> SUFFICES ASSUME requests[x] # None
               PROVE  content \in Record /\ RecordTrue(x, content)
    BY DEF File
  <2>1. requests[x] \in Record /\ RecordTrue(x, requests[x])
    BY DEF GatewayInv, TypeOK, FileInv
  <2>2. content \in Record /\ content.state = state /\ content.inter = state
    BY <1>1, <2>1 DEF Record
  <2> HIDE DEF content
  <2> QED
    BY <2>1, <2>2 DEF RecordTrue
<1>3. Update(q, stage, "request", x, content, must, next)
  BY DEF Lifecycle
<1>4. found' = [found EXCEPT ![q] = found[q]] /\ found[q] \in Requests \cup {None}
  BY DEF Lifecycle, GatewayInv, TypeOK
<1> HIDE DEF content
<1>5. TrueUpdate(q, found[q], stage, "request", x, content, must, next)
  BY <1>2, <1>3, <1>4 DEF TrueUpdate
<1> QED
  BY <1>5, UpdateKeepsInv

(* The same of a hold. *)
TrueHold(q, other, stage, h, state, must, next) ==
  /\ UpdateHold(q, stage, h, state, must, next)
  /\ found' = [found EXCEPT ![q] = other]
  /\ stage \in Stages \ Early /\ must \in BOOLEAN
  /\ next \in (Stages \cup Answers) \ (Early \cup {"waiting"})
  /\ Fits(q, next)
  /\ other \in Requests \cup {None}
  /\ other = found[q] \/ plan[q].kind # "tool"
  /\ next \in ActsOnAnother /\ (holds[h] # None \/ ~must) => other \in Requests
  /\ h \in Holds /\ state \in {"approval_consumed", "timed_out", "failed", "completed"}
  /\ state = "completed" => \E x \in forwarded : plan[x].hold = h /\ run[x] = "DEFER"

LEMMA HoldUpdateKeepsInv ==
  ASSUME GatewayInv, NEW q \in Requests, NEW other, NEW stage, NEW h, NEW state,
         NEW must, NEW next, Rest, TrueHold(q, other, stage, h, state, must, next)
  PROVE  GatewayInv'
<1> USE DEF TrueHold
<1> DEFINE content == [holds[h] EXCEPT !.state = state]
<1>1. state \in HoldStates /\ state # "approval_granted"
  BY DEF HoldStates
<1>2. File("hold", h) # None =>
        /\ content \in Hold /\ HoldTrue(h, content)
        /\ content.state # "approval_granted"
  <2> SUFFICES ASSUME holds[h] # None
               PROVE  /\ content \in Hold /\ HoldTrue(h, content)
                      /\ content.state # "approval_granted"
    BY DEF File
  <2>1. holds[h] \in Hold /\ HoldTrue(h, holds[h])
    BY DEF GatewayInv, TypeOK, HoldInv
  <2>2. content \in Hold /\ content.state = state /\ content.owner = holds[h].owner
    BY <1>1, <2>1, HoldTyped
  <2> HIDE DEF content
  <2> QED
    BY <1>1, <2>1, <2>2 DEF HoldTrue
<1>3. Update(q, stage, "hold", h, content, must, next)
  BY DEF UpdateHold
<1>4. File("hold", h) = holds[h]
  BY DEF File
<1> HIDE DEF content
<1>5. TrueUpdate(q, other, stage, "hold", h, content, must, next)
  BY <1>2, <1>3, <1>4 DEF TrueUpdate
<1> QED
  BY <1>5, UpdateKeepsInv

LEMMA ConsumeKeepsInv ==
  ASSUME GatewayInv, NEW q \in Requests, ConsumeHold(q) \/ ConsumeRequest(q), Rest
  PROVE  GatewayInv'
<1>1. Fits(q, pc[q]) /\ OwnInv(q) /\ pc[q] \in {"consumeHold", "consumeRequest"}
  BY DEF ConsumeHold, ConsumeRequest, UpdateHold, Lifecycle, Update, At, GatewayInv
<1>2. found[q] \in Requests /\ Fits(q, "consumeRequest") /\ Fits(q, "record")
  BY <1>1 DEF Fits, OwnInv, Early, Retrying, ActsOnAnother, Forwarding, AnswerOfRetry
<1>3. /\ {"consumeHold", "consumeRequest", "record"} \subseteq Stages \ (Early \cup {"waiting"})
      /\ "record" \notin ActsOnAnother
  BY DEF Stages, Early, ActsOnAnother, Retrying, AnswerOfRetry
<1>4. CASE ConsumeHold(q)
  <2>1. found' = [found EXCEPT ![q] = found[q]]
    BY <1>2, <1>4, MayStay DEF ConsumeHold
  <2>2. plan[found[q]].hold \in Holds
    BY <1>2, PlanTyped
  <2>3. TrueHold(q, found[q], "consumeHold", plan[found[q]].hold, "approval_consumed", FALSE,
                 "consumeRequest")
    BY <1>2, <1>3, <1>4, <2>1, <2>2 DEF ConsumeHold, TrueHold
  <2> QED
    BY <2>3, HoldUpdateKeepsInv
<1>5. CASE ConsumeRequest(q)
  BY <1>2, <1>3, <1>5, LifecycleKeepsInv DEF ConsumeRequest
<1> QED
  BY <1>4, <1>5

LEMMA WriteKeepsInv ==
  ASSUME GatewayInv, NEW q \in Requests, WriteRecord(q) \/ WriteHold(q), Rest
  PROVE  GatewayInv'
<1>0. Fits(q, pc[q]) /\ pc[q] \in {"record", "hold"} /\ pc[q] \notin Early
  BY DEF WriteRecord, WriteHold, At, GatewayInv, Early
<1>1. CASE WriteRecord(q)
  <2> DEFINE w == WriteTo("request", q, FirstRecord(run[q]), TRUE)
             next == IF run[q] = "DEFER" THEN "hold"
                     ELSE CASE plan[q].kind = "tool" -> "ok"
                            [] plan[q].kind = "socket" -> "announce"
                            [] plan[q].kind = "http" -> "forward"
  <2>1. run[q] \in Decisions
    BY <1>1 DEF WriteRecord, At, GatewayInv, Fits
  <2>2. FirstRecord(run[q]) \in Record /\ RecordTrue(q, FirstRecord(run[q]))
    BY <2>1, FirstRecordTyped DEF RecordTrue
  <2>3. plan[q].kind \in {"http", "socket", "tool"}
    BY PlanTyped
  <2>4. next \in {"hold", "ok", "announce", "forward"} /\ (run[q] = "DEFER" => next = "hold")
    BY <2>3
  <2>5. /\ Fits(q, next)
        /\ next \in (Stages \cup Answers) \ (Early \cup {"waiting"} \cup ActsOnAnother)
    <3> HIDE DEF next
    <3>1. next \in (Stages \cup Answers) \ (Early \cup {"waiting"} \cup ActsOnAnother)
      BY <2>4 DEF Early, ActsOnAnother, Retrying, AnswerOfRetry, Stages, Answers
    <3>2. next \notin {"expireHold", "expireRequest", "consumeHold", "consumeRequest",
                      "record", "trace", "finishHold", "waiting"}
      BY <2>4
    <3> QED
      BY <2>4, <3>1, <3>2 DEF Fits, Forwarding
  <2> HIDE DEF next
  <2>6. MayWrite(q, next, w)
    BY <1>0, <2>2, <2>5, WriteToTyped DEF MayWrite, WriteTo
  <2>7. MayTurnTo(q, next, found[q]) /\ found' = [found EXCEPT ![q] = found[q]]
    BY <1>1, <2>5, MayStay DEF WriteRecord
  <2>8. Moves(q, next, w, found[q])
    BY <1>1, <2>7 DEF WriteRecord, Moves, Goto, Rest, next
  <2> HIDE DEF w
  <2> QED
    BY <2>5, <2>6, <2>7, <2>8, RestTyped, MovesKeepsInv
<1>2. CASE WriteHold(q)
  <2> DEFINE c == [owner |-> q, state |-> "held_pending_approval"]
             w == WriteTo("hold", plan[q].hold, c, TRUE)
             next == IF plan[q].kind = "tool" THEN "ok" ELSE "waiting"
  <2>1. c \in Hold /\ plan[q].hold \in Holds
    BY PlanTyped DEF Hold, HoldStates
  <2>2. w \in Write /\ w # None /\ Claim(q, w) /\ w.must /\ w.file = "hold"
        /\ w.content.state # "approval_granted"
    BY <2>1, WriteToTyped, NoneAssumption DEF Claim, WriteTo
  <2>3. /\ Fits(q, next)
        /\ next \in (Stages \cup Answers) \ (Early \cup ActsOnAnother)
    BY DEF Fits, Early, Retrying, ActsOnAnother, Forwarding, AnswerOfRetry, Stages, Answers
  <2>4. MayTurnTo(q, next, found[q]) /\ found' = [found EXCEPT ![q] = found[q]]
    BY <1>2, <2>3, MayStay DEF WriteHold
  <2>5. Moves(q, next, w, found[q])
    BY <1>2, <2>4 DEF WriteHold, Moves, Goto, Rest
  <2> HIDE DEF next, w
  <2>6. MayWrite(q, next, w)
    BY <2>2, <2>3 DEF MayWrite
  <2> QED
    BY <2>3, <2>4, <2>5, <2>6, RestTyped, MovesKeepsInv
<1> QED
  BY <1>1, <1>2

LEMMA PollHoldKeepsInv ==
  ASSUME GatewayInv, NEW q \in Requests, PollHold(q), Rest
  PROVE  GatewayInv'
<1> DEFINE h == plan[q].hold
<1>1. ASSUME NEW new \in {"resume", "denied", "timedOut", "expireHold", "error"}, Goto(q, new),
             new = "resume" => holds[h] # None /\ holds[h].state = "approval_granted"
      PROVE  GatewayInv'
  <2>1. At(q, "waiting") /\ WaitInv(q) /\ Fits(q, "waiting") /\ h \in Holds
    BY PlanTyped DEF PollHold, At, GatewayInv
  <2>2. q \in claimed
    BY <2>1 DEF WaitInv, At
  <2>3. new = "resume" => Approved(q)
    BY <1>1, <2>1, <2>2 DEF GatewayInv, HoldInv
  <2>4. Fits(q, new)
    BY <1>1, <2>1, <2>3 DEF Fits, Early, Retrying, Forwarding, AnswerOfRetry
  <2>5. /\ new \in (Stages \cup Answers) \ ({"waiting"} \cup ActsOnAnother)
        /\ "waiting" \in Stages /\ new \notin Early
    BY <1>1 DEF Stages, Answers, Early, ActsOnAnother, Retrying, AnswerOfRetry
  <2> QED
    BY <1>1, <2>1, <2>4, <2>5, RestTyped, OnlyMovesKeepsInv DEF PollHold, Rest
<1>2. \A state \in DOMAIN Resolutions :
        /\ Resolutions[state] \in {"resume", "denied", "timedOut", "error"}
        /\ Resolutions[state] = "resume" => state = "approval_granted"
  BY DEF Resolutions
<1> QED
  BY <1>1, <1>2 DEF PollHold

LEMMA ExpireStepsKeepInv ==
  ASSUME GatewayInv, NEW q \in Requests, ExpireHold(q) \/ ExpireRequest(q), Rest
  PROVE  GatewayInv'
<1>0. Fits(q, pc[q]) /\ OwnInv(q) /\ pc[q] \in {"expireHold", "expireRequest"}
  BY DEF ExpireHold, ExpireRequest, UpdateHold, Lifecycle, Update, At, GatewayInv
<1>1. Fits(q, "expireRequest") /\ Fits(q, "timedOut") /\ plan[q].kind # "tool"
  BY <1>0 DEF Fits, Early, Retrying, Forwarding, AnswerOfRetry
<1>2. /\ {"expireHold", "expireRequest"} \subseteq Stages \ (Early \cup {"waiting"})
      /\ "timedOut" \in Answers
  BY DEF Stages, Answers, Early
<1>3. CASE ExpireHold(q)
  <2> DEFINE h == plan[q].hold
             other == IF holds[h] # None THEN holds[h].owner ELSE found[q]
  <2>1. h \in Holds
    BY PlanTyped
  <2>2. holds[h] # None => holds[h].owner \in Requests
    BY <2>1, HoldTyped DEF GatewayInv, TypeOK
  <2>3. other \in Requests \cup {None} /\ (holds[h] # None => other \in Requests)
    BY <2>2 DEF GatewayInv, TypeOK
  <2>4. found' = [found EXCEPT ![q] = other]
    BY <1>3 DEF ExpireHold, GatewayInv, TypeOK
  <2>5. UpdateHold(q, "expireHold", h, "timed_out", TRUE, "expireRequest")
    BY <1>3 DEF ExpireHold
  <2> HIDE DEF h, other
  <2>6. TrueHold(q, other, "expireHold", h, "timed_out", TRUE, "expireRequest")
    BY <1>1, <1>2, <2>1, <2>3, <2>4, <2>5 DEF TrueHold
  <2> QED
    BY <2>6, HoldUpdateKeepsInv
<1>4. CASE ExpireRequest(q)
  <2>1. pc[q] = "expireRequest"
    BY <1>4 DEF ExpireRequest, Lifecycle, Update, At
  <2>2. found[q] \in Requests
    BY <1>0, <2>1 DEF OwnInv, ActsOnAnother
  <2> QED
    BY <1>1, <1>2, <1>4, <2>2, AnswersFit, LifecycleKeepsInv DEF ExpireRequest
<1> QED
  BY <1>3, <1>4

LEMMA ResumeKeepsInv ==
  ASSUME GatewayInv, NEW q \in Requests, Resume(q) \/ Announce(q), Rest
  PROVE  GatewayInv'
<1>1. Fits(q, pc[q]) /\ pc[q] \in {"resume", "announce"}
  BY DEF Resume, Announce, Lifecycle, Update, At, GatewayInv
<1>2. Fits(q, "announce") /\ Fits(q, "forward")
  BY <1>1 DEF Fits, Early, Retrying, Forwarding, AnswerOfRetry
<1>3. {"resume", "announce", "forward"}
        \subseteq Stages \ (Early \cup {"waiting"} \cup ActsOnAnother)
  BY DEF Stages, Early, ActsOnAnother, Retrying, AnswerOfRetry
<1> QED
  BY <1>2, <1>3, LifecycleKeepsInv DEF Resume, Announce

LEMMA FinishKeepsInv ==
  ASSUME GatewayInv, NEW q \in Requests, FinishRequest(q) \/ FinishHold(q), Rest
  PROVE  GatewayInv'
<1>1. Fits(q, pc[q]) /\ pc[q] \in {"finishRequest", "finishHold"}
  BY DEF FinishRequest, FinishHold, UpdateHold, Lifecycle, Update, At, GatewayInv
<1>2. run[q] = "DEFER" => Fits(q, "finishHold")
  BY <1>1 DEF Fits, Early, Retrying, Forwarding, AnswerOfRetry
<1>3. /\ {"finishRequest", "finishHold"}
           \subseteq Stages \ (Early \cup {"waiting"} \cup ActsOnAnother)
      /\ Answer(q) \in Answers /\ Outcome(q) \in {"completed", "failed"}
  BY DEF Stages, Early, ActsOnAnother, Retrying, AnswerOfRetry, Answer, Answers, Outcome
<1>4. Outcome(q) = "completed" => q \in forwarded
  BY DEF Outcome, GatewayInv, OwnInv
<1>5. /\ Fits(q, Answer(q))
      /\ Answer(q) \in (Stages \cup Answers) \ (Early \cup {"waiting"} \cup ActsOnAnother)
  BY <1>3, AnswersFit
<1>6. CASE FinishRequest(q)
  <2> DEFINE next == IF plan[q].kind = "http" /\ run[q] = "DEFER"
                     THEN "finishHold" ELSE Answer(q)
  <2>1. Lifecycle(q, "finishRequest", q, Outcome(q), FALSE, next)
    BY <1>6 DEF FinishRequest
  <2>2. /\ Fits(q, next)
        /\ next \in (Stages \cup Answers) \ (Early \cup {"waiting"} \cup ActsOnAnother)
    BY <1>2, <1>3, <1>5
  <2> HIDE DEF next
  <2> QED
    BY <1>3, <1>4, <2>1, <2>2, LifecycleKeepsInv
<1>7. CASE FinishHold(q)
  <2>1. found' = [found EXCEPT ![q] = found[q]] /\ found[q] \in Requests \cup {None}
    BY <1>7 DEF FinishHold, GatewayInv, TypeOK
  <2>2. plan[q].hold \in Holds
    BY PlanTyped
  <2>3. pc[q] = "finishHold"
    BY <1>7 DEF FinishHold, UpdateHold, Update, At
  <2>4. Outcome(q) = "completed" =>
          \E x \in forwarded : plan[x].hold = plan[q].hold /\ run[x] = "DEFER"
    BY <1>1, <1>4, <2>3 DEF Fits
  <2>5. TrueHold(q, found[q], "finishHold", plan[q].hold, Outcome(q), FALSE, Answer(q))
    BY <1>3, <1>5, <1>7, <2>1, <2>2, <2>4 DEF FinishHold, TrueHold
  <2> QED
    BY <2>5, HoldUpdateKeepsInv
<1> QED
  BY <1>6, <1>7

LEMMA TraceKeepsInv ==
  ASSUME GatewayInv, NEW q \in Requests, Trace(q) \/ KeepEvent(q), Rest
  PROVE  GatewayInv'
<1>1. Fits(q, pc[q]) /\ pc[q] \in {"trace", "keepEvent"}
  BY DEF Trace, KeepEvent, Update, At, GatewayInv
<1>2. Fits(q, "keepEvent") /\ Fits(q, "finishRequest")
  BY <1>1 DEF Fits, Early, Retrying, Forwarding, AnswerOfRetry
<1>3. {"trace", "keepEvent", "finishRequest"}
        \subseteq Stages \ (Early \cup {"waiting"} \cup ActsOnAnother)
  BY DEF Stages, Early, ActsOnAnother, Retrying, AnswerOfRetry
<1>4. requests[q] # None => requests[q] \in Record /\ RecordTrue(q, requests[q])
  BY DEF GatewayInv, TypeOK, FileInv
<1>5. UNCHANGED found /\ found[q] \in Requests \cup {None}
  BY DEF Trace, KeepEvent, GatewayInv, TypeOK
<1>6. found' = [found EXCEPT ![q] = found[q]]
  BY <1>5 DEF GatewayInv, TypeOK
<1>7. CASE Trace(q)
  <2>1. PICK next \in AfterTrace(q) :
          Update(q, "trace", "request", q, requests[q], FALSE, next)
    BY <1>7 DEF Trace
  <2>2. went[q] \in {"ok", "failed", "closed"}
    BY <1>7 DEF Trace, At, GatewayInv, TypeOK, Fits
  <2>3. next \in {"keepEvent", "finishRequest", Answer(q)}
    BY <2>1, <2>2 DEF AfterTrace
  <2>4. Answer(q) \in Answers
    BY DEF Answer, Answers
  <2>5. /\ Fits(q, next)
        /\ next \in (Stages \cup Answers) \ (Early \cup {"waiting"} \cup ActsOnAnother)
    BY <1>2, <1>3, <2>3, <2>4, AnswersFit
  <2>6. TrueUpdate(q, found[q], "trace", "request", q, requests[q], FALSE, next)
    BY <1>3, <1>4, <1>5, <1>6, <2>1, <2>5 DEF File, TrueUpdate
  <2> QED
    BY <2>6, UpdateKeepsInv
<1>8. CASE KeepEvent(q)
  <2> DEFINE content == [requests[q] EXCEPT !.event = TRUE]
  <2>1. requests[q] # None => content \in Record /\ RecordTrue(q, content)
    BY <1>4, EventKept DEF RecordTrue
  <2>2. Update(q, "keepEvent", "request", q, content, FALSE, "finishRequest")
    BY <1>8 DEF KeepEvent
  <2> HIDE DEF content
  <2>3. TrueUpdate(q, found[q], "keepEvent", "request", q, content, FALSE, "finishRequest")
    BY <1>2, <1>3, <1>5, <1>6, <2>1, <2>2 DEF File, TrueUpdate
  <2> QED
    BY <2>3, UpdateKeepsInv
<1> QED
  BY <1>7, <1>8

-----------------------------------------------------------------------------
(* Steps that change more of their request than its stage *)

LEMMA LookupKeepsInv ==
  ASSUME GatewayInv, NEW q \in Requests, Lookup(q), Rest
  PROVE  GatewayInv'
<1>0. At(q, "lookup") /\ Fits(q, "lookup")
  BY DEF Lookup, At, GatewayInv
<1>1. CASE UNCHANGED found /\ Goto(q, "run")
  <2>1. Fits(q, "run")
    BY <1>0 DEF Fits, Early, Retrying, Forwarding, AnswerOfRetry
  <2>2. /\ "run" \in Stages \ ({"waiting"} \cup ActsOnAnother)
        /\ "lookup" \in Stages /\ "lookup" \in Early
    BY DEF Stages, Early, ActsOnAnother, Retrying, AnswerOfRetry
  <2> QED
    BY <1>0, <1>1, <2>1, <2>2, RestTyped, OnlyMovesKeepsInv DEF Lookup, Rest
<1>2. ASSUME NEW x \in Requests, SameTurn(q, x),
             plan[q].kind = "tool" => Approved(x),
             NEW stage \in {"run"} \cup DOMAIN AnswerOfRetry,
             found' = [found EXCEPT ![q] = x], Goto(q, stage)
      PROVE  GatewayInv'
  <2> USE DEF GatewayInv
  <2>0. UNCHANGED <<saving, requests, holds, claimed, resolved, plan, run, went, forwarded,
                    late, resolving, events>>
    BY DEF Lookup, Unwritten, Rest, fileVars
  <2>1. stage \in Stages /\ stage \notin Forwarding /\ stage # "trace"
        /\ stage \notin {"consumeHold", "consumeRequest", "record", "waiting",
                         "expireHold", "expireRequest", "finishHold"}
    BY DEF Stages, Forwarding, AnswerOfRetry
  <2>2. TypeOK'
    BY <1>2, <2>0, <2>1 DEF TypeOK, Goto
  <2>3. found'[q] = x /\ pc'[q] = stage
    BY <1>2 DEF TypeOK, Goto
  <2>4. ASSUME NEW y \in Requests, y # q
        PROVE  found'[y] = found[y] /\ pc'[y] = pc[y]
    BY <1>2, <2>4 DEF TypeOK, Goto
  <2>5. ASSUME NEW y \in Requests
        PROVE  Fits(y, pc[y])'
    <3>1. CASE y = q
      <4>1. Fits(q, "lookup")
        BY <1>0
      <4>2. "lookup" \in Early
        BY DEF Early
      <4> QED
        BY <3>1, <4>1, <4>2, <2>0, <2>1, <2>3 DEF Fits
    <3>2. CASE y # q
      BY <3>2, <2>0, <2>4 DEF Fits, Approved
    <3> QED
      BY <3>1, <3>2
  <2>6. ASSUME NEW y \in Requests
        PROVE  OwnInv(y)' /\ WaitInv(y)'
    <3>1. CASE y = q
      BY <3>1, <1>2, <2>0, <2>1, <2>3 DEF OwnInv, WaitInv, Approved, SameTurn
    <3>2. CASE y # q
      BY <3>2, <2>0, <2>4 DEF OwnInv, WaitInv, Claim, Approved, SameTurn
    <3> QED
      BY <3>1, <3>2
  <2>7. ASSUME NEW y \in Requests
        PROVE  FileInv(y)'
    BY <2>0 DEF FileInv, RecordTrue, Approved
  <2>10. ASSUME NEW h \in Holds
         PROVE  HoldInv(h)'
    BY <2>0 DEF HoldInv, HoldTrue, Approved
  <2>8. ASSUME NEW a \in Actors
        PROVE  WriteInv(a)'
    <3>1. a \in Requests /\ pc[a] \notin Early => pc'[a] \notin Early
      BY <1>0, <2>4 DEF At, Early
    <3> QED
      BY <2>0, <3>1 DEF WriteInv, RecordTrue, HoldTrue, Claim, Approved
  <2>9. ASSUME NEW o \in Operators
        PROVE  ResolvingInv(o)'
    BY <2>0 DEF ResolvingInv, HoldTrue
  <2> QED
    BY <2>2, <2>5, <2>6, <2>7, <2>8, <2>9, <2>10
<1>3. ASSUME NEW x \in ApprovedRetry(q)
      PROVE  x \in Requests /\ SameTurn(q, x) /\ Approved(x)
  BY DEF ApprovedRetry, GatewayInv, FileInv, RecordTrue
<1>4. ASSUME NEW x \in EarlierOfTurn(q)
      PROVE  x \in Requests /\ SameTurn(q, x)
  BY DEF EarlierOfTurn
<1>5. \A x : ObserveStage(requests[x]) \in DOMAIN AnswerOfRetry
  BY DEF ObserveStage, AnswerOfRetry
<1> QED
  BY <1>1, <1>2, <1>3, <1>4, <1>5 DEF Lookup

LEMMA CreateRunKeepsInv ==
  ASSUME GatewayInv, NEW q \in Requests, CreateRun(q), Rest
  PROVE  GatewayInv'
<1>0. At(q, "run") /\ Fits(q, "run") /\ "run" \in Early
  BY DEF CreateRun, At, GatewayInv, Early
<1>1. CASE Goto(q, "error") /\ UNCHANGED run
  <2>1. /\ Fits(q, "error") /\ "run" \in Stages
        /\ "error" \in (Stages \cup Answers) \ ({"waiting"} \cup ActsOnAnother)
    BY AnswersFit DEF Answers, Stages
  <2> QED
    BY <1>0, <1>1, <2>1, RestTyped, OnlyMovesKeepsInv DEF CreateRun, Rest
<1>2. ASSUME NEW d \in Decisions, NEW stage \in {"consumeHold", "record"},
             run' = [run EXCEPT ![q] = d], Goto(q, stage),
             stage = "consumeHold" => found[q] # None
      PROVE  GatewayInv'
  <2> USE DEF GatewayInv
  <2>0. UNCHANGED <<saving, requests, holds, claimed, resolved, plan, found, went, forwarded,
                    late, resolving, events>>
    BY DEF CreateRun, Unwritten, Rest, fileVars
  <2>1. /\ requests[q] = None /\ q \notin forwarded /\ q \notin claimed
        /\ \A a \in Actors :
             saving[a] # None /\ saving[a].file = "request" => saving[a].id # q
    BY <1>0 DEF Fits
  <2>2. TypeOK'
    BY <1>2, <2>0 DEF TypeOK, Goto, Stages
  <2>3. run'[q] = d /\ pc'[q] = stage
    BY <1>2 DEF TypeOK, Goto
  <2>4. ASSUME NEW y \in Requests, y # q
        PROVE  run'[y] = run[y] /\ pc'[y] = pc[y]
    BY <1>2, <2>4 DEF TypeOK, Goto
  <2>5. ASSUME NEW y \in Requests
        PROVE  Fits(y, pc[y])'
    <3>1. CASE y = q
      <4> QED
        BY <3>1, <1>2, <2>0, <2>3
           DEF Fits, Early, Retrying, Forwarding, AnswerOfRetry
    <3>2. CASE y # q
      BY <3>2, <2>0, <2>4 DEF Fits, Approved
    <3> QED
      BY <3>1, <3>2
  <2>6. ASSUME NEW y \in Requests
        PROVE  OwnInv(y)' /\ WaitInv(y)'
    <3>1. found[q] \in Requests \cup {None} /\ stage # "waiting"
      BY <1>2 DEF TypeOK
    <3>2. CASE y = q
      BY <3>1, <3>2, <1>2, <2>0, <2>1, <2>3
         DEF OwnInv, WaitInv, ActsOnAnother, Retrying, AnswerOfRetry, Approved, SameTurn
    <3>3. CASE y # q
      BY <3>3, <2>0, <2>4 DEF OwnInv, WaitInv, Claim, Approved, SameTurn
    <3> QED
      BY <3>2, <3>3
  <2>7. ASSUME NEW y \in Requests
        PROVE  FileInv(y)'
    BY <2>0, <2>1, <2>4 DEF FileInv, RecordTrue, Approved
  <2>10. \A h \in Holds : \A c : HoldTrue(h, c) => HoldTrue(h, c)'
    BY <2>0, <2>1, <2>4 DEF HoldTrue, TypeOK
  <2>11. ASSUME NEW h \in Holds
         PROVE  HoldInv(h)'
    BY <2>0, <2>10 DEF HoldInv, Approved
  <2>8. ASSUME NEW a \in Actors
        PROVE  WriteInv(a)'
    <3> SUFFICES ASSUME saving[a] # None
                 PROVE  WriteInv(a)'
      BY <2>0 DEF WriteInv
    <3>1. saving[a] \in Write
      BY DEF TypeOK
    <3>2. CASE saving[a].file = "request"
      <4>1. saving[a].id \in Requests /\ saving[a].id # q
        BY <2>1, <3>1, <3>2, WriteTyped
      <4> QED
        BY <4>1, <3>2, <2>0, <2>4 DEF WriteInv, RecordTrue, Approved
    <3>3. CASE saving[a].file = "hold"
      <4>1. saving[a].id \in Holds
        BY <3>1, <3>3, WriteTyped
      <4>2. a \in Requests /\ pc[a] \notin Early => pc'[a] \notin Early
        BY <1>0, <2>4 DEF At
      <4> QED
        BY <4>1, <4>2, <3>3, <2>0, <2>10 DEF WriteInv, Claim
    <3> QED
      BY <3>1, <3>2, <3>3, WriteTyped
  <2>9. ASSUME NEW o \in Operators
        PROVE  ResolvingInv(o)'
    <3> SUFFICES ASSUME resolving[o] # None, saving[o] # None
                 PROVE  ResolvingInv(o)'
      BY <2>0 DEF ResolvingInv
    <3>1. saving[o] \in Write /\ saving[o].file = "hold"
      BY DEF TypeOK, ResolvingInv, Actors
    <3>2. saving[o].id \in Holds
      BY <3>1, WriteTyped
    <3> QED
      BY <3>2, <2>0, <2>10 DEF ResolvingInv
  <2> QED
    BY <2>2, <2>5, <2>6, <2>7, <2>8, <2>9, <2>11
<1> QED
  BY <1>1, <1>2 DEF CreateRun

LEMMA ForwardingKeepsInv ==
  ASSUME GatewayInv, NEW q \in Requests, Forward(q) \/ Proxy(q), Rest
  PROVE  GatewayInv'
<1>0. At(q, "forward") /\ Fits(q, "forward")
  BY DEF Forward, Proxy, At, GatewayInv
<1>1. ASSUME NEW result \in {"ok", "failed", "closed"},
             NEW stage \in {"finishRequest", "trace"},
             went' = [went EXCEPT ![q] = result],
             forwarded' \in {forwarded, forwarded \cup {q}},
             result = "ok" => q \in forwarded',
             Goto(q, stage)
      PROVE  GatewayInv'
  <2> USE DEF GatewayInv
  <2>0. UNCHANGED <<saving, requests, holds, claimed, resolved, plan, run, found,
                    late, resolving, events>>
    BY DEF Forward, Proxy, Unwritten, Rest, fileVars
  <2>1. TypeOK'
    BY <1>1, <2>0 DEF TypeOK, Goto, Stages
  <2>2. went'[q] = result /\ pc'[q] = stage
    BY <1>1 DEF TypeOK, Goto
  <2>3. ASSUME NEW y \in Requests, y # q
        PROVE  /\ went'[y] = went[y] /\ pc'[y] = pc[y]
               /\ y \in forwarded' <=> y \in forwarded
    BY <1>1, <2>3 DEF TypeOK, Goto
  <2>4. forwarded \subseteq forwarded' /\ result # None
    BY <1>1, NoneAssumption
  <2>5. run[q] = "DEFER" => Approved(q)
    BY <1>0 DEF Fits, Forwarding
  <2>6. ASSUME NEW y \in Requests
        PROVE  Fits(y, pc[y])'
    <3>1. CASE y = q
      BY <3>1, <2>0, <2>2, <2>4, <2>5
         DEF Fits, Early, Retrying, Forwarding, AnswerOfRetry, Approved
    <3>2. CASE y # q
      BY <3>2, <2>0, <2>3 DEF Fits, Approved
    <3> QED
      BY <3>1, <3>2
  <2>7. ASSUME NEW y \in Requests
        PROVE  OwnInv(y)' /\ WaitInv(y)'
    <3>1. CASE y = q
      BY <3>1, <1>1, <2>0, <2>2, <2>5
         DEF OwnInv, WaitInv, ActsOnAnother, Retrying, AnswerOfRetry, Approved, SameTurn
    <3>2. CASE y # q
      BY <3>2, <2>0, <2>3 DEF OwnInv, WaitInv, Claim, Approved, SameTurn
    <3> QED
      BY <3>1, <3>2
  <2>8. ASSUME NEW y \in Requests
        PROVE  FileInv(y)'
    BY <2>0, <2>4 DEF FileInv, RecordTrue, Approved
  <2>11. \A h, c : HoldTrue(h, c) => HoldTrue(h, c)'
    BY <2>0, <2>4 DEF HoldTrue
  <2>12. ASSUME NEW h \in Holds
         PROVE  HoldInv(h)'
    BY <2>0, <2>11 DEF HoldInv, Approved
  <2>9. ASSUME NEW a \in Actors
        PROVE  WriteInv(a)'
    <3>1. a \in Requests /\ pc[a] \notin Early => pc'[a] \notin Early
      BY <1>1, <2>2, <2>3 DEF Early
    <3> QED
      BY <2>0, <2>4, <2>11, <3>1 DEF WriteInv, RecordTrue, Claim, Approved
  <2>10. ASSUME NEW o \in Operators
         PROVE  ResolvingInv(o)'
    BY <2>0, <2>11 DEF ResolvingInv
  <2> QED
    BY <2>1, <2>6, <2>7, <2>8, <2>9, <2>10, <2>12
<1>2. CASE Forward(q)
  BY <1>1, <1>2 DEF Forward
<1>3. CASE Proxy(q)
  BY <1>1, <1>3 DEF Proxy
<1> QED
  BY <1>2, <1>3

-----------------------------------------------------------------------------
(* Writes *)

LEMMA SaveKeepsInv ==
  ASSUME GatewayInv, NEW a \in Actors, Save(a)
  PROVE  GatewayInv'
<1> DEFINE w == saving[a]
<1> USE DEF GatewayInv
<1>0. UNCHANGED <<plan, pc, run, found, went, forwarded, late, resolving, events>>
  BY DEF Save, handlerVars
<1>1. w \in Write /\ w # None
  BY DEF Save, TypeOK
<1>2. /\ w.file \in {"request", "hold"}
      /\ w.file = "request" => w.id \in Requests /\ w.content \in Record
      /\ w.file = "hold" => w.id \in Holds /\ w.content \in Hold
      /\ w.file = "hold" => w.content.owner \in Requests
  BY <1>1, WriteTyped, HoldTyped
<1>3. saving' = [saving EXCEPT ![a] = None]
  BY DEF Save
<1>4. w.file = "request" => RecordTrue(w.id, w.content) /\ pc[w.id] \notin Early
  BY <1>1, <1>2 DEF WriteInv, Fits
<1>5. ASSUME w.file = "hold"
      PROVE  /\ HoldTrue(w.id, w.content) \/ (a \in Requests /\ Claim(a, w))
             /\ plan[w.content.owner].hold = w.id
             /\ pc[w.content.owner] \notin Early
  BY <1>1, <1>2, <1>5 DEF WriteInv, HoldTrue, Claim, Fits
<1>6. ASSUME w.file = "hold", a \in Operators
      PROVE  /\ resolving[a] \in Resolution /\ resolving[a].verdict \in Verdicts
             /\ HoldTrue(w.id, w.content) /\ w.content.owner = resolving[a].owner
             /\ w.content.state = ResolvedState(resolving[a].verdict)
  BY <1>1, <1>6 DEF WriteInv, ResolvingInv, TypeOK, Resolution
<1>7. w.file = "hold" /\ a \notin Operators => w.content.state # "approval_granted"
  BY <1>1 DEF WriteInv
<1>8. /\ w.file = "request" =>
           /\ requests' = [requests EXCEPT ![w.id] = w.content]
           /\ UNCHANGED <<holds, claimed, resolved>>
      /\ w.file = "hold" =>
           /\ holds' = [holds EXCEPT ![w.id] = w.content]
           /\ claimed' = IF w.content.state = "held_pending_approval"
                         THEN claimed \cup {w.content.owner} ELSE claimed
           /\ resolved' = [q \in Requests |->
                IF a \in Operators /\ q \in claimed /\ plan[q].hold = w.id
                THEN resolved[q] \cup {resolving[a].verdict} ELSE resolved[q]]
           /\ UNCHANGED requests
  BY DEF Save, FileWritten
<1> HIDE DEF w
<1>9. /\ \A q \in Requests : resolved[q] \subseteq resolved'[q]
      /\ claimed \subseteq claimed'
      /\ claimed' \subseteq claimed \cup (IF w.file = "hold" THEN {w.content.owner} ELSE {})
  BY <1>2, <1>8
<1>10. /\ \A q \in Requests : requests'[q] =
            IF w.file = "request" /\ q = w.id THEN w.content ELSE requests[q]
       /\ \A h \in Holds : holds'[h] =
            IF w.file = "hold" /\ h = w.id THEN w.content ELSE holds[h]
  BY <1>2, <1>8 DEF TypeOK
<1>11. \A b \in Actors : saving'[b] = IF b = a THEN None ELSE saving[b]
  BY <1>3 DEF TypeOK
<1>12. TypeOK'
  <2>1. requests' \in [Requests -> Record \cup {None}]
    BY <1>2, <1>8 DEF TypeOK
  <2>2. holds' \in [Holds -> Hold \cup {None}]
    BY <1>2, <1>8 DEF TypeOK
  <2>3. resolved' \in [Requests -> SUBSET Verdicts]
    BY <1>2, <1>6, <1>8 DEF TypeOK
  <2>4. saving' \in [Actors -> Write \cup {None}]
    BY <1>3 DEF TypeOK
  <2>5. claimed' \subseteq Requests
    BY <1>2, <1>9 DEF TypeOK
  <2> QED
    BY <1>0, <2>1, <2>2, <2>3, <2>4, <2>5 DEF TypeOK
<1>13. ASSUME NEW q \in Requests
       PROVE  Fits(q, pc[q])'
  <2>1. pc[q] \in Early => q \notin claimed' /\ requests'[q] = None
    BY <1>2, <1>4, <1>5, <1>9, <1>10 DEF Fits
  <2> QED
    BY <2>1, <1>0, <1>9, <1>11 DEF Fits, Approved
<1>14. ASSUME NEW q \in Requests
       PROVE  OwnInv(q)'
  <2>1. found[q] \in Requests \cup {None}
    BY DEF TypeOK
  <2> QED
    BY <2>1, <1>0, <1>9 DEF OwnInv, Approved, SameTurn
<1>15. ASSUME NEW q \in Requests
       PROVE  WaitInv(q)'
  <2>0. q \in Actors
    BY DEF Actors
  <2>1. CASE q = a
    <3>1. pc[q] = "waiting" => q \in claimed'
      BY <2>1, <1>1, <1>8 DEF WaitInv, Claim, w
    <3> QED
      BY <3>1, <2>0, <2>1, <1>0, <1>11 DEF WaitInv
  <2>2. CASE q # a
    BY <2>0, <2>2, <1>0, <1>9, <1>11 DEF WaitInv, Claim
  <2> QED
    BY <2>1, <2>2
<1>16. ASSUME NEW q \in Requests
       PROVE  FileInv(q)'
  <2>1. requests'[q] # None => RecordTrue(q, requests'[q])
    BY <1>4, <1>10 DEF FileInv
  <2> QED
    BY <2>1, <1>0, <1>9 DEF FileInv, RecordTrue, Approved
<1>17. ASSUME NEW h \in Holds
       PROVE  HoldInv(h)'
  <2>1. CASE w.file = "hold" /\ h = w.id
    <3>0. holds'[h] = w.content
      BY <2>1, <1>10
    <3>1. HoldTrue(h, holds[h])'
      BY <2>1, <3>0, <1>0, <1>5, <1>8, <1>9 DEF HoldTrue, Claim
    <3>2. ASSUME w.content.state = "approval_granted", NEW q \in claimed',
                 plan[q].hold = h
          PROVE  "APPROVE" \in resolved'[q]
      <4>1. a \in Operators /\ resolving[a].verdict = "APPROVE"
        BY <2>1, <3>2, <1>6, <1>7, ResolvedStateTyped
      <4>2. q \in claimed /\ q \in Requests
        BY <2>1, <3>2, <1>8 DEF TypeOK
      <4> QED
        BY <2>1, <3>2, <4>1, <4>2, <1>8
    <3> QED
      BY <3>0, <3>1, <3>2, <1>0 DEF HoldInv, Approved
  <2>2. CASE ~(w.file = "hold" /\ h = w.id)
    <3>0. holds'[h] = holds[h]
      BY <2>2, <1>10
    <3>1. \A q \in claimed' : plan[q].hold = h => q \in claimed
      BY <2>2, <1>5, <1>9
    <3> QED
      BY <3>0, <3>1, <1>0, <1>9 DEF HoldInv, HoldTrue, Approved, TypeOK
  <2> QED
    BY <2>1, <2>2
<1>18. ASSUME NEW b \in Actors
       PROVE  WriteInv(b)'
  <2> SUFFICES ASSUME b # a, saving[b] # None
               PROVE  WriteInv(b)'
    BY <1>11 DEF WriteInv
  <2>1. saving[b].file = "request" => saving[b].id \in Requests
    BY WriteTyped DEF TypeOK
  <2> QED
    BY <2>1, <1>0, <1>9, <1>11 DEF WriteInv, RecordTrue, HoldTrue, Claim, Approved
<1>19. ASSUME NEW o \in Operators
       PROVE  ResolvingInv(o)'
  <2> SUFFICES ASSUME resolving[o] # None
               PROVE  ResolvingInv(o)'
    BY <1>0 DEF ResolvingInv
  <2>0. o \in Actors /\ resolving[o].owner \in Requests
    BY DEF Actors, TypeOK, Resolution
  <2>1. CASE o = a
    <3>1. w.file = "hold"
      BY <1>1, <2>1 DEF ResolvingInv, w
    <3>2. resolving[o].owner \in claimed /\ plan[resolving[o].owner].hold = w.id
      BY <2>1, <3>1, <1>6 DEF HoldTrue
    <3>3. resolving[o].verdict \in resolved'[resolving[o].owner]
      BY <2>0, <2>1, <3>1, <3>2, <1>8
    <3> QED
      BY <1>0, <1>11, <2>0, <2>1, <3>3 DEF ResolvingInv
  <2>2. CASE o # a
    BY <1>0, <1>9, <1>11, <2>0, <2>2 DEF ResolvingInv, HoldTrue
  <2> QED
    BY <2>1, <2>2
<1> QED
  BY <1>12, <1>13, <1>14, <1>15, <1>16, <1>17, <1>18, <1>19

(* Files can be emptied and writes dropped, and handlers ended; but a      *)
(* handler that lost its claim does not go on to wait.                     *)
LEMMA LosingKeepsInv ==
  ASSUME GatewayInv, NEW ws, MayEmpty(ws),
         \A q \in Requests : pc'[q] \in {pc[q]} \cup Answers,
         pc' = [q \in Requests |-> pc'[q]],
         \A a \in Actors : saving'[a] \in {saving[a], None},
         saving' = [a \in Actors |-> saving'[a]],
         \A q \in Requests : pc'[q] = "waiting" => saving'[q] = saving[q],
         \A o \in Operators : resolving'[o] = IF saving'[o] = saving[o] THEN resolving[o] ELSE None,
         resolving' = [o \in Operators |-> resolving'[o]],
         events' \in 0..MaxEvents,
         UNCHANGED <<plan, run, found, went, late, forwarded, claimed, resolved>>
  PROVE  GatewayInv'
<1> USE DEF GatewayInv
<1>0. \A q \in Requests : /\ pc'[q] # pc[q] => pc'[q] \notin Early \cup {"waiting"} \cup ActsOnAnother
                          /\ Fits(q, pc'[q])
  BY AnswersFit
<1>1. /\ \A q \in Requests : requests'[q] \in {requests[q], None}
      /\ \A h \in Holds : holds'[h] \in {holds[h], None}
  BY DEF MayEmpty
<1>2. /\ requests' \in [Requests -> Record \cup {None}]
      /\ holds' \in [Holds -> Hold \cup {None}]
  BY DEF MayEmpty, TypeOK
<1>3. /\ pc' \in [Requests -> Stages \cup Answers]
      /\ saving' \in [Actors -> Write \cup {None}]
  BY DEF TypeOK
<1>4. resolving' \in [Operators -> Resolution \cup {None}]
  BY DEF TypeOK
<1>5. TypeOK'
  BY <1>2, <1>3, <1>4 DEF TypeOK
<1>6. ASSUME NEW q \in Requests
      PROVE  Fits(q, pc[q])'
  BY <1>0, <1>1 DEF Fits, Approved
<1>7. ASSUME NEW q \in Requests
      PROVE  OwnInv(q)' /\ FileInv(q)'
  BY <1>0, <1>1 DEF OwnInv, FileInv, RecordTrue, Approved, SameTurn
<1>8. ASSUME NEW q \in Requests
      PROVE  WaitInv(q)'
  BY <1>0 DEF WaitInv, Claim
<1>9. ASSUME NEW h \in Holds
      PROVE  HoldInv(h)'
  BY <1>1 DEF HoldInv, HoldTrue, Approved
<1>10. ASSUME NEW a \in Actors
       PROVE  WriteInv(a)'
  BY <1>0 DEF WriteInv, RecordTrue, HoldTrue, Claim, Approved
<1>11. ASSUME NEW o \in Operators
       PROVE  ResolvingInv(o)'
  BY DEF ResolvingInv, HoldTrue, Actors
<1> QED
  BY <1>5, <1>6, <1>7, <1>8, <1>9, <1>10, <1>11

LEMMA SaveFailsKeepsInv ==
  ASSUME GatewayInv, NEW a \in Actors, SaveFails(a)
  PROVE  GatewayInv'
<1>1. /\ saving[a] # None /\ saving' = [saving EXCEPT ![a] = None]
      /\ MayEmpty({saving[a]})
      /\ UNCHANGED <<plan, run, found, went, late, forwarded, claimed, resolved>>
      /\ pc' = IF a \in Requests /\ saving[a].must THEN [pc EXCEPT ![a] = "error"] ELSE pc
      /\ resolving' = IF a \in Operators THEN [resolving EXCEPT ![a] = None] ELSE resolving
  BY DEF SaveFails
<1>2. events' \in 0..MaxEvents
  BY GatewayBoundsAssumption DEF SaveFails, Disturb, GatewayInv, TypeOK
<1>3. /\ \A q \in Requests : pc'[q] = IF q = a /\ saving[a].must THEN "error" ELSE pc[q]
      /\ pc' = [q \in Requests |-> pc'[q]]
  BY <1>1 DEF GatewayInv, TypeOK
<1>4. /\ \A b \in Actors : saving'[b] = IF b = a THEN None ELSE saving[b]
      /\ saving' = [b \in Actors |-> saving'[b]]
  BY <1>1 DEF GatewayInv, TypeOK
<1>5. /\ \A o \in Operators : resolving'[o] = IF o = a THEN None ELSE resolving[o]
      /\ resolving' = [o \in Operators |-> resolving'[o]]
  BY <1>1 DEF GatewayInv, TypeOK
<1>6. \A o \in Operators :
        resolving'[o] = IF saving'[o] = saving[o] THEN resolving[o] ELSE None
  BY <1>1, <1>4, <1>5 DEF Actors
<1>7. \A q \in Requests : pc'[q] = "waiting" => saving'[q] = saving[q]
  BY <1>1, <1>3, <1>4 DEF GatewayInv, WaitInv, Actors
<1>8. \A q \in Requests : pc'[q] \in {pc[q]} \cup Answers
  BY <1>3 DEF Answers
<1> QED
  BY <1>1, <1>2, <1>3, <1>4, <1>5, <1>6, <1>7, <1>8, LosingKeepsInv

LEMMA CrashKeepsInv == GatewayInv /\ Crash => GatewayInv'
<1> SUFFICES ASSUME GatewayInv, Crash PROVE GatewayInv'
  OBVIOUS
<1>1. /\ MayEmpty({saving[a] : a \in Requests \cup Pollers} \ {None})
      /\ UNCHANGED <<plan, run, found, went, late, resolving, forwarded, claimed, resolved>>
      /\ pc' = [q \in Requests |-> IF pc[q] \in Stages \ {"new"} THEN "gone" ELSE pc[q]]
      /\ saving' = [a \in Actors |-> IF a \in Operators THEN saving[a] ELSE None]
  BY DEF Crash
<1>2. events' \in 0..MaxEvents
  BY GatewayBoundsAssumption DEF Crash, Disturb, GatewayInv, TypeOK
<1>3. /\ \A q \in Requests : pc'[q] \in {pc[q]} \cup Answers
      /\ \A q \in Requests : pc'[q] # "waiting"
      /\ pc' = [q \in Requests |-> pc'[q]]
  BY <1>1 DEF Answers, Stages
<1>4. /\ \A a \in Actors : saving'[a] \in {saving[a], None}
      /\ saving' = [a \in Actors |-> saving'[a]]
  BY <1>1
<1>5. /\ \A o \in Operators :
            resolving'[o] = IF saving'[o] = saving[o] THEN resolving[o] ELSE None
      /\ resolving' = [o \in Operators |-> resolving'[o]]
  BY <1>1 DEF Actors, GatewayInv, TypeOK
<1> QED
  BY <1>1, <1>2, <1>3, <1>4, <1>5, LosingKeepsInv

(* Somebody who is no handler starts a write. *)
LEMMA OutsideWriteKeepsInv ==
  ASSUME GatewayInv, NEW a \in Operators \cup Pollers, NEW w \in Write,
         saving[a] = None, saving' = [saving EXCEPT ![a] = w],
         UNCHANGED <<plan, handlerVars, fileVars, late>>,
         events' \in 0..MaxEvents,
         resolving' \in [Operators -> Resolution \cup {None}],
         \A o \in Operators \ {a} : resolving'[o] = resolving[o],
         w.file = "request" => RecordTrue(w.id, w.content) /\ pc[w.id] \notin Early,
         w.file = "hold" => /\ a \in Operators /\ resolving'[a] # None
                            /\ HoldTrue(w.id, w.content),
         a \in Operators => ResolvingInv(a)',
         a \in Pollers => w.file = "request"
  PROVE  GatewayInv'
<1> USE DEF GatewayInv
<1>0. UNCHANGED <<plan, pc, run, found, went, forwarded, requests, holds, claimed, resolved, late>>
  BY DEF handlerVars, fileVars
<1>1. a \in Actors /\ a \notin Requests
  BY ActorsAssumption DEF Actors
<1>2. TypeOK'
  BY <1>0 DEF TypeOK
<1>3. \A b \in Actors : saving'[b] = IF b = a THEN w ELSE saving[b]
  BY DEF TypeOK
<1>4. ASSUME NEW q \in Requests
      PROVE  Fits(q, pc[q])' /\ OwnInv(q)' /\ WaitInv(q)' /\ FileInv(q)'
  <2>1. Fits(q, pc[q])'
    BY <1>0, <1>3 DEF Fits, Approved
  <2>2. OwnInv(q)' /\ FileInv(q)'
    BY <1>0 DEF OwnInv, FileInv, RecordTrue, Approved, SameTurn
  <2>3. WaitInv(q)'
    BY <1>0, <1>1, <1>3 DEF WaitInv, Claim, Actors
  <2> QED
    BY <2>1, <2>2, <2>3
<1>5. ASSUME NEW b \in Actors, b # a
      PROVE  WriteInv(b)'
  BY <1>0, <1>3, <1>5 DEF WriteInv, RecordTrue, HoldTrue, Claim, Approved
<1>6. ASSUME NEW o \in Operators, o # a
      PROVE  ResolvingInv(o)'
  BY <1>0, <1>3, <1>6 DEF ResolvingInv, HoldTrue, Actors
<1>7. WriteInv(a)'
  <2>1. w.file \in {"request", "hold"}
    BY WriteTyped
  <2>2. CASE w.file = "request"
    BY <2>2, <1>0, <1>1, <1>3 DEF WriteInv, RecordTrue, Approved, ResolvingInv
  <2>3. CASE w.file = "hold"
    BY <2>3, <1>0, <1>1, <1>3 DEF WriteInv, HoldTrue
  <2> QED
    BY <2>1, <2>2, <2>3
<1>8. ASSUME NEW h \in Holds
      PROVE  HoldInv(h)'
  BY <1>0 DEF HoldInv, HoldTrue, Approved
<1> QED
  BY <1>2, <1>4, <1>5, <1>6, <1>7, <1>8

LEMMA ResolveHoldKeepsInv ==
  ASSUME GatewayInv, NEW o \in Operators, NEW h \in Holds, NEW v \in Verdicts,
         ResolveHold(o, h, v)
  PROVE  GatewayInv'
<1> DEFINE content == [holds[h] EXCEPT !.state = ResolvedState(v)]
           w == WriteTo("hold", h, content, TRUE)
           r == [owner |-> holds[h].owner, verdict |-> v]
<1>1. /\ holds[h] \in Hold /\ HoldTrue(h, holds[h])
      /\ saving[o] = None /\ saving' = [saving EXCEPT ![o] = w]
      /\ UNCHANGED <<plan, handlerVars, fileVars, late>>
      /\ resolving' = [resolving EXCEPT ![o] = r]
  BY DEF ResolveHold, GatewayInv, HoldInv, TypeOK
<1>2. /\ content \in Hold /\ content.owner = holds[h].owner
      /\ content.state = ResolvedState(v)
  BY <1>1, HoldTyped, ResolvedStateTyped
<1> HIDE DEF content
<1>3. HoldTrue(h, content)
  BY <1>1, <1>2, ResolvedStateTyped DEF HoldTrue
<1>4. w \in Write /\ w.file = "hold" /\ w.id = h /\ w.content = content
  BY <1>2, WriteToTyped DEF WriteTo
<1>5. r \in Resolution /\ r.owner = holds[h].owner /\ r.verdict = v
  BY <1>1, HoldTyped DEF Resolution
<1>6. w # None /\ r # None
  BY <1>4, <1>5, NoneAssumption
<1> HIDE DEF w, r
<1>7. events' \in 0..MaxEvents
  BY GatewayBoundsAssumption DEF ResolveHold, Disturb, GatewayInv, TypeOK
<1>8. saving'[o] = w /\ resolving'[o] = r
  BY <1>1 DEF GatewayInv, TypeOK, Actors
<1>9. /\ resolving' \in [Operators -> Resolution \cup {None}]
      /\ \A p \in Operators \ {o} : resolving'[p] = resolving[p]
  BY <1>1, <1>5 DEF GatewayInv, TypeOK
<1>10. ResolvingInv(o)'
  BY <1>1, <1>2, <1>3, <1>4, <1>5, <1>6, <1>8 DEF ResolvingInv, HoldTrue, handlerVars, fileVars
<1>11. o \notin Pollers
  BY ActorsAssumption
<1> QED
  BY <1>1, <1>3, <1>4, <1>6, <1>7, <1>8, <1>9, <1>10, <1>11, OutsideWriteKeepsInv

LEMMA ResolveRequestKeepsInv ==
  ASSUME GatewayInv, NEW o \in Operators, ResolveRequest(o)
  PROVE  GatewayInv'
<1> DEFINE q == resolving[o].owner
           state == ResolvedState(resolving[o].verdict)
           content == [requests[q] EXCEPT !.inter = state]
           w == WriteTo("request", q, content, FALSE)
<1>0. /\ resolving[o] # None /\ saving[o] = None
      /\ resolving' = [resolving EXCEPT ![o] = None]
      /\ UNCHANGED <<plan, handlerVars, fileVars, late, events>>
  BY DEF ResolveRequest
<1>1. q \in Requests /\ resolving[o].verdict \in Verdicts
  BY <1>0 DEF GatewayInv, TypeOK, Resolution
<1>2. /\ resolving' \in [Operators -> Resolution \cup {None}]
      /\ \A p \in Operators \ {o} : resolving'[p] = resolving[p]
      /\ resolving'[o] = None
  BY <1>0 DEF GatewayInv, TypeOK
<1>3. ResolvingInv(o)' /\ o \in Actors /\ events' \in 0..MaxEvents /\ o \notin Pollers
  BY <1>0, <1>2, ActorsAssumption DEF ResolvingInv, Actors, GatewayInv, TypeOK
<1>4. CASE requests[q] # None /\ saving' = [saving EXCEPT ![o] = w]
  <2>1. requests[q] \in Record /\ RecordTrue(q, requests[q]) /\ pc[q] \notin Early
    BY <1>1, <1>4 DEF GatewayInv, TypeOK, FileInv, Fits
  <2>2. state = "approval_granted" => Approved(q)
    BY <1>0, <1>1, ResolvedStateTyped DEF GatewayInv, ResolvingInv, Approved
  <2>3. state \in InterStates
    BY <1>1, ResolvedStateTyped
  <2> HIDE DEF state
  <2>4. content \in Record /\ content.state = requests[q].state /\ content.inter = state
    BY <2>1, <2>3 DEF Record
  <2>5. RecordTrue(q, content)
    BY <2>1, <2>2, <2>4 DEF RecordTrue
  <2> HIDE DEF content
  <2>6. w \in Write /\ w.file = "request" /\ w.id = q /\ w.content = content
    BY <1>1, <2>4, WriteToTyped DEF WriteTo
  <2> HIDE DEF w, q
  <2> QED
    BY <1>0, <1>2, <1>3, <1>4, <2>1, <2>5, <2>6, OutsideWriteKeepsInv
<1>5. CASE UNCHANGED saving
  <2> USE DEF GatewayInv
  <2>1. UNCHANGED <<plan, pc, run, found, went, forwarded, requests, holds, claimed,
                    resolved, late, saving, events>>
    BY <1>0, <1>5 DEF handlerVars, fileVars
  <2>2. TypeOK'
    BY <1>2, <2>1 DEF TypeOK
  <2>3. ASSUME NEW x \in Requests
        PROVE  Fits(x, pc[x])' /\ OwnInv(x)' /\ WaitInv(x)' /\ FileInv(x)'
    BY <2>1 DEF Fits, OwnInv, WaitInv, Claim, FileInv, RecordTrue, Approved, SameTurn
  <2>4. ASSUME NEW a \in Actors
        PROVE  WriteInv(a)'
    BY <1>0, <1>2, <2>1 DEF WriteInv, RecordTrue, HoldTrue, Claim, Approved
  <2>5. ASSUME NEW p \in Operators, p # o
        PROVE  ResolvingInv(p)'
    BY <1>2, <2>1, <2>5 DEF ResolvingInv, HoldTrue
  <2>6. ASSUME NEW h \in Holds
        PROVE  HoldInv(h)'
    BY <2>1 DEF HoldInv, HoldTrue, Approved
  <2> QED
    BY <1>3, <2>2, <2>3, <2>4, <2>5, <2>6
<1> QED
  BY <1>4, <1>5 DEF ResolveRequest

LEMMA StatusKeepsInv ==
  ASSUME GatewayInv, NEW p \in Pollers, NEW q \in Requests, Status(p, q)
  PROVE  GatewayInv'
<1> DEFINE content == [FirstRecord(run[q]) EXCEPT !.event = requests[q].event]
           w == WriteTo("request", q, content, FALSE)
<1>0. /\ saving[p] = None /\ saving' = [saving EXCEPT ![p] = w]
      /\ UNCHANGED <<plan, handlerVars, fileVars, late, resolving>>
      /\ requests[q] # None
  BY DEF Status
<1>1. events' \in 0..MaxEvents
  BY GatewayBoundsAssumption DEF Status, Disturb, GatewayInv, TypeOK
<1>2. run[q] \in Decisions /\ pc[q] \notin Early /\ requests[q].event \in BOOLEAN
  BY <1>0 DEF GatewayInv, FileInv, RecordTrue, Fits, TypeOK, Record
<1>3. /\ content \in Record
      /\ content.state = FirstRecord(run[q]).state
      /\ content.inter = FirstRecord(run[q]).inter
  BY <1>2, FirstRecordTyped, EventKept
<1> HIDE DEF content
<1>4. RecordTrue(q, content)
  BY <1>2, <1>3, FirstRecordTyped DEF RecordTrue
<1>5. w \in Write /\ w.file = "request" /\ w.id = q /\ w.content = content
  BY <1>3, WriteToTyped DEF WriteTo
<1> HIDE DEF w
<1>6. /\ resolving' \in [Operators -> Resolution \cup {None}]
      /\ \A o \in Operators \ {p} : resolving'[o] = resolving[o]
      /\ p \notin Operators
  BY <1>0, ActorsAssumption DEF GatewayInv, TypeOK
<1> QED
  BY <1>0, <1>1, <1>2, <1>4, <1>5, <1>6, OutsideWriteKeepsInv

(* A deadline concerns no invariant. *)
LEMMA SameKeepsInv ==
  ASSUME GatewayInv, late' \subseteq Requests,
         UNCHANGED <<plan, pc, run, found, went, forwarded, requests, holds, claimed,
                     resolved, saving, resolving, events>>
  PROVE  GatewayInv'
<1> USE DEF GatewayInv
<1>1. TypeOK'
  BY DEF TypeOK
<1>2. ASSUME NEW x \in Requests
      PROVE  Fits(x, pc[x])' /\ OwnInv(x)' /\ WaitInv(x)' /\ FileInv(x)'
  BY DEF Fits, OwnInv, WaitInv, Claim, FileInv, RecordTrue, Approved, SameTurn
<1>3. ASSUME NEW h \in Holds
      PROVE  HoldInv(h)'
  BY DEF HoldInv, HoldTrue, Approved
<1>4. ASSUME NEW a \in Actors
      PROVE  WriteInv(a)'
  BY DEF WriteInv, RecordTrue, HoldTrue, Claim, Approved
<1>5. ASSUME NEW o \in Operators
      PROVE  ResolvingInv(o)'
  BY DEF ResolvingInv, HoldTrue
<1> QED
  BY <1>1, <1>2, <1>3, <1>4, <1>5

LEMMA ExpireKeepsInv ==
  ASSUME GatewayInv, NEW q \in Requests, Expire(q)
  PROVE  GatewayInv'
<1>1. late' \subseteq Requests
  BY DEF Expire, GatewayInv, TypeOK
<1> QED
  BY <1>1, SameKeepsInv DEF Expire, handlerVars, fileVars

LEMMA CancelKeepsInv ==
  ASSUME GatewayInv, NEW q \in Requests, Cancel(q)
  PROVE  GatewayInv'
<1>1. events' \in 0..MaxEvents /\ late' \subseteq Requests
  BY GatewayBoundsAssumption DEF Cancel, Disturb, GatewayInv, TypeOK
<1>2. /\ Fits(q, "gone")
      /\ "gone" \in (Stages \cup Answers) \ (Early \cup {"waiting"} \cup ActsOnAnother)
  BY AnswersFit DEF Answers
<1>3. "waiting" \in Stages
  BY DEF Stages
<1> QED
  BY <1>1, <1>2, <1>3, OnlyMovesKeepsInv DEF Cancel

-----------------------------------------------------------------------------
(* Every step *)

LEMMA HandlerKeepsInv ==
  ASSUME GatewayInv, NEW q \in Requests, Handler(q)
  PROVE  GatewayInv'
<1>1. Rest
  BY DEF Handler, Rest
<1>2. CASE Lookup(q)
  BY <1>1, <1>2, LookupKeepsInv
<1>3. CASE Observe(q)
  BY <1>1, <1>3, ObserveKeepsInv
<1>4. CASE CreateRun(q)
  BY <1>1, <1>4, CreateRunKeepsInv
<1>5. CASE ConsumeHold(q) \/ ConsumeRequest(q)
  BY <1>1, <1>5, ConsumeKeepsInv
<1>6. CASE WriteRecord(q) \/ WriteHold(q)
  BY <1>1, <1>6, WriteKeepsInv
<1>7. CASE PollHold(q)
  BY <1>1, <1>7, PollHoldKeepsInv
<1>8. CASE ExpireHold(q) \/ ExpireRequest(q)
  BY <1>1, <1>8, ExpireStepsKeepInv
<1>9. CASE Resume(q) \/ Announce(q)
  BY <1>1, <1>9, ResumeKeepsInv
<1>10. CASE Forward(q)
  BY <1>1, <1>10, ForwardingKeepsInv
<1>11. CASE Trace(q) \/ KeepEvent(q)
  BY <1>1, <1>11, TraceKeepsInv
<1>12. CASE FinishRequest(q) \/ FinishHold(q)
  BY <1>1, <1>12, FinishKeepsInv
<1> QED
  BY <1>2, <1>3, <1>4, <1>5, <1>6, <1>7, <1>8, <1>9, <1>10, <1>11, <1>12 DEF Handler

LEMMA StutterKeepsInv == GatewayInv /\ UNCHANGED vars => GatewayInv'
<1> SUFFICES ASSUME GatewayInv, UNCHANGED vars PROVE GatewayInv'
  OBVIOUS
<1> QED
  BY SameKeepsInv DEF vars, GatewayInv, TypeOK

LEMMA NextKeepsInv == GatewayInv /\ [Next]_vars => GatewayInv'
<1> SUFFICES ASSUME GatewayInv, [Next]_vars PROVE GatewayInv'
  OBVIOUS
<1>1. ASSUME NEW q \in Requests, Agent(q)
      PROVE  GatewayInv'
  BY <1>1, ArriveKeepsInv DEF Agent, Rest
<1>2. ASSUME NEW q \in Requests, Handler(q)
      PROVE  GatewayInv'
  BY <1>2, HandlerKeepsInv
<1>3. ASSUME NEW q \in Requests, Upstream(q)
      PROVE  GatewayInv'
  BY <1>3, ForwardingKeepsInv DEF Upstream, Rest
<1>4. ASSUME NEW q \in Requests, Expire(q) \/ Cancel(q)
      PROVE  GatewayInv'
  BY <1>4, ExpireKeepsInv, CancelKeepsInv
<1>5. ASSUME NEW o \in Operators, NEW h \in Holds, NEW v \in Verdicts,
             ResolveHold(o, h, v)
      PROVE  GatewayInv'
  BY <1>5, ResolveHoldKeepsInv
<1>6. ASSUME NEW o \in Operators, ResolveRequest(o)
      PROVE  GatewayInv'
  BY <1>6, ResolveRequestKeepsInv
<1>7. ASSUME NEW p \in Pollers, NEW q \in Requests, Status(p, q)
      PROVE  GatewayInv'
  BY <1>7, StatusKeepsInv
<1>8. ASSUME NEW a \in Actors, Save(a) \/ SaveFails(a)
      PROVE  GatewayInv'
  BY <1>8, SaveKeepsInv, SaveFailsKeepsInv
<1>9. CASE Crash
  BY <1>9, CrashKeepsInv
<1>10. CASE UNCHANGED vars
  BY <1>10, StutterKeepsInv
<1> QED
  BY <1>1, <1>2, <1>3, <1>4, <1>5, <1>6, <1>7, <1>8, <1>9, <1>10 DEF Next

LEMMA InvariantHolds == Spec => []GatewayInv
<1> QED
  BY InitInv, NextKeepsInv, PTL DEF Spec

-----------------------------------------------------------------------------
(* Theorems *)

(* Every variable keeps its type, in particular every file that any actor  *)
(* writes back is a whole request record or a whole hold record.           *)
THEOREM GatewayTypeCorrect == Spec => []TypeOK
<1>1. GatewayInv => TypeOK
  BY DEF GatewayInv
<1> QED
  BY <1>1, InvariantHolds, PTL

(* No deferred request reaches the upstream unless an operator's approval  *)
(* was written to its hold since it claimed that hold, for any number of   *)
(* handlers, windows and clients that rewrite the files, however many      *)
(* requests share a hold, crashes and failed writes included               *)
(* (localhost_gateway.go:668-728).                                         *)
THEOREM HeldNeedsApproval == Spec => []HeldForwardedOnlyIfGranted
<1>1. GatewayInv => HeldForwardedOnlyIfGranted
  BY DEF GatewayInv, TypeOK, OwnInv, Approved, HeldForwardedOnlyIfGranted
<1> QED
  BY <1>1, InvariantHolds, PTL

(* However many copies of the files are in flight and in whatever order    *)
(* they are written back, the file of a deferred request says completed    *)
(* only if the upstream has it, and a hold file only if the upstream has a *)
(* deferred request that carries its id (localhost_gateway.go:745-757).    *)
THEOREM FilesClaimTrue == Spec => []FilesClaimOnlyWhatHappened
<1>1. GatewayInv => FilesClaimOnlyWhatHappened
  <2> SUFFICES ASSUME GatewayInv PROVE FilesClaimOnlyWhatHappened
    OBVIOUS
  <2>1. \A q \in Requests :
          run[q] = "DEFER" /\ requests[q] # None /\ requests[q].state = "completed"
            => q \in forwarded
    BY DEF GatewayInv, FileInv, RecordTrue
  <2>2. \A h \in Holds : holds[h] # None /\ holds[h].state = "completed" =>
          \E q \in forwarded : plan[q].hold = h /\ run[q] = "DEFER"
    BY DEF GatewayInv, HoldInv, HoldTrue
  <2> QED
    BY <2>1, <2>2 DEF FilesClaimOnlyWhatHappened
<1> QED
  BY <1>1, InvariantHolds, PTL

(* A tool call only ever carries an approval that an operator granted, to  *)
(* an earlier call of the same key (localhost_gateway_mcp.go:434-487).     *)
THEOREM ToolApprovalIsGranted == Spec => []ToolApprovalWasGranted
<1>1. GatewayInv => ToolApprovalWasGranted
  BY DEF GatewayInv, OwnInv, Approved, ToolApprovalWasGranted
<1> QED
  BY <1>1, InvariantHolds, PTL
=============================================================================

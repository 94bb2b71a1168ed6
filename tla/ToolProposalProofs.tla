------------------------ MODULE ToolProposalProofs ------------------------
(***************************************************************************)
(* Proofs about ToolProposal, for every set of handlers and of proposals   *)
(* and any number of overlapping requests, lost writes and failures.       *)
(*                                                                         *)
(* What a handler is going to do stands in its list of tasks.  Work says   *)
(* of such a list that whatever it will execute, or log as approved, an    *)
(* operator has approved, and that the row of its tool action is there or  *)
(* will be written by an earlier task of the same list.  Handlers that     *)
(* fail drop their list, other handlers only add approvals and rows.       *)
(***************************************************************************)
EXTENDS ToolProposal, FiniteSetTheorems, TLAPS

Rowed == {p \in Proposals : action[p] # "none"}

\* A task that is only right when the tool action has its row.
NeedsRow(t) ==
  \/ t.do \in {"execute", "run", "result"} /\ t.of \in Reviewed
  \/ t.do = "decided" /\ t.verdict = "APPROVE"

\* A task that an operator's approval, or the kind of the proposal, justifies.
Justified(t, appr) ==
  /\ t.do = "authorize" => t.of \in appr
  /\ t.do \in {"execute", "run", "result"} /\ t.of \in Reviewed => t.of \in appr
  /\ t.do = "decided" /\ t.verdict = "APPROVE" => t.of \in appr
  /\ t.do = "decided" /\ t.verdict = "AUTO" => t.of \in AutoRouted

Preceded(s, i) == \E j \in 1..Len(s) : j < i /\ s[j].do = "authorize" /\ s[j].of = s[i].of

Work(s, appr, rowed) ==
  /\ s \in Seq(Task)
  /\ \A i \in 1..Len(s) : Justified(s[i], appr) /\ (NeedsRow(s[i]) => s[i].of \in rowed \/ Preceded(s, i))

WorkOK == \A h \in Handlers : Work(todo[h], approved, Rowed)

\* The inductive invariant.
ProposalInv == TypeOK /\ WorkOK /\ NothingUnapproved

-----------------------------------------------------------------------------
(* Lists of tasks *)

\* Approvals and rows that are added leave a list as right as it was.
LEMMA WorkStays ==
  ASSUME NEW s, NEW a, NEW b, a \subseteq b, NEW q, NEW r, q \subseteq r, Work(s, a, q)
  PROVE  Work(s, b, r)
<1>1. \A i \in 1..Len(s) : Justified(s[i], a) => Justified(s[i], b)
  BY DEF Justified
<1> QED
  BY <1>1 DEF Work

\* The rest of a list, once its first task is done.
LEMMA RestIsWork ==
  ASSUME NEW s, s # <<>>, NEW a, NEW q, Work(s, a, q), Head(s).do = "authorize" => Head(s).of \in q
  PROVE  Work(Tail(s), a, q)
<1>1. s \in Seq(Task) /\ Len(s) \in Nat /\ Len(s) > 0 /\ Head(s) = s[1]
  BY DEF Work
<1>2. Tail(s) \in Seq(Task) /\ Len(Tail(s)) = Len(s) - 1 /\ \A i \in 1..Len(Tail(s)) : Tail(s)[i] = s[i + 1]
  BY <1>1
<1>3. ASSUME NEW i \in 1..Len(Tail(s))
      PROVE  Justified(Tail(s)[i], a) /\ (NeedsRow(Tail(s)[i]) => Tail(s)[i].of \in q \/ Preceded(Tail(s), i))
  <2>1. i \in Nat /\ i + 1 \in 1..Len(s) /\ Tail(s)[i] = s[i + 1]
    BY <1>1, <1>2
  <2>2. Justified(s[i + 1], a) /\ (NeedsRow(s[i + 1]) => s[i + 1].of \in q \/ Preceded(s, i + 1))
    BY <2>1 DEF Work
  <2>3. ASSUME Preceded(s, i + 1), s[i + 1].of \notin q PROVE Preceded(Tail(s), i)
    <3>1. PICK j \in 1..Len(s) : j < i + 1 /\ s[j].do = "authorize" /\ s[j].of = s[i + 1].of
      BY <2>3 DEF Preceded
    <3>2. j # 1
      BY <1>1, <2>3, <3>1
    <3>3. j \in Nat /\ j - 1 \in 1..Len(Tail(s)) /\ j - 1 < i /\ (j - 1) + 1 = j
      BY <1>1, <1>2, <2>1, <3>1, <3>2
    <3>4. Tail(s)[j - 1] = s[j]
      BY <1>2, <3>3
    <3> QED
      BY <2>1, <3>1, <3>3, <3>4 DEF Preceded
  <2> QED
    BY <2>1, <2>2, <2>3
<1> QED
  BY <1>2, <1>3 DEF Work

\* Tasks put before others.
LEMMA JoinedIsWork ==
  ASSUME NEW a, NEW q, NEW s, Work(s, a, q), NEW t, Work(t, a, q)
  PROVE  Work(s \o t, a, q)
<1> DEFINE u == s \o t
<1>1. s \in Seq(Task) /\ t \in Seq(Task) /\ Len(s) \in Nat /\ Len(t) \in Nat
  BY DEF Work
<1>2. u \in Seq(Task) /\ Len(u) = Len(s) + Len(t)
  BY <1>1
<1>3. \A i \in 1..Len(s) : u[i] = s[i]
  BY <1>1
<1>4. \A i \in 1..Len(t) : u[Len(s) + i] = t[i]
  BY <1>1
<1> HIDE DEF u
<1>5. ASSUME NEW i \in 1..Len(u)
      PROVE  Justified(u[i], a) /\ (NeedsRow(u[i]) => u[i].of \in q \/ Preceded(u, i))
  <2>1. i \in Nat
    BY <1>1, <1>2
  <2>2. CASE i <= Len(s)
    <3>1. i \in 1..Len(s) /\ u[i] = s[i]
      BY <1>1, <1>3, <2>1, <2>2
    <3>2. Justified(s[i], a) /\ (NeedsRow(s[i]) => s[i].of \in q \/ Preceded(s, i))
      BY <3>1 DEF Work
    <3>3. ASSUME Preceded(s, i) PROVE Preceded(u, i)
      <4>1. PICK j \in 1..Len(s) : j < i /\ s[j].do = "authorize" /\ s[j].of = s[i].of
        BY <3>3 DEF Preceded
      <4>2. j \in 1..Len(u) /\ u[j] = s[j]
        BY <1>1, <1>2, <1>3, <4>1
      <4> QED
        BY <3>1, <4>1, <4>2 DEF Preceded
    <3> QED
      BY <3>1, <3>2, <3>3
  <2>3. CASE i > Len(s)
    <3>1. PICK k \in 1..Len(t) : i = Len(s) + k
      <4>1. i - Len(s) \in 1..Len(t) /\ i = Len(s) + (i - Len(s))
        BY <1>1, <1>2, <2>1, <2>3
      <4> QED
        BY <4>1
    <3>2. u[i] = t[k]
      BY <1>4, <3>1
    <3>3. Justified(t[k], a) /\ (NeedsRow(t[k]) => t[k].of \in q \/ Preceded(t, k))
      BY <3>1 DEF Work
    <3>4. ASSUME Preceded(t, k) PROVE Preceded(u, i)
      <4>1. PICK j \in 1..Len(t) : j < k /\ t[j].do = "authorize" /\ t[j].of = t[k].of
        BY <3>4 DEF Preceded
      <4>2. Len(s) + j \in 1..Len(u) /\ u[Len(s) + j] = t[j] /\ Len(s) + j < i
        BY <1>1, <1>2, <1>4, <3>1, <4>1
      <4> QED
        BY <3>2, <4>1, <4>2 DEF Preceded
    <3> QED
      BY <3>2, <3>3, <3>4
  <2> QED
    BY <1>1, <2>1, <2>2, <2>3
<1>6. Work(u, a, q)
  BY <1>2, <1>5 DEF Work
<1> QED
  BY <1>6 DEF u

LEMMA NothingIsWork == ASSUME NEW a, NEW q PROVE Work(<<>>, a, q)
BY DEF Work

\* A single task.
LEMMA TaskIsWork ==
  ASSUME NEW a, NEW q, NEW t \in Task, Justified(t, a), NeedsRow(t) => t.of \in q
  PROVE  Work(<<t>>, a, q)
<1>1. <<t>> \in Seq(Task) /\ Len(<<t>>) = 1 /\ <<t>>[1] = t
  OBVIOUS
<1> QED
  BY <1>1 DEF Work

\* Tasks that neither need a row nor a reason.
LEMMA HarmlessIsWork ==
  ASSUME NEW a, NEW q, NEW t \in Task, t.do \notin {"authorize", "execute", "run", "result", "decided"}
  PROVE  Work(<<t>>, a, q)
BY TaskIsWork DEF Justified, NeedsRow

\* Lists that are written out.
LEMMA TwoAreWork ==
  ASSUME NEW a, NEW q, NEW t \in Task, Justified(t, a), NeedsRow(t) => t.of \in q,
         NEW u \in Task, u.do \notin {"authorize", "execute", "run", "result", "decided"}
  PROVE  Work(<<t, u>>, a, q)
<1> DEFINE s == <<t, u>>
<1>1. s \in Seq(Task) /\ Len(s) = 2 /\ s[1] = t /\ s[2] = u /\ \A i \in 1..2 : i = 1 \/ i = 2
  OBVIOUS
<1> HIDE DEF s
<1>2. Justified(u, a) /\ ~NeedsRow(u)
  BY DEF Justified, NeedsRow
<1>3. Work(s, a, q)
  BY <1>1, <1>2 DEF Work
<1> QED
  BY <1>3 DEF s

LEMMA ThreeAreWork ==
  ASSUME NEW a, NEW q, NEW t \in Task, NEW u \in Task, NEW v \in Task,
         \A x \in {t, u, v} : x.do \notin {"authorize", "execute", "run", "result", "decided"}
  PROVE  Work(<<t, u, v>>, a, q)
<1> DEFINE s == <<t, u, v>>
<1>1. s \in Seq(Task) /\ Len(s) = 3 /\ s[1] = t /\ s[2] = u /\ s[3] = v /\ \A i \in 1..3 : i = 1 \/ i = 2 \/ i = 3
  OBVIOUS
<1> HIDE DEF s
<1>2. \A x \in {t, u, v} : Justified(x, a) /\ ~NeedsRow(x)
  BY DEF Justified, NeedsRow
<1>3. Work(s, a, q)
  BY <1>1, <1>2 DEF Work
<1> QED
  BY <1>3 DEF s

LEMMA PlainTasks ==
  /\ \A do \in {"open", "attach", "promote", "continue"} : [do |-> do] \in Task
  /\ \A first \in BOOLEAN : [do |-> "turn", first |-> first] \in Task
  /\ \A failed \in BOOLEAN, offers \in SUBSET Proposals : [do |-> "mark", failed |-> failed, offers |-> offers] \in Task
  /\ \A offers \in SUBSET Proposals : [do |-> "offer", offers |-> offers] \in Task
  /\ \A p \in Proposals, verdict \in {"APPROVE", "DENY"} : [do |-> "find", of |-> p, verdict |-> verdict] \in Task
  /\ \A p \in Proposals, do \in {"authorize", "execute", "run"} : [do |-> do, of |-> p] \in Task
  /\ \A p \in Proposals, status \in {"COMPLETED", "FAILED"} : [do |-> "result", of |-> p, status |-> status] \in Task
  /\ \A p \in Proposals, verdict \in {"APPROVE", "DENY", "AUTO"} : [do |-> "decided", of |-> p, verdict |-> verdict] \in Task
BY DEF Task

\* What a task holds.
LEMMA TaskFields ==
  ASSUME NEW t \in Task
  PROVE  /\ t.do \in {"authorize", "execute", "run", "find", "result", "decided"} => t.of \in Proposals
         /\ t.do = "find" => t.verdict \in {"APPROVE", "DENY"}
         /\ t.do = "decided" => t.verdict \in {"APPROVE", "DENY", "AUTO"}
         /\ t.do = "result" => t.status \in {"COMPLETED", "FAILED"}
         /\ t.do = "turn" => t.first \in BOOLEAN
         /\ t.do = "mark" => t.failed \in BOOLEAN
         /\ t.do \in {"mark", "offer"} => t.offers \in SUBSET Proposals
BY DEF Task

\* What an approval sets going writes the row before anything needs it.
LEMMA ApprovalIsWork ==
  ASSUME NEW p \in Proposals, NEW a, p \in a, NEW q
  PROVE  Work(ApprovalTasks(p), a, q)
<1> DEFINE s == ApprovalTasks(p)
<1>1. s = <<[do |-> "authorize", of |-> p], [do |-> "promote"], [do |-> "execute", of |-> p],
            [do |-> "decided", of |-> p, verdict |-> "APPROVE"]>>
  BY DEF ApprovalTasks, Decided
<1>2. /\ [do |-> "authorize", of |-> p] \in Task /\ [do |-> "promote"] \in Task /\ [do |-> "execute", of |-> p] \in Task
      /\ [do |-> "decided", of |-> p, verdict |-> "APPROVE"] \in Task
  BY PlainTasks
<1>3. s \in Seq(Task) /\ Len(s) = 4
  BY <1>1, <1>2
<1>4. /\ s[1] = [do |-> "authorize", of |-> p] /\ s[2] = [do |-> "promote"] /\ s[3] = [do |-> "execute", of |-> p]
      /\ s[4] = [do |-> "decided", of |-> p, verdict |-> "APPROVE"]
  BY <1>1
<1> HIDE DEF s
<1>5. \A i \in 1..Len(s) : i = 1 \/ i = 2 \/ i = 3 \/ i = 4
  BY <1>3
<1>6. s[1].do = "authorize" /\ s[1].of = p /\ s[2].do = "promote" /\ s[3].do = "execute" /\ s[3].of = p
      /\ s[4].do = "decided" /\ s[4].of = p /\ s[4].verdict = "APPROVE"
  BY <1>4
<1>7. \A i \in 1..Len(s) : Justified(s[i], a)
  BY <1>5, <1>6 DEF Justified
<1>8. ~NeedsRow(s[1]) /\ ~NeedsRow(s[2])
  BY <1>6 DEF NeedsRow
<1>9. Preceded(s, 3) /\ Preceded(s, 4)
  BY <1>3, <1>6 DEF Preceded
<1>10. Work(s, a, q)
  BY <1>3, <1>5, <1>7, <1>8, <1>9 DEF Work
<1> QED
  BY <1>10 DEF s

\* Proposals that need no operator are executed without one.
LEMMA AutoIsWork ==
  ASSUME NEW S \in SUBSET AutoRouted, NEW order \in SetToSeqs(S), NEW a, NEW q
  PROVE  Work(AutoTasks(order), a, q)
<1> DEFINE n == Cardinality(S)
           s == AutoTasks(order)
<1>1. n \in Nat
  <2>1. IsFiniteSet(S)
    BY FiniteAssumption, FS_Subset DEF Proposals
  <2> QED
    BY <2>1, FS_CardinalityType
<1>2. order \in [1..n -> S]
  BY DEF SetToSeqs
<1> HIDE DEF n
<1>3. Len(order) = n /\ DOMAIN order = 1..n
  BY <1>1, <1>2
<1>4. s = [i \in 1..(2 * n) |-> LET p == order[(i + 1) \div 2]
             IN IF i % 2 = 1 THEN [do |-> "execute", of |-> p] ELSE [do |-> "decided", of |-> p, verdict |-> "AUTO"]]
  BY <1>3 DEF AutoTasks
<1>5. ASSUME NEW i \in 1..(2 * n) PROVE order[(i + 1) \div 2] \in AutoRouted
  <2>1. (i + 1) \div 2 \in 1..n
    BY <1>1
  <2> QED
    BY <1>2, <2>1
<1> HIDE DEF s
<1>6. ASSUME NEW i \in 1..(2 * n)
      PROVE  s[i] \in Task /\ Justified(s[i], a) /\ ~NeedsRow(s[i])
  <2> DEFINE p == order[(i + 1) \div 2]
  <2>1. p \in AutoRouted /\ p \in Proposals /\ p \notin Reviewed
    BY <1>5, KindsAssumption DEF Proposals
  <2>2. s[i] = IF i % 2 = 1 THEN [do |-> "execute", of |-> p] ELSE [do |-> "decided", of |-> p, verdict |-> "AUTO"]
    BY <1>4
  <2> HIDE DEF p
  <2>3. CASE i % 2 = 1
    <3>1. s[i] = [do |-> "execute", of |-> p]
      BY <2>2, <2>3
    <3>2. s[i] \in Task
      BY <2>1, <3>1, PlainTasks
    <3>3. s[i].do = "execute" /\ s[i].of = p
      BY <3>1
    <3> QED
      BY <2>1, <3>2, <3>3 DEF Justified, NeedsRow
  <2>4. CASE i % 2 # 1
    <3>1. s[i] = [do |-> "decided", of |-> p, verdict |-> "AUTO"]
      BY <2>2, <2>4
    <3>2. s[i] \in Task
      BY <2>1, <3>1, PlainTasks
    <3>3. s[i].do = "decided" /\ s[i].of = p /\ s[i].verdict = "AUTO"
      BY <3>1
    <3> QED
      BY <2>1, <3>2, <3>3 DEF Justified, NeedsRow
  <2> QED
    BY <2>3, <2>4
<1>7. s \in [1..(2 * n) -> Task] /\ 2 * n \in Nat
  BY <1>1, <1>4, <1>6
<1>8. s \in Seq(Task) /\ Len(s) = 2 * n
  BY <1>7
<1>9. Work(s, a, q)
  BY <1>6, <1>8 DEF Work
<1> QED
  BY <1>9 DEF s

-----------------------------------------------------------------------------
(* The steps *)

\* A handler is done with its first task.
LEMMA ThenKeeps ==
  ASSUME ProposalInv, NEW h \in Handlers, todo[h] # <<>>, NEW tasks, NEW status \in SessionStatus, Then(h, tasks, status),
         approved \subseteq approved', Rowed \subseteq Rowed',
         Head(todo[h]).do = "authorize" => Head(todo[h]).of \in Rowed', Work(tasks, approved', Rowed')
  PROVE  todo' \in [Handlers -> Seq(Task)] /\ copy' \in [Handlers -> SessionStatus] /\ WorkOK'
<1> DEFINE left == tasks \o Tail(todo[h])
<1>1. todo \in [Handlers -> Seq(Task)] /\ copy \in [Handlers -> SessionStatus]
  BY DEF ProposalInv, TypeOK
<1>2. \A k \in Handlers : Work(todo[k], approved', Rowed')
  BY WorkStays DEF ProposalInv, WorkOK
<1>3. Work(Tail(todo[h]), approved', Rowed')
  BY <1>2, RestIsWork
<1>4. Work(left, approved', Rowed')
  BY <1>3, JoinedIsWork
<1>5. todo' = [todo EXCEPT ![h] = left] /\ copy' = [copy EXCEPT ![h] = IF left = <<>> THEN "none" ELSE status]
  BY DEF Then
<1> HIDE DEF left
<1>6. left \in Seq(Task) /\ "none" \in SessionStatus
  BY <1>4 DEF Work, SessionStatus
<1>7. todo' \in [Handlers -> Seq(Task)] /\ copy' \in [Handlers -> SessionStatus]
  BY <1>1, <1>5, <1>6
<1>8. \A k \in Handlers : Work(todo'[k], approved', Rowed')
  BY <1>1, <1>2, <1>4, <1>5
<1> QED
  BY <1>7, <1>8 DEF WorkOK

\* A handler that is given a new list of tasks: a request that begins or fails.
LEMMA ListGivenKeeps ==
  ASSUME ProposalInv, NEW h \in Handlers, NEW tasks, NEW status \in SessionStatus,
         todo' = [todo EXCEPT ![h] = tasks], copy' = [copy EXCEPT ![h] = status], Work(tasks, approved, Rowed),
         UNCHANGED <<approved, action>>
  PROVE  todo' \in [Handlers -> Seq(Task)] /\ copy' \in [Handlers -> SessionStatus] /\ WorkOK'
<1>1. todo \in [Handlers -> Seq(Task)] /\ copy \in [Handlers -> SessionStatus] /\ tasks \in Seq(Task)
  BY DEF ProposalInv, TypeOK, Work
<1>2. todo' \in [Handlers -> Seq(Task)] /\ copy' \in [Handlers -> SessionStatus]
  BY <1>1
<1>3. \A k \in Handlers : Work(todo'[k], approved, Rowed)
  BY <1>1 DEF ProposalInv, WorkOK
<1>4. approved' = approved /\ Rowed' = Rowed
  BY DEF Rowed
<1> QED
  BY <1>2, <1>3, <1>4 DEF WorkOK

LEMMA MishapCounts ==
  ASSUME mishaps \in 0..MaxMishaps, Mishap \/ UNCHANGED mishaps
  PROVE  mishaps' \in 0..MaxMishaps
BY BoundAssumption DEF Mishap

\* The task a handler is at.
LEMMA FirstTask ==
  ASSUME ProposalInv, NEW h \in Handlers, todo[h] # <<>>
  PROVE  /\ Head(todo[h]) \in Task /\ Justified(Head(todo[h]), approved)
         /\ NeedsRow(Head(todo[h])) => Head(todo[h]).of \in Rowed
<1>1. todo[h] \in Seq(Task) /\ Len(todo[h]) \in Nat /\ 1 \in 1..Len(todo[h]) /\ Head(todo[h]) = todo[h][1]
  BY DEF ProposalInv, TypeOK
<1>2. Justified(todo[h][1], approved) /\ (NeedsRow(todo[h][1]) => todo[h][1].of \in Rowed \/ Preceded(todo[h], 1))
  BY <1>1 DEF ProposalInv, WorkOK, Work
<1>3. ~Preceded(todo[h], 1)
  <2> SUFFICES ASSUME NEW j \in 1..Len(todo[h]), j < 1 PROVE FALSE
    BY DEF Preceded
  <2> QED
    BY <1>1
<1> QED
  BY <1>1, <1>2, <1>3

\* Steps that change neither rows nor what is said of proposals.
LEMMA QuietStep ==
  ASSUME ProposalInv, UNCHANGED <<action, standing, starts>>, approved \subseteq approved'
  PROVE  NothingUnapproved'
BY DEF ProposalInv, NothingUnapproved

LEMMA InitProposals == Init => ProposalInv
<1> SUFFICES ASSUME Init PROVE ProposalInv
  OBVIOUS
<1>1. TypeOK
  BY BoundAssumption DEF Init, TypeOK, SessionStatus, ActionStatus, Standing
<1>2. WorkOK
  BY NothingIsWork DEF Init, WorkOK
<1>3. NothingUnapproved
  BY DEF Init, NothingUnapproved
<1> QED
  BY <1>1, <1>2, <1>3 DEF ProposalInv

LEMMA RequestKeeps == ASSUME ProposalInv, NEW h \in Handlers, Request(h) PROVE ProposalInv'
<1>1. PICK tasks : Begin(h, tasks) /\ Work(tasks, approved, Rowed)
  <2>1. CASE Invoke(h)
    <3>1. [do |-> "open"] \in Task /\ [do |-> "attach"] \in Task /\ [do |-> "turn", first |-> TRUE] \in Task
      BY PlainTasks
    <3>2. \A x \in {[do |-> "open"], [do |-> "attach"], [do |-> "turn", first |-> TRUE]} :
            x.do \notin {"authorize", "execute", "run", "result", "decided"}
      OBVIOUS
    <3>3. Work(<<[do |-> "open"], [do |-> "attach"], [do |-> "turn", first |-> TRUE]>>, approved, Rowed)
      BY <3>1, <3>2, ThreeAreWork
    <3> QED
      BY <2>1, <3>3 DEF Invoke
  <2>2. ASSUME NEW p \in Proposals, NEW verdict \in {"APPROVE", "DENY"}, Decide(h, p, verdict)
        PROVE  \E tasks : Begin(h, tasks) /\ Work(tasks, approved, Rowed)
    <3>1. Work(<<[do |-> "find", of |-> p, verdict |-> verdict]>>, approved, Rowed)
      BY PlainTasks, HarmlessIsWork
    <3> QED
      BY <2>2, <3>1 DEF Decide
  <2> QED
    BY <2>1, <2>2 DEF Request
<1>2. UNCHANGED <<session, invoked, action, standing, named, approved, starts>>
  BY DEF Request, Invoke, Decide, history
<1>3. session \in SessionStatus /\ mishaps' \in 0..MaxMishaps
  BY <1>1, MishapCounts DEF ProposalInv, TypeOK, Begin, Alone
<1>4. todo' \in [Handlers -> Seq(Task)] /\ copy' \in [Handlers -> SessionStatus] /\ WorkOK'
  BY <1>1, <1>2, <1>3, ListGivenKeeps DEF Begin
<1>5. TypeOK'
  BY <1>2, <1>3, <1>4 DEF ProposalInv, TypeOK
<1> QED
  BY <1>2, <1>4, <1>5, QuietStep DEF ProposalInv

LEMMA FailKeeps == ASSUME ProposalInv, NEW h \in Handlers, Fail(h) PROVE ProposalInv'
<1>1. UNCHANGED <<session, invoked, action, standing, named, approved, starts>>
  BY DEF Fail, history
<1>2. mishaps' \in 0..MaxMishaps
  BY MishapCounts DEF ProposalInv, TypeOK, Fail
<1>3. todo' \in [Handlers -> Seq(Task)] /\ copy' \in [Handlers -> SessionStatus] /\ WorkOK'
  BY <1>1, NothingIsWork, ListGivenKeeps DEF Fail, SessionStatus
<1>4. TypeOK'
  BY <1>1, <1>2, <1>3 DEF ProposalInv, TypeOK
<1> QED
  BY <1>1, <1>3, <1>4, QuietStep DEF ProposalInv

\* A proposal that is offered again starts afresh; its row stays.
LEMMA OfferedKeeps ==
  ASSUME ProposalInv, NEW offers \in SUBSET Proposals, Offered(offers), UNCHANGED <<action, approved>>
  PROVE  NothingUnapproved' /\ standing' \in [Proposals -> Standing] /\ starts' \in [Proposals -> 0..2]
<1>1. standing \in [Proposals -> Standing] /\ starts \in [Proposals -> 0..2]
  BY DEF ProposalInv, TypeOK
<1>2. standing' \in [Proposals -> Standing]
  BY <1>1 DEF Offered, Standing
<1>3. starts' \in [Proposals -> 0..2]
  BY <1>1 DEF Offered
<1>4. \A p \in Proposals : /\ standing'[p] = standing[p] \/ standing'[p] = "PENDING"
                           /\ starts'[p] = starts[p] \/ starts'[p] = 0
  BY DEF Offered
<1>5. NothingUnapproved'
  BY <1>4 DEF ProposalInv, NothingUnapproved
<1> QED
  BY <1>2, <1>3, <1>5

LEMMA OutsideKeeps ==
  ASSUME ProposalInv, Create \/ Close \/ \E p \in Proposals : WorkerOffers(p)
  PROVE  ProposalInv'
<1>1. UNCHANGED <<invoked, action, todo, copy, named, approved>> /\ session' \in SessionStatus /\ mishaps' \in 0..MaxMishaps
  BY MishapCounts DEF Create, Close, WorkerOffers, history, Alone, ProposalInv, TypeOK, SessionStatus, Terminal
<1>2. NothingUnapproved' /\ standing' \in [Proposals -> Standing] /\ starts' \in [Proposals -> 0..2]
  <2>1. CASE Create \/ Close
    <3>1. UNCHANGED <<action, standing, starts, approved>>
      BY <2>1 DEF Create, Close, history
    <3> QED
      BY <3>1, QuietStep DEF ProposalInv, TypeOK
  <2>2. ASSUME NEW p \in Proposals, WorkerOffers(p) PROVE NothingUnapproved' /\ standing' \in [Proposals -> Standing] /\ starts' \in [Proposals -> 0..2]
    BY <1>1, <2>2, OfferedKeeps DEF WorkerOffers
  <2> QED
    BY <2>1, <2>2
<1>3. WorkOK'
  BY <1>1 DEF ProposalInv, WorkOK, Rowed
<1>4. TypeOK'
  BY <1>1, <1>2 DEF ProposalInv, TypeOK
<1> QED
  BY <1>2, <1>3, <1>4 DEF ProposalInv

\* Steps that leave the proposals alone: the session is written, the worker takes a turn.
LEMMA SessionStepKeeps ==
  ASSUME ProposalInv, NEW h \in Handlers, todo[h] # <<>>, NEW tasks, NEW status \in SessionStatus, Then(h, tasks, status),
         Work(tasks, approved, Rowed), Head(todo[h]).do # "authorize", session' \in SessionStatus,
         named' \in SUBSET Proposals, Mishap \/ UNCHANGED mishaps, UNCHANGED <<invoked, action, standing, approved, starts>>
  PROVE  ProposalInv'
<1>1. approved' = approved /\ Rowed' = Rowed
  BY DEF Rowed
<1>2. todo' \in [Handlers -> Seq(Task)] /\ copy' \in [Handlers -> SessionStatus] /\ WorkOK'
  BY <1>1, ThenKeeps
<1>3. mishaps' \in 0..MaxMishaps
  BY MishapCounts DEF ProposalInv, TypeOK
<1>4. TypeOK'
  BY <1>2, <1>3 DEF ProposalInv, TypeOK
<1> QED
  BY <1>2, <1>4, QuietStep DEF ProposalInv

LEMMA CopyIsStatus == ASSUME ProposalInv, NEW h \in Handlers PROVE copy[h] \in SessionStatus
BY DEF ProposalInv, TypeOK

LEMMA OpenKeeps == ASSUME ProposalInv, NEW h \in Handlers, OpenSession(h) \/ Promote(h) PROVE ProposalInv'
<1>1. todo[h] # <<>> /\ Head(todo[h]).do \in {"open", "attach", "promote"} /\ UNCHANGED <<invoked, action, standing, named, approved, starts, mishaps>>
  BY DEF OpenSession, Promote, Doing, history
<1>2. PICK status \in SessionStatus : Then(h, <<>>, status)
  BY CopyIsStatus DEF OpenSession, Promote, SessionStatus
<1>3. session' \in SessionStatus
  BY DEF OpenSession, Promote, ProposalInv, TypeOK, SessionStatus
<1>4. named' \in SUBSET Proposals
  BY <1>1 DEF ProposalInv, TypeOK
<1> QED
  BY <1>1, <1>2, <1>3, <1>4, NothingIsWork, SessionStepKeeps

LEMMA TurnKeeps == ASSUME ProposalInv, NEW h \in Handlers, Turn(h) PROVE ProposalInv'
<1>1. todo[h] # <<>> /\ Head(todo[h]).do = "turn" /\ UNCHANGED <<session, invoked, action, standing, approved, starts, mishaps>>
  BY DEF Turn, Doing
<1>2. PICK failed \in BOOLEAN, offers \in SUBSET Proposals :
        /\ Then(h, <<[do |-> "mark", failed |-> failed, offers |-> offers]>>, copy[h])
        /\ named' = named \cup offers
  <2>1. Requested \subseteq Proposals
    BY KindsAssumption
  <2> QED
    BY <2>1 DEF Turn
<1>3. [do |-> "mark", failed |-> failed, offers |-> offers] \in Task
  BY PlainTasks
<1>4. Work(<<[do |-> "mark", failed |-> failed, offers |-> offers]>>, approved, Rowed)
  BY <1>3, HarmlessIsWork
<1>5. session' \in SessionStatus /\ named' \in SUBSET Proposals
  BY <1>1, <1>2 DEF ProposalInv, TypeOK
<1> QED
  BY <1>1, <1>2, <1>4, <1>5, CopyIsStatus, SessionStepKeeps

LEMMA MarkKeeps == ASSUME ProposalInv, NEW h \in Handlers, MarkResult(h) PROVE ProposalInv'
<1> DEFINE turn == Head(todo[h])
           next == StatusAfterTurn(turn.failed, turn.offers)
<1>1. todo[h] # <<>> /\ turn.do = "mark" /\ UNCHANGED <<invoked, action, standing, named, approved, starts>>
  BY DEF MarkResult, Doing, history
<1>2. turn.offers \in SUBSET Proposals
  BY <1>1, FirstTask, TaskFields
<1>3. next \in SessionStatus
  BY DEF StatusAfterTurn, SessionStatus, Terminal
<1>4. PICK order \in SetToSeqs(NeedNoOperator(turn.offers)) :
        Then(h, <<[do |-> "offer", offers |-> turn.offers]>> \o AutoTasks(order), next)
  BY DEF MarkResult
<1>5. NeedNoOperator(turn.offers) \in SUBSET AutoRouted
  BY DEF NeedNoOperator
<1>6. Work(AutoTasks(order), approved, Rowed)
  BY <1>5, AutoIsWork
<1>7. [do |-> "offer", offers |-> turn.offers] \in Task
  BY <1>2, PlainTasks
<1>8. Work(<<[do |-> "offer", offers |-> turn.offers]>>, approved, Rowed)
  BY <1>7, HarmlessIsWork
<1>9. Work(<<[do |-> "offer", offers |-> turn.offers]>> \o AutoTasks(order), approved, Rowed)
  BY <1>6, <1>8, JoinedIsWork
<1> HIDE DEF next
<1>10. session' \in SessionStatus /\ (Mishap \/ UNCHANGED mishaps)
  BY <1>3 DEF MarkResult, BestEffort, ProposalInv, TypeOK, next
<1>11. named' \in SUBSET Proposals
  BY <1>1 DEF ProposalInv, TypeOK
<1> QED
  BY <1>1, <1>3, <1>4, <1>9, <1>10, <1>11, SessionStepKeeps

LEMMA ContinueKeeps == ASSUME ProposalInv, NEW h \in Handlers, ContinueWorker(h) \/ ContinueAlone(h) PROVE ProposalInv'
<1>1. todo[h] # <<>> /\ Head(todo[h]).do = "continue" /\ UNCHANGED <<invoked, action, standing, named, approved, starts>>
  BY DEF ContinueWorker, ContinueAlone, Doing, history
<1>2. PICK tasks \in {<<>>, <<[do |-> "turn", first |-> FALSE]>>}, status \in SessionStatus : Then(h, tasks, status)
  <2>1. "RUNNING" \in SessionStatus /\ Standalone(copy[h]) \in SessionStatus
    BY CopyIsStatus DEF Standalone, SessionStatus
  <2> QED
    BY <2>1 DEF ContinueWorker, ContinueAlone
<1>3. Work(tasks, approved, Rowed)
  <2>1. [do |-> "turn", first |-> FALSE] \in Task
    BY PlainTasks
  <2> QED
    BY <2>1, NothingIsWork, HarmlessIsWork
<1>4. session' \in SessionStatus /\ (Mishap \/ UNCHANGED mishaps)
  BY CopyIsStatus DEF ContinueWorker, ContinueAlone, BestEffort, Standalone, ProposalInv, TypeOK, SessionStatus
<1>5. named' \in SUBSET Proposals
  BY <1>1 DEF ProposalInv, TypeOK
<1> QED
  BY <1>1, <1>2, <1>3, <1>4, <1>5, SessionStepKeeps

LEMMA LogOffersKeeps == ASSUME ProposalInv, NEW h \in Handlers, LogOffers(h) PROVE ProposalInv'
<1>1. todo[h] # <<>> /\ Head(todo[h]).do = "offer" /\ Then(h, <<>>, copy[h]) /\ UNCHANGED <<session, invoked, action, named, approved>>
  BY DEF LogOffers, Doing
<1>2. PICK logged \in SUBSET Proposals : Offered(logged) /\ (Mishap \/ UNCHANGED mishaps)
  BY <1>1, FirstTask, TaskFields DEF LogOffers
<1>3. NothingUnapproved' /\ standing' \in [Proposals -> Standing] /\ starts' \in [Proposals -> 0..2]
  BY <1>1, <1>2, OfferedKeeps
<1>4. Rowed' = Rowed /\ approved' = approved
  BY <1>1 DEF Rowed
<1>5. todo' \in [Handlers -> Seq(Task)] /\ copy' \in [Handlers -> SessionStatus] /\ WorkOK'
  BY <1>1, <1>4, NothingIsWork, CopyIsStatus, ThenKeeps
<1>6. mishaps' \in 0..MaxMishaps
  BY <1>2, MishapCounts DEF ProposalInv, TypeOK
<1>7. TypeOK'
  BY <1>1, <1>3, <1>5, <1>6 DEF ProposalInv, TypeOK
<1> QED
  BY <1>3, <1>5, <1>7 DEF ProposalInv

\* A decision is looked up: an approval that is accepted justifies what follows it.
LEMMA FindKeeps == ASSUME ProposalInv, NEW h \in Handlers, Find(h) PROVE ProposalInv'
<1> DEFINE p == Head(todo[h]).of
           approves == Head(todo[h]).verdict = "APPROVE"
           more == {q \in {p} : Undecided(q) /\ approves}
<1>1. todo[h] # <<>> /\ Head(todo[h]).do = "find" /\ UNCHANGED <<session, invoked, action, standing, named, starts, mishaps>>
      /\ approved' = approved \cup more
  BY DEF Find, Doing
<1>2. p \in Proposals
  BY <1>1, FirstTask, TaskFields
<1>3. Rowed' = Rowed /\ approved \subseteq approved' /\ approved' \subseteq Proposals
  BY <1>1, <1>2 DEF Rowed, ProposalInv, TypeOK
<1>4. PICK tasks : Then(h, tasks, copy[h]) /\ Work(tasks, approved', Rowed')
  <2>1. CASE ~Undecided(p)
    <3>1. Then(h, <<>>, copy[h])
      BY <2>1 DEF Find
    <3> QED
      BY <3>1, NothingIsWork
  <2>2. CASE Undecided(p) /\ ~approves
    <3>1. Then(h, <<Decided(p, "DENY")>>, copy[h])
      BY <2>2 DEF Find
    <3>2. Decided(p, "DENY") \in Task /\ Decided(p, "DENY").do = "decided" /\ Decided(p, "DENY").verdict = "DENY"
      BY <1>2, PlainTasks DEF Decided
    <3>3. Justified(Decided(p, "DENY"), approved') /\ ~NeedsRow(Decided(p, "DENY"))
      BY <3>2 DEF Justified, NeedsRow
    <3> QED
      BY <3>1, <3>2, <3>3, TaskIsWork
  <2>3. CASE Undecided(p) /\ approves
    <3>1. Then(h, ApprovalTasks(p), copy[h])
      BY <2>3 DEF Find
    <3>2. p \in approved'
      BY <1>1, <2>3
    <3> QED
      BY <1>2, <3>1, <3>2, ApprovalIsWork
  <2> QED
    BY <2>1, <2>2, <2>3
<1>5. todo' \in [Handlers -> Seq(Task)] /\ copy' \in [Handlers -> SessionStatus] /\ WorkOK'
  BY <1>1, <1>3, <1>4, CopyIsStatus, ThenKeeps
<1>6. TypeOK'
  BY <1>1, <1>3, <1>5 DEF ProposalInv, TypeOK
<1> QED
  BY <1>1, <1>3, <1>5, <1>6, QuietStep DEF ProposalInv

\* Rows that are written for proposals that are approved, or need no operator.
LEMMA RowWritten ==
  ASSUME ProposalInv, NEW p \in Proposals, p \in Reviewed => p \in approved, NEW status \in ActionStatus \ {"none"},
         action' = action \/ action' = [action EXCEPT ![p] = status], UNCHANGED <<standing, approved, starts>>
  PROVE  action' \in [Proposals -> ActionStatus] /\ Rowed \subseteq Rowed' /\ NothingUnapproved'
<1>1. action \in [Proposals -> ActionStatus]
  BY DEF ProposalInv, TypeOK
<1>2. action' \in [Proposals -> ActionStatus]
  BY <1>1
<1>3. \A q \in Proposals : action'[q] = action[q] \/ (q = p /\ action'[q] # "none")
  BY <1>1
<1>4. Rowed \subseteq Rowed'
  BY <1>3 DEF Rowed
<1>5. NothingUnapproved'
  BY <1>3 DEF ProposalInv, NothingUnapproved
<1> QED
  BY <1>2, <1>4, <1>5

LEMMA AuthorizeKeeps == ASSUME ProposalInv, NEW h \in Handlers, Authorize(h) PROVE ProposalInv'
<1> DEFINE p == Head(todo[h]).of
<1>1. /\ todo[h] # <<>> /\ Head(todo[h]).do = "authorize" /\ Then(h, <<>>, copy[h])
      /\ action' = [action EXCEPT ![p] = "AUTHORIZED"] /\ UNCHANGED <<session, invoked, standing, named, approved, starts, mishaps>>
  BY DEF Authorize, Doing, history
<1>2. p \in Proposals /\ p \in approved
  BY <1>1, FirstTask, TaskFields DEF Justified
<1>3. "AUTHORIZED" \in ActionStatus \ {"none"}
  BY DEF ActionStatus
<1>4. action' \in [Proposals -> ActionStatus] /\ Rowed \subseteq Rowed' /\ NothingUnapproved'
  BY <1>1, <1>2, <1>3, RowWritten
<1>5. p \in Rowed'
  BY <1>1, <1>2 DEF ProposalInv, TypeOK, Rowed
<1>6. todo' \in [Handlers -> Seq(Task)] /\ copy' \in [Handlers -> SessionStatus] /\ WorkOK'
  BY <1>1, <1>4, <1>5, NothingIsWork, CopyIsStatus, ThenKeeps
<1>7. TypeOK'
  BY <1>1, <1>4, <1>6 DEF ProposalInv, TypeOK
<1> QED
  BY <1>4, <1>6, <1>7 DEF ProposalInv

LEMMA ExecuteKeeps == ASSUME ProposalInv, NEW h \in Handlers, Execute(h) PROVE ProposalInv'
<1> DEFINE p == Head(todo[h]).of
<1>1. todo[h] # <<>> /\ Head(todo[h]).do = "execute" /\ UNCHANGED <<session, invoked, standing, named, approved, starts>>
  BY DEF Execute, Doing, history
<1>2. p \in Proposals /\ (p \in Reviewed => p \in approved) /\ (p \in Reviewed => p \in Rowed)
  BY <1>1, FirstTask, TaskFields DEF Justified, NeedsRow
<1>3. PICK status \in {"STARTED", "FAILED"}, tasks \in {<<>>, <<[do |-> "continue"]>>, <<[do |-> "run", of |-> p]>>} :
        /\ action' = action \/ action' = [action EXCEPT ![p] = status]
        /\ Then(h, tasks, copy[h]) /\ (Mishap \/ UNCHANGED mishaps)
  BY DEF Execute, SaveAction, BestEffort
<1>4. status \in ActionStatus \ {"none"}
  BY DEF ActionStatus
<1>5. action' \in [Proposals -> ActionStatus] /\ Rowed \subseteq Rowed' /\ NothingUnapproved'
  BY <1>1, <1>2, <1>3, <1>4, RowWritten
<1>6. Work(tasks, approved', Rowed')
  <2>1. CASE tasks = <<>>
    BY <2>1, NothingIsWork
  <2>2. CASE tasks = <<[do |-> "continue"]>>
    <3>1. [do |-> "continue"] \in Task
      BY PlainTasks
    <3> QED
      BY <2>2, <3>1, HarmlessIsWork
  <2>3. CASE tasks = <<[do |-> "run", of |-> p]>>
    <3> DEFINE t == [do |-> "run", of |-> p]
    <3>1. t \in Task /\ t.do = "run" /\ t.of = p
      BY <1>2, PlainTasks
    <3>2. Justified(t, approved') /\ (NeedsRow(t) => t.of \in Rowed')
      BY <1>1, <1>2, <1>5, <3>1 DEF Justified, NeedsRow
    <3> QED
      BY <2>3, <3>1, <3>2, TaskIsWork
  <2> QED
    BY <2>1, <2>2, <2>3
<1>7. todo' \in [Handlers -> Seq(Task)] /\ copy' \in [Handlers -> SessionStatus] /\ WorkOK'
  BY <1>1, <1>3, <1>5, <1>6, CopyIsStatus, ThenKeeps
<1>8. mishaps' \in 0..MaxMishaps
  BY <1>3, MishapCounts DEF ProposalInv, TypeOK
<1>9. TypeOK'
  BY <1>1, <1>5, <1>7, <1>8 DEF ProposalInv, TypeOK
<1> QED
  BY <1>5, <1>7, <1>9 DEF ProposalInv

\* The command takes place: its tool action has a row.
LEMMA RunKeeps == ASSUME ProposalInv, NEW h \in Handlers, Run(h) PROVE ProposalInv'
<1> DEFINE p == Head(todo[h]).of
<1>1. /\ todo[h] # <<>> /\ Head(todo[h]).do = "run" /\ UNCHANGED <<session, invoked, action, standing, named, approved, mishaps>>
      /\ starts' = [starts EXCEPT ![p] = IF starts[p] = 2 THEN 2 ELSE starts[p] + 1]
  BY DEF Run, Doing
<1>2. p \in Proposals /\ (p \in Reviewed => p \in approved) /\ (p \in Reviewed => p \in Rowed)
  BY <1>1, FirstTask, TaskFields DEF Justified, NeedsRow
<1>3. PICK status \in {"COMPLETED", "FAILED"} :
        Then(h, <<[do |-> "result", of |-> p, status |-> status], [do |-> "continue"]>>, copy[h])
  BY DEF Run
<1>4. Rowed' = Rowed /\ approved' = approved
  BY <1>1 DEF Rowed
<1>5. Work(<<[do |-> "result", of |-> p, status |-> status], [do |-> "continue"]>>, approved, Rowed)
  <2> DEFINE t == [do |-> "result", of |-> p, status |-> status]
  <2>1. t \in Task /\ t.do = "result" /\ t.of = p /\ [do |-> "continue"] \in Task
    BY <1>2, PlainTasks
  <2>2. Justified(t, approved) /\ (NeedsRow(t) => t.of \in Rowed)
    BY <1>2, <2>1 DEF Justified, NeedsRow
  <2> HIDE DEF t
  <2>3. Work(<<t, [do |-> "continue"]>>, approved, Rowed)
    BY <2>1, <2>2, TwoAreWork
  <2> QED
    BY <2>3 DEF t
<1>6. todo' \in [Handlers -> Seq(Task)] /\ copy' \in [Handlers -> SessionStatus] /\ WorkOK'
  BY <1>1, <1>3, <1>4, <1>5, CopyIsStatus, ThenKeeps
<1>7. starts' \in [Proposals -> 0..2] /\ \A q \in Proposals : q # p => starts'[q] = starts[q]
  <2>1. starts \in [Proposals -> 0..2]
    BY DEF ProposalInv, TypeOK
  <2>2. (IF starts[p] = 2 THEN 2 ELSE starts[p] + 1) \in 0..2
    BY <1>2, <2>1
  <2> QED
    BY <1>1, <2>1, <2>2
<1>8. NothingUnapproved'
  BY <1>1, <1>2, <1>7 DEF ProposalInv, NothingUnapproved, Rowed
<1>9. TypeOK'
  BY <1>1, <1>6, <1>7 DEF ProposalInv, TypeOK
<1> QED
  BY <1>6, <1>8, <1>9 DEF ProposalInv

LEMMA ResultKeeps == ASSUME ProposalInv, NEW h \in Handlers, SaveResult(h) PROVE ProposalInv'
<1> DEFINE p == Head(todo[h]).of
           status == Head(todo[h]).status
<1>1. todo[h] # <<>> /\ Head(todo[h]).do = "result" /\ Then(h, <<>>, copy[h]) /\ UNCHANGED <<session, invoked, standing, named, approved, starts>>
  BY DEF SaveResult, Doing, history
<1>2. p \in Proposals /\ (p \in Reviewed => p \in approved) /\ status \in {"COMPLETED", "FAILED"}
  BY <1>1, FirstTask, TaskFields DEF Justified
<1>3. (action' = action \/ action' = [action EXCEPT ![p] = status]) /\ (Mishap \/ UNCHANGED mishaps)
  BY DEF SaveResult, SaveAction, BestEffort
<1>4. status \in ActionStatus \ {"none"}
  BY <1>2 DEF ActionStatus
<1> HIDE DEF status
<1>5. action' \in [Proposals -> ActionStatus] /\ Rowed \subseteq Rowed' /\ NothingUnapproved'
  BY <1>1, <1>2, <1>3, <1>4, RowWritten
<1>6. todo' \in [Handlers -> Seq(Task)] /\ copy' \in [Handlers -> SessionStatus] /\ WorkOK'
  BY <1>1, <1>5, NothingIsWork, CopyIsStatus, ThenKeeps
<1>7. mishaps' \in 0..MaxMishaps
  BY <1>3, MishapCounts DEF ProposalInv, TypeOK
<1>8. TypeOK'
  BY <1>1, <1>5, <1>6, <1>7 DEF ProposalInv, TypeOK
<1> QED
  BY <1>5, <1>6, <1>8 DEF ProposalInv

\* The decision is logged: as approved only with an approval and a row.
LEMMA LogDecisionKeeps == ASSUME ProposalInv, NEW h \in Handlers, LogDecision(h) PROVE ProposalInv'
<1> DEFINE p == Head(todo[h]).of
           verdict == Head(todo[h]).verdict
<1>1. todo[h] # <<>> /\ Head(todo[h]).do = "decided" /\ Then(h, <<>>, copy[h]) /\ UNCHANGED <<session, invoked, action, named, approved, starts>>
  BY DEF LogDecision, Doing, history
<1>2. /\ p \in Proposals /\ verdict \in {"APPROVE", "DENY", "AUTO"}
      /\ verdict = "APPROVE" => p \in approved /\ p \in Rowed
      /\ verdict = "AUTO" => p \in AutoRouted
  BY <1>1, FirstTask, TaskFields DEF Justified, NeedsRow
<1>3. (standing' = standing \/ standing' = [standing EXCEPT ![p] = verdict]) /\ (Mishap \/ UNCHANGED mishaps)
  BY DEF LogDecision, BestEffort
<1> HIDE DEF verdict
<1>4. standing' \in [Proposals -> Standing] /\ \A q \in Proposals : standing'[q] = standing[q] \/ (q = p /\ standing'[q] = verdict)
  BY <1>2, <1>3 DEF ProposalInv, TypeOK, Standing
<1>5. NothingUnapproved'
  BY <1>1, <1>2, <1>4 DEF ProposalInv, NothingUnapproved, Rowed
<1>6. Rowed' = Rowed /\ approved' = approved
  BY <1>1 DEF Rowed
<1>7. todo' \in [Handlers -> Seq(Task)] /\ copy' \in [Handlers -> SessionStatus] /\ WorkOK'
  BY <1>1, <1>6, NothingIsWork, CopyIsStatus, ThenKeeps
<1>8. mishaps' \in 0..MaxMishaps
  BY <1>3, MishapCounts DEF ProposalInv, TypeOK
<1>9. TypeOK'
  BY <1>1, <1>4, <1>7, <1>8 DEF ProposalInv, TypeOK
<1> QED
  BY <1>5, <1>7, <1>9 DEF ProposalInv

LEMMA NextProposals == ProposalInv /\ [Next]_vars => ProposalInv'
<1> SUFFICES ASSUME ProposalInv, [Next]_vars PROVE ProposalInv'
  OBVIOUS
<1>1. CASE UNCHANGED vars
  <2>1. UNCHANGED <<session, invoked, action, standing, todo, copy, named, approved, starts, mishaps>>
    BY <1>1 DEF vars, history
  <2> QED
    BY <2>1 DEF ProposalInv, TypeOK, WorkOK, Rowed, NothingUnapproved
<1>2. ASSUME NEW h \in Handlers, Request(h) \/ Fail(h) PROVE ProposalInv'
  BY <1>2, RequestKeeps, FailKeeps
<1>3. ASSUME NEW h \in Handlers, Step(h) PROVE ProposalInv'
  BY <1>3, OpenKeeps, TurnKeeps, MarkKeeps, LogOffersKeeps, FindKeeps, AuthorizeKeeps, LogDecisionKeeps, ExecuteKeeps, RunKeeps,
     ResultKeeps, ContinueKeeps DEF Step
<1>4. CASE Create \/ Close \/ \E p \in Proposals : WorkerOffers(p)
  BY <1>4, OutsideKeeps
<1> QED
  BY <1>1, <1>2, <1>3, <1>4 DEF Next

LEMMA ProposalInvariant == Spec => []ProposalInv
<1> QED
  BY InitProposals, NextProposals, PTL DEF Spec

-----------------------------------------------------------------------------
(* The theorems *)

\* Rows, events and the work of the handlers stay well formed.
THEOREM ProposalsAreWellFormed == Spec => []TypeOK
<1>1. ProposalInv => TypeOK
  BY DEF ProposalInv
<1> QED
  BY ProposalInvariant, <1>1, PTL

\* Nothing that needs an operator is executed, or said to be approved, without an approval
\* and a row of its tool action, whatever overlaps, fails, is lost or offered again.
THEOREM NothingRunsUnapproved == Spec => []NothingUnapproved
<1>1. ProposalInv => NothingUnapproved
  BY DEF ProposalInv
<1> QED
  BY ProposalInvariant, <1>1, PTL

-----------------------------------------------------------------------------
(* A calm session: requests come one at a time and nothing is lost         *)
(*                                                                         *)
(* Then there is one list of tasks.  What a task relies on is said of the  *)
(* tasks before and after it in that list, and of four sets of proposals:  *)
(* F, offered and not executed since; D, carried out; U, with a row and    *)
(* not carried out; N, named by a turn.                                    *)

Elems(s) == {s[i] : i \in 1..Len(s)}
Before(s, i) == {s[j] : j \in 1..(i - 1)}
After(s, i) == {s[j] : j \in (i + 1)..Len(s)}

Starting(x, p) == x.do \in {"execute", "run"} /\ x.of = p
Working(x, p) == x.do \in {"execute", "run", "result"} /\ x.of = p
Authorizing(x, p) == x.do = "authorize" /\ x.of = p
Settling(x, p) == x.do = "decided" /\ x.of = p /\ x.verdict # "DENY"
Offering(x, p) == x.do = "offer" /\ p \in x.offers

\* Tasks that may lead to another turn, or follow on one.
MayTurn(x) == x.do \in {"execute", "run", "result", "continue", "turn", "mark", "offer"}

FitsExecution(t, B, A, F, N) ==
  t.do \in {"execute", "run"} =>
    /\ t.of \in F \/ \E x \in B : Offering(x, t.of)
    /\ ~\E x \in A : Starting(x, t.of)
    /\ \E x \in A : Settling(x, t.of)
    /\ (\E x \in B : MayTurn(x)) => t.of \in N

FitsVerdict(t, B, A, F, D) ==
  t.do = "decided" =>
    /\ t.verdict = "DENY" => t.of \in F /\ B = {} /\ A = {}
    /\ t.verdict # "DENY" =>
         /\ ~\E x \in A : Starting(x, t.of)
         /\ \/ t.of \in Advisory
            \/ t.of \in D /\ ~\E x \in B : Authorizing(x, t.of)
            \/ \E x \in B : Working(x, t.of)

FitsTurn(t, A, N) ==
  /\ t.do = "find" \/ (t.do = "turn" /\ t.first) => A = {}
  /\ t.do \in {"open", "attach"} => \E x \in A : x.do = "turn"
  /\ t.do = "mark" => t.offers \subseteq N /\ ~\E x \in A, p \in t.offers : Starting(x, p)

FitsApproval(t, B, A, F, U) ==
  /\ t.do = "authorize" => t.of \in F /\ B = {}
  /\ t.do = "promote" =>
       \E x \in A : x.do = "execute" /\ (x.of \notin Advisory \/ x.of \in U \/ \E y \in B : Authorizing(y, x.of))
  /\ t.do \in {"run", "result"} => t.of \notin Advisory

Fits(t, B, A, F, D, U, N) ==
  FitsExecution(t, B, A, F, N) /\ FitsVerdict(t, B, A, F, D) /\ FitsTurn(t, A, N) /\ FitsApproval(t, B, A, F, U)

Orderly(s, F, D, U, N) == \A i \in 1..Len(s) : Fits(s[i], Before(s, i), After(s, i), F, D, U, N)

Fresh == {p \in Proposals : standing[p] = "PENDING" /\ starts[p] = 0}
CarriedOut == {p \in Proposals : action[p] \in Finished}
Authorized == {p \in Proposals : action[p] = "AUTHORIZED"}

AllTasks == UNION {Elems(todo[h]) : h \in Handlers}

OneList ==
  /\ \A h, k \in Handlers : todo[h] # <<>> /\ todo[k] # <<>> => h = k
  /\ \A h \in Handlers : todo[h] # <<>> => copy[h] = session /\ Orderly(todo[h], Fresh, CarriedOut, Authorized, named)

\* What the events and rows say of proposals, while the tasks W are still to be done.
Settled(W) ==
  \A p \in Proposals :
    /\ starts[p] < 2
    /\ standing[p] = "DENY" => starts[p] = 0
    /\ standing[p] \in {"APPROVE", "AUTO"} /\ p \notin Advisory => p \in CarriedOut
    /\ standing[p] = "PENDING" /\ starts[p] # 0 => \E x \in W : Settling(x, p)

\* Tasks that leave the session running only for a turn that follows, or that end one.
KeepsRunning(x) ==
  \/ x.do \in {"open", "attach", "turn", "mark", "continue", "run"}
  \/ x.do = "execute" /\ x.of \notin Advisory

RunningFor(W) == session = "RUNNING" => (\E x \in W : KeepsRunning(x)) \/ Advisory \cap Authorized # {}

CalmInv == calm => OneList /\ Settled(AllTasks) /\ RunningFor(AllTasks)

\* What two lists, or three, have in common with each other.
LEMMA SameElements ==
  ASSUME NEW f, NEW g, NEW I, NEW J, \A i \in I : \E j \in J : f[i] = g[j], \A j \in J : \E i \in I : f[i] = g[j]
  PROVE  {f[i] : i \in I} = {g[j] : j \in J}
OBVIOUS

LEMMA SameElementsTogether ==
  ASSUME NEW f, NEW g, NEW h, NEW I, NEW J, NEW K,
         \A i \in I : (\E j \in J : f[i] = g[j]) \/ (\E k \in K : f[i] = h[k]),
         \A j \in J : \E i \in I : f[i] = g[j], \A k \in K : \E i \in I : f[i] = h[k]
  PROVE  {f[i] : i \in I} = {g[j] : j \in J} \cup {h[k] : k \in K}
OBVIOUS

\* The tasks around a task of a joined list.
LEMMA JoinedAround ==
  ASSUME NEW s \in Seq(Task), NEW t \in Seq(Task)
  PROVE  /\ Elems(s \o t) = Elems(s) \cup Elems(t) /\ Len(s \o t) = Len(s) + Len(t)
         /\ \A i \in 1..Len(s) : /\ (s \o t)[i] = s[i] /\ Before(s \o t, i) = Before(s, i)
                                 /\ After(s \o t, i) = After(s, i) \cup Elems(t)
         /\ \A k \in 1..Len(t) : /\ (s \o t)[Len(s) + k] = t[k] /\ Before(s \o t, Len(s) + k) = Elems(s) \cup Before(t, k)
                                 /\ After(s \o t, Len(s) + k) = After(t, k)
<1> DEFINE u == s \o t
           m == Len(s)
           n == Len(t)
<1>1. m \in Nat /\ n \in Nat /\ Len(u) = m + n /\ (\A i \in 1..m : u[i] = s[i]) /\ (\A k \in 1..n : u[m + k] = t[k])
  OBVIOUS
<1> HIDE DEF u, m, n
<1>2. ASSUME NEW j, j \in 1..(m + n), j > m PROVE j - m \in 1..n /\ u[j] = t[j - m]
  <2>1. j - m \in 1..n /\ m + (j - m) = j
    BY <1>1, <1>2
  <2> QED BY <1>1, <2>1
<1>3. {u[j] : j \in 1..(m + n)} = {s[j] : j \in 1..m} \cup {t[j] : j \in 1..n}
  <2>1. \A j \in 1..(m + n) : j \in 1..m \/ j > m
    BY <1>1
  <2>2. \A j \in 1..m : j \in 1..(m + n)
    BY <1>1
  <2>3. \A j \in 1..n : m + j \in 1..(m + n)
    BY <1>1
  <2>4. \A j \in 1..(m + n) : (\E k \in 1..m : u[j] = s[k]) \/ (\E k \in 1..n : u[j] = t[k])
    BY <1>1, <1>2, <2>1
  <2>5. (\A j \in 1..m : \E k \in 1..(m + n) : u[k] = s[j]) /\ (\A j \in 1..n : \E k \in 1..(m + n) : u[k] = t[j])
    BY <1>1, <2>2, <2>3
  <2> QED BY <2>4, <2>5, SameElementsTogether
<1>4. ASSUME NEW i \in 1..m
      PROVE  /\ {u[j] : j \in 1..(i - 1)} = {s[j] : j \in 1..(i - 1)}
             /\ {u[j] : j \in (i + 1)..(m + n)} = {s[j] : j \in (i + 1)..m} \cup {t[j] : j \in 1..n}
  <2>1. \A j \in 1..(i - 1) : u[j] = s[j]
    BY <1>1
  <2>2. \A j \in (i + 1)..(m + n) : j \in 1..(m + n) /\ (j \in (i + 1)..m \/ j > m)
    BY <1>1
  <2>3. \A j \in (i + 1)..m : j \in 1..m /\ j \in (i + 1)..(m + n)
    BY <1>1
  <2>4. \A j \in 1..n : m + j \in (i + 1)..(m + n)
    BY <1>1
  <2>5. {u[j] : j \in 1..(i - 1)} = {s[j] : j \in 1..(i - 1)}
    BY <2>1
  <2>6. \A j \in (i + 1)..(m + n) : (\E k \in (i + 1)..m : u[j] = s[k]) \/ (\E k \in 1..n : u[j] = t[k])
    BY <1>1, <1>2, <2>2
  <2>7. /\ \A j \in (i + 1)..m : \E k \in (i + 1)..(m + n) : u[k] = s[j]
        /\ \A j \in 1..n : \E k \in (i + 1)..(m + n) : u[k] = t[j]
    BY <1>1, <2>3, <2>4
  <2>8. {u[j] : j \in (i + 1)..(m + n)} = {s[j] : j \in (i + 1)..m} \cup {t[j] : j \in 1..n}
    BY <2>6, <2>7, SameElementsTogether
  <2> QED BY <2>5, <2>8
<1>5. ASSUME NEW k \in 1..n
      PROVE  /\ {u[j] : j \in 1..(m + k - 1)} = {s[j] : j \in 1..m} \cup {t[j] : j \in 1..(k - 1)}
             /\ {u[j] : j \in (m + k + 1)..(m + n)} = {t[j] : j \in (k + 1)..n}
  <2>1. \A j \in 1..(m + k - 1) : j \in 1..(m + n) /\ (j \in 1..m \/ (j > m /\ j - m \in 1..(k - 1)))
    BY <1>1
  <2>2. \A j \in 1..m : j \in 1..(m + k - 1)
    BY <1>1
  <2>3. \A j \in 1..(k - 1) : j \in 1..n /\ m + j \in 1..(m + k - 1)
    BY <1>1
  <2>4. \A j \in (m + k + 1)..(m + n) : j \in 1..(m + n) /\ j > m /\ j - m \in (k + 1)..n
    BY <1>1
  <2>5. \A j \in (k + 1)..n : j \in 1..n /\ m + j \in (m + k + 1)..(m + n)
    BY <1>1
  <2>6. \A j \in 1..(m + k - 1) : (\E i \in 1..m : u[j] = s[i]) \/ (\E i \in 1..(k - 1) : u[j] = t[i])
    BY <1>1, <1>2, <2>1
  <2>7. (\A j \in 1..m : \E i \in 1..(m + k - 1) : u[i] = s[j]) /\ (\A j \in 1..(k - 1) : \E i \in 1..(m + k - 1) : u[i] = t[j])
    BY <1>1, <2>2, <2>3
  <2>8. {u[j] : j \in 1..(m + k - 1)} = {s[j] : j \in 1..m} \cup {t[j] : j \in 1..(k - 1)}
    <3> DEFINE I == 1..(m + k - 1)
               J == 1..m
               K == 1..(k - 1)
    <3>1. /\ \A j \in I : (\E i \in J : u[j] = s[i]) \/ (\E i \in K : u[j] = t[i])
          /\ \A j \in J : \E i \in I : u[i] = s[j]
          /\ \A j \in K : \E i \in I : u[i] = t[j]
      BY <2>6, <2>7
    <3> HIDE DEF I, J, K
    <3>2. {u[j] : j \in I} = {s[j] : j \in J} \cup {t[j] : j \in K}
      BY <3>1, SameElementsTogether
    <3> QED BY <3>2 DEF I, J, K
  <2>9. \A j \in (m + k + 1)..(m + n) : \E i \in (k + 1)..n : u[j] = t[i]
    BY <1>2, <2>4
  <2>10. \A j \in (k + 1)..n : \E i \in (m + k + 1)..(m + n) : u[i] = t[j]
    BY <1>1, <2>5
  <2>11. {u[j] : j \in (m + k + 1)..(m + n)} = {t[j] : j \in (k + 1)..n}
    BY <2>9, <2>10, SameElements
  <2> QED BY <2>8, <2>11
<1>6. /\ Elems(u) = Elems(s) \cup Elems(t)
      /\ \A i \in 1..m : Before(u, i) = Before(s, i) /\ After(u, i) = After(s, i) \cup Elems(t)
      /\ \A k \in 1..n : Before(u, m + k) = Elems(s) \cup Before(t, k) /\ After(u, m + k) = After(t, k)
  <2> USE DEF Elems, Before, After
  <2>1. Len(s) = m /\ Len(t) = n /\ Len(u) = m + n
    BY <1>1 DEF m, n
  <2>2. Elems(u) = Elems(s) \cup Elems(t)
    BY <1>3, <2>1
  <2>3. \A i \in 1..m : Before(u, i) = Before(s, i) /\ After(u, i) = After(s, i) \cup Elems(t)
    BY <1>4, <2>1
  <2>4. \A k \in 1..n : Before(u, m + k) = Elems(s) \cup Before(t, k) /\ After(u, m + k) = After(t, k)
    <3> SUFFICES ASSUME NEW k \in 1..n PROVE Before(u, m + k) = Elems(s) \cup Before(t, k) /\ After(u, m + k) = After(t, k)
      OBVIOUS
    <3>1. Before(u, m + k) = {u[j] : j \in 1..(m + k - 1)} /\ Elems(s) = {s[j] : j \in 1..m} /\ Before(t, k) = {t[j] : j \in 1..(k - 1)}
      BY <2>1
    <3>2. After(u, m + k) = {u[j] : j \in (m + k + 1)..(m + n)} /\ After(t, k) = {t[j] : j \in (k + 1)..n}
      BY <2>1
    <3> HIDE DEF Elems, Before, After
    <3> QED BY <1>5, <3>1, <3>2
  <2> QED BY <2>2, <2>3, <2>4
<1> QED BY <1>1, <1>6 DEF u, m, n

\* The first task of a list has nothing before it and the others after it.
LEMMA FirstAndRest ==
  ASSUME NEW s \in Seq(Task), s # <<>>
  PROVE  /\ 1 \in 1..Len(s) /\ s[1] = Head(s) /\ Before(s, 1) = {} /\ After(s, 1) = Elems(Tail(s))
         /\ Tail(s) \in Seq(Task) /\ Elems(s) = {Head(s)} \cup Elems(Tail(s))
         /\ \A k \in 1..Len(Tail(s)) :
              /\ k + 1 \in 1..Len(s) /\ Tail(s)[k] = s[k + 1] /\ Tail(s)[k] \in Elems(Tail(s))
              /\ Before(s, k + 1) = {Head(s)} \cup Before(Tail(s), k) /\ Before(Tail(s), k) \subseteq Elems(Tail(s))
              /\ After(s, k + 1) = After(Tail(s), k) /\ After(Tail(s), k) \subseteq Elems(Tail(s))
<1> DEFINE t == Tail(s)
           n == Len(t)
<1>1. n \in Nat /\ Len(s) = n + 1 /\ t \in Seq(Task) /\ Head(s) = s[1] /\ \A k \in 1..n : t[k] = s[k + 1]
  OBVIOUS
<1> HIDE DEF t, n
<1>2. \A j \in 2..(n + 1) : j - 1 \in 1..n /\ s[j] = t[j - 1]
  <2>1. \A j \in 2..(n + 1) : j - 1 \in 1..n /\ (j - 1) + 1 = j
    BY <1>1
  <2> QED BY <1>1, <2>1
<1>3. 1..0 = {} /\ {s[j] : j \in 2..(n + 1)} = {t[j] : j \in 1..n}
  <2>1. \A j \in 1..n : j + 1 \in 2..(n + 1)
    BY <1>1
  <2> QED BY <1>1, <1>2, <2>1
<1>4. {s[j] : j \in 1..(n + 1)} = {s[1]} \cup {t[j] : j \in 1..n}
  <2>1. \A j \in 1..(n + 1) : j = 1 \/ j \in 2..(n + 1)
    BY <1>1
  <2>2. 1 \in 1..(n + 1) /\ \A j \in 1..n : j + 1 \in 1..(n + 1)
    BY <1>1
  <2> QED BY <1>1, <1>2, <2>1, <2>2
<1>5. ASSUME NEW k \in 1..n
      PROVE  /\ k + 1 \in 1..(n + 1)
             /\ {s[j] : j \in 1..(k + 1 - 1)} = {s[1]} \cup {t[j] : j \in 1..(k - 1)}
             /\ {s[j] : j \in (k + 1 + 1)..(n + 1)} = {t[j] : j \in (k + 1)..n}
             /\ {t[j] : j \in 1..(k - 1)} \subseteq {t[j] : j \in 1..n}
             /\ {t[j] : j \in (k + 1)..n} \subseteq {t[j] : j \in 1..n}
  <2>1. k + 1 \in 1..(n + 1) /\ k + 1 - 1 = k
    BY <1>1
  <2>2. \A j \in 1..k : j = 1 \/ (j \in 2..(n + 1) /\ j - 1 \in 1..(k - 1))
    BY <1>1
  <2>3. 1 \in 1..k /\ \A j \in 1..(k - 1) : j \in 1..n /\ j + 1 \in 1..k
    BY <1>1
  <2>4. \A j \in (k + 1 + 1)..(n + 1) : j \in 2..(n + 1) /\ j - 1 \in (k + 1)..n
    BY <1>1
  <2>5. \A j \in (k + 1)..n : j \in 1..n /\ j + 1 \in (k + 1 + 1)..(n + 1)
    BY <1>1
  <2>6. {s[j] : j \in 1..k} = {s[1]} \cup {t[j] : j \in 1..(k - 1)}
    <3>1. \A j \in 1..k : s[j] \in {s[1]} \cup {t[i] : i \in 1..(k - 1)}
      BY <1>2, <2>2
    <3>2. s[1] \in {s[j] : j \in 1..k} /\ \A j \in 1..(k - 1) : t[j] \in {s[i] : i \in 1..k}
      BY <1>1, <2>3
    <3> QED BY <3>1, <3>2
  <2>7. {s[j] : j \in (k + 1 + 1)..(n + 1)} = {t[j] : j \in (k + 1)..n}
    <3>1. \A j \in (k + 1 + 1)..(n + 1) : \E i \in (k + 1)..n : s[j] = t[i]
      BY <1>2, <2>4
    <3>2. \A j \in (k + 1)..n : \E i \in (k + 1 + 1)..(n + 1) : s[i] = t[j]
      BY <1>1, <2>5
    <3> DEFINE I == (k + 1 + 1)..(n + 1)
               J == (k + 1)..n
    <3>3. (\A j \in I : \E i \in J : s[j] = t[i]) /\ (\A j \in J : \E i \in I : s[i] = t[j])
      BY <3>1, <3>2
    <3> HIDE DEF I, J
    <3>4. {s[j] : j \in I} = {t[j] : j \in J}
      BY <3>3, SameElements
    <3> QED BY <3>4 DEF I, J
  <2> QED BY <2>1, <2>3, <2>5, <2>6, <2>7
<1>6. 1 \in 1..(n + 1) /\ 1 - 1 = 0 /\ 1 + 1 = 2
  BY <1>1
<1>7. /\ Before(s, 1) = {} /\ After(s, 1) = Elems(t) /\ Elems(s) = {s[1]} \cup Elems(t)
      /\ \A k \in 1..n : /\ Before(s, k + 1) = {s[1]} \cup Before(t, k) /\ After(s, k + 1) = After(t, k)
                         /\ Before(t, k) \subseteq Elems(t) /\ After(t, k) \subseteq Elems(t)
  <2> USE DEF Elems, Before, After
  <2>1. Len(s) = n + 1 /\ Len(t) = n
    BY <1>1 DEF n
  <2>2. Before(s, 1) = {}
    BY <1>3, <1>6
  <2>3. After(s, 1) = Elems(t)
    BY <1>3, <1>6, <2>1
  <2>4. Elems(s) = {s[1]} \cup Elems(t)
    BY <1>4, <2>1
  <2>5. \A k \in 1..n : /\ Before(s, k + 1) = {s[1]} \cup Before(t, k) /\ After(s, k + 1) = After(t, k)
                        /\ Before(t, k) \subseteq Elems(t) /\ After(t, k) \subseteq Elems(t)
    <3> SUFFICES ASSUME NEW k \in 1..n
                 PROVE  /\ Before(s, k + 1) = {s[1]} \cup Before(t, k) /\ After(s, k + 1) = After(t, k)
                        /\ Before(t, k) \subseteq Elems(t) /\ After(t, k) \subseteq Elems(t)
      OBVIOUS
    <3>1. Before(s, k + 1) = {s[j] : j \in 1..(k + 1 - 1)} /\ Elems(t) = {t[j] : j \in 1..n} /\ Before(t, k) = {t[j] : j \in 1..(k - 1)}
      BY <2>1
    <3>2. After(s, k + 1) = {s[j] : j \in (k + 1 + 1)..(n + 1)} /\ After(t, k) = {t[j] : j \in (k + 1)..n}
      BY <2>1
    <3> HIDE DEF Elems, Before, After
    <3> QED BY <1>5, <3>1, <3>2
  <2> QED BY <2>2, <2>3, <2>4, <2>5
<1>8. \A k \in 1..n : t[k] \in Elems(t)
  BY DEF Elems, n
<1> QED BY <1>1, <1>5, <1>6, <1>7, <1>8 DEF t, n

\* Tasks take the place of the first of a list: they must fit in front of the rest, and
\* the rest must still fit behind them.
LEMMA OrderlyThen ==
  ASSUME NEW s \in Seq(Task), s # <<>>, NEW tasks \in Seq(Task), NEW F, NEW D, NEW U, NEW N, NEW F2, NEW D2, NEW U2, NEW N2,
         Orderly(s, F, D, U, N),
         \A i \in 1..Len(tasks) : Fits(tasks[i], Before(tasks, i), After(tasks, i) \cup Elems(Tail(s)), F2, D2, U2, N2),
         \A t \in Elems(Tail(s)), M \in SUBSET Elems(Tail(s)), A \in SUBSET Elems(Tail(s)) :
           Fits(t, {Head(s)} \cup M, A, F, D, U, N) => Fits(t, Elems(tasks) \cup M, A, F2, D2, U2, N2)
  PROVE  Orderly(tasks \o Tail(s), F2, D2, U2, N2)
<1> DEFINE t == Tail(s)
           u == tasks \o t
<1>1. t \in Seq(Task)
  BY FirstAndRest
<1> HIDE DEF t
<1>2. ASSUME NEW i \in 1..Len(tasks) PROVE Fits(u[i], Before(u, i), After(u, i), F2, D2, U2, N2)
  <2>1. u[i] = tasks[i] /\ Before(u, i) = Before(tasks, i) /\ After(u, i) = After(tasks, i) \cup Elems(t)
    BY <1>1, JoinedAround
  <2> QED BY <2>1 DEF t
<1>3. ASSUME NEW k \in 1..Len(t)
      PROVE  Fits(u[Len(tasks) + k], Before(u, Len(tasks) + k), After(u, Len(tasks) + k), F2, D2, U2, N2)
  <2>1. /\ u[Len(tasks) + k] = t[k] /\ Before(u, Len(tasks) + k) = Elems(tasks) \cup Before(t, k)
        /\ After(u, Len(tasks) + k) = After(t, k)
    BY <1>1, JoinedAround
  <2>2. /\ k + 1 \in 1..Len(s) /\ t[k] = s[k + 1] /\ t[k] \in Elems(t)
        /\ Before(s, k + 1) = {Head(s)} \cup Before(t, k) /\ Before(t, k) \in SUBSET Elems(t)
        /\ After(s, k + 1) = After(t, k) /\ After(t, k) \in SUBSET Elems(t)
    BY FirstAndRest DEF t
  <2>3. Fits(s[k + 1], Before(s, k + 1), After(s, k + 1), F, D, U, N)
    BY <2>2 DEF Orderly
  <2>4. Fits(t[k], {Head(s)} \cup Before(t, k), After(t, k), F, D, U, N)
    BY <2>2, <2>3
  <2>5. Fits(t[k], Elems(tasks) \cup Before(t, k), After(t, k), F2, D2, U2, N2)
    BY <2>2, <2>4 DEF t
  <2> QED BY <2>1, <2>5
<1>4. Len(tasks) \in Nat /\ Len(t) \in Nat /\ Len(u) = Len(tasks) + Len(t)
  BY <1>1
<1> HIDE DEF u
<1>5. ASSUME NEW i \in 1..Len(u) PROVE Fits(u[i], Before(u, i), After(u, i), F2, D2, U2, N2)
  <2>1. i \in 1..Len(tasks) \/ (i - Len(tasks) \in 1..Len(t) /\ i = Len(tasks) + (i - Len(tasks)))
    BY <1>4
  <2>2. CASE i \in 1..Len(tasks)
    BY <1>2, <2>2
  <2>3. CASE i - Len(tasks) \in 1..Len(t) /\ i = Len(tasks) + (i - Len(tasks))
    <3>1. PICK k \in 1..Len(t) : i = Len(tasks) + k
      BY <2>3
    <3> QED BY <1>3, <3>1
  <2> QED BY <2>1, <2>2, <2>3
<1> QED BY <1>5 DEF Orderly, u, t

\* What a step may change when the tasks T take the place of hd, so that the task t of the
\* rest still fits.
Succeeds(t, hd, T, F, D, U, N, F2, D2, U2, N2) ==
  /\ t.do \in {"execute", "run"} /\ (t.of \in F \/ Offering(hd, t.of)) => t.of \in F2
  /\ (\E x \in T : MayTurn(x)) => MayTurn(hd)
  /\ N \subseteq N2
  /\ \A p : (p \in D /\ ~Authorizing(hd, p)) \/ Working(hd, p) => p \in D2 \/ \E x \in T : Working(x, p)
  /\ \A p \in Advisory : p \in U \/ Authorizing(hd, p) => p \in U2

LEMMA FitsStays ==
  ASSUME NEW t, NEW hd, NEW M, NEW A, NEW T, NEW F, NEW D, NEW U, NEW N, NEW F2, NEW D2, NEW U2, NEW N2,
         Fits(t, {hd} \cup M, A, F, D, U, N), Succeeds(t, hd, T, F, D, U, N, F2, D2, U2, N2),
         \A x \in T \cup M : x.do # "authorize"
  PROVE  Fits(t, T \cup M, A, F2, D2, U2, N2)
<1> USE DEF Succeeds
<1>1. FitsExecution(t, T \cup M, A, F2, N2)
  <2> SUFFICES ASSUME t.do \in {"execute", "run"}
               PROVE  /\ t.of \in F2 \/ \E x \in T \cup M : Offering(x, t.of)
                      /\ ~\E x \in A : Starting(x, t.of)
                      /\ \E x \in A : Settling(x, t.of)
                      /\ (\E x \in T \cup M : MayTurn(x)) => t.of \in N2
    BY DEF FitsExecution
  <2>1. /\ t.of \in F \/ \E x \in {hd} \cup M : Offering(x, t.of)
        /\ ~\E x \in A : Starting(x, t.of)
        /\ \E x \in A : Settling(x, t.of)
        /\ (\E x \in {hd} \cup M : MayTurn(x)) => t.of \in N
    BY DEF Fits, FitsExecution
  <2> QED BY <2>1
<1>2. FitsVerdict(t, T \cup M, A, F2, D2)
  <2> SUFFICES ASSUME t.do = "decided"
               PROVE  /\ t.verdict = "DENY" => t.of \in F2 /\ T \cup M = {} /\ A = {}
                      /\ t.verdict # "DENY" =>
                           /\ ~\E x \in A : Starting(x, t.of)
                           /\ \/ t.of \in Advisory
                              \/ t.of \in D2 /\ ~\E x \in T \cup M : Authorizing(x, t.of)
                              \/ \E x \in T \cup M : Working(x, t.of)
    BY DEF FitsVerdict
  <2>1. /\ t.verdict # "DENY"
        /\ ~\E x \in A : Starting(x, t.of)
        /\ \/ t.of \in Advisory
           \/ t.of \in D /\ ~\E x \in {hd} \cup M : Authorizing(x, t.of)
           \/ \E x \in {hd} \cup M : Working(x, t.of)
    BY DEF Fits, FitsVerdict
  <2>2. \A x \in T \cup M : ~Authorizing(x, t.of)
    BY DEF Authorizing
  <2> QED BY <2>1, <2>2
<1>3. FitsTurn(t, A, N2)
  BY DEF Fits, FitsTurn
<1>4. FitsApproval(t, T \cup M, A, F2, U2)
  <2>1. t.do # "authorize"
    BY DEF Fits, FitsApproval
  <2>2. t.do \in {"run", "result"} => t.of \notin Advisory
    BY DEF Fits, FitsApproval
  <2>3. ASSUME t.do = "promote"
        PROVE  \E x \in A : x.do = "execute" /\ (x.of \notin Advisory \/ x.of \in U2)
    <3>1. PICK x \in A : x.do = "execute" /\ (x.of \notin Advisory \/ x.of \in U \/ \E y \in {hd} \cup M : Authorizing(y, x.of))
      BY <2>3 DEF Fits, FitsApproval
    <3>2. \A y \in M : ~Authorizing(y, x.of)
      BY DEF Authorizing
    <3> QED BY <3>1, <3>2
  <2> QED BY <2>1, <2>2, <2>3 DEF FitsApproval
<1> QED BY <1>1, <1>2, <1>3, <1>4 DEF Fits

LEMMA NoTasks == Elems(<<>>) = {}
<1>1. Len(<<>>) = 0 /\ 1..0 = {}
  OBVIOUS
<1> QED BY <1>1 DEF Elems

\* What is known of a calm session when its handler begins a task.
LEMMA CalmHandler ==
  ASSUME ProposalInv, CalmInv, calm, NEW h \in Handlers, todo[h] # <<>>
  PROVE  /\ todo[h] \in Seq(Task) /\ Tail(todo[h]) \in Seq(Task)
         /\ Orderly(todo[h], Fresh, CarriedOut, Authorized, named)
         /\ Fits(Head(todo[h]), {}, Elems(Tail(todo[h])), Fresh, CarriedOut, Authorized, named)
         /\ AllTasks = {Head(todo[h])} \cup Elems(Tail(todo[h]))
         /\ \A x \in Elems(Tail(todo[h])) :
              /\ x.do # "authorize" /\ x \in Task
              /\ \E M, A \in SUBSET Elems(Tail(todo[h])) :
                   Fits(x, {Head(todo[h])} \cup M, A, Fresh, CarriedOut, Authorized, named)
         /\ copy[h] = session /\ \A k \in Handlers : k # h => todo[k] = <<>>
         /\ Settled(AllTasks) /\ RunningFor(AllTasks)
<1> DEFINE s == todo[h]
           rest == Elems(Tail(s))
<1>1. s \in Seq(Task) /\ s # <<>>
  BY DEF ProposalInv, TypeOK
<1>2. /\ OneList /\ Settled(AllTasks) /\ RunningFor(AllTasks)
  BY DEF CalmInv
<1>3. copy[h] = session /\ Orderly(s, Fresh, CarriedOut, Authorized, named) /\ \A k \in Handlers : k # h => todo[k] = <<>>
  BY <1>2 DEF OneList
<1>4. /\ 1 \in 1..Len(s) /\ s[1] = Head(s) /\ Before(s, 1) = {} /\ After(s, 1) = rest
      /\ Tail(s) \in Seq(Task) /\ Elems(s) = {Head(s)} \cup rest
      /\ \A k \in 1..Len(Tail(s)) : /\ k + 1 \in 1..Len(s) /\ Tail(s)[k] = s[k + 1]
                                   /\ Before(s, k + 1) = {Head(s)} \cup Before(Tail(s), k) /\ Before(Tail(s), k) \subseteq rest
                                   /\ After(s, k + 1) = After(Tail(s), k) /\ After(Tail(s), k) \subseteq rest
  BY <1>1, FirstAndRest
<1>5. Fits(Head(s), {}, rest, Fresh, CarriedOut, Authorized, named)
  <2>1. Fits(s[1], Before(s, 1), After(s, 1), Fresh, CarriedOut, Authorized, named)
    BY <1>3, <1>4 DEF Orderly
  <2> QED BY <1>4, <2>1
<1>6. AllTasks = {Head(s)} \cup rest
  <2>1. \A k \in Handlers : k # h => Elems(todo[k]) = {}
    BY <1>3, NoTasks
  <2>2. AllTasks = Elems(todo[h])
    BY <2>1 DEF AllTasks
  <2> QED BY <1>4, <2>2
<1>7. \A x \in rest : /\ x.do # "authorize" /\ x \in Task
                       /\ \E M, A \in SUBSET rest : Fits(x, {Head(s)} \cup M, A, Fresh, CarriedOut, Authorized, named)
  <2> SUFFICES ASSUME NEW k \in 1..Len(Tail(s))
               PROVE  /\ Tail(s)[k].do # "authorize" /\ Tail(s)[k] \in Task
                      /\ \E M, A \in SUBSET rest : Fits(Tail(s)[k], {Head(s)} \cup M, A, Fresh, CarriedOut, Authorized, named)
    BY DEF Elems
  <2>1. Fits(s[k + 1], Before(s, k + 1), After(s, k + 1), Fresh, CarriedOut, Authorized, named)
    BY <1>3, <1>4 DEF Orderly
  <2>2. Before(s, k + 1) # {}
    BY <1>4
  <2> HIDE DEF s
  <2>3. Tail(s)[k] \in Task
    BY <1>4
  <2>4. Tail(s)[k].do # "authorize"
    BY <1>4, <2>1, <2>2 DEF Fits, FitsApproval
  <2> HIDE DEF rest
  <2>5. \E M, A \in SUBSET rest : Fits(Tail(s)[k], {Head(s)} \cup M, A, Fresh, CarriedOut, Authorized, named)
    <3>1. Fits(Tail(s)[k], {Head(s)} \cup Before(Tail(s), k), After(Tail(s), k), Fresh, CarriedOut, Authorized, named)
      BY <1>4, <2>1
    <3>2. Before(Tail(s), k) \in SUBSET rest /\ After(Tail(s), k) \in SUBSET rest
      BY <1>4
    <3> QED BY <3>1, <3>2
  <2> QED BY <2>3, <2>4, <2>5
<1> QED BY <1>1, <1>2, <1>3, <1>4, <1>5, <1>6, <1>7

\* The handler is done with its first task, and has others to do first.
LEMMA CalmThen ==
  ASSUME ProposalInv, CalmInv, calm, NEW h \in Handlers, todo[h] # <<>>,
         NEW tasks \in Seq(Task), Then(h, tasks, session'),
         \A i \in 1..Len(tasks) :
           Fits(tasks[i], Before(tasks, i), After(tasks, i) \cup Elems(Tail(todo[h])), Fresh', CarriedOut', Authorized', named'),
         \A t \in Elems(Tail(todo[h])), M \in SUBSET Elems(Tail(todo[h])), A \in SUBSET Elems(Tail(todo[h])) :
           Fits(t, {Head(todo[h])} \cup M, A, Fresh, CarriedOut, Authorized, named)
             => Fits(t, Elems(tasks) \cup M, A, Fresh', CarriedOut', Authorized', named')
  PROVE  OneList' /\ AllTasks' = Elems(tasks) \cup Elems(Tail(todo[h]))
<1> DEFINE left == tasks \o Tail(todo[h])
           F == Fresh
           D == CarriedOut
           U == Authorized
           F2 == Fresh'
           D2 == CarriedOut'
           U2 == Authorized'
           N2 == named'
<1>1. /\ todo[h] \in Seq(Task) /\ Tail(todo[h]) \in Seq(Task) /\ Orderly(todo[h], F, D, U, named)
      /\ \A k \in Handlers : k # h => todo[k] = <<>>
  BY CalmHandler
<1>2. todo \in [Handlers -> Seq(Task)] /\ copy \in [Handlers -> SessionStatus]
  BY DEF ProposalInv, TypeOK
<1>3. todo' = [todo EXCEPT ![h] = left] /\ copy' = [copy EXCEPT ![h] = IF left = <<>> THEN "none" ELSE session']
  BY DEF Then
<1>4. Elems(left) = Elems(tasks) \cup Elems(Tail(todo[h]))
  BY <1>1, JoinedAround
<1>5. Orderly(left, F2, D2, U2, N2)
  <2> HIDE DEF F, D, U, F2, D2, U2, N2
  <2>1. /\ \A i \in 1..Len(tasks) : Fits(tasks[i], Before(tasks, i), After(tasks, i) \cup Elems(Tail(todo[h])), F2, D2, U2, N2)
        /\ \A t \in Elems(Tail(todo[h])), M \in SUBSET Elems(Tail(todo[h])), A \in SUBSET Elems(Tail(todo[h])) :
             Fits(t, {Head(todo[h])} \cup M, A, F, D, U, named) => Fits(t, Elems(tasks) \cup M, A, F2, D2, U2, N2)
    BY DEF F, D, U, F2, D2, U2, N2
  <2> QED BY <1>1, <2>1, OrderlyThen
<1> HIDE DEF left
<1>6. todo'[h] = left /\ (\A k \in Handlers : k # h => todo'[k] = <<>>) /\ (left # <<>> => copy'[h] = session')
  BY <1>1, <1>2, <1>3
<1>7. OneList'
  BY <1>5, <1>6 DEF OneList
<1>8. AllTasks' = Elems(left)
  <2>1. \A k \in Handlers : k # h => Elems(todo'[k]) = {}
    BY <1>6, NoTasks
  <2> QED BY <1>6, <2>1 DEF AllTasks
<1> QED BY <1>4, <1>7, <1>8

\* As CalmThen, where FitsStays says what the step may change.
LEMMA CalmReplaced ==
  ASSUME ProposalInv, CalmInv, calm, NEW h \in Handlers, todo[h] # <<>>,
         NEW tasks \in Seq(Task), Then(h, tasks, session'),
         \A i \in 1..Len(tasks) :
           Fits(tasks[i], Before(tasks, i), After(tasks, i) \cup Elems(Tail(todo[h])), Fresh', CarriedOut', Authorized', named'),
         \A t \in Elems(Tail(todo[h])) :
           t.do \in {"execute", "run"} /\ (t.of \in Fresh \/ Offering(Head(todo[h]), t.of)) => t.of \in Fresh',
         (\E x \in Elems(tasks) : MayTurn(x)) => MayTurn(Head(todo[h])),
         named \subseteq named',
         \A p : (p \in CarriedOut /\ ~Authorizing(Head(todo[h]), p)) \/ Working(Head(todo[h]), p)
                  => p \in CarriedOut' \/ \E x \in Elems(tasks) : Working(x, p),
         \A x \in Elems(tasks) : x.do # "authorize",
         \A p \in Advisory : p \in Authorized \/ Authorizing(Head(todo[h]), p) => p \in Authorized'
  PROVE  OneList' /\ AllTasks' = Elems(tasks) \cup Elems(Tail(todo[h]))
<1> DEFINE hd == Head(todo[h])
           rest == Elems(Tail(todo[h]))
           F == Fresh
           D == CarriedOut
           U == Authorized
           F2 == Fresh'
           D2 == CarriedOut'
           U2 == Authorized'
           N2 == named'
           T == Elems(tasks)
<1>1. ASSUME NEW t \in rest, NEW M \in SUBSET rest, NEW A \in SUBSET rest,
             Fits(t, {hd} \cup M, A, Fresh, CarriedOut, Authorized, named)
      PROVE  Fits(t, Elems(tasks) \cup M, A, F2, D2, U2, N2)
  <2>1. \A x \in T \cup M : x.do # "authorize"
    BY <1>1, CalmHandler
  <2>2. Fits(t, {hd} \cup M, A, F, D, U, named) /\ Succeeds(t, hd, T, F, D, U, named, F2, D2, U2, N2)
    BY <1>1 DEF Succeeds
  <2> HIDE DEF hd, rest, F, D, U, F2, D2, U2, N2, T
  <2>3. Fits(t, T \cup M, A, F2, D2, U2, N2)
    BY <2>1, <2>2, FitsStays
  <2> QED BY <2>3 DEF T
<1>2. \A t \in rest, M \in SUBSET rest, A \in SUBSET rest :
        Fits(t, {hd} \cup M, A, Fresh, CarriedOut, Authorized, named) => Fits(t, Elems(tasks) \cup M, A, F2, D2, U2, N2)
  BY <1>1
<1> QED BY <1>2, CalmThen

LEMMA OneTask ==
  ASSUME NEW t \in Task
  PROVE  /\ <<t>> \in Seq(Task) /\ <<t>> # <<>> /\ Elems(<<t>>) = {t}
         /\ \A i \in 1..Len(<<t>>) : i = 1 /\ <<t>>[i] = t /\ Before(<<t>>, i) = {} /\ After(<<t>>, i) = {}
<1>1. <<t>> \in Seq(Task) /\ <<t>> # <<>> /\ Len(<<t>>) = 1 /\ Head(<<t>>) = t /\ Tail(<<t>>) = <<>> /\ \A i \in 1..1 : i = 1
  OBVIOUS
<1> QED BY <1>1, FirstAndRest, NoTasks

LEMMA OneFits ==
  ASSUME NEW t \in Task, NEW W, NEW F, NEW D, NEW U, NEW N, Fits(t, {}, W, F, D, U, N)
  PROVE  \A i \in 1..Len(<<t>>) : Fits(<<t>>[i], Before(<<t>>, i), After(<<t>>, i) \cup W, F, D, U, N)
<1>1. {} \cup W = W
  OBVIOUS
<1> QED BY <1>1, OneTask

LEMMA TwoFit ==
  ASSUME NEW t \in Task, NEW u \in Task, NEW W, NEW F, NEW D, NEW U, NEW N,
         Fits(t, {}, {u} \cup W, F, D, U, N), Fits(u, {t}, W, F, D, U, N)
  PROVE  /\ <<t, u>> \in Seq(Task) /\ Elems(<<t, u>>) = {t, u}
         /\ \A i \in 1..Len(<<t, u>>) : Fits(<<t, u>>[i], Before(<<t, u>>, i), After(<<t, u>>, i) \cup W, F, D, U, N)
<1> DEFINE s == <<t, u>>
<1>1. /\ s \in Seq(Task) /\ s # <<>> /\ Len(s) = 2 /\ Head(s) = t /\ Tail(s) = <<u>> /\ Len(<<u>>) = 1
      /\ s[1] = t /\ s[2] = u /\ 1 \in 1..1 /\ 1 + 1 = 2 /\ \A i \in 1..2 : i = 1 \/ i = 2
  OBVIOUS
<1> HIDE DEF s
<1>2. Elems(s) = {t, u} /\ Before(s, 1) = {} /\ After(s, 1) = {u}
  <2>1. Before(s, 1) = {} /\ After(s, 1) = Elems(Tail(s)) /\ Elems(s) = {Head(s)} \cup Elems(Tail(s))
    BY <1>1, FirstAndRest
  <2>2. Elems(Tail(s)) = {u}
    BY <1>1, OneTask
  <2> QED BY <1>1, <2>1, <2>2
<1>3. Before(s, 2) = {t} /\ After(s, 2) = {}
  <2>1. Before(s, 1 + 1) = {Head(s)} \cup Before(Tail(s), 1) /\ After(s, 1 + 1) = After(Tail(s), 1)
    BY <1>1, FirstAndRest
  <2>2. Before(<<u>>, 1) = {} /\ After(<<u>>, 1) = {}
    BY <1>1, OneTask
  <2> QED BY <1>1, <2>1, <2>2
<1>4. \A i \in 1..Len(s) : Fits(s[i], Before(s, i), After(s, i) \cup W, F, D, U, N)
  <2>1. {} \cup W = W
    OBVIOUS
  <2> QED BY <1>1, <1>2, <1>3, <2>1
<1> QED BY <1>1, <1>2, <1>4 DEF s

\* Tasks that rely on nothing.
LEMMA FreeFits ==
  ASSUME NEW t, t.do \in {"continue", "offer"} \/ (t.do = "turn" /\ ~t.first), NEW B, NEW A, NEW F, NEW D, NEW U, NEW N
  PROVE  Fits(t, B, A, F, D, U, N)
BY DEF Fits, FitsExecution, FitsVerdict, FitsTurn, FitsApproval

LEMMA CalmWas ==
  ASSUME ProposalInv, calm', Mishap \/ UNCHANGED mishaps
  PROVE  calm /\ ~Mishap
BY DEF ProposalInv, TypeOK, calm, Mishap

LEMMA SettledStays ==
  ASSUME Settled(AllTasks), UNCHANGED <<standing, starts>>,
         \A p \in Proposals : standing[p] \in {"APPROVE", "AUTO"} /\ p \in CarriedOut => p \in CarriedOut',
         \A x \in AllTasks : x.do = "decided" => x \in AllTasks'
  PROVE  Settled(AllTasks)'
BY DEF Settled, Settling

LEMMA RunningStays ==
  ASSUME RunningFor(AllTasks), UNCHANGED session,
         \A x \in AllTasks : KeepsRunning(x) => \E y \in AllTasks' : KeepsRunning(y),
         Advisory \cap Authorized \subseteq Authorized'
  PROVE  RunningFor(AllTasks)'
BY DEF RunningFor

LEMMA RowsAsBefore ==
  /\ UNCHANGED action => CarriedOut' = CarriedOut /\ Authorized' = Authorized
  /\ UNCHANGED <<standing, starts>> => Fresh' = Fresh
BY DEF CarriedOut, Authorized, Fresh

-----------------------------------------------------------------------------
(* The steps of a calm session *)

LEMMA CalmOpen == ASSUME ProposalInv, CalmInv, calm', NEW h \in Handlers, OpenSession(h) PROVE CalmInv'
<1> DEFINE hd == Head(todo[h])
           rest == Elems(Tail(todo[h]))
<1>1. /\ todo[h] # <<>> /\ hd.do \in {"open", "attach"} /\ session' = "RUNNING" /\ Then(h, <<>>, session')
      /\ UNCHANGED <<invoked, action, standing, named, approved, starts, mishaps>>
  BY DEF OpenSession, Doing, history
<1>2. calm
  BY <1>1, CalmWas
<1>3. AllTasks = {hd} \cup rest /\ Settled(AllTasks) /\ \E x \in rest : x.do = "turn"
  BY <1>1, <1>2, CalmHandler DEF Fits, FitsTurn
<1>4. CarriedOut' = CarriedOut /\ Authorized' = Authorized /\ Fresh' = Fresh
  BY <1>1, RowsAsBefore
<1>5. OneList' /\ AllTasks' = rest
  <2>1. <<>> \in Seq(Task) /\ Len(<<>>) = 0 /\ \A i \in 1..0 : FALSE
    OBVIOUS
  <2>2. \A p : ~Offering(hd, p) /\ ~Authorizing(hd, p) /\ ~Working(hd, p)
    BY <1>1 DEF Offering, Authorizing, Working
  <2> QED BY <1>1, <1>2, <1>4, <2>1, <2>2, NoTasks, CalmReplaced
<1>6. Settled(AllTasks)'
  BY <1>1, <1>3, <1>4, <1>5, SettledStays
<1>7. RunningFor(AllTasks)'
  BY <1>3, <1>5 DEF RunningFor, KeepsRunning
<1> QED BY <1>5, <1>6, <1>7 DEF CalmInv

LEMMA CalmTurn == ASSUME ProposalInv, CalmInv, calm', NEW h \in Handlers, Turn(h) PROVE CalmInv'
<1> DEFINE hd == Head(todo[h])
           rest == Elems(Tail(todo[h]))
<1>1. /\ todo[h] # <<>> /\ hd.do = "turn"
      /\ UNCHANGED <<session, invoked, action, standing, approved, starts, mishaps>>
  BY DEF Turn, Doing
<1>2. calm
  BY <1>1, CalmWas
<1>3. /\ AllTasks = {hd} \cup rest /\ Settled(AllTasks) /\ RunningFor(AllTasks) /\ copy[h] = session
      /\ hd.first => rest = {}
      /\ \A x \in rest : \E M, A \in SUBSET rest : Fits(x, {hd} \cup M, A, Fresh, CarriedOut, Authorized, named)
  BY <1>1, <1>2, CalmHandler DEF Fits, FitsTurn
<1>4. PICK failed \in BOOLEAN, offers \in SUBSET Proposals :
        /\ Then(h, <<[do |-> "mark", failed |-> failed, offers |-> offers]>>, session')
        /\ named' = named \cup offers
        /\ ~hd.first => offers \cap named = {}
  <2>1. Requested \subseteq Proposals
    BY KindsAssumption
  <2> QED BY <1>1, <1>3, <2>1 DEF Turn
<1> DEFINE mark == [do |-> "mark", failed |-> failed, offers |-> offers]
<1>5. mark \in Task /\ mark.do = "mark" /\ mark.offers = offers
  BY PlainTasks
<1> HIDE DEF mark
<1>6. CarriedOut' = CarriedOut /\ Authorized' = Authorized /\ Fresh' = Fresh
  BY <1>1, RowsAsBefore
<1>7. Fits(mark, {}, rest, Fresh', CarriedOut', Authorized', named')
  <2>1. ASSUME NEW x \in rest, NEW p \in offers, Starting(x, p) PROVE FALSE
    <3>1. ~hd.first
      BY <1>3
    <3>2. PICK M \in SUBSET rest, A \in SUBSET rest : Fits(x, {hd} \cup M, A, Fresh, CarriedOut, Authorized, named)
      BY <1>3
    <3>3. MayTurn(hd)
      BY <1>1 DEF MayTurn
    <3>4. x.of \in named /\ x.of = p
      BY <2>1, <3>2, <3>3 DEF Fits, FitsExecution, Starting
    <3> QED BY <1>4, <3>1, <3>4
  <2> QED BY <1>4, <1>5, <2>1 DEF Fits, FitsExecution, FitsVerdict, FitsTurn, FitsApproval
<1>8. OneList' /\ AllTasks' = {mark} \cup rest
  <2>1. \A p : ~Offering(hd, p) /\ ~Authorizing(hd, p) /\ ~Working(hd, p)
    BY <1>1 DEF Offering, Authorizing, Working
  <2>2. MayTurn(hd)
    BY <1>1 DEF MayTurn
  <2>3. /\ <<mark>> \in Seq(Task) /\ Elems(<<mark>>) = {mark}
        /\ \A i \in 1..Len(<<mark>>) :
             Fits(<<mark>>[i], Before(<<mark>>, i), After(<<mark>>, i) \cup rest, Fresh', CarriedOut', Authorized', named')
    BY <1>5, <1>7, OneTask, OneFits
  <2>4. Then(h, <<mark>>, session') /\ named \subseteq named'
    BY <1>4 DEF mark
  <2> QED BY <1>1, <1>2, <1>5, <1>6, <2>1, <2>2, <2>3, <2>4, CalmReplaced
<1>9. Settled(AllTasks)'
  BY <1>1, <1>3, <1>6, <1>8, SettledStays
<1>10. RunningFor(AllTasks)'
  <2>1. KeepsRunning(mark)
    BY <1>5 DEF KeepsRunning
  <2> QED BY <1>1, <1>3, <1>6, <1>8, <2>1, RunningStays
<1> QED BY <1>8, <1>9, <1>10 DEF CalmInv

\* The offers of a turn, and the proposals among them that are executed at once.
LEMMA AutoFits ==
  ASSUME NEW offers \in SUBSET Proposals, NEW order \in SetToSeqs(NeedNoOperator(offers)),
         NEW o \in Task, o.do = "offer", o.offers = offers,
         NEW W, \A x \in W, p \in offers : ~Starting(x, p), NEW F, NEW D, NEW U, NEW N, offers \subseteq N
  PROVE  /\ <<o>> \o AutoTasks(order) \in Seq(Task)
         /\ \A i \in 1..Len(<<o>> \o AutoTasks(order)) :
              Fits((<<o>> \o AutoTasks(order))[i], Before(<<o>> \o AutoTasks(order), i),
                   After(<<o>> \o AutoTasks(order), i) \cup W, F, D, U, N)
         /\ \A x \in Elems(<<o>> \o AutoTasks(order)) : x.do # "authorize" /\ x \in Task
         /\ NeedNoOperator(offers) # {} =>
              \E x \in Elems(<<o>> \o AutoTasks(order)) : x.do = "execute" /\ x.of \in AutoRouted
<1> DEFINE S == NeedNoOperator(offers)
           n == Cardinality(S)
           s == AutoTasks(order)
           u == <<o>> \o s
<1>1. n \in Nat /\ (S # {} => n # 0)
  <2>1. IsFiniteSet(S)
    BY FiniteAssumption, FS_Subset DEF Proposals, NeedNoOperator
  <2> QED BY <2>1, FS_CardinalityType, FS_EmptySet
<1>2. order \in [1..n -> S] /\ \A i, j \in 1..n : order[i] = order[j] => i = j
  BY DEF SetToSeqs, IsInjective
<1> HIDE DEF n
<1>3. Len(order) = n
  BY <1>1, <1>2
<1>4. s = [i \in 1..(2 * n) |-> LET p == order[(i + 1) \div 2]
             IN IF i % 2 = 1 THEN [do |-> "execute", of |-> p] ELSE [do |-> "decided", of |-> p, verdict |-> "AUTO"]]
  BY <1>3 DEF AutoTasks
<1> HIDE DEF s
<1>5. ASSUME NEW k \in 1..n
      PROVE  /\ 2 * k - 1 \in 1..(2 * n) /\ 2 * k \in 1..(2 * n)
             /\ s[2 * k - 1] = [do |-> "execute", of |-> order[k]]
             /\ s[2 * k] = [do |-> "decided", of |-> order[k], verdict |-> "AUTO"]
             /\ s[2 * k - 1].do = "execute" /\ s[2 * k - 1].of = order[k]
             /\ s[2 * k].do = "decided" /\ s[2 * k].of = order[k] /\ s[2 * k].verdict = "AUTO"
             /\ order[k] \in offers /\ order[k] \in AutoRouted /\ order[k] \in Proposals
  <2>1. 2 * k - 1 \in 1..(2 * n) /\ 2 * k \in 1..(2 * n) /\ (2 * k - 1) % 2 = 1 /\ (2 * k) % 2 = 0
        /\ (2 * k - 1 + 1) \div 2 = k /\ (2 * k + 1) \div 2 = k
    BY <1>1
  <2>2. order[k] \in S
    BY <1>2
  <2>3. s[2 * k - 1] = [do |-> "execute", of |-> order[k]] /\ s[2 * k] = [do |-> "decided", of |-> order[k], verdict |-> "AUTO"]
    BY <1>4, <2>1
  <2>4. order[k] \in offers /\ order[k] \in AutoRouted /\ order[k] \in Proposals
    BY <2>2 DEF NeedNoOperator
  <2> QED BY <2>1, <2>3, <2>4
<1>6. ASSUME NEW i \in 1..(2 * n)
      PROVE  \E k \in 1..n : i = 2 * k - 1 \/ i = 2 * k
  <2>1. (i + 1) \div 2 \in 1..n /\ (i = 2 * ((i + 1) \div 2) - 1 \/ i = 2 * ((i + 1) \div 2))
    BY <1>1
  <2> QED BY <2>1
<1>7. s \in [1..(2 * n) -> Task] /\ 2 * n \in Nat
  <2>1. ASSUME NEW i \in 1..(2 * n) PROVE s[i] \in Task
    <3>1. PICK k \in 1..n : i = 2 * k - 1 \/ i = 2 * k
      BY <1>6
    <3>2. [do |-> "execute", of |-> order[k]] \in Task /\ [do |-> "decided", of |-> order[k], verdict |-> "AUTO"] \in Task
      BY <1>5, PlainTasks
    <3> QED BY <1>5, <3>1, <3>2
  <2>2. s = [i \in 1..(2 * n) |-> s[i]]
    BY <1>4
  <2>3. s \in [1..(2 * n) -> Task]
    BY <2>1, <2>2
  <2> QED BY <1>1, <2>3
<1>8. s \in Seq(Task) /\ Len(s) = 2 * n
  BY <1>7
<1>9. /\ u \in Seq(Task) /\ Len(u) = 1 + 2 * n /\ Elems(u) = {o} \cup Elems(s)
      /\ u[1] = o
      /\ \A k \in 1..(2 * n) : /\ u[1 + k] = s[k] /\ Before(u, 1 + k) = {o} \cup Before(s, k)
                               /\ After(u, 1 + k) = After(s, k)
  <2>1. <<o>> \in Seq(Task) /\ Len(<<o>>) = 1 /\ <<o>>[1] = o /\ 1 \in 1..1
    OBVIOUS
  <2>2. Elems(<<o>>) = {o} /\ Before(<<o>>, 1) = {}
    BY <2>1, OneTask
  <2> DEFINE f == <<o>>
  <2>3. f \in Seq(Task) /\ s \in Seq(Task) /\ Len(f) = 1 /\ Len(s) = 2 * n /\ u = f \o s
    BY <1>8, <2>1
  <2>4. /\ u \in Seq(Task) /\ u[1] = f[1] /\ Len(u) = 1 + 2 * n
    BY <1>7, <2>3
  <2> HIDE DEF f, u
  <2>7. /\ Elems(f \o s) = Elems(f) \cup Elems(s)
        /\ \A k \in 1..Len(s) : /\ (f \o s)[Len(f) + k] = s[k] /\ Before(f \o s, Len(f) + k) = Elems(f) \cup Before(s, k)
                                /\ After(f \o s, Len(f) + k) = After(s, k)
    BY <2>3, JoinedAround
  <2>5. /\ Elems(u) = Elems(f) \cup Elems(s)
        /\ \A k \in 1..(2 * n) : /\ u[1 + k] = s[k] /\ Before(u, 1 + k) = Elems(f) \cup Before(s, k)
                                 /\ After(u, 1 + k) = After(s, k)
    BY <2>3, <2>7
  <2>6. f[1] = o /\ Elems(f) = {o}
    BY <2>1, <2>2 DEF f
  <2> QED BY <2>3, <2>4, <2>5, <2>6
<1> HIDE DEF u, S
<1>10. \A x \in Elems(u) : x.do # "authorize" /\ x \in Task
  <2>1. ASSUME NEW i \in 1..(2 * n) PROVE s[i].do # "authorize" /\ s[i] \in Task
    <3>1. PICK k \in 1..n : i = 2 * k - 1 \/ i = 2 * k
      BY <1>6
    <3> QED BY <1>5, <1>7, <3>1
  <2>2. \A x \in Elems(s) : x.do # "authorize" /\ x \in Task
    BY <1>8, <2>1 DEF Elems
  <2> QED BY <1>9, <2>2
<1>11. S # {} => \E x \in Elems(u) : x.do = "execute" /\ x.of \in AutoRouted
  <2> SUFFICES ASSUME S # {} PROVE \E x \in Elems(u) : x.do = "execute" /\ x.of \in AutoRouted
    OBVIOUS
  <2>1. 1 \in 1..n
    BY <1>1
  <2>2. 2 * 1 - 1 \in 1..Len(s) /\ s[2 * 1 - 1] = [do |-> "execute", of |-> order[1]] /\ order[1] \in AutoRouted
    BY <1>5, <1>8, <2>1
  <2>3. s[2 * 1 - 1] \in Elems(s)
    BY <2>2 DEF Elems
  <2> QED BY <1>9, <2>2, <2>3
\* Nothing that comes after starts the same proposal once more.
<1>12. ASSUME NEW k \in 1..n, NEW j \in 1..(2 * n), j >= 2 * k PROVE ~Starting(s[j], order[k])
  <2>1. PICK l \in 1..n : j = 2 * l - 1 \/ j = 2 * l
    BY <1>6
  <2>2. CASE j = 2 * l
    <3>1. s[j].do = "decided"
      BY <1>5, <2>2
    <3> QED BY <3>1 DEF Starting
  <2>3. CASE j = 2 * l - 1
    <3>1. l # k
      BY <1>1, <1>12, <2>3
    <3>2. order[l] # order[k] /\ s[j].of = order[l]
      BY <1>2, <1>5, <2>3, <3>1
    <3> QED BY <3>2 DEF Starting
  <2> QED BY <2>1, <2>2, <2>3
<1>13. ASSUME NEW k \in 1..n, NEW i \in {2 * k - 1, 2 * k} PROVE ~\E x \in After(u, 1 + i) \cup W : Starting(x, order[k])
  <2>1. \A x \in W : ~Starting(x, order[k])
    BY <1>5
  <2>2. \A j \in (i + 1)..(2 * n) : j \in 1..(2 * n) /\ j >= 2 * k
    BY <1>1, <1>13
  <2>3. \A x \in After(s, i) : ~Starting(x, order[k])
    BY <1>8, <1>12, <2>2 DEF After
  <2>4. After(u, 1 + i) = After(s, i)
    BY <1>5, <1>9
  <2> QED BY <2>1, <2>3, <2>4
<1>14. ASSUME NEW k \in 1..n PROVE Fits(u[1 + (2 * k - 1)], Before(u, 1 + (2 * k - 1)), After(u, 1 + (2 * k - 1)) \cup W, F, D, U, N)
  <2> DEFINE i == 2 * k - 1
             t == u[1 + i]
  <2>1. i \in 1..(2 * n) /\ i + 1 = 2 * k /\ i + 1 \in (i + 1)..(2 * n)
    BY <1>1, <1>5
  <2>2. t = [do |-> "execute", of |-> order[k]] /\ o \in Before(u, 1 + i) /\ order[k] \in offers
    BY <1>5, <1>9
  <2>3. Offering(o, order[k])
    BY <2>2 DEF Offering
  <2>4. \E x \in After(u, 1 + i) \cup W : Settling(x, order[k])
    <3>1. s[i + 1] \in After(s, i)
      BY <1>8, <2>1 DEF After
    <3>2. Settling(s[i + 1], order[k])
      BY <1>5, <2>1 DEF Settling
    <3>3. After(u, 1 + i) = After(s, i)
      BY <1>9, <2>1
    <3> QED BY <3>1, <3>2, <3>3
  <2>5. ~\E x \in After(u, 1 + i) \cup W : Starting(x, order[k])
    BY <1>13
  <2> HIDE DEF t, i
  <2>6. t.do = "execute" /\ t.of = order[k] /\ order[k] \in N
    BY <2>2
  <2>7. Fits(t, Before(u, 1 + i), After(u, 1 + i) \cup W, F, D, U, N)
    BY <2>2, <2>3, <2>4, <2>5, <2>6 DEF Fits, FitsExecution, FitsVerdict, FitsTurn, FitsApproval
  <2> QED BY <2>7 DEF t, i
<1>15. ASSUME NEW k \in 1..n PROVE Fits(u[1 + 2 * k], Before(u, 1 + 2 * k), After(u, 1 + 2 * k) \cup W, F, D, U, N)
  <2> DEFINE t == u[1 + 2 * k]
  <2>1. 2 * k - 1 \in 1..(2 * k - 1) /\ 2 * k \in 1..(2 * n) /\ 2 * k - 1 \in 1..(2 * n)
    BY <1>1, <1>5
  <2>2. t = [do |-> "decided", of |-> order[k], verdict |-> "AUTO"]
    BY <1>5, <1>9
  <2>3. \E x \in Before(u, 1 + 2 * k) : Working(x, order[k])
    <3>1. s[2 * k - 1] \in Before(s, 2 * k)
      BY <2>1 DEF Before
    <3>2. Working(s[2 * k - 1], order[k])
      BY <1>5 DEF Working
    <3>3. Before(u, 1 + 2 * k) = {o} \cup Before(s, 2 * k)
      BY <1>9, <2>1
    <3> QED BY <3>1, <3>2, <3>3
  <2>4. ~\E x \in After(u, 1 + 2 * k) \cup W : Starting(x, order[k])
    BY <1>13
  <2> HIDE DEF t
  <2>5. t.do = "decided" /\ t.of = order[k] /\ t.verdict = "AUTO"
    BY <2>2
  <2>6. Fits(t, Before(u, 1 + 2 * k), After(u, 1 + 2 * k) \cup W, F, D, U, N)
    BY <2>3, <2>4, <2>5 DEF Fits, FitsExecution, FitsVerdict, FitsTurn, FitsApproval
  <2> QED BY <2>6 DEF t
<1>16. ASSUME NEW i \in 1..Len(u) PROVE Fits(u[i], Before(u, i), After(u, i) \cup W, F, D, U, N)
  <2>1. i = 1 \/ \E j \in 1..(2 * n) : i = 1 + j
    <3>1. i = 1 \/ (i - 1 \in 1..(2 * n) /\ i = 1 + (i - 1))
      BY <1>1, <1>9
    <3> QED BY <3>1
  <2>2. CASE i = 1
    BY <1>9, <2>2, FreeFits
  <2>3. ASSUME NEW j \in 1..(2 * n), i = 1 + j PROVE Fits(u[i], Before(u, i), After(u, i) \cup W, F, D, U, N)
    <3>1. PICK k \in 1..n : j = 2 * k - 1 \/ j = 2 * k
      BY <1>6
    <3> QED BY <1>14, <1>15, <2>3, <3>1
  <2> QED BY <2>1, <2>2, <2>3
<1> QED BY <1>9, <1>10, <1>11, <1>16 DEF u, s, S

LEMMA CalmMark == ASSUME ProposalInv, CalmInv, calm', NEW h \in Handlers, MarkResult(h) PROVE CalmInv'
<1> DEFINE hd == Head(todo[h])
           rest == Elems(Tail(todo[h]))
           o == [do |-> "offer", offers |-> hd.offers]
<1>1. todo[h] # <<>> /\ hd.do = "mark" /\ UNCHANGED <<invoked, action, standing, named, approved, starts>>
  BY DEF MarkResult, Doing, history
<1>2. calm /\ session' = StatusAfterTurn(hd.failed, hd.offers)
  <2>1. Mishap \/ UNCHANGED mishaps
    BY DEF MarkResult, BestEffort
  <2> QED BY <2>1, CalmWas DEF MarkResult, BestEffort
<1>3. PICK order \in SetToSeqs(NeedNoOperator(hd.offers)) : Then(h, <<o>> \o AutoTasks(order), session')
  BY <1>2 DEF MarkResult
<1>4. /\ AllTasks = {hd} \cup rest /\ Settled(AllTasks) /\ hd \in Task /\ hd.offers \in SUBSET Proposals
      /\ hd.offers \subseteq named /\ \A x \in rest, p \in hd.offers : ~Starting(x, p)
  <2>1. hd \in Task /\ hd.offers \in SUBSET Proposals
    BY <1>1, FirstTask, TaskFields
  <2> QED BY <1>1, <1>2, <2>1, CalmHandler DEF Fits, FitsTurn
<1>5. CarriedOut' = CarriedOut /\ Authorized' = Authorized /\ Fresh' = Fresh
  BY <1>1, RowsAsBefore
<1> DEFINE u == <<o>> \o AutoTasks(order)
<1>6. /\ u \in Seq(Task)
      /\ \A i \in 1..Len(u) : Fits(u[i], Before(u, i), After(u, i) \cup rest, Fresh', CarriedOut', Authorized', named')
      /\ \A x \in Elems(u) : x.do # "authorize" /\ x \in Task
      /\ NeedNoOperator(hd.offers) # {} => \E x \in Elems(u) : x.do = "execute" /\ x.of \in AutoRouted
  <2>1. o \in Task /\ o.do = "offer" /\ o.offers = hd.offers
    BY <1>4, PlainTasks
  <2>2. hd.offers \subseteq named'
    BY <1>1, <1>4
  <2> HIDE DEF o, rest
  <2> DEFINE F2 == Fresh'
             D2 == CarriedOut'
             U2 == Authorized'
             N2 == named'
             offers == hd.offers
  <2>3. offers \in SUBSET Proposals /\ order \in SetToSeqs(NeedNoOperator(offers)) /\ o.offers = offers /\ offers \subseteq N2
        /\ \A x \in rest, p \in offers : ~Starting(x, p)
    BY <1>4, <2>1, <2>2
  <2> HIDE DEF F2, D2, U2, N2, offers
  <2>4. /\ <<o>> \o AutoTasks(order) \in Seq(Task)
        /\ \A i \in 1..Len(<<o>> \o AutoTasks(order)) :
             Fits((<<o>> \o AutoTasks(order))[i], Before(<<o>> \o AutoTasks(order), i),
                  After(<<o>> \o AutoTasks(order), i) \cup rest, F2, D2, U2, N2)
        /\ \A x \in Elems(<<o>> \o AutoTasks(order)) : x.do # "authorize" /\ x \in Task
        /\ NeedNoOperator(offers) # {} =>
             \E x \in Elems(<<o>> \o AutoTasks(order)) : x.do = "execute" /\ x.of \in AutoRouted
    BY <2>1, <2>3, AutoFits
  <2> QED BY <2>4 DEF u, F2, D2, U2, N2, offers
<1>7. Then(h, u, session')
  BY <1>3
<1> HIDE DEF u, o
<1>8. OneList' /\ AllTasks' = Elems(u) \cup rest
  <2>1. \A p : ~Offering(hd, p) /\ ~Authorizing(hd, p) /\ ~Working(hd, p)
    BY <1>1 DEF Offering, Authorizing, Working
  <2>2. MayTurn(hd)
    BY <1>1 DEF MayTurn
  <2> QED BY <1>1, <1>2, <1>5, <1>6, <1>7, <2>1, <2>2, CalmReplaced
<1>9. Settled(AllTasks)'
  BY <1>1, <1>4, <1>5, <1>8, SettledStays
<1>10. RunningFor(AllTasks)'
  <2>1. session' = "RUNNING" => NeedNoOperator(hd.offers) # {}
    BY <1>2 DEF StatusAfterTurn
  <2>2. AutoRouted \cap Advisory = {}
    BY KindsAssumption DEF Reviewed
  <2>3. session' = "RUNNING" => \E x \in AllTasks' : KeepsRunning(x)
    BY <1>6, <1>8, <2>1, <2>2 DEF KeepsRunning
  <2> QED BY <2>3 DEF RunningFor
<1> QED BY <1>8, <1>9, <1>10 DEF CalmInv

LEMMA CalmOffers == ASSUME ProposalInv, CalmInv, calm', NEW h \in Handlers, LogOffers(h) PROVE CalmInv'
<1> DEFINE hd == Head(todo[h])
           rest == Elems(Tail(todo[h]))
<1>1. todo[h] # <<>> /\ hd.do = "offer" /\ Then(h, <<>>, copy[h]) /\ UNCHANGED <<session, invoked, action, named, approved>>
  BY DEF LogOffers, Doing
<1>2. calm /\ Offered(hd.offers) /\ hd.offers \in SUBSET Proposals
  <2>1. PICK logged \in SUBSET hd.offers :
          Offered(logged) /\ IF logged = hd.offers THEN UNCHANGED mishaps ELSE Mishap
    BY DEF LogOffers
  <2>2. calm /\ logged = hd.offers
    BY <2>1, CalmWas
  <2>3. hd.offers \in SUBSET Proposals
    BY <1>1, FirstTask, TaskFields
  <2> QED BY <2>1, <2>2, <2>3
<1>3. AllTasks = {hd} \cup rest /\ Settled(AllTasks) /\ RunningFor(AllTasks) /\ copy[h] = session
      /\ \A x \in rest : x \in Task
  BY <1>1, <1>2, CalmHandler
<1>4. CarriedOut' = CarriedOut /\ Authorized' = Authorized
  BY <1>1, RowsAsBefore
<1>5. /\ \A p \in Proposals : standing'[p] = IF p \in hd.offers THEN "PENDING" ELSE standing[p]
      /\ \A p \in Proposals : starts'[p] = IF p \in hd.offers THEN 0 ELSE starts[p]
  BY <1>2 DEF Offered
<1>6. \A p \in Proposals : p \in Fresh \/ p \in hd.offers => p \in Fresh'
  BY <1>5 DEF Fresh
<1>7. OneList' /\ AllTasks' = rest
  <2>1. <<>> \in Seq(Task) /\ Len(<<>>) = 0 /\ \A i \in 1..0 : FALSE
    OBVIOUS
  <2>2. \A p : ~Authorizing(hd, p) /\ ~Working(hd, p)
    BY <1>1 DEF Authorizing, Working
  <2>3. \A t \in rest : t.do \in {"execute", "run"} /\ (t.of \in Fresh \/ Offering(hd, t.of)) => t.of \in Fresh'
    BY <1>3, <1>6, TaskFields DEF Offering
  <2>4. Then(h, <<>>, session') /\ named \subseteq named'
    BY <1>1, <1>3
  <2> QED BY <1>1, <1>2, <1>4, <2>1, <2>2, <2>3, <2>4, NoTasks, CalmReplaced
<1>8. Settled(AllTasks)'
  <2> SUFFICES ASSUME NEW p \in Proposals
               PROVE  /\ starts'[p] < 2
                      /\ standing'[p] = "DENY" => starts'[p] = 0
                      /\ standing'[p] \in {"APPROVE", "AUTO"} /\ p \notin Advisory => p \in CarriedOut'
                      /\ standing'[p] = "PENDING" /\ starts'[p] # 0 => \E x \in AllTasks' : Settling(x, p)
    BY DEF Settled
  <2>1. CASE p \in hd.offers
    BY <1>5, <2>1
  <2>2. CASE p \notin hd.offers
    <3>1. standing'[p] = standing[p] /\ starts'[p] = starts[p]
      BY <1>5, <2>2
    <3>2. /\ starts[p] < 2 /\ (standing[p] = "DENY" => starts[p] = 0)
          /\ standing[p] \in {"APPROVE", "AUTO"} /\ p \notin Advisory => p \in CarriedOut
          /\ standing[p] = "PENDING" /\ starts[p] # 0 => \E x \in {hd} \cup rest : Settling(x, p)
      BY <1>3 DEF Settled
    <3>3. ~Settling(hd, p)
      BY <1>1 DEF Settling
    <3> QED BY <1>4, <1>7, <3>1, <3>2, <3>3
  <2> QED BY <2>1, <2>2
<1>9. RunningFor(AllTasks)'
  <2>1. ~KeepsRunning(hd)
    BY <1>1 DEF KeepsRunning
  <2> QED BY <1>1, <1>3, <1>4, <1>7, <2>1, RunningStays
<1> QED BY <1>7, <1>8, <1>9 DEF CalmInv

\* The tasks an approval sets going.
LEMMA ApprovalFits ==
  ASSUME NEW p \in Proposals, NEW F, p \in F, NEW D, NEW U, NEW N
  PROVE  /\ ApprovalTasks(p) \in Seq(Task) /\ Orderly(ApprovalTasks(p), F, D, U, N)
         /\ Elems(ApprovalTasks(p)) = {[do |-> "authorize", of |-> p], [do |-> "promote"], [do |-> "execute", of |-> p],
                                       Decided(p, "APPROVE")}
<1> DEFINE s == ApprovalTasks(p)
           t1 == [do |-> "authorize", of |-> p]
           t2 == [do |-> "promote"]
           t3 == [do |-> "execute", of |-> p]
           t4 == Decided(p, "APPROVE")
<1>1. s = <<t1, t2, t3, t4>> /\ t1 \in Task /\ t2 \in Task /\ t3 \in Task /\ t4 \in Task
  BY PlainTasks DEF ApprovalTasks, Decided
<1>2. /\ t1.do = "authorize" /\ t1.of = p /\ t2.do = "promote" /\ t3.do = "execute" /\ t3.of = p
      /\ t4.do = "decided" /\ t4.of = p /\ t4.verdict = "APPROVE"
  BY DEF Decided
<1> HIDE DEF t1, t2, t3, t4
<1>3. s \in Seq(Task) /\ Len(s) = 4 /\ s[1] = t1 /\ s[2] = t2 /\ s[3] = t3 /\ s[4] = t4
  BY <1>1
<1> HIDE DEF s
<1>4. /\ 1..Len(s) = {1, 2, 3, 4} /\ 1..(1 - 1) = {} /\ (1 + 1)..Len(s) = {2, 3, 4} /\ 1..(2 - 1) = {1}
      /\ (2 + 1)..Len(s) = {3, 4} /\ 1..(3 - 1) = {1, 2} /\ (3 + 1)..Len(s) = {4}
      /\ 1..(4 - 1) = {1, 2, 3} /\ (4 + 1)..Len(s) = {}
  BY <1>3
<1>5. /\ Elems(s) = {t1, t2, t3, t4}
      /\ Before(s, 1) = {} /\ Before(s, 2) = {t1} /\ Before(s, 3) = {t1, t2} /\ Before(s, 4) = {t1, t2, t3}
      /\ After(s, 2) = {t3, t4} /\ After(s, 3) = {t4} /\ After(s, 4) = {}
  BY <1>3, <1>4 DEF Elems, Before, After
<1>6. Fits(t1, Before(s, 1), After(s, 1), F, D, U, N)
  BY <1>2, <1>5 DEF Fits, FitsExecution, FitsVerdict, FitsTurn, FitsApproval
<1>7. Fits(t2, Before(s, 2), After(s, 2), F, D, U, N)
  BY <1>2, <1>5 DEF Fits, FitsExecution, FitsVerdict, FitsTurn, FitsApproval, Authorizing
<1>8. Fits(t3, Before(s, 3), After(s, 3), F, D, U, N)
  <2>1. Settling(t4, p) /\ ~Starting(t4, p) /\ ~MayTurn(t1) /\ ~MayTurn(t2)
    BY <1>2 DEF Settling, Starting, MayTurn
  <2> QED BY <1>2, <1>5, <2>1 DEF Fits, FitsExecution, FitsVerdict, FitsTurn, FitsApproval
<1>9. Fits(t4, Before(s, 4), After(s, 4), F, D, U, N)
  <2>1. Working(t3, p)
    BY <1>2 DEF Working
  <2> QED BY <1>2, <1>5, <2>1 DEF Fits, FitsExecution, FitsVerdict, FitsTurn, FitsApproval
<1>10. Orderly(s, F, D, U, N)
  BY <1>3, <1>4, <1>6, <1>7, <1>8, <1>9 DEF Orderly
<1> QED BY <1>3, <1>5, <1>10 DEF s, t1, t2, t3, t4

LEMMA CalmFind == ASSUME ProposalInv, CalmInv, calm', NEW h \in Handlers, Find(h) PROVE CalmInv'
<1> DEFINE hd == Head(todo[h])
           rest == Elems(Tail(todo[h]))
           p == hd.of
           approves == hd.verdict = "APPROVE"
<1>1. todo[h] # <<>> /\ hd.do = "find" /\ UNCHANGED <<session, invoked, action, standing, named, starts, mishaps>>
  BY DEF Find, Doing
<1>2. calm /\ p \in Proposals
  BY <1>1, CalmWas, FirstTask, TaskFields
<1>3. AllTasks = {hd} \cup rest /\ Settled(AllTasks) /\ RunningFor(AllTasks) /\ copy[h] = session /\ rest = {}
  BY <1>1, <1>2, CalmHandler DEF Fits, FitsTurn
<1>4. CarriedOut' = CarriedOut /\ Authorized' = Authorized /\ Fresh' = Fresh /\ named' = named
  BY <1>1, RowsAsBefore
<1>5. Undecided(p) => p \in Fresh
  <2>1. ~Settling(hd, p)
    BY <1>1 DEF Settling
  <2> QED BY <1>2, <1>3, <2>1 DEF Settled, Undecided, Fresh
<1>6. PICK tasks \in Seq(Task) :
        /\ Then(h, tasks, session') /\ Orderly(tasks, Fresh, CarriedOut, Authorized, named)
  <2>1. CASE ~Undecided(p)
    <3>1. Then(h, <<>>, session')
      BY <1>1, <1>3, <2>1 DEF Find
    <3>2. <<>> \in Seq(Task) /\ Len(<<>>) = 0 /\ \A i \in 1..0 : FALSE
      OBVIOUS
    <3> QED BY <3>1, <3>2 DEF Orderly
  <2>2. CASE Undecided(p) /\ ~approves
    <3> DEFINE t == Decided(p, "DENY")
    <3>1. Then(h, <<t>>, session')
      BY <1>1, <1>3, <2>2 DEF Find
    <3>2. t \in Task /\ t.do = "decided" /\ t.of = p /\ t.verdict = "DENY"
      BY <1>2, PlainTasks DEF Decided
    <3> HIDE DEF t
    <3>3. Fits(t, {}, {}, Fresh, CarriedOut, Authorized, named)
      BY <1>5, <2>2, <3>2 DEF Fits, FitsExecution, FitsVerdict, FitsTurn, FitsApproval
    <3>4. <<t>> \in Seq(Task) /\ Orderly(<<t>>, Fresh, CarriedOut, Authorized, named)
      BY <3>2, <3>3, OneTask DEF Orderly
    <3> QED BY <3>1, <3>4
  <2>3. CASE Undecided(p) /\ approves
    <3>1. Then(h, ApprovalTasks(p), session')
      BY <1>1, <1>3, <2>3 DEF Find
    <3>2. p \in Fresh
      BY <1>5, <2>3
    <3> DEFINE F == Fresh
               D == CarriedOut
               U == Authorized
               q == p
    <3> HIDE DEF F, D, U, q
    <3>3. q \in Proposals /\ q \in F
      BY <1>2, <3>2 DEF F, q
    <3>4. ApprovalTasks(q) \in Seq(Task) /\ Orderly(ApprovalTasks(q), F, D, U, named)
      BY <3>3, ApprovalFits
    <3> QED BY <3>1, <3>4 DEF F, D, U, q
  <2> QED BY <2>1, <2>2, <2>3
<1>7. OneList' /\ AllTasks' = Elems(tasks)
  <2>1. \A i \in 1..Len(tasks) :
          Fits(tasks[i], Before(tasks, i), After(tasks, i) \cup rest, Fresh', CarriedOut', Authorized', named')
    <3>1. \A S : S \cup rest = S
      BY <1>3
    <3>2. \A i \in 1..Len(tasks) : Fits(tasks[i], Before(tasks, i), After(tasks, i), Fresh', CarriedOut', Authorized', named')
      BY <1>4, <1>6 DEF Orderly
    <3> QED BY <3>1, <3>2
  <2>2. \A t \in rest : FALSE
    BY <1>3
  <2>3. Then(h, tasks, session')
    BY <1>6
  <2>4. OneList' /\ AllTasks' = Elems(tasks) \cup rest
    BY <1>1, <1>2, <2>1, <2>2, <2>3, CalmThen
  <2> QED BY <1>3, <2>4
<1>8. Settled(AllTasks)'
  BY <1>1, <1>3, <1>4, <1>7, SettledStays
<1>9. RunningFor(AllTasks)'
  <2>1. ~KeepsRunning(hd)
    BY <1>1 DEF KeepsRunning
  <2> QED BY <1>1, <1>3, <1>4, <2>1, RunningStays
<1> QED BY <1>7, <1>8, <1>9 DEF CalmInv

LEMMA NoneFit == <<>> \in Seq(Task) /\ Elems(<<>>) = {} /\ \A i \in 1..Len(<<>>) : FALSE
<1>1. <<>> \in Seq(Task) /\ Len(<<>>) = 0 /\ \A i \in 1..0 : FALSE
  OBVIOUS
<1> QED BY <1>1, NoTasks

LEMMA CalmAuthorize == ASSUME ProposalInv, CalmInv, calm', NEW h \in Handlers, Authorize(h) PROVE CalmInv'
<1> DEFINE hd == Head(todo[h])
           rest == Elems(Tail(todo[h]))
           p == hd.of
<1>1. /\ todo[h] # <<>> /\ hd.do = "authorize" /\ Then(h, <<>>, copy[h]) /\ action' = [action EXCEPT ![p] = "AUTHORIZED"]
      /\ UNCHANGED <<session, invoked, standing, named, approved, starts, mishaps>>
  BY DEF Authorize, Doing, history
<1>2. calm /\ action \in [Proposals -> ActionStatus]
  BY <1>1, CalmWas DEF ProposalInv, TypeOK
<1>3. AllTasks = {hd} \cup rest /\ Settled(AllTasks) /\ RunningFor(AllTasks) /\ copy[h] = session /\ p \in Fresh
  BY <1>1, <1>2, CalmHandler DEF Fits, FitsApproval
<1>4. p \in Proposals /\ standing[p] = "PENDING"
  BY <1>3 DEF Fresh
<1>5. /\ Fresh' = Fresh
      /\ \A q : q # p => (q \in CarriedOut <=> q \in CarriedOut') /\ (q \in Authorized <=> q \in Authorized')
      /\ p \in Authorized'
  BY <1>1, <1>2, <1>4, RowsAsBefore DEF CarriedOut, Authorized
<1>6. OneList' /\ AllTasks' = rest
  <2>1. \A q : ~Offering(hd, q) /\ ~Working(hd, q) /\ (Authorizing(hd, q) <=> q = p)
    BY <1>1 DEF Offering, Authorizing, Working
  <2>2. Then(h, <<>>, session')
    BY <1>1, <1>3
  <2>3. \A q : (q \in CarriedOut /\ ~Authorizing(hd, q)) \/ Working(hd, q) => q \in CarriedOut'
    BY <1>5, <2>1
  <2>4. \A q \in Advisory : q \in Authorized \/ Authorizing(hd, q) => q \in Authorized'
    BY <1>5, <2>1
  <2> QED BY <1>1, <1>2, <1>5, <2>1, <2>2, <2>3, <2>4, NoneFit, CalmReplaced
<1>7. Settled(AllTasks)'
  BY <1>1, <1>3, <1>4, <1>5, <1>6, SettledStays
<1>8. RunningFor(AllTasks)'
  <2>1. ~KeepsRunning(hd)
    BY <1>1 DEF KeepsRunning
  <2> QED BY <1>1, <1>3, <1>5, <1>6, <2>1, RunningStays
<1> QED BY <1>6, <1>7, <1>8 DEF CalmInv

\* The session runs for the execution that follows, or for an advisory proposal.
LEMMA CalmPromote == ASSUME ProposalInv, CalmInv, calm', NEW h \in Handlers, Promote(h) PROVE CalmInv'
<1> DEFINE hd == Head(todo[h])
           rest == Elems(Tail(todo[h]))
<1>1. todo[h] # <<>> /\ hd.do = "promote" /\ UNCHANGED <<invoked, action, standing, named, approved, starts, mishaps>>
  BY DEF Promote, Doing, history
<1>2. calm
  BY <1>1, CalmWas
<1>3. /\ AllTasks = {hd} \cup rest /\ Settled(AllTasks) /\ RunningFor(AllTasks) /\ copy[h] = session
      /\ \E x \in rest : x.do = "execute" /\ (x.of \notin Advisory \/ x.of \in Authorized)
  BY <1>1, <1>2, CalmHandler DEF Fits, FitsApproval
<1>4. CarriedOut' = CarriedOut /\ Authorized' = Authorized /\ Fresh' = Fresh
  BY <1>1, RowsAsBefore
<1>5. Then(h, <<>>, session')
  BY <1>3 DEF Promote
<1>6. OneList' /\ AllTasks' = rest
  <2>1. \A p : ~Offering(hd, p) /\ ~Authorizing(hd, p) /\ ~Working(hd, p)
    BY <1>1 DEF Offering, Authorizing, Working
  <2> QED BY <1>1, <1>2, <1>4, <1>5, <2>1, NoneFit, CalmReplaced
<1>7. Settled(AllTasks)'
  BY <1>1, <1>3, <1>4, <1>6, SettledStays
<1>8. RunningFor(AllTasks)'
  <2>1. PICK x \in rest : x.do = "execute" /\ (x.of \notin Advisory \/ x.of \in Authorized)
    BY <1>3
  <2>2. (\E y \in AllTasks' : KeepsRunning(y)) \/ Advisory \cap Authorized' # {}
    BY <1>4, <1>6, <2>1 DEF KeepsRunning
  <2> QED BY <2>2 DEF RunningFor
<1> QED BY <1>6, <1>7, <1>8 DEF CalmInv

LEMMA CalmLogDecision == ASSUME ProposalInv, CalmInv, calm', NEW h \in Handlers, LogDecision(h) PROVE CalmInv'
<1> DEFINE hd == Head(todo[h])
           rest == Elems(Tail(todo[h]))
           p == hd.of
<1>1. todo[h] # <<>> /\ hd.do = "decided" /\ Then(h, <<>>, copy[h]) /\ UNCHANGED <<session, invoked, action, named, approved, starts>>
  BY DEF LogDecision, Doing, history
<1>2. calm /\ standing' = [standing EXCEPT ![p] = hd.verdict] /\ standing \in [Proposals -> Standing]
  <2>1. Mishap \/ UNCHANGED mishaps
    BY DEF LogDecision, BestEffort
  <2> QED BY <2>1, CalmWas DEF LogDecision, BestEffort, ProposalInv, TypeOK
<1>3. p \in Proposals /\ hd.verdict \in {"APPROVE", "DENY", "AUTO"}
  BY <1>1, FirstTask, TaskFields
<1>4. /\ AllTasks = {hd} \cup rest /\ Settled(AllTasks) /\ RunningFor(AllTasks) /\ copy[h] = session
      /\ hd.verdict = "DENY" => p \in Fresh /\ rest = {}
      /\ hd.verdict # "DENY" => (p \in Advisory \/ p \in CarriedOut) /\ \A x \in rest : ~Starting(x, p)
  BY <1>1, <1>2, CalmHandler DEF Fits, FitsVerdict
<1>5. /\ CarriedOut' = CarriedOut /\ Authorized' = Authorized /\ \A q : q # p /\ q \in Fresh => q \in Fresh'
      /\ \A q \in Proposals : starts'[q] = starts[q] /\ standing'[q] = IF q = p THEN hd.verdict ELSE standing[q]
  BY <1>1, <1>2, RowsAsBefore DEF Fresh
<1>6. OneList' /\ AllTasks' = rest
  <2>1. \A q : ~Offering(hd, q) /\ ~Authorizing(hd, q) /\ ~Working(hd, q)
    BY <1>1 DEF Offering, Authorizing, Working
  <2>2. \A t \in rest : t.do \in {"execute", "run"} /\ (t.of \in Fresh \/ Offering(hd, t.of)) => t.of \in Fresh'
    BY <1>4, <1>5, <2>1 DEF Starting
  <2>3. Then(h, <<>>, session')
    BY <1>1, <1>4
  <2> QED BY <1>1, <1>2, <1>5, <2>1, <2>2, <2>3, NoneFit, CalmReplaced
<1>7. Settled(AllTasks)'
  <2> SUFFICES ASSUME NEW q \in Proposals
               PROVE  /\ starts'[q] < 2
                      /\ standing'[q] = "DENY" => starts'[q] = 0
                      /\ standing'[q] \in {"APPROVE", "AUTO"} /\ q \notin Advisory => q \in CarriedOut'
                      /\ standing'[q] = "PENDING" /\ starts'[q] # 0 => \E x \in AllTasks' : Settling(x, q)
    BY DEF Settled
  <2>1. /\ starts[q] < 2 /\ (standing[q] = "DENY" => starts[q] = 0)
        /\ standing[q] \in {"APPROVE", "AUTO"} /\ q \notin Advisory => q \in CarriedOut
        /\ standing[q] = "PENDING" /\ starts[q] # 0 => \E x \in {hd} \cup rest : Settling(x, q)
    BY <1>4 DEF Settled
  <2>2. CASE q = p
    <3>1. hd.verdict = "DENY" => starts[q] = 0
      BY <1>4, <2>2 DEF Fresh
    <3> QED BY <1>3, <1>4, <1>5, <2>1, <2>2, <3>1
  <2>3. CASE q # p
    <3>1. ~Settling(hd, q)
      BY <2>3 DEF Settling
    <3> QED BY <1>5, <1>6, <2>1, <2>3, <3>1
  <2> QED BY <2>2, <2>3
<1>8. RunningFor(AllTasks)'
  <2>1. ~KeepsRunning(hd)
    BY <1>1 DEF KeepsRunning
  <2> QED BY <1>1, <1>4, <1>5, <1>6, <2>1, RunningStays
<1> QED BY <1>6, <1>7, <1>8 DEF CalmInv

\* A row saved for a proposal that is not advisory and was not decided.
LEMMA RowSaved ==
  ASSUME ProposalInv, NEW p \in Proposals, p \notin Advisory, NEW status, action' = [action EXCEPT ![p] = status]
  PROVE  /\ \A q : q # p => (q \in CarriedOut <=> q \in CarriedOut')
         /\ \A q \in Advisory : q \in Authorized => q \in Authorized'
         /\ status \in Finished => p \in CarriedOut'
<1>1. action \in [Proposals -> ActionStatus]
  BY DEF ProposalInv, TypeOK
<1> QED BY <1>1 DEF CarriedOut, Authorized

LEMMA CalmExecute == ASSUME ProposalInv, CalmInv, calm', NEW h \in Handlers, Execute(h) PROVE CalmInv'
<1> DEFINE hd == Head(todo[h])
           rest == Elems(Tail(todo[h]))
           p == hd.of
<1>1. todo[h] # <<>> /\ hd.do = "execute" /\ UNCHANGED <<session, invoked, standing, named, approved, starts>>
  BY DEF Execute, Doing, history
<1>2. calm /\ ~Mishap
  <2>1. Mishap \/ UNCHANGED mishaps
    BY DEF Execute, SaveAction, BestEffort
  <2> QED BY <2>1, CalmWas
<1>3. p \in Proposals
  BY <1>1, FirstTask, TaskFields
<1>4. /\ AllTasks = {hd} \cup rest /\ Settled(AllTasks) /\ RunningFor(AllTasks) /\ copy[h] = session
      /\ p \in Fresh /\ (\A x \in rest : ~Starting(x, p)) /\ \E x \in rest : Settling(x, p)
  BY <1>1, <1>2, CalmHandler DEF Fits, FitsExecution
<1>5. Fresh' = Fresh /\ standing[p] = "PENDING"
  BY <1>1, <1>4, RowsAsBefore DEF Fresh
<1>6. \A q : ~Offering(hd, q) /\ ~Authorizing(hd, q) /\ (Working(hd, q) <=> q = p)
  BY <1>1 DEF Offering, Authorizing, Working
<1>7. MayTurn(hd)
  BY <1>1 DEF MayTurn
<1>8. CASE p \in Advisory /\ Then(h, <<>>, copy[h]) /\ UNCHANGED action
  <2>1. CarriedOut' = CarriedOut /\ Authorized' = Authorized
    BY <1>8, RowsAsBefore
  <2>2. ASSUME NEW t \in rest, NEW M \in SUBSET rest, NEW A \in SUBSET rest,
               Fits(t, {hd} \cup M, A, Fresh, CarriedOut, Authorized, named)
        PROVE  Fits(t, Elems(<<>>) \cup M, A, Fresh', CarriedOut', Authorized', named')
    <3>1. \A x \in M : x.do # "authorize"
      BY <1>1, <1>2, CalmHandler
    <3>2. \A x \in M : ~Authorizing(x, t.of)
      BY <3>1 DEF Authorizing
    <3>3. FitsVerdict(t, M, A, Fresh, CarriedOut)
      <4>1. Working(hd, t.of) => t.of \in Advisory
        BY <1>6, <1>8
      <4> QED BY <2>2, <3>2, <4>1 DEF Fits, FitsVerdict
    <3>4. FitsExecution(t, M, A, Fresh, named)
      BY <1>6, <2>2 DEF Fits, FitsExecution
    <3>5. FitsTurn(t, A, named)
      BY <2>2 DEF Fits
    <3>6. FitsApproval(t, M, A, Fresh, Authorized)
      BY <1>6, <2>2 DEF Fits, FitsApproval
    <3>7. Elems(<<>>) \cup M = M /\ named' = named
      BY <1>1, NoTasks
    <3> QED BY <1>5, <2>1, <3>3, <3>4, <3>5, <3>6, <3>7 DEF Fits
  <2>3. OneList' /\ AllTasks' = rest
    <3>1. Then(h, <<>>, session')
      BY <1>1, <1>4, <1>8
    <3> QED BY <1>1, <1>2, <2>2, <3>1, NoneFit, CalmThen
  <2>4. Settled(AllTasks)'
    BY <1>1, <1>4, <2>1, <2>3, SettledStays
  <2>5. RunningFor(AllTasks)'
    <3>1. ~KeepsRunning(hd)
      BY <1>1, <1>8 DEF KeepsRunning
    <3> QED BY <1>1, <1>4, <2>1, <2>3, <3>1, RunningStays
  <2> QED BY <2>3, <2>4, <2>5 DEF CalmInv
<1>9. ASSUME NEW status, NEW t \in Task, p \notin Advisory, action' = [action EXCEPT ![p] = status], Then(h, <<t>>, copy[h]),
             \/ status = "FAILED" /\ t.do = "continue"
             \/ t.do = "run" /\ t.of = p
      PROVE  CalmInv'
  <2>1. /\ \A q : q # p => (q \in CarriedOut <=> q \in CarriedOut')
        /\ \A q \in Advisory : q \in Authorized => q \in Authorized'
        /\ status \in Finished => p \in CarriedOut'
    BY <1>3, <1>9, RowSaved
  <2>2. status = "FAILED" => p \in CarriedOut'
    BY <2>1 DEF Finished
  <2>3. Fits(t, {}, rest, Fresh', CarriedOut', Authorized', named')
    <3>1. CASE t.do = "continue"
      BY <3>1, FreeFits
    <3>2. CASE t.do = "run" /\ t.of = p
      BY <1>4, <1>5, <1>9, <3>2 DEF Fits, FitsExecution, FitsVerdict, FitsTurn, FitsApproval
    <3> QED BY <1>9, <3>1, <3>2
  <2>4. OneList' /\ AllTasks' = {t} \cup rest
    <3>1. /\ <<t>> \in Seq(Task) /\ Elems(<<t>>) = {t}
          /\ \A i \in 1..Len(<<t>>) :
               Fits(<<t>>[i], Before(<<t>>, i), After(<<t>>, i) \cup rest, Fresh', CarriedOut', Authorized', named')
      BY <2>3, OneTask, OneFits
    <3>2. Then(h, <<t>>, session')
      BY <1>1, <1>4, <1>9
    <3>3. t.do = "run" /\ t.of = p => Working(t, p)
      BY DEF Working
    <3>4. \A q : (q \in CarriedOut /\ ~Authorizing(hd, q)) \/ Working(hd, q)
                   => q \in CarriedOut' \/ \E x \in Elems(<<t>>) : Working(x, q)
      BY <1>6, <1>9, <2>1, <2>2, <3>1, <3>3
    <3>5. \A q \in Advisory : q \in Authorized \/ Authorizing(hd, q) => q \in Authorized'
      BY <1>6, <2>1
    <3>6. \A x \in Elems(<<t>>) : x.do # "authorize"
      BY <1>9, <3>1
    <3>7. \A x \in rest : x.do \in {"execute", "run"} /\ (x.of \in Fresh \/ Offering(hd, x.of)) => x.of \in Fresh'
      BY <1>5, <1>6
    <3> QED BY <1>1, <1>2, <1>7, <3>1, <3>2, <3>4, <3>5, <3>6, <3>7, CalmReplaced
  <2>5. Settled(AllTasks)'
    <3>1. \A q \in Proposals : standing[q] \in {"APPROVE", "AUTO"} /\ q \in CarriedOut => q \in CarriedOut'
      BY <1>5, <2>1
    <3> QED BY <1>1, <1>4, <2>4, <3>1, SettledStays
  <2>6. RunningFor(AllTasks)'
    <3>1. KeepsRunning(t)
      BY <1>9 DEF KeepsRunning
    <3> QED BY <2>4, <3>1 DEF RunningFor
  <2> QED BY <2>4, <2>5, <2>6 DEF CalmInv
<1>10. CASE /\ p \in Invalid \cup AutoRouted
            /\ SaveAction(p, "FAILED") /\ Then(h, <<[do |-> "continue"]>>, copy[h])
  <2> DEFINE t == [do |-> "continue"]
  <2>1. t \in Task /\ t.do = "continue" /\ Then(h, <<t>>, copy[h])
    BY <1>10, PlainTasks
  <2>2. p \notin Advisory
    BY <1>10, KindsAssumption DEF Reviewed
  <2>3. action' = [action EXCEPT ![p] = "FAILED"]
    BY <1>2, <1>10 DEF SaveAction, BestEffort
  <2> HIDE DEF t
  <2> QED BY <1>9, <2>1, <2>2, <2>3
<1>11. CASE /\ p \in Commands \cup AutoRouted
            /\ SaveAction(p, "STARTED") /\ Then(h, <<[do |-> "run", of |-> p]>>, copy[h])
  <2> DEFINE t == [do |-> "run", of |-> p]
  <2>1. t \in Task /\ t.do = "run" /\ t.of = p /\ Then(h, <<t>>, copy[h])
    BY <1>3, <1>11, PlainTasks
  <2>2. p \notin Advisory
    BY <1>11, KindsAssumption DEF Reviewed
  <2>3. action' = [action EXCEPT ![p] = "STARTED"]
    BY <1>2, <1>11 DEF SaveAction, BestEffort
  <2> HIDE DEF t
  <2> QED BY <1>9, <2>1, <2>2, <2>3
<1> QED BY <1>8, <1>10, <1>11 DEF Execute

\* The command takes place once since the proposal was offered, and will be logged.
LEMMA CalmRun == ASSUME ProposalInv, CalmInv, calm', NEW h \in Handlers, Run(h) PROVE CalmInv'
<1> DEFINE hd == Head(todo[h])
           rest == Elems(Tail(todo[h]))
           p == hd.of
<1>1. /\ todo[h] # <<>> /\ hd.do = "run" /\ UNCHANGED <<session, invoked, action, standing, named, approved, mishaps>>
      /\ starts' = [starts EXCEPT ![p] = IF starts[p] = 2 THEN 2 ELSE starts[p] + 1]
  BY DEF Run, Doing
<1>2. calm /\ p \in Proposals /\ starts \in [Proposals -> 0..2]
  BY <1>1, CalmWas, FirstTask, TaskFields DEF ProposalInv, TypeOK
<1>3. PICK status \in {"COMPLETED", "FAILED"} :
        Then(h, <<[do |-> "result", of |-> p, status |-> status], [do |-> "continue"]>>, copy[h])
  BY DEF Run
<1>4. /\ AllTasks = {hd} \cup rest /\ Settled(AllTasks) /\ RunningFor(AllTasks) /\ copy[h] = session /\ p \notin Advisory
      /\ p \in Fresh /\ (\A x \in rest : ~Starting(x, p)) /\ \E x \in rest : Settling(x, p)
  <2>1. Fits(hd, {}, rest, Fresh, CarriedOut, Authorized, named)
    BY <1>1, <1>2, CalmHandler
  <2>2. p \in Fresh /\ (\A x \in rest : ~Starting(x, p)) /\ \E x \in rest : Settling(x, p)
    BY <1>1, <2>1 DEF Fits, FitsExecution
  <2>3. p \notin Advisory
    BY <1>1, <2>1 DEF Fits, FitsApproval
  <2> QED BY <1>1, <1>2, <2>2, <2>3, CalmHandler
<1>5. standing[p] = "PENDING" /\ starts'[p] = 1 /\ \A q \in Proposals : q # p => starts'[q] = starts[q]
  BY <1>1, <1>2, <1>4 DEF Fresh
<1>6. CarriedOut' = CarriedOut /\ Authorized' = Authorized /\ \A q : q # p /\ q \in Fresh => q \in Fresh'
  BY <1>1, <1>5, RowsAsBefore DEF Fresh
<1> DEFINE t == [do |-> "result", of |-> p, status |-> status]
           u == [do |-> "continue"]
<1>7. t \in Task /\ t.do = "result" /\ t.of = p /\ u \in Task /\ u.do = "continue" /\ Then(h, <<t, u>>, session')
  BY <1>1, <1>2, <1>3, <1>4, PlainTasks
<1> HIDE DEF t, u
<1>8. /\ <<t, u>> \in Seq(Task) /\ Elems(<<t, u>>) = {t, u}
      /\ \A i \in 1..Len(<<t, u>>) :
           Fits(<<t, u>>[i], Before(<<t, u>>, i), After(<<t, u>>, i) \cup rest, Fresh', CarriedOut', Authorized', named')
  <2>1. Fits(t, {}, {u} \cup rest, Fresh', CarriedOut', Authorized', named')
    BY <1>4, <1>7 DEF Fits, FitsExecution, FitsVerdict, FitsTurn, FitsApproval
  <2>2. Fits(u, {t}, rest, Fresh', CarriedOut', Authorized', named')
    BY <1>7, FreeFits
  <2> QED BY <1>7, <2>1, <2>2, TwoFit
<1>9. OneList' /\ AllTasks' = {t, u} \cup rest
  <2>1. \A q : ~Offering(hd, q) /\ ~Authorizing(hd, q) /\ (Working(hd, q) <=> q = p)
    BY <1>1 DEF Offering, Authorizing, Working
  <2>2. MayTurn(hd)
    BY <1>1 DEF MayTurn
  <2>3. \A x \in rest : x.do \in {"execute", "run"} /\ (x.of \in Fresh \/ Offering(hd, x.of)) => x.of \in Fresh'
    BY <1>4, <1>6, <2>1 DEF Starting
  <2>4. \A q : (q \in CarriedOut /\ ~Authorizing(hd, q)) \/ Working(hd, q)
                 => q \in CarriedOut' \/ \E x \in Elems(<<t, u>>) : Working(x, q)
    BY <1>6, <1>7, <1>8, <2>1 DEF Working
  <2>5. \A x \in Elems(<<t, u>>) : x.do # "authorize"
    BY <1>7, <1>8
  <2>6. \A q \in Advisory : q \in Authorized \/ Authorizing(hd, q) => q \in Authorized'
    BY <1>6, <2>1
  <2> QED BY <1>1, <1>2, <1>7, <1>8, <2>2, <2>3, <2>4, <2>5, <2>6, CalmReplaced
<1>10. Settled(AllTasks)'
  <2> SUFFICES ASSUME NEW q \in Proposals
               PROVE  /\ starts'[q] < 2
                      /\ standing'[q] = "DENY" => starts'[q] = 0
                      /\ standing'[q] \in {"APPROVE", "AUTO"} /\ q \notin Advisory => q \in CarriedOut'
                      /\ standing'[q] = "PENDING" /\ starts'[q] # 0 => \E x \in AllTasks' : Settling(x, q)
    BY DEF Settled
  <2>1. /\ starts[q] < 2 /\ (standing[q] = "DENY" => starts[q] = 0)
        /\ standing[q] \in {"APPROVE", "AUTO"} /\ q \notin Advisory => q \in CarriedOut
        /\ standing[q] = "PENDING" /\ starts[q] # 0 => \E x \in {hd} \cup rest : Settling(x, q)
    BY <1>4 DEF Settled
  <2>2. CASE q = p
    BY <1>1, <1>4, <1>5, <1>9, <2>2
  <2>3. CASE q # p
    <3>1. ~Settling(hd, q)
      BY <1>1 DEF Settling
    <3> QED BY <1>1, <1>5, <1>6, <1>9, <2>1, <2>3, <3>1
  <2> QED BY <2>2, <2>3
<1>11. RunningFor(AllTasks)'
  <2>1. KeepsRunning(u)
    BY <1>7 DEF KeepsRunning
  <2> QED BY <1>9, <2>1 DEF RunningFor
<1> QED BY <1>9, <1>10, <1>11 DEF CalmInv

LEMMA CalmResult == ASSUME ProposalInv, CalmInv, calm', NEW h \in Handlers, SaveResult(h) PROVE CalmInv'
<1> DEFINE hd == Head(todo[h])
           rest == Elems(Tail(todo[h]))
           p == hd.of
           status == hd.status
<1>1. todo[h] # <<>> /\ hd.do = "result" /\ Then(h, <<>>, copy[h]) /\ UNCHANGED <<session, invoked, standing, named, approved, starts>>
  BY DEF SaveResult, Doing, history
<1>2. calm /\ action' = [action EXCEPT ![p] = status]
  <2>1. Mishap \/ UNCHANGED mishaps
    BY DEF SaveResult, SaveAction, BestEffort
  <2> QED BY <2>1, CalmWas DEF SaveResult, SaveAction, BestEffort
<1>3. p \in Proposals /\ status \in Finished
  BY <1>1, FirstTask, TaskFields DEF Finished
<1>4. /\ AllTasks = {hd} \cup rest /\ Settled(AllTasks) /\ RunningFor(AllTasks) /\ copy[h] = session /\ p \notin Advisory
  BY <1>1, <1>2, CalmHandler DEF Fits, FitsApproval
<1> HIDE DEF status
<1>5. /\ \A q : q # p => (q \in CarriedOut <=> q \in CarriedOut')
      /\ \A q \in Advisory : q \in Authorized => q \in Authorized'
      /\ p \in CarriedOut' /\ Fresh' = Fresh
  BY <1>1, <1>2, <1>3, <1>4, RowSaved, RowsAsBefore
<1>6. OneList' /\ AllTasks' = rest
  <2>1. \A q : ~Offering(hd, q) /\ ~Authorizing(hd, q) /\ (Working(hd, q) <=> q = p)
    BY <1>1 DEF Offering, Authorizing, Working
  <2>2. Then(h, <<>>, session')
    BY <1>1, <1>4
  <2>3. \A q : (q \in CarriedOut /\ ~Authorizing(hd, q)) \/ Working(hd, q) => q \in CarriedOut'
    BY <1>5, <2>1
  <2>4. \A q \in Advisory : q \in Authorized \/ Authorizing(hd, q) => q \in Authorized'
    BY <1>5, <2>1
  <2> QED BY <1>1, <1>2, <1>5, <2>1, <2>2, <2>3, <2>4, NoneFit, CalmReplaced
<1>7. Settled(AllTasks)'
  <2>1. \A q \in Proposals : standing[q] \in {"APPROVE", "AUTO"} /\ q \in CarriedOut => q \in CarriedOut'
    BY <1>5
  <2> QED BY <1>1, <1>4, <1>6, <2>1, SettledStays
<1>8. RunningFor(AllTasks)'
  <2>1. ~KeepsRunning(hd)
    BY <1>1 DEF KeepsRunning
  <2> QED BY <1>1, <1>4, <1>5, <1>6, <2>1, RunningStays
<1> QED BY <1>6, <1>7, <1>8 DEF CalmInv

\* With a worker the session runs for its next turn; without one it does not run.
LEMMA CalmContinue == ASSUME ProposalInv, CalmInv, calm', NEW h \in Handlers, ContinueWorker(h) \/ ContinueAlone(h) PROVE CalmInv'
<1> DEFINE hd == Head(todo[h])
           rest == Elems(Tail(todo[h]))
           turn == [do |-> "turn", first |-> FALSE]
<1>1. todo[h] # <<>> /\ hd.do = "continue" /\ UNCHANGED <<invoked, action, standing, named, approved, starts>>
  BY DEF ContinueWorker, ContinueAlone, Doing, history
<1>2. calm /\ ~Mishap
  <2>1. Mishap \/ UNCHANGED mishaps
    BY DEF ContinueWorker, ContinueAlone, BestEffort
  <2> QED BY <2>1, CalmWas
<1>3. AllTasks = {hd} \cup rest /\ Settled(AllTasks) /\ copy[h] = session
  BY <1>1, <1>2, CalmHandler
<1>4. CarriedOut' = CarriedOut /\ Authorized' = Authorized /\ Fresh' = Fresh
  BY <1>1, RowsAsBefore
<1>5. \A p : ~Offering(hd, p) /\ ~Authorizing(hd, p) /\ ~Working(hd, p)
  BY <1>1 DEF Offering, Authorizing, Working
<1>6. MayTurn(hd)
  BY <1>1 DEF MayTurn
<1>7. turn \in Task /\ turn.do = "turn" /\ ~turn.first
  BY PlainTasks
<1> HIDE DEF turn
<1>8. PICK tasks \in Seq(Task) :
        /\ Then(h, tasks, session')
        /\ \A i \in 1..Len(tasks) :
             Fits(tasks[i], Before(tasks, i), After(tasks, i) \cup rest, Fresh', CarriedOut', Authorized', named')
        /\ \A x \in Elems(tasks) : x.do # "authorize"
        /\ session' = "RUNNING" => \E x \in Elems(tasks) : KeepsRunning(x)
  <2>1. CASE ContinueWorker(h)
    <3>1. Then(h, <<turn>>, session') /\ session' = "RUNNING"
      BY <1>2, <2>1 DEF ContinueWorker, BestEffort, turn
    <3>2. Fits(turn, {}, rest, Fresh', CarriedOut', Authorized', named')
      BY <1>7, FreeFits
    <3>3. /\ <<turn>> \in Seq(Task) /\ Elems(<<turn>>) = {turn}
          /\ \A i \in 1..Len(<<turn>>) :
               Fits(<<turn>>[i], Before(<<turn>>, i), After(<<turn>>, i) \cup rest, Fresh', CarriedOut', Authorized', named')
      BY <1>7, <3>2, OneTask, OneFits
    <3>4. KeepsRunning(turn)
      BY <1>7 DEF KeepsRunning
    <3> QED BY <1>7, <3>1, <3>3, <3>4
  <2>2. CASE ContinueAlone(h)
    <3>1. Then(h, <<>>, session') /\ session' = Standalone(copy[h])
      BY <1>2, <1>3, <2>2 DEF ContinueAlone, BestEffort
    <3>2. session' # "RUNNING"
      BY <3>1 DEF Standalone, Terminal
    <3> QED BY <3>1, <3>2, NoneFit
  <2> QED BY <2>1, <2>2
<1>9. OneList' /\ AllTasks' = Elems(tasks) \cup rest
  BY <1>1, <1>2, <1>4, <1>5, <1>6, <1>8, CalmReplaced
<1>10. Settled(AllTasks)'
  BY <1>1, <1>3, <1>4, <1>9, SettledStays
<1>11. RunningFor(AllTasks)'
  BY <1>8, <1>9 DEF RunningFor
<1> QED BY <1>9, <1>10, <1>11 DEF CalmInv

\* A request that is given its tasks while nobody else has any.
LEMMA CalmBegin ==
  ASSUME ProposalInv, CalmInv, calm', NEW h \in Handlers, NEW tasks \in Seq(Task), Begin(h, tasks),
         UNCHANGED <<session, invoked, action, standing, history>>,
         \A F, D, U, N : Orderly(tasks, F, D, U, N)
  PROVE  CalmInv'
<1>1. Idle /\ UNCHANGED mishaps /\ calm
  BY CalmWas DEF Begin, Alone
<1>2. todo \in [Handlers -> Seq(Task)] /\ copy \in [Handlers -> SessionStatus]
  BY DEF ProposalInv, TypeOK
<1>3. /\ \A k \in Handlers : todo[k] = <<>> /\ (k # h => todo'[k] = <<>>)
      /\ todo'[h] = tasks /\ copy'[h] = session /\ session' = session
  BY <1>1, <1>2 DEF Idle, Begin
<1>4. AllTasks = {}
  BY <1>3, NoTasks DEF AllTasks
<1>5. OneList'
  BY <1>3 DEF OneList
<1>6. UNCHANGED <<action, standing, starts, session>>
  BY DEF history
<1>7. CarriedOut' = CarriedOut /\ Authorized' = Authorized
  BY <1>6, RowsAsBefore
<1>8. Settled(AllTasks) /\ RunningFor(AllTasks)
  BY <1>1 DEF CalmInv
<1>9. Settled(AllTasks)' /\ RunningFor(AllTasks)'
  BY <1>4, <1>6, <1>7, <1>8, SettledStays, RunningStays
<1> QED BY <1>5, <1>9 DEF CalmInv

LEMMA CalmRequest == ASSUME ProposalInv, CalmInv, calm', NEW h \in Handlers, Request(h) PROVE CalmInv'
<1>1. CASE Invoke(h)
  <2> DEFINE t1 == [do |-> "open"]
             t2 == [do |-> "attach"]
             t3 == [do |-> "turn", first |-> TRUE]
             s == <<t1, t2, t3>>
  <2>1. t1 \in Task /\ t2 \in Task /\ t3 \in Task /\ t1.do = "open" /\ t2.do = "attach" /\ t3.do = "turn" /\ t3.first
    BY PlainTasks
  <2>2. Begin(h, s) /\ UNCHANGED <<session, invoked, action, standing, history>>
    BY <1>1 DEF Invoke
  <2> HIDE DEF t1, t2, t3
  <2>3. s \in Seq(Task) /\ Len(s) = 3 /\ s[1] = t1 /\ s[2] = t2 /\ s[3] = t3
    BY <2>1
  <2> HIDE DEF s
  <2>4. 1..3 = {1, 2, 3} /\ (1 + 1)..3 = {2, 3} /\ (2 + 1)..3 = {3} /\ (3 + 1)..3 = {}
    OBVIOUS
  <2>5. After(s, 1) = {t2, t3} /\ After(s, 2) = {t3} /\ After(s, 3) = {}
    BY <2>3, <2>4 DEF After
  <2>6. ASSUME NEW F, NEW D, NEW U, NEW N, NEW i \in 1..Len(s) PROVE Fits(s[i], Before(s, i), After(s, i), F, D, U, N)
    <3>1. i = 1 \/ i = 2 \/ i = 3
      BY <2>3, <2>4
    <3>2. CASE i = 1
      BY <2>1, <2>3, <2>5, <3>2 DEF Fits, FitsExecution, FitsVerdict, FitsTurn, FitsApproval
    <3>3. CASE i = 2
      BY <2>1, <2>3, <2>5, <3>3 DEF Fits, FitsExecution, FitsVerdict, FitsTurn, FitsApproval
    <3>4. CASE i = 3
      BY <2>1, <2>3, <2>5, <3>4 DEF Fits, FitsExecution, FitsVerdict, FitsTurn, FitsApproval
    <3> QED BY <3>1, <3>2, <3>3, <3>4
  <2>7. \A F, D, U, N : Orderly(s, F, D, U, N)
    BY <2>6 DEF Orderly
  <2> QED BY <2>2, <2>3, <2>7, CalmBegin
<1>2. ASSUME NEW p \in Proposals, NEW verdict \in {"APPROVE", "DENY"}, Decide(h, p, verdict) PROVE CalmInv'
  <2> DEFINE t == [do |-> "find", of |-> p, verdict |-> verdict]
  <2>1. t \in Task /\ t.do = "find"
    BY PlainTasks
  <2>2. Begin(h, <<t>>) /\ UNCHANGED <<session, invoked, action, standing, history>>
    BY <1>2 DEF Decide
  <2> HIDE DEF t
  <2>3. \A F, D, U, N : Fits(t, {}, {}, F, D, U, N)
    BY <2>1 DEF Fits, FitsExecution, FitsVerdict, FitsTurn, FitsApproval
  <2>4. <<t>> \in Seq(Task) /\ \A F, D, U, N : Orderly(<<t>>, F, D, U, N)
    BY <2>1, <2>3, OneTask DEF Orderly
  <2> QED BY <2>2, <2>4, CalmBegin
<1> QED BY <1>1, <1>2 DEF Request

\* Requests that are done at once.
LEMMA CalmOutside ==
  ASSUME ProposalInv, CalmInv, calm', Create \/ Close \/ \E p \in Proposals : WorkerOffers(p)
  PROVE  CalmInv'
<1>1. Alone /\ UNCHANGED <<invoked, action, todo, copy, named, approved>>
  BY DEF Create, Close, WorkerOffers, history
<1>2. Idle /\ calm
  BY <1>1, CalmWas DEF Alone
<1>3. \A k \in Handlers : todo[k] = <<>> /\ todo'[k] = <<>>
  BY <1>1, <1>2 DEF Idle
<1>4. AllTasks = {} /\ AllTasks' = {}
  BY <1>3, NoTasks DEF AllTasks
<1>5. OneList'
  BY <1>3 DEF OneList
<1>6. CarriedOut' = CarriedOut /\ Authorized' = Authorized
  BY <1>1, RowsAsBefore
<1>7. Settled(AllTasks) /\ RunningFor(AllTasks)
  BY <1>2 DEF CalmInv
<1>8. CASE Create \/ Close
  <2>1. UNCHANGED <<standing, starts>> /\ session' # "RUNNING"
    BY <1>8 DEF Create, Close, history
  <2>2. Settled(AllTasks)'
    BY <1>4, <1>6, <1>7, <2>1, SettledStays
  <2>3. RunningFor(AllTasks)'
    BY <2>1 DEF RunningFor
  <2> QED BY <1>5, <2>2, <2>3 DEF CalmInv
<1>9. ASSUME NEW p \in Proposals, WorkerOffers(p) PROVE CalmInv'
  <2>1. /\ \A q \in Proposals : standing'[q] = IF q \in {p} THEN "PENDING" ELSE standing[q]
        /\ \A q \in Proposals : starts'[q] = IF q \in {p} THEN 0 ELSE starts[q]
        /\ session' = session
    BY <1>9 DEF WorkerOffers, Offered
  <2>2. Settled(AllTasks)'
    BY <1>4, <1>6, <1>7, <2>1 DEF Settled
  <2>3. RunningFor(AllTasks)'
    BY <1>4, <1>6, <1>7, <2>1, RunningStays
  <2> QED BY <1>5, <2>2, <2>3 DEF CalmInv
<1> QED BY <1>8, <1>9

LEMMA CalmStep == ProposalInv /\ CalmInv /\ [Next]_vars => CalmInv'
<1> SUFFICES ASSUME ProposalInv, CalmInv, [Next]_vars PROVE CalmInv'
  OBVIOUS
<1>1. CASE UNCHANGED vars
  <2>1. UNCHANGED <<session, invoked, action, standing, todo, copy, named, approved, starts, mishaps>>
    BY <1>1 DEF vars, history
  <2>2. /\ Fresh' = Fresh /\ CarriedOut' = CarriedOut /\ Authorized' = Authorized /\ AllTasks' = AllTasks /\ calm' = calm
    BY <2>1 DEF Fresh, CarriedOut, Authorized, AllTasks, calm
  <2> QED BY <2>1, <2>2 DEF CalmInv, OneList, Settled, RunningFor
<1>2. CASE Next
  <2>1. CASE ~calm'
    BY <2>1 DEF CalmInv
  <2>2. CASE calm'
    <3>1. ASSUME NEW h \in Handlers, Fail(h) PROVE FALSE
      BY <2>2, <3>1, CalmWas DEF Fail
    <3>2. ASSUME NEW h \in Handlers, Request(h) \/ Step(h) PROVE CalmInv'
      BY <2>2, <3>2, CalmRequest, CalmOpen, CalmTurn, CalmMark, CalmOffers, CalmFind, CalmAuthorize, CalmPromote,
         CalmLogDecision, CalmExecute, CalmRun, CalmResult, CalmContinue DEF Step
    <3>3. CASE Create \/ Close \/ \E p \in Proposals : WorkerOffers(p)
      BY <2>2, <3>3, CalmOutside
    <3> QED BY <1>2, <3>1, <3>2, <3>3 DEF Next
  <2> QED BY <2>1, <2>2
<1> QED BY <1>1, <1>2

LEMMA CalmInvariant == Spec => []CalmInv
<1>1. Init => CalmInv
  <2> SUFFICES ASSUME Init PROVE CalmInv
    OBVIOUS
  <2>1. AllTasks = {}
    BY NoTasks DEF Init, AllTasks
  <2>2. OneList
    BY DEF Init, OneList
  <2>3. Settled(AllTasks)
    BY DEF Init, Settled
  <2>4. RunningFor(AllTasks)
    BY DEF Init, RunningFor
  <2> QED BY <2>2, <2>3, <2>4 DEF CalmInv
<1> QED BY <1>1, CalmStep, ProposalInvariant, PTL DEF Spec

\* As long as requests come one at a time and no write is lost, a proposal is executed at
\* most once for each offer, never after a denial, what is decided has been carried out,
\* and the session is not left running but for an advisory proposal.
THEOREM CalmSessionsHold == Spec => []CalmSessionHolds
<1>1. CalmInv => CalmSessionHolds
  <2> SUFFICES ASSUME CalmInv, calm PROVE CalmSessionHolds
    BY DEF CalmSessionHolds, CalmDecisionsHold, RunningHasReason
  <2>1. Settled(AllTasks) /\ RunningFor(AllTasks)
    BY DEF CalmInv
  <2>2. CalmDecisionsHold
    BY <2>1 DEF Settled, CarriedOut, CalmDecisionsHold
  <2>3. Idle => AllTasks = {}
    BY NoTasks DEF Idle, AllTasks
  <2>4. RunningHasReason
    BY <2>1, <2>3 DEF RunningFor, Authorized, RunningHasReason
  <2> QED BY <2>2, <2>4 DEF CalmSessionHolds
<1> QED BY <1>1, CalmInvariant, PTL
=============================================================================

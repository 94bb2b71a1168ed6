------------------------- MODULE SessionClientProofs -------------------------
(***************************************************************************)
(* Proofs about the two clients that keep a session before an operator:    *)
(* first ThreadPanel, for every set of sessions and jobs and every bound;  *)
(* then OperatorChat on MockSessions, for every number of handlers, tasks  *)
(* and sessions.                                                           *)
(*                                                                         *)
(* Of the panel: the story of a session only grows, so what was told from  *)
(* it stays told of it; one generation at most is current; and a view that *)
(* is behind the events already seen is being read again.                  *)
(*                                                                         *)
(* Of the chat: each operation of the runtime keeps a timeline in          *)
(* agreement with itself and with its task, whoever calls it, so no        *)
(* handler need be trusted.  What the handlers themselves must keep is     *)
(* that they work with a thread that has a task, and that one that has     *)
(* created a task will read the history.  Clearing the loop moves the      *)
(* token past every chain, which makes the next chain the only one.        *)
(***************************************************************************)
EXTENDS OperatorChat, ThreadPanel, FiniteSetTheorems, WellFoundedInduction, TLAPS

(* A set of numbers that is not empty has a first one.                     *)
LEMMA FirstOne ==
  ASSUME NEW U, U \subseteq Nat, U # {}
  PROVE  \E x \in U : \A y \in U : x <= y
<1> DEFINE R == OpToRel(<, Nat)
<1>1. IsWellFoundedOn(R, Nat)
  BY NatLessThanWellFounded
<1>2. \A x, y \in Nat : <<y, x>> \in R <=> y < x
  BY DEF OpToRel
<1> HIDE DEF R
<1>3. \E x \in U : \A y \in U : ~(<<y, x>> \in R)
  BY <1>1, WFMin
<1>4. PICK x \in U : \A y \in U : ~(<<y, x>> \in R)
  BY <1>3
<1>5. ASSUME NEW y \in U PROVE x <= y
  <2>1. ~(y < x)
    BY <1>2, <1>4
  <2> QED BY <2>1
<1> QED BY <1>5

(* A set of numbers up to n that is not empty has a last one.              *)
LEMMA LastOne ==
  ASSUME NEW n \in Nat, NEW T, T \subseteq 1..n, T # {}
  PROVE  \E i \in T : \A k \in T : k <= i
<1> DEFINE U == {n - i : i \in T}
<1>1. U \subseteq Nat /\ U # {}
  <2>1. \A i \in T : n - i \in Nat
    OBVIOUS
  <2>2. PICK i \in T : TRUE
    OBVIOUS
  <2> QED BY <2>1, <2>2
<1>2. \E x \in U : \A y \in U : x <= y
  <2> HIDE DEF U
  <2> QED BY <1>1, FirstOne
<1>3. PICK i \in T : \A y \in U : n - i <= y
  BY <1>2
<1>4. ASSUME NEW k \in T PROVE k <= i
  <2>1. n - i <= n - k
    BY <1>3
  <2> QED BY <2>1
<1> QED BY <1>4

LEMMA LastIsThere ==
  ASSUME NEW s \in ThreadSessions, NEW n \in Nat, NEW kinds,
         LastOf(s, n, kinds) # "none"
  PROVE  LastOf(s, n, kinds) \in Changes(s, n) \cap kinds
<1> DEFINE which == {i \in 1..n : story[s][i] \in kinds}
<1>1. which # {}
  BY DEF LastOf
<1>2. \E i \in which : \A k \in which : k <= i
  <2>1. which \subseteq 1..n
    OBVIOUS
  <2> HIDE DEF which
  <2> QED BY <1>1, <2>1, LastOne
<1>3. LastOf(s, n, kinds) = story[s][CHOOSE i \in which : \A k \in which : k <= i]
  BY <1>1 DEF LastOf
<1>4. (CHOOSE i \in which : \A k \in which : k <= i) \in which
  <2> HIDE DEF which
  <2> QED BY <1>2
<1> QED BY <1>3, <1>4 DEF Changes

-----------------------------------------------------------------------------
(* What the panel draws and asks for *)

PanelStates == [open : BOOLEAN, version : 0..MaxFollows, views : [ThreadSessions -> PanelViews],
                selected : ThreadSessions \cup {NoSession}, generation : 0..MaxFollows, timer : 0..MaxFollows]

StoriesOK ==
  /\ story \in [ThreadSessions -> Seq(Kinds)] /\ appended \in [ThreadSessions -> Nat]
  /\ \A s \in ThreadSessions : /\ appended[s] <= Len(story[s]) /\ Len(story[s]) <= appended[s] + 1
                               /\ Len(story[s]) <= MaxChanges

PanelPageOK == page \in Pages /\ (page.asks => page.session \in ThreadSessions)

\* The version moves with the generation; followers beyond the current one have not begun,
\* and one that waits for its timer does not wait for a call.
FollowersOK ==
  /\ panel.version <= panel.generation /\ panel.timer \in {0, panel.generation}
  /\ \A g \in 1..MaxFollows : g > panel.generation => polls[g] = NoPoll
  /\ panel.timer # 0 => polls[panel.timer] = NoPoll

PanelTyped ==
  /\ StoriesOK /\ panel \in PanelStates /\ PanelPageOK
  /\ polls \in [1..MaxFollows -> PollStates] /\ jobs \in [Jobs -> JobStates]
  /\ told \subseteq ThreadSessions \X Decisions /\ slipped \in BOOLEAN
  /\ FollowersOK

LEMMA TypedIsTyped == PanelTyped => PanelTypeOK
  BY DEF PanelTyped, PanelTypeOK, StoriesOK, PanelPageOK, PanelStates

LEMMA LastKnown ==
  ASSUME NEW view \in PanelViews
  PROVE  Known(view) \in 0..MaxChanges /\ view.known <= Known(view) /\ view.stream <= Known(view)
  BY PanelAssumption DEF Known, Larger, PanelViews

LEMMA ShownIsThere ==
  ASSUME NEW p \in PanelStates
  PROVE  ShownIn(p) \in ThreadSessions \cup {NoSession}
<1> DEFINE there == {s \in ThreadSessions : p.views[s].there}
<1>1. CASE p.selected \in there
  BY <1>1 DEF ShownIn
<1>2. CASE p.selected \notin there /\ there = {}
  BY <1>2 DEF ShownIn
<1>3. CASE p.selected \notin there /\ there # {}
  <2>1. (CHOOSE s \in there : TRUE) \in there
    <3> HIDE DEF there
    <3> QED BY <1>3
  <2> QED BY <2>1, <1>3 DEF ShownIn
<1> QED BY <1>1, <1>2, <1>3

LEMMA DrawnIsAPage ==
  ASSUME NEW p \in PanelStates
  PROVE  Drawn(p) \in Pages /\ (Drawn(p).asks => Drawn(p).session \in ThreadSessions)
<1>1. ShownIn(p) \in ThreadSessions \cup {NoSession}
  BY ShownIsThere
<1>2. Asks(p, ShownIn(p)) \in BOOLEAN /\ (Asks(p, ShownIn(p)) => ShownIn(p) # NoSession)
  BY DEF Asks
<1> QED BY <1>1, <1>2 DEF Drawn, Pages

NoPageOK == NoPage \in Pages /\ ~NoPage.asks
            /\ [NoPage EXCEPT !.kind = "error"] \in Pages /\ ~[NoPage EXCEPT !.kind = "error"].asks

LEMMA EmptyPages == NoPageOK
  BY DEF NoPageOK, NoPage, Pages

\* One turn of the loop sets at most the call of its own generation.
TurnOK(p, g, after) ==
  /\ after \in [1..MaxFollows -> PollStates]
  /\ \A h \in 1..MaxFollows : h # g => after[h] = polls[h]
  /\ after[g] = polls[g] \/ after[g].phase = "stream"

LEMMA LoopTurns ==
  ASSUME NEW p \in PanelStates, NEW g \in 1..MaxFollows, polls \in [1..MaxFollows -> PollStates]
  PROVE  TurnOK(p, g, LoopTurn(p, g))
<1> DEFINE s == ShownIn(p)
<1> DEFINE call == [phase |-> "stream", session |-> s, version |-> p.version,
                    after |-> Known(p.views[s]), since |-> 0]
<1>1. CASE s = NoSession \/ (s # NoSession /\ Terminal(s, p.views[s].rec))
  BY <1>1 DEF LoopTurn, TurnOK
<1>2. CASE ~(s = NoSession \/ (s # NoSession /\ Terminal(s, p.views[s].rec)))
  <2>1. s \in ThreadSessions
    BY <1>2, ShownIsThere
  <2>2. p.views[s] \in PanelViews /\ p.version \in 0..MaxFollows
    BY <2>1 DEF PanelStates
  <2>3. call \in PollStates
    <3>1. Known(p.views[s]) \in 0..MaxChanges
      BY <2>2, LastKnown
    <3> QED BY <2>1, <2>2, <3>1, PanelAssumption DEF PollStates
  <2>4. LoopTurn(p, g) = [polls EXCEPT ![g] = call]
    BY <1>2 DEF LoopTurn
  <2>5. call.phase = "stream"
    OBVIOUS
  <2> HIDE DEF call
  <2> QED BY <2>3, <2>4, <2>5 DEF TurnOK
<1> QED BY <1>1, <1>2

-----------------------------------------------------------------------------
(* Every step keeps the types and the clocks *)

FollowOK == panel \in PanelStates /\ polls \in [1..MaxFollows -> PollStates] /\ FollowersOK

SameClock(p) ==
  /\ p \in PanelStates /\ p.generation = panel.generation /\ p.version = panel.version
  /\ p.timer = panel.timer

\* A panel that is followed anew.
FollowedAnew(p) ==
  /\ p \in PanelStates /\ p.generation = panel.generation
  /\ p.version \in {panel.version, panel.version + 1}

LEMMA FollowingStarts ==
  ASSUME FollowOK, NEW p, FollowedAnew(p), Follows(p)
  PROVE  FollowOK'
<1>1. /\ panel.generation \in Nat /\ panel.generation < MaxFollows /\ p.generation = panel.generation
      /\ p.version <= panel.generation + 1
  BY PanelAssumption DEF FollowOK, Follows, FollowedAnew, PanelStates, FollowersOK
<1> DEFINE q == Stopped(p)
<1>2. q \in PanelStates /\ q.generation = panel.generation + 1 /\ q.timer = 0 /\ q.version = p.version
  <2>1. p \in PanelStates /\ p.version \in 0..MaxFollows
    BY DEF FollowedAnew, PanelStates
  <2>2. p.generation + 1 \in 0..MaxFollows /\ 0 \in 0..MaxFollows
    BY <1>1, PanelAssumption
  <2> QED BY <2>1, <2>2, <1>1 DEF Stopped, PanelStates
<1>3. panel.generation + 1 \in 1..MaxFollows
  BY <1>1, PanelAssumption
<1>4. panel' = q /\ polls' = LoopTurn(q, panel.generation + 1)
  BY <1>1 DEF Follows
<1> HIDE DEF q
<1>5. TurnOK(q, panel.generation + 1, polls')
  BY <1>2, <1>3, <1>4, LoopTurns DEF FollowOK
<1>6. \A g \in 1..MaxFollows : g > panel.generation + 1 => polls'[g] = NoPoll
  BY <1>1, <1>5 DEF TurnOK, FollowOK, FollowersOK
<1>7. FollowersOK'
  BY <1>1, <1>2, <1>4, <1>6 DEF FollowersOK
<1> QED BY <1>2, <1>4, <1>5, <1>7 DEF FollowOK, TurnOK

\* A follower has its answer, and waits for its timer if it is still the current one.
Answered(p, g) ==
  /\ SameClock(p) /\ g \in 1..MaxFollows
  /\ panel' = RearmedPanel(p, g) /\ polls' = [polls EXCEPT ![g] = NoPoll]

LEMMA FollowerAnswered ==
  ASSUME FollowOK, NEW p, NEW g, Answered(p, g)
  PROVE  FollowOK'
<1>1. NoPoll \in PollStates
  BY DEF PollStates
<1>2. polls' \in [1..MaxFollows -> PollStates]
      /\ polls'[g] = NoPoll /\ \A h \in 1..MaxFollows : polls'[h] \in {polls[h], NoPoll}
  BY <1>1 DEF FollowOK, Answered
<1>3. panel' \in PanelStates /\ panel'.generation = panel.generation /\ panel'.version = panel.version
      /\ (panel'.timer = panel.timer \/ (panel'.timer = g /\ g = panel.generation))
  BY DEF Answered, SameClock, RearmedPanel, PanelStates
<1>4. panel.timer \in {0, panel.generation} /\ panel.generation \in 0..MaxFollows
  BY DEF FollowOK, FollowersOK, PanelStates
<1>5. \A h \in 1..MaxFollows : h > panel.generation => polls'[h] = NoPoll
  BY <1>2 DEF FollowOK, FollowersOK
<1>6. panel'.timer # 0 => polls'[panel'.timer] = NoPoll
  <2>1. CASE panel'.timer = g /\ g = panel.generation
    BY <2>1, <1>2
  <2>2. CASE panel'.timer = panel.timer
    BY <2>2, <1>2, <1>4, PanelAssumption DEF FollowOK, FollowersOK
  <2> QED BY <2>1, <2>2, <1>3
<1>7. FollowersOK'
  BY <1>3, <1>4, <1>5, <1>6 DEF FollowOK, FollowersOK, Answered
<1> QED BY <1>2, <1>3, <1>7 DEF FollowOK

LEMMA ViewIsPut ==
  ASSUME panel \in PanelStates, NEW poll, poll.session \in ThreadSessions, NEW view \in PanelViews
  PROVE  /\ SameClock(WithView(panel, poll, view))
         /\ WithView(panel, poll, view).selected = panel.selected
         /\ WithView(panel, poll, view).open = panel.open
         /\ WithView(panel, poll, view).views =
              IF poll.version = panel.version THEN [panel.views EXCEPT ![poll.session] = view] ELSE panel.views
  BY DEF SameClock, WithView, PanelStates

\* A poll that is out, by the call it waits for.
LEMMA PollIsOut ==
  ASSUME polls \in [1..MaxFollows -> PollStates], NEW g \in 1..MaxFollows,
         polls[g].phase \in {"stream", "timeline"}
  PROVE  /\ polls[g] \in [phase : {"stream", "timeline"}, session : ThreadSessions, version : 0..MaxFollows,
                          after : 0..MaxChanges, since : 0..MaxChanges]
         /\ polls[g] # NoPoll
  BY DEF PollStates, NoPoll

LEMMA NewPanel ==
  ASSUME PanelTyped
  PROVE  FollowOK
  BY DEF PanelTyped, FollowOK

Rest == StoriesOK /\ PanelPageOK /\ jobs \in [Jobs -> JobStates]
        /\ told \subseteq ThreadSessions \X Decisions /\ slipped \in BOOLEAN

LEMMA TypedInTwo == PanelTyped <=> FollowOK /\ Rest
  BY DEF PanelTyped, FollowOK, Rest

LEMMA FollowStays ==
  ASSUME FollowOK, UNCHANGED polls, SameClock(panel')
  PROVE  FollowOK'
  BY DEF FollowOK, FollowersOK, SameClock

LoadJobs == [kind : {"load"}, phase : {"listing", "reading"}, mine : BOOLEAN, todo : SUBSET ThreadSessions,
             views : [ThreadSessions -> PanelViews]]
DecideJobs == [kind : {"decide"}, phase : {"sent", "checked", "recorded", "refused"}, mine : BOOLEAN,
               session : ThreadSessions, decision : Decisions]
TurnJobs == [kind : {"turn"}, phase : {"sent", "done"}, mine : BOOLEAN, session : ThreadSessions]

LEMMA KindsOfJobs == JobStates = {NoJob} \cup LoadJobs \cup DecideJobs \cup TurnJobs
  BY DEF JobStates, LoadJobs, DecideJobs, TurnJobs

LEMMA JobIsOfItsKind ==
  ASSUME jobs \in [Jobs -> JobStates], NEW j \in Jobs
  PROVE  /\ jobs[j].kind = "load" => jobs[j] \in LoadJobs
         /\ jobs[j].kind = "decide" => jobs[j] \in DecideJobs
         /\ jobs[j].kind = "turn" => jobs[j] \in TurnJobs
         /\ jobs[j].kind \in {"load", "decide", "turn"} => ~Free(j)
         /\ ~Free(j) => jobs[j] \in LoadJobs \cup DecideJobs \cup TurnJobs
<1>1. jobs[j] \in {NoJob} \cup LoadJobs \cup DecideJobs \cup TurnJobs
  BY KindsOfJobs
<1> QED BY <1>1 DEF LoadJobs, DecideJobs, TurnJobs, NoJob, Free

LEMMA FirstView == NoPanelView \in PanelViews /\ LoadJob \in LoadJobs
                   /\ \A mine \in BOOLEAN : [LoadJob EXCEPT !.mine = mine] \in LoadJobs
<1>1. NoPanelView \in PanelViews
  BY PanelAssumption DEF NoPanelView, PanelViews
<1>2. [s \in ThreadSessions |-> NoPanelView] \in [ThreadSessions -> PanelViews]
  BY <1>1
<1>3. LoadJob \in LoadJobs
  BY <1>2 DEF LoadJob, LoadJobs
<1> QED BY <1>1, <1>3 DEF LoadJobs

LEMMA StoryGrows ==
  ASSUME StoriesOK, NEW s \in ThreadSessions, NEW kind \in Kinds, Change(s, kind), UNCHANGED appended
  PROVE  /\ StoriesOK'
         /\ \A r \in ThreadSessions : /\ Len(story[r]) <= Len(story'[r])
                                      /\ \A i \in 1..Len(story[r]) : story'[r][i] = story[r][i]
         /\ Len(story'[s]) = Len(story[s]) + 1 /\ story'[s][Len(story[s]) + 1] = kind
<1>1. story[s] \in Seq(Kinds) /\ story' = [story EXCEPT ![s] = Append(@, kind)]
      /\ appended[s] = Len(story[s]) /\ Len(story[s]) < MaxChanges
  BY DEF StoriesOK, Change
<1>2. story'[s] = Append(story[s], kind) /\ Append(story[s], kind) \in Seq(Kinds)
  BY <1>1 DEF StoriesOK
<1>3. Len(story'[s]) = Len(story[s]) + 1 /\ story'[s][Len(story[s]) + 1] = kind
      /\ \A i \in 1..Len(story[s]) : story'[s][i] = story[s][i]
  BY <1>1, <1>2
<1>4. ASSUME NEW r \in ThreadSessions, r # s PROVE story'[r] = story[r]
  BY <1>1, <1>4 DEF StoriesOK
<1>5. \A r \in ThreadSessions : story[r] \in Seq(Kinds) /\ Len(story[r]) \in Nat
  BY DEF StoriesOK
<1>6. StoriesOK'
  <2>1. story' \in [ThreadSessions -> Seq(Kinds)]
    BY <1>1, <1>2 DEF StoriesOK
  <2>2. \A r \in ThreadSessions : /\ appended'[r] <= Len(story'[r]) /\ Len(story'[r]) <= appended'[r] + 1
                                  /\ Len(story'[r]) <= MaxChanges
    BY <1>1, <1>3, <1>4, <1>5, PanelAssumption DEF StoriesOK
  <2> QED BY <2>1, <2>2 DEF StoriesOK
<1>7. \A r \in ThreadSessions : /\ Len(story[r]) <= Len(story'[r])
                                /\ \A i \in 1..Len(story[r]) : story'[r][i] = story[r][i]
  BY <1>3, <1>4, <1>5
<1> QED BY <1>3, <1>6, <1>7

LEMMA StoryKeepsTypes ==
  ASSUME PanelTyped, NEW s \in ThreadSessions,
         AppendsEvent(s) \/ \E kind \in Kinds : Happens(s, kind)
  PROVE  PanelTyped'
<1>1. FollowOK /\ Rest /\ UNCHANGED <<panel, page, polls, jobs, told, slipped>>
  BY TypedInTwo DEF AppendsEvent, Happens
<1>2. StoriesOK'
  <2>1. CASE AppendsEvent(s)
    BY <1>1, <2>1 DEF AppendsEvent, StoriesOK, Rest
  <2>2. ASSUME NEW kind \in Kinds, Happens(s, kind) PROVE StoriesOK'
    BY <1>1, <2>2, StoryGrows DEF Happens, Rest
  <2> QED BY <2>1, <2>2
<1>3. FollowOK' /\ Rest'
  BY <1>1, <1>2 DEF FollowOK, FollowersOK, Rest, PanelPageOK
<1> QED BY <1>3, TypedInTwo, PTL

LEMMA FollowersKeepTypes ==
  ASSUME PanelTyped, NEW g \in 1..MaxFollows,
         StreamAnswers(g) \/ StreamEmpty(g) \/ TimelineAnswers(g) \/ TimelineFails(g)
  PROVE  PanelTyped'
<1> DEFINE poll == polls[g]
<1>1. FollowOK /\ Rest /\ UNCHANGED <<story, appended, jobs, told>>
  BY TypedInTwo DEF StreamAnswers, StreamEmpty, TimelineAnswers, TimelineFails
<1>2. /\ poll \in [phase : {"stream", "timeline"}, session : ThreadSessions, version : 0..MaxFollows,
                   after : 0..MaxChanges, since : 0..MaxChanges]
      /\ poll # NoPoll
  BY <1>1, PollIsOut DEF StreamAnswers, StreamEmpty, TimelineAnswers, TimelineFails, FollowOK
<1>3. poll.session \in ThreadSessions /\ poll.after \in 0..MaxChanges /\ poll.since \in 0..MaxChanges
      /\ poll.version \in 0..MaxFollows
  BY <1>2
<1>4. panel.views[poll.session] \in PanelViews /\ panel \in PanelStates
  BY <1>1, <1>3 DEF FollowOK, PanelStates
<1>5. /\ story[poll.session] \in Seq(Kinds) /\ Len(story[poll.session]) \in 0..MaxChanges
      /\ appended[poll.session] \in 0..MaxChanges
  BY <1>1, <1>3, PanelAssumption DEF Rest, StoriesOK
<1>6. SameClock(panel)
  BY <1>4 DEF SameClock
<1>7. StoriesOK' /\ jobs' \in [Jobs -> JobStates] /\ told' \subseteq ThreadSessions \X Decisions
  BY <1>1 DEF Rest, StoriesOK
<1>8. CASE StreamAnswers(g)
  <2>1. PICK upTo \in (poll.after + 1)..appended[poll.session] :
          /\ panel' = WithView(panel, poll, [panel.views[poll.session] EXCEPT
                                               !.stream = Larger(panel.views[poll.session].stream, upTo)])
          /\ polls' = [polls EXCEPT ![g] = [polls[g] EXCEPT !.phase = "timeline", !.after = upTo,
                                                      !.since = Len(story[poll.session])]]
    BY <1>8 DEF StreamAnswers
  <2>2. upTo \in 0..MaxChanges
    BY <1>3, <1>5, PanelAssumption
  <2>3. [panel.views[poll.session] EXCEPT !.stream = Larger(panel.views[poll.session].stream, upTo)]
          \in PanelViews
    BY <1>4, <2>2 DEF PanelViews, Larger
  <2>4. SameClock(panel')
    BY <2>1, <2>3, <1>3, <1>4, ViewIsPut
  <2>5. [polls[g] EXCEPT !.phase = "timeline", !.after = upTo, !.since = Len(story[poll.session])]
          \in PollStates
    BY <1>2, <1>5, <2>2 DEF PollStates
  <2>6. polls' \in [1..MaxFollows -> PollStates] /\ \A h \in 1..MaxFollows : h # g => polls'[h] = polls[h]
    BY <2>1, <2>5, <1>1 DEF FollowOK
  <2>7. ~(g > panel.generation) /\ panel.timer # g
    BY <1>1, <1>2 DEF FollowOK, FollowersOK
  <2>8. FollowersOK'
    <3>1. \A h \in 1..MaxFollows : h > panel.generation => polls'[h] = NoPoll
      BY <1>1, <2>6, <2>7 DEF FollowOK, FollowersOK
    <3>2. panel.timer # 0 => polls'[panel.timer] = NoPoll
      BY <1>1, <1>4, <2>6, <2>7, PanelAssumption DEF FollowOK, FollowersOK, PanelStates
    <3> QED BY <3>1, <3>2, <2>4, <1>1 DEF SameClock, FollowOK, FollowersOK
  <2>9. UNCHANGED <<page, slipped>>
    BY <1>8 DEF StreamAnswers
  <2>10. FollowOK' /\ Rest'
    BY <1>1, <1>7, <2>4, <2>6, <2>8, <2>9 DEF FollowOK, Rest, SameClock, PanelPageOK
  <2> QED BY <2>10, TypedInTwo, PTL
<1>9. CASE StreamEmpty(g)
  <2>1. Answered(panel, g)
    BY <1>6, <1>9 DEF StreamEmpty, Answered
  <2>2. FollowOK' /\ Rest'
    BY <1>1, <1>7, <1>9, <2>1, FollowerAnswered DEF StreamEmpty, Rest, PanelPageOK
  <2> QED BY <2>2, TypedInTwo, PTL
<1>10. CASE TimelineFails(g)
  <2>1. Answered(panel, g)
    BY <1>6, <1>10 DEF TimelineFails, Answered
  <2>2. slipped' \in BOOLEAN /\ UNCHANGED page
    BY <1>10 DEF TimelineFails
  <2>3. FollowOK' /\ Rest'
    BY <1>1, <1>7, <2>1, <2>2, FollowerAnswered DEF Rest, PanelPageOK
  <2> QED BY <2>3, TypedInTwo, PTL
<1>11. CASE TimelineAnswers(g)
  <2>1. PICK t \in Timelines(poll.session, poll.since, poll.after) :
          panel' = RearmedPanel(WithView(panel, poll, [panel.views[poll.session] EXCEPT
                                                          !.rec = t.rec, !.known = t.known]), g)
    BY <1>11 DEF TimelineAnswers
  <2>2. t.rec \in 0..MaxChanges /\ t.known \in 0..MaxChanges
    BY <1>3, <1>5, PanelAssumption DEF Timelines
  <2>3. [panel.views[poll.session] EXCEPT !.rec = t.rec, !.known = t.known] \in PanelViews
    BY <1>4, <2>2 DEF PanelViews
  <2>4. Answered(WithView(panel, poll, [panel.views[poll.session] EXCEPT !.rec = t.rec, !.known = t.known]), g)
    BY <1>3, <1>4, <1>11, <2>1, <2>3, ViewIsPut DEF TimelineAnswers, Answered
  <2>5. FollowOK'
    BY <1>1, <2>4, FollowerAnswered
  <2>6. slipped' \in BOOLEAN /\ (page' = Drawn(panel') \/ page' = page)
    BY <1>11 DEF TimelineAnswers
  <2>7. PanelPageOK'
    BY <1>1, <2>5, <2>6, DrawnIsAPage DEF FollowOK, PanelPageOK, Rest
  <2>8. Rest'
    BY <1>7, <2>6, <2>7 DEF Rest
  <2> QED BY <2>5, <2>8, TypedInTwo, PTL
<1> QED BY <1>8, <1>9, <1>10, <1>11

LEMMA TimerKeepsTypes ==
  ASSUME PanelTyped, PanelTimerFires
  PROVE  PanelTyped'
<1>1. FollowOK /\ Rest /\ UNCHANGED <<story, appended, page, jobs, told, slipped>>
  BY TypedInTwo DEF PanelTimerFires
<1>2. panel.timer \in 1..MaxFollows /\ panel.timer = panel.generation /\ panel \in PanelStates
  BY <1>1, PanelAssumption DEF FollowOK, FollowersOK, PanelStates, PanelTimerFires
<1>3. TurnOK(panel, panel.timer, polls')
  BY <1>1, <1>2, LoopTurns DEF FollowOK, PanelTimerFires
<1>4. panel' = [panel EXCEPT !.timer = 0] /\ panel' \in PanelStates
  BY <1>2, PanelAssumption DEF PanelTimerFires, PanelStates
<1>5. \A h \in 1..MaxFollows : h > panel.generation => polls'[h] = NoPoll
  BY <1>1, <1>2, <1>3 DEF TurnOK, FollowOK, FollowersOK
<1>6. FollowersOK'
  BY <1>1, <1>2, <1>4, <1>5 DEF FollowOK, FollowersOK, PanelStates
<1>7. FollowOK' /\ Rest'
  BY <1>1, <1>3, <1>4, <1>6 DEF FollowOK, TurnOK, Rest, PanelPageOK, StoriesOK
<1> QED BY <1>7, TypedInTwo, PTL

\* What the actions of a job set beside the job itself.
JobSet(j, job) == jobs' = [jobs EXCEPT ![j] = job]

LEMMA JobKeepsTypes ==
  ASSUME PanelTyped, NEW j \in Jobs, NEW job \in JobStates, JobSet(j, job),
         StoriesOK', PanelPageOK', FollowOK', told' \subseteq ThreadSessions \X Decisions, slipped' \in BOOLEAN
  PROVE  PanelTyped'
<1>1. jobs' \in [Jobs -> JobStates]
  BY DEF PanelTyped, JobSet
<1>2. Rest'
  BY <1>1 DEF Rest
<1> QED BY <1>2, TypedInTwo, PTL

LEMMA PanelPageStays == ASSUME PanelPageOK, UNCHANGED page PROVE PanelPageOK'
  BY DEF PanelPageOK
LEMMA StoriesStay == ASSUME StoriesOK, UNCHANGED <<story, appended>> PROVE StoriesOK'
  BY DEF StoriesOK
LEMMA ClocksStay == ASSUME FollowOK, UNCHANGED <<panel, polls>> PROVE FollowOK'
  BY DEF FollowOK, FollowersOK
LEMMA SelectionStays ==
  ASSUME FollowOK, UNCHANGED polls, NEW s \in ThreadSessions \cup {NoSession}, NEW open \in BOOLEAN,
         panel' \in {panel, [panel EXCEPT !.selected = s], [panel EXCEPT !.open = open]}
  PROVE  FollowOK'
<1>1. SameClock(panel')
  BY DEF FollowOK, SameClock, PanelStates
<1> QED BY <1>1, FollowStays

LEMMA LoadsKeepTypes ==
  ASSUME PanelTyped, NEW j \in Jobs,
         CreateOrShow(j) \/ LoadLists(j) \/ LoadAnswers(j) \/ ShowsError(j)
           \/ \E s \in ThreadSessions : LoadReads(j, s)
  PROVE  PanelTyped'
<1> DEFINE job == jobs[j]
<1>1. /\ StoriesOK /\ PanelPageOK /\ FollowOK /\ jobs \in [Jobs -> JobStates]
      /\ told \subseteq ThreadSessions \X Decisions /\ slipped \in BOOLEAN
      /\ UNCHANGED <<story, appended, told>>
  BY TypedInTwo DEF Rest, CreateOrShow, LoadLists, LoadAnswers, ShowsError, LoadReads
<1>2. StoriesOK' /\ told' \subseteq ThreadSessions \X Decisions
  BY <1>1, StoriesStay
<1>3. LoadJobs \subseteq JobStates /\ NoJob \in JobStates
  BY KindsOfJobs
<1>4. job.kind = "load" => job \in LoadJobs
  BY <1>1, JobIsOfItsKind
<1>5. CASE CreateOrShow(j)
  <2>1. JobSet(j, LoadJob) /\ slipped' \in BOOLEAN
    BY <1>1, <1>5 DEF CreateOrShow, JobSet
  <2>2. PanelPageOK'
    BY <1>1, <1>5, EmptyPages DEF CreateOrShow, PanelPageOK, NoPageOK
  <2>3. FollowOK'
    <3>1. panel' \in {panel, [panel EXCEPT !.selected = NoSession], [panel EXCEPT !.open = TRUE]}
          /\ UNCHANGED polls
      BY <1>5 DEF CreateOrShow
    <3> QED BY <1>1, <3>1, SelectionStays
  <2> QED BY <1>2, <1>3, <2>1, <2>2, <2>3, FirstView, JobKeepsTypes
<1>6. CASE LoadLists(j)
  <2>1. job \in LoadJobs
    BY <1>4, <1>6 DEF LoadLists
  <2>2. [job EXCEPT !.phase = "reading", !.todo = There] \in LoadJobs
    BY <2>1 DEF LoadJobs, There
  <2>3. JobSet(j, [job EXCEPT !.phase = "reading", !.todo = There]) /\ slipped' \in BOOLEAN
        /\ UNCHANGED <<panel, page, polls>>
    BY <1>1, <1>6 DEF LoadLists, JobSet
  <2> QED BY <1>1, <1>2, <1>3, <2>2, <2>3, ClocksStay, PanelPageStays, JobKeepsTypes
<1>7. CASE ShowsError(j)
  <2>1. JobSet(j, NoJob) /\ slipped' \in BOOLEAN /\ UNCHANGED <<panel, polls>>
    BY <1>1, <1>7 DEF ShowsError, JobSet
  <2>2. page' \in {[NoPage EXCEPT !.kind = "error"], page}
    BY <1>7 DEF ShowsError
  <2>3. PanelPageOK'
    BY <1>1, <2>2, EmptyPages DEF PanelPageOK, NoPageOK
  <2> QED BY <1>1, <1>2, <1>3, <2>1, <2>3, ClocksStay, JobKeepsTypes
<1>8. ASSUME NEW s \in ThreadSessions, LoadReads(j, s) PROVE PanelTyped'
  <2>1. job \in LoadJobs
    BY <1>4, <1>8 DEF LoadReads
  <2>2. PICK rec \in {Len(story[s])} \cup {n \in 0..MaxChanges : n + 1 = appended[s]} :
          jobs' = [jobs EXCEPT ![j] = [job EXCEPT !.todo = @ \ {s}, !.views[s] = View(rec, appended[s])]]
    BY <1>8 DEF LoadReads
  <2>3. View(rec, appended[s]) \in PanelViews
    BY <1>1, PanelAssumption DEF View, PanelViews, StoriesOK
  <2>4. [job EXCEPT !.todo = @ \ {s}, !.views[s] = View(rec, appended[s])] \in LoadJobs
    BY <2>1, <2>3 DEF LoadJobs
  <2>6. JobSet(j, [job EXCEPT !.todo = @ \ {s}, !.views[s] = View(rec, appended[s])])
    BY <2>2 DEF JobSet
  <2>5. slipped' \in BOOLEAN /\ UNCHANGED <<panel, page, polls>>
    BY <1>1, <1>8 DEF LoadReads
  <2> QED BY <1>1, <1>2, <1>3, <2>4, <2>5, <2>6, ClocksStay, PanelPageStays, JobKeepsTypes
<1>9. CASE LoadAnswers(j)
  <2> DEFINE p == [panel EXCEPT !.version = panel.version + 1, !.views = job.views]
  <2> DEFINE next == [p EXCEPT !.selected = ShownIn(p)]
  <2>1. job \in LoadJobs /\ JobSet(j, NoJob)
    BY <1>4, <1>9 DEF LoadAnswers, JobSet
  <2>2. CASE ~job.mine
    <3>1. UNCHANGED <<panel, page, polls, slipped>>
      BY <1>9, <2>2 DEF LoadAnswers
    <3> QED BY <1>1, <1>2, <1>3, <2>1, <3>1, ClocksStay, PanelPageStays, JobKeepsTypes
  <2>3. CASE job.mine
    <3>1. Follows(next) /\ page' = Drawn(next) /\ slipped' \in BOOLEAN
      BY <1>1, <1>9, <2>3 DEF LoadAnswers
    <3>2. panel.generation < MaxFollows /\ panel \in PanelStates /\ panel.version <= panel.generation
      BY <1>1, <3>1 DEF Follows, FollowOK, FollowersOK, PanelStates
    <3>3. panel.version + 1 \in 0..MaxFollows /\ job.views \in [ThreadSessions -> PanelViews]
      BY <2>1, <3>2, PanelAssumption DEF PanelStates, LoadJobs
    <3>4. p \in PanelStates /\ p.generation = panel.generation /\ p.version = panel.version + 1
      BY <3>2, <3>3 DEF PanelStates
    <3>5. next \in PanelStates /\ next.generation = panel.generation /\ next.version = panel.version + 1
      <4>1. ShownIn(p) \in ThreadSessions \cup {NoSession}
        BY <3>4, ShownIsThere
      <4> HIDE DEF p
      <4> QED BY <3>4, <4>1 DEF PanelStates
    <3> HIDE DEF next
    <3>6. FollowOK'
      BY <1>1, <3>1, <3>5, FollowingStarts DEF FollowedAnew
    <3>7. PanelPageOK'
      BY <3>1, <3>5, DrawnIsAPage DEF PanelPageOK
    <3> QED BY <1>2, <1>3, <2>1, <3>1, <3>6, <3>7, JobKeepsTypes
  <2> QED BY <2>2, <2>3
<1> QED BY <1>5, <1>6, <1>7, <1>8, <1>9

LEMMA OperatorKeepsTypes ==
  ASSUME PanelTyped, NEW j \in Jobs,
         \/ PanelDecisionServed(j) \/ PanelDecisionWritten(j) \/ PanelDecisionAnswers(j)
         \/ SendGovernedTurn(j) \/ TurnServed(j) \/ TurnAnswers(j)
         \/ \E decision \in Decisions : PanelDecision(j, decision)
  PROVE  PanelTyped'
<1> DEFINE job == jobs[j]
<1>1. /\ StoriesOK /\ PanelPageOK /\ FollowOK /\ jobs \in [Jobs -> JobStates] /\ jobs[j] \in JobStates
      /\ told \subseteq ThreadSessions \X Decisions /\ slipped \in BOOLEAN
      /\ UNCHANGED <<appended, page, polls, slipped>>
  BY TypedInTwo DEF Rest, PanelDecisionServed, PanelDecisionWritten, PanelDecisionAnswers,
       SendGovernedTurn, TurnServed, TurnAnswers, PanelDecision
<1>2. PanelPageOK' /\ slipped' \in BOOLEAN
  BY <1>1, PanelPageStays
<1>3. DecideJobs \subseteq JobStates /\ TurnJobs \subseteq JobStates /\ LoadJobs \subseteq JobStates
  BY KindsOfJobs
<1>4. /\ job.kind = "decide" => job \in DecideJobs
      /\ job.kind = "turn" => job \in TurnJobs
  BY <1>1, JobIsOfItsKind
<1>5. CASE PanelDecisionServed(j)
  <2>1. job \in DecideJobs /\ UNCHANGED <<story, panel, told>>
    BY <1>4, <1>5 DEF PanelDecisionServed
  <2>2. PICK phase \in {"refused", "checked", "recorded"} : jobs' = [jobs EXCEPT ![j].phase = phase]
    BY <1>5 DEF PanelDecisionServed
  <2>3. [job EXCEPT !.phase = phase] \in DecideJobs
    BY <2>1 DEF DecideJobs
  <2>4. JobSet(j, [job EXCEPT !.phase = phase])
    BY <2>2 DEF JobSet
  <2>5. StoriesOK' /\ FollowOK' /\ told' \subseteq ThreadSessions \X Decisions
    BY <1>1, <2>1, StoriesStay, ClocksStay
  <2> QED BY <1>2, <1>3, <2>3, <2>4, <2>5, JobKeepsTypes
<1>6. CASE PanelDecisionWritten(j)
  <2>1. /\ job \in DecideJobs /\ UNCHANGED <<panel, told>> /\ Change(job.session, job.decision)
        /\ jobs' = [jobs EXCEPT ![j].phase = "recorded"]
    BY <1>4, <1>6 DEF PanelDecisionWritten
  <2>2. job.session \in ThreadSessions /\ job.decision \in Kinds
    BY <2>1 DEF DecideJobs, Decisions, Kinds
  <2>3. [job EXCEPT !.phase = "recorded"] \in DecideJobs
    BY <2>1 DEF DecideJobs
  <2>4. JobSet(j, [job EXCEPT !.phase = "recorded"])
    BY <2>1 DEF JobSet
  <2>5. StoriesOK'
    BY <1>1, <2>1, <2>2, StoryGrows
  <2>6. FollowOK' /\ told' \subseteq ThreadSessions \X Decisions
    BY <1>1, <2>1, ClocksStay
  <2> QED BY <1>2, <1>3, <2>3, <2>4, <2>5, <2>6, JobKeepsTypes
<1>7. CASE TurnServed(j)
  <2>1. /\ job \in TurnJobs /\ UNCHANGED <<panel, told>> /\ Change(job.session, "worked")
        /\ jobs' = [jobs EXCEPT ![j].phase = "done"]
    BY <1>4, <1>7 DEF TurnServed
  <2>2. job.session \in ThreadSessions /\ "worked" \in Kinds
    BY <2>1 DEF TurnJobs, Kinds
  <2>3. [job EXCEPT !.phase = "done"] \in TurnJobs
    BY <2>1 DEF TurnJobs
  <2>4. JobSet(j, [job EXCEPT !.phase = "done"])
    BY <2>1 DEF JobSet
  <2>5. StoriesOK'
    BY <1>1, <2>1, <2>2, StoryGrows
  <2>6. FollowOK' /\ told' \subseteq ThreadSessions \X Decisions
    BY <1>1, <2>1, ClocksStay
  <2> QED BY <1>2, <1>3, <2>3, <2>4, <2>5, <2>6, JobKeepsTypes
<1>8. CASE PanelDecisionAnswers(j) \/ TurnAnswers(j)
  <2>1. job \in DecideJobs \cup TurnJobs /\ UNCHANGED story
        /\ (PanelDecisionAnswers(j) => job \in DecideJobs)
    BY <1>4, <1>8 DEF PanelDecisionAnswers, TurnAnswers
  <2>2. job.session \in ThreadSessions /\ job.mine \in BOOLEAN
        /\ (job \in DecideJobs => job.decision \in Decisions)
    BY <2>1 DEF DecideJobs, TurnJobs
  <2>3. panel' \in {panel, [panel EXCEPT !.selected = job.session]}
    BY <1>8 DEF PanelDecisionAnswers, TurnAnswers
  <2>4. JobSet(j, [LoadJob EXCEPT !.mine = job.mine])
    BY <1>8 DEF PanelDecisionAnswers, TurnAnswers, JobSet
  <2>5. [LoadJob EXCEPT !.mine = job.mine] \in JobStates
    BY <1>3, <2>2, FirstView
  <2>6. told' \subseteq ThreadSessions \X Decisions
    BY <1>1, <1>8, <2>1, <2>2 DEF PanelDecisionAnswers, TurnAnswers
  <2>7. FollowOK'
    <3>1. panel' \in {panel, [panel EXCEPT !.selected = job.session], [panel EXCEPT !.open = TRUE]}
      BY <2>3
    <3> HIDE DEF job
    <3> QED BY <1>1, <2>2, <3>1, SelectionStays
  <2>8. StoriesOK'
    BY <1>1, <2>1, StoriesStay
  <2> QED BY <1>2, <2>4, <2>5, <2>6, <2>7, <2>8, JobKeepsTypes
<1>9. CASE SendGovernedTurn(j)
  <2>1. UNCHANGED <<story, panel, told>>
    BY <1>9 DEF SendGovernedTurn
  <2>2. PICK s \in ThreadSessions :
          JobSet(j, [kind |-> "turn", phase |-> "sent", mine |-> TRUE, session |-> s])
    BY <1>9 DEF SendGovernedTurn, JobSet
  <2>3. [kind |-> "turn", phase |-> "sent", mine |-> TRUE, session |-> s] \in TurnJobs
    BY DEF TurnJobs
  <2>4. StoriesOK' /\ FollowOK' /\ told' \subseteq ThreadSessions \X Decisions
    BY <1>1, <2>1, StoriesStay, ClocksStay
  <2> QED BY <1>2, <1>3, <2>2, <2>3, <2>4, JobKeepsTypes
<1>10. ASSUME NEW decision \in Decisions, PanelDecision(j, decision) PROVE PanelTyped'
  <2>1. UNCHANGED <<story, panel, told>> /\ page.session \in ThreadSessions
    BY <1>1, <1>10 DEF PanelDecision, PanelPageOK
  <2> DEFINE new == [kind |-> "decide", phase |-> "sent", mine |-> TRUE,
                     session |-> page.session, decision |-> decision]
  <2>2. JobSet(j, new)
    BY <1>10 DEF PanelDecision, JobSet
  <2>3. new \in DecideJobs
    BY <2>1 DEF DecideJobs
  <2>4. StoriesOK' /\ FollowOK' /\ told' \subseteq ThreadSessions \X Decisions
    BY <1>1, <2>1, StoriesStay, ClocksStay
  <2> HIDE DEF new
  <2> QED BY <1>2, <1>3, <2>2, <2>3, <2>4, JobKeepsTypes
<1> QED BY <1>5, <1>6, <1>7, <1>8, <1>9, <1>10

LEMMA FocusKeepsTypes ==
  ASSUME PanelTyped, NEW s \in ThreadSessions, FocusSession(s)
  PROVE  PanelTyped'
<1> DEFINE next == [panel EXCEPT !.selected = s]
<1>1. FollowOK /\ Rest /\ UNCHANGED <<story, appended, jobs, told, slipped>>
      /\ Follows(next) /\ page' = Drawn(next)
  BY TypedInTwo DEF FocusSession
<1>2. next \in PanelStates /\ FollowedAnew(next)
  BY <1>1 DEF FollowOK, PanelStates, FollowedAnew
<1> HIDE DEF next
<1>3. FollowOK'
  BY <1>1, <1>2, FollowingStarts
<1>4. PanelPageOK'
  BY <1>1, <1>2, DrawnIsAPage DEF PanelPageOK
<1>5. Rest'
  BY <1>1, <1>4, StoriesStay DEF Rest
<1> QED BY <1>3, <1>5, TypedInTwo, PTL

LEMMA DisposeKeepsTypes ==
  ASSUME PanelTyped, Dispose
  PROVE  PanelTyped'
<1>1. FollowOK /\ Rest /\ UNCHANGED <<story, appended, polls, told, slipped>>
  BY TypedInTwo DEF Dispose
<1>2. /\ panel.generation \in 0..MaxFollows /\ panel.version \in 0..MaxFollows
      /\ panel.version < MaxFollows /\ panel.generation < MaxFollows
  BY <1>1 DEF FollowOK, PanelStates, Dispose
<1>3. panel' = [open |-> FALSE, version |-> panel.version + 1,
                views |-> [s \in ThreadSessions |-> NoPanelView],
                selected |-> NoSession, generation |-> panel.generation + 1, timer |-> 0]
  BY DEF Dispose, Closed
<1>4. panel' \in PanelStates
  <2>1. [s \in ThreadSessions |-> NoPanelView] \in [ThreadSessions -> PanelViews]
    BY FirstView
  <2> QED BY <1>2, <1>3, <2>1, PanelAssumption DEF PanelStates
<1>5. FollowersOK'
  BY <1>1, <1>2, <1>3, PanelAssumption DEF FollowOK, FollowersOK
<1>6. PanelPageOK'
  BY EmptyPages DEF NoPageOK, PanelPageOK, Dispose
<1>7. jobs' \in [Jobs -> JobStates]
  <2>1. ASSUME NEW j \in Jobs, ~Free(j) PROVE [jobs[j] EXCEPT !.mine = FALSE] \in JobStates
    <3>1. jobs[j] \in LoadJobs \cup DecideJobs \cup TurnJobs
      BY <1>1, <2>1, JobIsOfItsKind DEF Rest
    <3>2. [jobs[j] EXCEPT !.mine = FALSE] \in LoadJobs \cup DecideJobs \cup TurnJobs
      BY <3>1 DEF LoadJobs, DecideJobs, TurnJobs
    <3> QED BY <3>2, KindsOfJobs
  <2>2. NoJob \in JobStates
    BY KindsOfJobs
  <2> QED BY <2>1, <2>2 DEF Dispose
<1>8. FollowOK' /\ Rest'
  BY <1>1, <1>4, <1>5, <1>6, <1>7, StoriesStay DEF FollowOK, Rest
<1> QED BY <1>8, TypedInTwo, PTL

LEMMA PanelStepKeepsTypes == PanelTyped /\ [PanelNext]_panelVars => PanelTyped'
<1> SUFFICES ASSUME PanelTyped, [PanelNext]_panelVars PROVE PanelTyped'
  OBVIOUS
<1>1. CASE \E s \in ThreadSessions : AppendsEvent(s) \/ FocusSession(s) \/ \E kind \in Kinds : Happens(s, kind)
  BY <1>1, StoryKeepsTypes, FocusKeepsTypes
<1>2. CASE \E g \in 1..MaxFollows : StreamAnswers(g) \/ StreamEmpty(g) \/ TimelineAnswers(g) \/ TimelineFails(g)
  BY <1>2, FollowersKeepTypes
<1>3. CASE PanelTimerFires \/ Dispose
  BY <1>3, TimerKeepsTypes, DisposeKeepsTypes
<1>4. ASSUME NEW j \in Jobs,
             \/ CreateOrShow(j) \/ Refresh(j) \/ LoadLists(j) \/ LoadAnswers(j) \/ JobFails(j)
             \/ PanelDecisionRefused(j) \/ \E s \in ThreadSessions : LoadReads(j, s)
      PROVE  PanelTyped'
  BY <1>4, LoadsKeepTypes DEF Refresh, JobFails, PanelDecisionRefused
<1>5. ASSUME NEW j \in Jobs,
             \/ PanelDecisionServed(j) \/ PanelDecisionWritten(j) \/ PanelDecisionAnswers(j)
             \/ SendGovernedTurn(j) \/ TurnServed(j) \/ TurnAnswers(j)
             \/ \E decision \in Decisions : PanelDecision(j, decision)
      PROVE  PanelTyped'
  BY <1>5, OperatorKeepsTypes
<1>6. CASE UNCHANGED panelVars
  BY <1>6 DEF panelVars, PanelTyped, StoriesOK, PanelPageOK, FollowersOK
<1> QED BY <1>1, <1>2, <1>3, <1>4, <1>5, <1>6 DEF PanelNext

LEMMA PanelStartsTyped == PanelInit => PanelTyped
<1> SUFFICES ASSUME PanelInit PROVE PanelTyped
  OBVIOUS
<1>1. StoriesOK
  BY PanelAssumption DEF PanelInit, StoriesOK
<1>2. panel \in PanelStates /\ panel.version = 0 /\ panel.generation = 0 /\ panel.timer = 0
  <2>1. [s \in ThreadSessions |-> NoPanelView] \in [ThreadSessions -> PanelViews]
    BY FirstView
  <2> QED BY <2>1, PanelAssumption DEF PanelInit, Closed, PanelStates
<1>3. polls \in [1..MaxFollows -> PollStates] /\ \A g \in 1..MaxFollows : polls[g] = NoPoll
  BY DEF PanelInit, PollStates
<1>4. jobs \in [Jobs -> JobStates]
  BY DEF PanelInit, JobStates
<1>5. PanelPageOK
  BY EmptyPages DEF PanelInit, PanelPageOK, NoPageOK
<1>6. FollowersOK
  BY <1>2, <1>3 DEF FollowersOK
<1>7. told \subseteq ThreadSessions \X Decisions /\ slipped \in BOOLEAN
  BY DEF PanelInit
<1> QED BY <1>1, <1>2, <1>3, <1>4, <1>5, <1>6, <1>7 DEF PanelTyped

(* The panel's state is well formed: its calls, views and jobs are what    *)
(* the code can hold, and a record is ahead of its event by at most one.   *)
THEOREM PanelIsWellFormed == PanelSpec => []PanelTypeOK
<1>1. PanelSpec => []PanelTyped
  BY PanelStartsTyped, PanelStepKeepsTypes, PTL DEF PanelSpec
<1> QED BY <1>1, TypedIsTyped, PTL

(* One follower of the panel is alive.                                     *)
THEOREM PanelHasOneFollower == PanelSpec => []OnePanelFollower
<1>1. PanelSpec => []PanelTyped
  BY PanelStartsTyped, PanelStepKeepsTypes, PTL DEF PanelSpec
<1>2. PanelTyped => OnePanelFollower
  BY DEF PanelTyped, FollowersOK, OnePanelFollower
<1> QED BY <1>1, <1>2, PTL

-----------------------------------------------------------------------------
(* What the operator is told has been recorded *)

Recorded(s) == Changes(s, Len(story[s]))
Records == [s \in ThreadSessions |-> Recorded(s)]

\* A decision whose job says that it is recorded is among these records.
Tells(job, records) == job.kind = "decide" /\ job.phase = "recorded" => job.decision \in records[job.session]
JobsTell == \A j \in Jobs : Tells(jobs[j], Records)

LEMMA StoryMoves ==
  ASSUME PanelTyped, [PanelNext]_panelVars
  PROVE  UNCHANGED story
         \/ \E s \in ThreadSessions, kind \in Kinds : Change(s, kind) /\ UNCHANGED appended
<1>1. ASSUME NEW j \in Jobs, PanelDecisionWritten(j) PROVE
        \E s \in ThreadSessions, kind \in Kinds : Change(s, kind) /\ UNCHANGED appended
  <2>1. jobs[j] \in DecideJobs
    BY <1>1, JobIsOfItsKind DEF PanelTyped, PanelDecisionWritten
  <2> QED BY <2>1, <1>1 DEF DecideJobs, PanelDecisionWritten, Decisions, Kinds
<1>2. ASSUME NEW j \in Jobs, TurnServed(j) PROVE
        \E s \in ThreadSessions, kind \in Kinds : Change(s, kind) /\ UNCHANGED appended
  <2>1. jobs[j] \in TurnJobs
    BY <1>2, JobIsOfItsKind DEF PanelTyped, TurnServed
  <2> QED BY <2>1, <1>2 DEF TurnJobs, TurnServed, Kinds
<1>3. CASE \E s \in ThreadSessions, kind \in Kinds : Happens(s, kind)
  BY <1>3 DEF Happens
<1>4. CASE \/ \E s \in ThreadSessions : AppendsEvent(s) \/ FocusSession(s)
           \/ \E g \in 1..MaxFollows : StreamAnswers(g) \/ StreamEmpty(g) \/ TimelineAnswers(g) \/ TimelineFails(g)
           \/ PanelTimerFires \/ Dispose \/ UNCHANGED panelVars
  BY <1>4 DEF AppendsEvent, FocusSession, StreamAnswers, StreamEmpty, TimelineAnswers, TimelineFails,
       PanelTimerFires, Dispose, panelVars
<1>5. ASSUME NEW j \in Jobs,
             \/ CreateOrShow(j) \/ Refresh(j) \/ LoadLists(j) \/ LoadAnswers(j) \/ JobFails(j)
             \/ PanelDecisionRefused(j) \/ \E s \in ThreadSessions : LoadReads(j, s)
             \/ PanelDecisionServed(j) \/ PanelDecisionAnswers(j) \/ SendGovernedTurn(j) \/ TurnAnswers(j)
             \/ \E decision \in Decisions : PanelDecision(j, decision)
      PROVE  UNCHANGED story
  BY <1>5 DEF CreateOrShow, Refresh, LoadLists, LoadAnswers, JobFails, ShowsError, PanelDecisionRefused,
       LoadReads, PanelDecisionServed, PanelDecisionAnswers, SendGovernedTurn, TurnAnswers, PanelDecision
<1> QED BY <1>1, <1>2, <1>3, <1>4, <1>5 DEF PanelNext

StoriesGrow ==
  \A s \in ThreadSessions : Recorded(s) \subseteq Recorded(s)' /\ Len(story[s]) <= Len(story[s])'

LEMMA RecordsStay ==
  ASSUME PanelTyped, [PanelNext]_panelVars
  PROVE  StoriesGrow
<1>1. \A s \in ThreadSessions : story[s] \in Seq(Kinds) /\ Len(story[s]) \in Nat
  BY DEF PanelTyped, StoriesOK
<1>2. CASE UNCHANGED story
  <2>1. ASSUME NEW s \in ThreadSessions
        PROVE  Recorded(s)' = Recorded(s) /\ Len(story[s])' = Len(story[s])
    BY <1>2 DEF Recorded, Changes
  <2> QED BY <2>1, <1>1 DEF StoriesGrow
<1>3. ASSUME NEW s \in ThreadSessions, NEW kind \in Kinds, Change(s, kind), UNCHANGED appended
      PROVE  StoriesGrow
  <2>1. \A r \in ThreadSessions : /\ Len(story[r]) <= Len(story'[r])
                                  /\ \A i \in 1..Len(story[r]) : story'[r][i] = story[r][i]
        /\ StoriesOK'
    BY <1>3, StoryGrows DEF PanelTyped
  <2>2. ASSUME NEW r \in ThreadSessions, NEW change \in Recorded(r) PROVE change \in Recorded(r)'
    <3>1. PICK i \in 1..Len(story[r]) : change = story[r][i]
      BY DEF Recorded, Changes
    <3>2. i \in 1..Len(story'[r]) /\ story'[r][i] = change
      BY <1>1, <2>1, <3>1 DEF StoriesOK
    <3> QED BY <3>2 DEF Recorded, Changes
  <2> QED BY <2>1, <2>2 DEF StoriesGrow
<1> QED BY <1>2, <1>3, StoryMoves

LEMMA TellsStill ==
  ASSUME NEW before, NEW after, \A s \in ThreadSessions : before[s] \subseteq after[s],
         NEW job \in JobStates, Tells(job, before)
  PROVE  Tells(job, after)
<1>1. CASE job \in DecideJobs
  BY <1>1 DEF Tells, DecideJobs
<1>2. CASE job \notin DecideJobs
  BY <1>2, KindsOfJobs DEF Tells, NoJob, LoadJobs, TurnJobs
<1> QED BY <1>1, <1>2

\* A decision that is accepted and not pending is one that is recorded.
LEMMA AcceptedIsRecorded ==
  ASSUME PanelTyped, NEW s \in ThreadSessions, NEW decision \in Decisions,
         Accepts(s, decision), Status(s, Len(story[s])) # "pending"
  PROVE  decision \in Recorded(s)
<1> DEFINE n == Len(story[s])
<1> DEFINE last == LastOf(s, n, {"asked", "approved", "denied"})
<1>1. n \in Nat
  BY DEF PanelTyped, StoriesOK
<1>2. Status(s, n) = decision
  BY DEF Accepts
<1>3. last = decision /\ last # "none"
  BY <1>2 DEF Status, Decisions
<1>4. last \in Changes(s, n)
  <2> HIDE DEF n
  <2> QED BY <1>1, <1>3, LastIsThere
<1> QED BY <1>3, <1>4 DEF Recorded

Telling == ToldWasRecorded /\ JobsTell

LEMMA JobsGoOnTelling ==
  ASSUME PanelTyped, JobsTell, StoriesGrow, NEW j \in Jobs, NEW job,
         Tells(job, Records'), jobs' = [jobs EXCEPT ![j] = job]
  PROVE  JobsTell'
<1>1. ASSUME NEW k \in Jobs PROVE Tells(jobs'[k], Records')
  <2>1. CASE k = j
    BY <2>1 DEF PanelTyped
  <2>2. CASE k # j
    <3>1. jobs'[k] = jobs[k] /\ jobs[k] \in JobStates /\ Tells(jobs[k], Records)
      BY <2>2 DEF PanelTyped, JobsTell
    <3>2. \A s \in ThreadSessions : Records[s] \subseteq Records'[s]
      BY DEF StoriesGrow, Records
    <3> QED BY <3>1, <3>2, TellsStill
  <2> QED BY <2>1, <2>2
<1> QED BY <1>1 DEF JobsTell

LEMMA TellingStep == PanelTyped /\ Telling /\ [PanelNext]_panelVars => Telling'
<1> SUFFICES ASSUME PanelTyped, Telling, [PanelNext]_panelVars PROVE Telling'
  OBVIOUS
<1>1. /\ StoriesGrow /\ jobs \in [Jobs -> JobStates] /\ told \subseteq ThreadSessions \X Decisions
      /\ JobsTell /\ ToldWasRecorded
  BY RecordsStay DEF PanelTyped, Telling
<1>2. \A s \in ThreadSessions : Records[s] \subseteq Records'[s]
  BY <1>1 DEF StoriesGrow, Records
<1>3. ASSUME UNCHANGED told PROVE ToldWasRecorded'
  BY <1>1, <1>3 DEF ToldWasRecorded, StoriesGrow, Recorded
<1>4. ASSUME UNCHANGED jobs PROVE JobsTell'
  <2>1. ASSUME NEW j \in Jobs PROVE Tells(jobs'[j], Records')
    <3>1. jobs[j] \in JobStates /\ Tells(jobs[j], Records) /\ jobs'[j] = jobs[j]
      BY <1>1, <1>4 DEF JobsTell
    <3> QED BY <1>2, <3>1, TellsStill
  <2> QED BY <2>1 DEF JobsTell
<1>5. ASSUME NEW j \in Jobs, NEW job, Tells(job, Records'), jobs' = [jobs EXCEPT ![j] = job]
      PROVE  JobsTell'
  BY <1>1, <1>5, JobsGoOnTelling
<1>6. CASE \/ \E s \in ThreadSessions : AppendsEvent(s) \/ FocusSession(s) \/ \E kind \in Kinds : Happens(s, kind)
           \/ \E g \in 1..MaxFollows : StreamAnswers(g) \/ StreamEmpty(g) \/ TimelineAnswers(g) \/ TimelineFails(g)
           \/ PanelTimerFires \/ UNCHANGED panelVars
  <2>1. UNCHANGED <<jobs, told>>
    BY <1>6 DEF AppendsEvent, FocusSession, Happens, StreamAnswers, StreamEmpty, TimelineAnswers,
         TimelineFails, PanelTimerFires, panelVars
  <2> QED BY <2>1, <1>3, <1>4 DEF Telling
<1>7. CASE Dispose
  <2>1. UNCHANGED told /\ jobs' = [j \in Jobs |-> IF Free(j) THEN NoJob ELSE [jobs[j] EXCEPT !.mine = FALSE]]
    BY <1>7 DEF Dispose
  <2>2. ASSUME NEW j \in Jobs PROVE Tells(jobs'[j], Records')
    <3>1. jobs[j] \in JobStates /\ Tells(jobs[j], Records')
      BY <1>1, <1>2, TellsStill DEF JobsTell
    <3>2. CASE Free(j)
      BY <2>1, <3>2 DEF Tells, NoJob
    <3>3. CASE ~Free(j)
      <4>1. jobs[j] \in LoadJobs \cup DecideJobs \cup TurnJobs /\ jobs'[j] = [jobs[j] EXCEPT !.mine = FALSE]
        BY <1>1, <2>1, <3>3, JobIsOfItsKind
      <4>2. /\ jobs'[j].kind = jobs[j].kind /\ jobs'[j].phase = jobs[j].phase
            /\ (jobs[j].kind = "decide" => jobs'[j].decision = jobs[j].decision
                                           /\ jobs'[j].session = jobs[j].session)
        BY <4>1 DEF LoadJobs, DecideJobs, TurnJobs
      <4> QED BY <3>1, <4>2 DEF Tells
    <3> QED BY <3>2, <3>3
  <2> QED BY <2>1, <2>2, <1>3 DEF JobsTell, Telling
<1>8. ASSUME NEW j \in Jobs,
             \/ CreateOrShow(j) \/ Refresh(j) \/ JobFails(j) \/ PanelDecisionRefused(j)
             \/ LoadAnswers(j) \/ SendGovernedTurn(j) \/ TurnAnswers(j)
             \/ LoadLists(j) \/ \E s \in ThreadSessions : LoadReads(j, s)
      PROVE  Telling'
  <2>1. UNCHANGED told
    BY <1>8 DEF CreateOrShow, Refresh, JobFails, PanelDecisionRefused, ShowsError, LoadAnswers,
         SendGovernedTurn, TurnAnswers, LoadLists, LoadReads
  <2>2. CASE LoadLists(j) \/ \E s \in ThreadSessions : LoadReads(j, s)
    <3>1. jobs[j] \in LoadJobs
      BY <1>1, <2>2, JobIsOfItsKind DEF LoadLists, LoadReads
    <3>2. \E job : jobs' = [jobs EXCEPT ![j] = job] /\ job.kind = "load"
      BY <2>2, <3>1 DEF LoadLists, LoadReads, LoadJobs
    <3> QED BY <3>2, <2>1, <1>3, <1>5 DEF Tells, Telling
  <2>3. CASE ~(LoadLists(j) \/ \E s \in ThreadSessions : LoadReads(j, s))
    <3>1. \E job : jobs' = [jobs EXCEPT ![j] = job] /\ job.kind # "decide"
      BY <1>8, <2>3 DEF CreateOrShow, Refresh, JobFails, PanelDecisionRefused, ShowsError, LoadAnswers,
           SendGovernedTurn, TurnAnswers, LoadJob, NoJob
    <3> QED BY <3>1, <2>1, <1>3, <1>5 DEF Tells, Telling
  <2> QED BY <2>2, <2>3
<1>9. ASSUME NEW j \in Jobs, NEW decision \in Decisions, PanelDecision(j, decision) PROVE Telling'
  <2> DEFINE new == [kind |-> "decide", phase |-> "sent", mine |-> TRUE,
                     session |-> page.session, decision |-> decision]
  <2>1. UNCHANGED told /\ jobs' = [jobs EXCEPT ![j] = new] /\ new.phase = "sent"
    BY <1>9 DEF PanelDecision
  <2> HIDE DEF new
  <2> QED BY <2>1, <1>3, <1>5 DEF Tells, Telling
<1>10. ASSUME NEW j \in Jobs, PanelDecisionServed(j) PROVE Telling'
  <2> DEFINE job == jobs[j]
  <2>1. job \in DecideJobs /\ UNCHANGED <<told, story>>
    BY <1>1, <1>10, JobIsOfItsKind DEF PanelDecisionServed
  <2>2. PICK phase \in {"refused", "checked", "recorded"} :
          /\ jobs' = [jobs EXCEPT ![j].phase = phase]
          /\ phase = "recorded" => /\ Accepts(job.session, job.decision)
                                   /\ Status(job.session, Len(story[job.session])) # "pending"
    BY <1>10 DEF PanelDecisionServed
  <2>3. job.session \in ThreadSessions /\ job.decision \in Decisions
    BY <2>1 DEF DecideJobs
  <2>4. phase = "recorded" => job.decision \in Recorded(job.session)
    <3> HIDE DEF job
    <3> QED BY <2>2, <2>3, AcceptedIsRecorded
  <2>5. Tells([job EXCEPT !.phase = phase], Records')
    <3>1. phase = "recorded" => job.decision \in Records'[job.session]
      BY <2>3, <2>4, <1>2 DEF Records
    <3> QED BY <2>1, <3>1 DEF Tells, DecideJobs
  <2> QED BY <2>1, <2>2, <2>5, <1>3, <1>5 DEF Telling
<1>11. ASSUME NEW j \in Jobs, PanelDecisionWritten(j) PROVE Telling'
  <2> DEFINE job == jobs[j]
  <2>1. /\ job \in DecideJobs /\ UNCHANGED <<told, appended>> /\ Change(job.session, job.decision)
        /\ jobs' = [jobs EXCEPT ![j].phase = "recorded"]
    BY <1>1, <1>11, JobIsOfItsKind DEF PanelDecisionWritten
  <2>2. job.session \in ThreadSessions /\ job.decision \in Kinds
    BY <2>1 DEF DecideJobs, Decisions, Kinds
  <2>3. /\ Len(story'[job.session]) = Len(story[job.session]) + 1
        /\ story'[job.session][Len(story[job.session]) + 1] = job.decision
    <3> HIDE DEF job
    <3> QED BY <2>1, <2>2, StoryGrows DEF PanelTyped
  <2>4. job.decision \in Records'[job.session]
    <3>1. Len(story[job.session]) \in Nat
      BY <2>2 DEF PanelTyped, StoriesOK
    <3>2. Len(story[job.session]) + 1 \in 1..Len(story'[job.session])
      BY <3>1, <2>3
    <3>3. job.decision \in {story'[job.session][i] : i \in 1..Len(story'[job.session])}
      BY <2>3, <3>2
    <3> QED BY <2>2, <3>3 DEF Records, Recorded, Changes
  <2>5. Tells([job EXCEPT !.phase = "recorded"], Records')
    BY <2>1, <2>4 DEF Tells, DecideJobs
  <2> QED BY <2>1, <2>5, <1>3, <1>5 DEF Telling
<1>12. ASSUME NEW j \in Jobs, PanelDecisionAnswers(j) PROVE Telling'
  <2> DEFINE job == jobs[j]
  <2>1. /\ job \in DecideJobs /\ job.phase = "recorded" /\ UNCHANGED story
        /\ told' = told \cup {<<job.session, job.decision>>}
        /\ jobs' = [jobs EXCEPT ![j] = [LoadJob EXCEPT !.mine = job.mine]]
    BY <1>1, <1>12, JobIsOfItsKind DEF PanelDecisionAnswers
  <2>2. job.session \in ThreadSessions /\ job.decision \in Recorded(job.session)
    <3>1. Tells(job, Records)
      BY <1>1 DEF JobsTell
    <3> QED BY <2>1, <3>1 DEF Tells, DecideJobs, Records
  <2>3. ToldWasRecorded'
    BY <2>1, <2>2, <1>1 DEF ToldWasRecorded, Recorded, Changes
  <2>4. Tells([LoadJob EXCEPT !.mine = job.mine], Records')
    BY DEF Tells, LoadJob
  <2> QED BY <2>1, <2>3, <2>4, <1>5 DEF Telling
<1>13. ASSUME NEW j \in Jobs, TurnServed(j) PROVE Telling'
  <2>1. jobs[j] \in TurnJobs /\ jobs' = [jobs EXCEPT ![j].phase = "done"] /\ UNCHANGED told
    BY <1>1, <1>13, JobIsOfItsKind DEF TurnServed
  <2>2. Tells([jobs[j] EXCEPT !.phase = "done"], Records')
    BY <2>1 DEF Tells, TurnJobs
  <2> QED BY <2>1, <2>2, <1>3, <1>5 DEF Telling
<1> QED BY <1>6, <1>7, <1>8, <1>9, <1>10, <1>11, <1>12, <1>13 DEF PanelNext

LEMMA TellingStarts == PanelInit => Telling
  BY DEF PanelInit, Telling, ToldWasRecorded, JobsTell, Tells, NoJob

(* What the operator of the panel is told is recorded has been recorded by *)
(* the runtime, whoever else decides.                                      *)
THEOREM PanelTellsWhatWasRecorded == PanelSpec => []ToldWasRecorded
<1>1. PanelSpec => [](PanelTyped /\ Telling)
  BY PanelStartsTyped, PanelStepKeepsTypes, TellingStarts, TellingStep, PTL DEF PanelSpec
<1>2. Telling => ToldWasRecorded
  BY DEF Telling
<1> QED BY <1>1, <1>2, PTL

-----------------------------------------------------------------------------
(* A quiet panel shows the records as they are *)

Lengths == [s \in ThreadSessions |-> Len(story[s])]
NotAhead(views, lengths) == \A s \in ThreadSessions : views[s].rec <= lengths[s]

\* A load has read nothing that is ahead of the records, and streamed nothing.
LoadTrue(job, lengths) ==
  job.kind = "load" => NotAhead(job.views, lengths) /\ \A s \in ThreadSessions : job.views[s].stream = 0

BeingRead(s) ==
  \E g \in 1..MaxFollows : /\ polls[g].phase = "timeline" /\ polls[g].session = s
                           /\ polls[g].version = panel.version

\* A view whose records are behind the events it knows of is being read again.
CaughtUp == ~slipped => \A s \in ThreadSessions : Known(panel.views[s]) <= panel.views[s].rec \/ BeingRead(s)

Reading ==
  /\ NotAhead(panel.views, Lengths)
  /\ \A j \in Jobs : LoadTrue(jobs[j], Lengths)
  /\ CaughtUp

LEMMA LengthsGrow ==
  ASSUME PanelTyped, [PanelNext]_panelVars
  PROVE  \A s \in ThreadSessions : Lengths[s] \in Nat /\ Lengths'[s] \in Nat /\ Lengths[s] <= Lengths'[s]
<1>1. StoriesGrow
  BY RecordsStay
<1>2. PanelTyped'
  BY PanelStepKeepsTypes
<1> QED BY <1>1, <1>2 DEF Lengths, StoriesGrow, PanelTyped, StoriesOK

Longer(before, after) ==
  \A s \in ThreadSessions : before[s] \in Nat /\ after[s] \in Nat /\ before[s] <= after[s]

LEMMA StillNotAhead ==
  ASSUME NEW before, NEW after, Longer(before, after),
         NEW views \in [ThreadSessions -> PanelViews], NotAhead(views, before)
  PROVE  NotAhead(views, after)
<1>1. \A s \in ThreadSessions : views[s].rec \in Nat
  BY PanelAssumption DEF PanelViews
<1> QED BY <1>1 DEF Longer, NotAhead

LEMMA LoadStaysTrue ==
  ASSUME NEW before, NEW after, Longer(before, after), NEW job \in JobStates, LoadTrue(job, before)
  PROVE  LoadTrue(job, after)
<1>1. CASE job \in LoadJobs
  BY <1>1, StillNotAhead DEF LoadTrue, LoadJobs
<1>2. CASE job \notin LoadJobs
  BY <1>2, KindsOfJobs DEF LoadTrue, NoJob, DecideJobs, TurnJobs
<1> QED BY <1>1, <1>2

LEMMA FirstViewsAreTrue ==
  ASSUME NEW lengths, Longer(lengths, lengths)
  PROVE  NotAhead([s \in ThreadSessions |-> NoPanelView], lengths)
  BY DEF NotAhead, NoPanelView, Longer

LEMMA NewLoadIsTrue ==
  ASSUME NEW lengths, Longer(lengths, lengths), NEW mine
  PROVE  LoadTrue(LoadJob, lengths) /\ LoadTrue([LoadJob EXCEPT !.mine = mine], lengths)
  BY FirstViewsAreTrue DEF LoadTrue, LoadJob, NoPanelView, NotAhead

\* What holds of the jobs as soon as it holds of the one that is set.
JobsTrue == \A j \in Jobs : LoadTrue(jobs[j], Lengths)

LEMMA JobsStayTrue ==
  ASSUME jobs \in [Jobs -> JobStates], JobsTrue, Longer(Lengths, Lengths'), NEW j \in Jobs, NEW job,
         jobs' = [jobs EXCEPT ![j] = job], LoadTrue(job, Lengths')
  PROVE  JobsTrue'
<1>1. ASSUME NEW k \in Jobs PROVE LoadTrue(jobs'[k], Lengths')
  <2>1. CASE k = j
    BY <2>1
  <2>2. CASE k # j
    <3>1. jobs'[k] = jobs[k] /\ jobs[k] \in JobStates /\ LoadTrue(jobs[k], Lengths)
      BY <2>2 DEF JobsTrue
    <3> QED BY <3>1, LoadStaysTrue
  <2> QED BY <2>1, <2>2
<1> QED BY <1>1 DEF JobsTrue

LEMMA JobsStayTrueSet ==
  ASSUME PanelTyped, JobsTrue, [PanelNext]_panelVars
  PROVE  JobsTrue'
<1>1. jobs \in [Jobs -> JobStates] /\ Longer(Lengths, Lengths') /\ Longer(Lengths', Lengths')
  BY LengthsGrow DEF PanelTyped, Longer
<1>2. ASSUME UNCHANGED jobs PROVE JobsTrue'
  <2>1. ASSUME NEW j \in Jobs PROVE LoadTrue(jobs'[j], Lengths')
    <3>1. jobs[j] \in JobStates /\ LoadTrue(jobs[j], Lengths) /\ jobs'[j] = jobs[j]
      BY <1>1, <1>2 DEF JobsTrue
    <3> QED BY <1>1, <3>1, LoadStaysTrue
  <2> QED BY <2>1 DEF JobsTrue
<1>3. ASSUME NEW j \in Jobs, NEW job, jobs' = [jobs EXCEPT ![j] = job], LoadTrue(job, Lengths')
      PROVE  JobsTrue'
  BY <1>1, <1>3, JobsStayTrue
<1>4. ASSUME NEW j \in Jobs, NEW job, jobs' = [jobs EXCEPT ![j] = job], job.kind # "load"
      PROVE  JobsTrue'
  BY <1>3, <1>4 DEF LoadTrue
<1>5. CASE \/ \E s \in ThreadSessions : AppendsEvent(s) \/ FocusSession(s) \/ \E kind \in Kinds : Happens(s, kind)
           \/ \E g \in 1..MaxFollows : StreamAnswers(g) \/ StreamEmpty(g) \/ TimelineAnswers(g) \/ TimelineFails(g)
           \/ PanelTimerFires \/ UNCHANGED panelVars
  <2>1. UNCHANGED jobs
    BY <1>5 DEF AppendsEvent, FocusSession, Happens, StreamAnswers, StreamEmpty, TimelineAnswers,
         TimelineFails, PanelTimerFires, panelVars
  <2> QED BY <2>1, <1>2
<1>6. CASE Dispose
  <2>1. jobs' = [j \in Jobs |-> IF Free(j) THEN NoJob ELSE [jobs[j] EXCEPT !.mine = FALSE]]
    BY <1>6 DEF Dispose
  <2>2. ASSUME NEW j \in Jobs PROVE LoadTrue(jobs'[j], Lengths')
    <3>1. jobs[j] \in JobStates /\ LoadTrue(jobs[j], Lengths')
      BY <1>1, LoadStaysTrue DEF JobsTrue
    <3>2. CASE Free(j)
      BY <2>1, <3>2 DEF LoadTrue, NoJob
    <3>3. CASE ~Free(j)
      <4>1. jobs[j] \in LoadJobs \cup DecideJobs \cup TurnJobs /\ jobs'[j] = [jobs[j] EXCEPT !.mine = FALSE]
        BY <1>1, <2>1, <3>3, JobIsOfItsKind
      <4>2. jobs'[j].kind = jobs[j].kind /\ (jobs[j].kind = "load" => jobs'[j].views = jobs[j].views)
        BY <4>1 DEF LoadJobs, DecideJobs, TurnJobs
      <4> QED BY <3>1, <4>2 DEF LoadTrue
    <3> QED BY <3>2, <3>3
  <2> QED BY <2>2 DEF JobsTrue
<1>7. ASSUME NEW j \in Jobs,
             \/ JobFails(j) \/ PanelDecisionRefused(j) \/ LoadAnswers(j) \/ SendGovernedTurn(j)
             \/ \E decision \in Decisions : PanelDecision(j, decision)
      PROVE  JobsTrue'
  <2>1. \E job : jobs' = [jobs EXCEPT ![j] = job] /\ job.kind # "load"
    <3>1. CASE JobFails(j) \/ PanelDecisionRefused(j) \/ LoadAnswers(j)
      <4>1. jobs' = [jobs EXCEPT ![j] = NoJob]
        BY <3>1 DEF JobFails, PanelDecisionRefused, ShowsError, LoadAnswers
      <4>2. NoJob.kind # "load"
        BY DEF NoJob
      <4> QED BY <4>1, <4>2
    <3>2. CASE SendGovernedTurn(j)
      <4>1. PICK s \in ThreadSessions :
              jobs' = [jobs EXCEPT ![j] = [kind |-> "turn", phase |-> "sent", mine |-> TRUE, session |-> s]]
        BY <3>2 DEF SendGovernedTurn
      <4> DEFINE new == [kind |-> "turn", phase |-> "sent", mine |-> TRUE, session |-> s]
      <4>2. jobs' = [jobs EXCEPT ![j] = new] /\ new.kind # "load"
        BY <4>1
      <4> HIDE DEF new
      <4> QED BY <4>2
    <3>3. ASSUME NEW decision \in Decisions, PanelDecision(j, decision)
          PROVE  \E job : jobs' = [jobs EXCEPT ![j] = job] /\ job.kind # "load"
      <4> DEFINE new == [kind |-> "decide", phase |-> "sent", mine |-> TRUE,
                         session |-> page.session, decision |-> decision]
      <4>1. jobs' = [jobs EXCEPT ![j] = new] /\ new.kind # "load"
        BY <3>3 DEF PanelDecision
      <4> HIDE DEF new
      <4> QED BY <4>1
    <3> QED BY <1>7, <3>1, <3>2, <3>3
  <2> QED BY <2>1, <1>4
<1>8. ASSUME NEW j \in Jobs, PanelDecisionServed(j) \/ PanelDecisionWritten(j) \/ TurnServed(j)
      PROVE  JobsTrue'
  <2>1. jobs[j] \in DecideJobs \cup TurnJobs
    BY <1>1, <1>8, JobIsOfItsKind DEF PanelDecisionServed, PanelDecisionWritten, TurnServed
  <2>2. \E phase : jobs' = [jobs EXCEPT ![j].phase = phase]
    BY <1>8 DEF PanelDecisionServed, PanelDecisionWritten, TurnServed
  <2>3. \E job : jobs' = [jobs EXCEPT ![j] = job] /\ job.kind # "load"
    BY <2>1, <2>2 DEF DecideJobs, TurnJobs
  <2> QED BY <2>3, <1>4
<1>9. ASSUME NEW j \in Jobs, CreateOrShow(j) \/ Refresh(j) \/ PanelDecisionAnswers(j) \/ TurnAnswers(j)
      PROVE  JobsTrue'
  <2>1. \E job : jobs' = [jobs EXCEPT ![j] = job] /\ LoadTrue(job, Lengths')
    BY <1>1, <1>9, NewLoadIsTrue DEF CreateOrShow, Refresh, PanelDecisionAnswers, TurnAnswers
  <2> QED BY <2>1, <1>3
<1>10. ASSUME NEW j \in Jobs, LoadLists(j) PROVE JobsTrue'
  <2>1. jobs[j] \in LoadJobs /\ LoadTrue(jobs[j], Lengths')
    BY <1>1, <1>10, JobIsOfItsKind, LoadStaysTrue DEF LoadLists, JobsTrue
  <2>2. LoadTrue([jobs[j] EXCEPT !.phase = "reading", !.todo = There], Lengths')
    BY <2>1 DEF LoadTrue, LoadJobs
  <2> QED BY <1>3, <1>10, <2>2 DEF LoadLists
<1>11. ASSUME NEW j \in Jobs, NEW s \in ThreadSessions, LoadReads(j, s) PROVE JobsTrue'
  <2> DEFINE job == jobs[j]
  <2>1. job \in LoadJobs /\ LoadTrue(job, Lengths') /\ UNCHANGED story
    BY <1>1, <1>11, JobIsOfItsKind, LoadStaysTrue DEF LoadReads, JobsTrue
  <2>2. PICK rec \in {Len(story[s])} \cup {n \in 0..MaxChanges : n + 1 = appended[s]} :
          jobs' = [jobs EXCEPT ![j] = [job EXCEPT !.todo = @ \ {s}, !.views[s] = View(rec, appended[s])]]
    BY <1>11 DEF LoadReads
  <2>3. rec <= Lengths'[s]
    BY <2>1, <2>2, PanelAssumption DEF PanelTyped, StoriesOK, Lengths
  <2>4. LoadTrue([job EXCEPT !.todo = @ \ {s}, !.views[s] = View(rec, appended[s])], Lengths')
    BY <2>1, <2>3 DEF LoadTrue, LoadJobs, NotAhead, View
  <2> QED BY <1>3, <2>2, <2>4
<1> QED BY <1>5, <1>6, <1>7, <1>8, <1>9, <1>10, <1>11 DEF PanelNext

\* What keeps a view that is being read again being read.
LEMMA ReadingGoesOn ==
  ASSUME CaughtUp, slipped => slipped', panel'.views = panel.views, panel'.version = panel.version,
         \A g \in 1..MaxFollows :
           polls[g].phase = "timeline" /\ polls[g].version = panel.version => polls'[g] = polls[g]
  PROVE  CaughtUp'
<1> SUFFICES ASSUME ~slipped', NEW s \in ThreadSessions
             PROVE  Known(panel'.views[s]) <= panel'.views[s].rec \/ BeingRead(s)'
  BY DEF CaughtUp, Known
<1>1. ~slipped
  OBVIOUS
<1>2. CASE Known(panel.views[s]) <= panel.views[s].rec
  BY <1>2
<1>3. CASE BeingRead(s)
  <2>1. PICK g \in 1..MaxFollows : /\ polls[g].phase = "timeline" /\ polls[g].session = s
                                   /\ polls[g].version = panel.version
    BY <1>3 DEF BeingRead
  <2>2. polls'[g] = polls[g]
    BY <2>1
  <2> QED BY <2>1, <2>2 DEF BeingRead
<1> QED BY <1>1, <1>2, <1>3 DEF CaughtUp

LEMMA ViewsStayTrue ==
  ASSUME PanelTyped, NotAhead(panel.views, Lengths), Longer(Lengths, Lengths'),
         panel'.views = panel.views
  PROVE  NotAhead(panel'.views, Lengths')
<1>1. panel.views \in [ThreadSessions -> PanelViews]
  BY DEF PanelTyped, PanelStates
<1>2. NotAhead(panel.views, Lengths')
  BY <1>1, StillNotAhead
<1> QED BY <1>2

\* The panel is followed anew: no timeline is given up.
LEMMA FollowingLeavesTimelines ==
  ASSUME PanelTyped, NEW p, FollowedAnew(p), Follows(p)
  PROVE  /\ panel'.views = p.views /\ panel'.version = p.version
         /\ \A g \in 1..MaxFollows : polls[g].phase = "timeline" => polls'[g] = polls[g]
<1>1. FollowOK /\ panel.generation \in Nat
  BY NewPanel, PanelAssumption DEF FollowOK, PanelStates
<1>2. p.generation = panel.generation /\ p \in PanelStates /\ panel.generation < MaxFollows
  BY DEF FollowedAnew, Follows
<1>3. Stopped(p) \in PanelStates /\ panel' = Stopped(p) /\ panel'.views = p.views /\ panel'.version = p.version
  <2>1. p.generation + 1 \in 0..MaxFollows /\ 0 \in 0..MaxFollows
    BY <1>1, <1>2, PanelAssumption
  <2> QED BY <1>2, <2>1 DEF Stopped, PanelStates, Follows
<1>4. p.generation + 1 \in 1..MaxFollows
  BY <1>1, <1>2, PanelAssumption
<1>5. TurnOK(Stopped(p), p.generation + 1, polls')
  BY <1>1, <1>3, <1>4, LoopTurns DEF FollowOK, Follows
<1>6. ASSUME NEW g \in 1..MaxFollows, polls[g].phase = "timeline" PROVE polls'[g] = polls[g]
  <2>1. polls[g] # NoPoll
    BY <1>6 DEF NoPoll
  <2>2. g # p.generation + 1
    BY <1>1, <1>2, <2>1 DEF FollowOK, FollowersOK
  <2> QED BY <1>5, <2>2 DEF TurnOK
<1> QED BY <1>3, <1>6

LEMMA FollowersRead ==
  ASSUME PanelTyped, Reading, NEW g \in 1..MaxFollows, Longer(Lengths, Lengths'),
         StreamAnswers(g) \/ StreamEmpty(g) \/ TimelineAnswers(g) \/ TimelineFails(g)
  PROVE  NotAhead(panel'.views, Lengths') /\ CaughtUp'
<1> DEFINE poll == polls[g]
<1> DEFINE s == poll.session
<1> DEFINE view == panel.views[s]
<1>1. FollowOK /\ Rest /\ UNCHANGED <<story, appended>> /\ CaughtUp /\ NotAhead(panel.views, Lengths)
  BY TypedInTwo DEF StreamAnswers, StreamEmpty, TimelineAnswers, TimelineFails, Reading
<1>2. /\ poll \in [phase : {"stream", "timeline"}, session : ThreadSessions, version : 0..MaxFollows,
                   after : 0..MaxChanges, since : 0..MaxChanges]
      /\ polls \in [1..MaxFollows -> PollStates]
  BY <1>1, PollIsOut DEF StreamAnswers, StreamEmpty, TimelineAnswers, TimelineFails, FollowOK
<1>3. s \in ThreadSessions /\ panel \in PanelStates /\ view \in PanelViews
  BY <1>1, <1>2 DEF FollowOK, PanelStates
<1>4. /\ story[s] \in Seq(Kinds) /\ Len(story[s]) \in 0..MaxChanges /\ appended[s] \in 0..MaxChanges
  BY <1>1, <1>3, PanelAssumption DEF Rest, StoriesOK
<1>5. CASE StreamEmpty(g) \/ TimelineFails(g)
  <2>1. panel'.views = panel.views /\ panel'.version = panel.version
    BY <1>3, <1>5 DEF StreamEmpty, TimelineFails, RearmedPanel, PanelStates
  <2>6. polls' = [polls EXCEPT ![g] = NoPoll]
    BY <1>5 DEF StreamEmpty, TimelineFails
  <2>7. slipped => slipped'
    BY <1>5 DEF StreamEmpty, TimelineFails
  <2>2. polls' = [polls EXCEPT ![g] = NoPoll] /\ (slipped => slipped')
    BY <2>6, <2>7
  <2>3. NotAhead(panel'.views, Lengths')
    BY <1>1, <2>1, ViewsStayTrue
  <2>4. CASE TimelineFails(g) /\ poll.version = panel.version
    BY <2>3, <2>4 DEF TimelineFails, CaughtUp
  <2>5. CASE ~(TimelineFails(g) /\ poll.version = panel.version)
    <3>1. ~(poll.phase = "timeline" /\ poll.version = panel.version)
      BY <1>5, <2>5 DEF StreamEmpty, TimelineFails
    <3>2. \A h \in 1..MaxFollows :
            polls[h].phase = "timeline" /\ polls[h].version = panel.version => polls'[h] = polls[h]
      BY <1>2, <2>2, <3>1
    <3>3. CaughtUp'
      BY <1>1, <2>1, <2>2, <3>2, ReadingGoesOn
    <3> QED BY <2>3, <3>3
  <2> QED BY <2>4, <2>5
<1>6. CASE StreamAnswers(g)
  <2>1. PICK upTo \in (poll.after + 1)..appended[s] :
          /\ panel' = WithView(panel, poll, [view EXCEPT !.stream = Larger(view.stream, upTo)])
          /\ polls' = [polls EXCEPT ![g] = [polls[g] EXCEPT !.phase = "timeline", !.after = upTo,
                                                      !.since = Len(story[s])]]
    BY <1>6 DEF StreamAnswers
  <2> DEFINE new == [view EXCEPT !.stream = Larger(view.stream, upTo)]
  <2>2. upTo \in 0..MaxChanges
    BY <1>2, <1>4, PanelAssumption
  <2>3. new \in PanelViews /\ new.rec = view.rec
    BY <1>3, <2>2 DEF PanelViews, Larger
  <2> HIDE DEF new
  <2>4. /\ panel'.version = panel.version
        /\ panel'.views = IF poll.version = panel.version THEN [panel.views EXCEPT ![s] = new] ELSE panel.views
    BY <1>3, <2>1, <2>3, ViewIsPut DEF SameClock, new
  <2>5. \A r \in ThreadSessions : panel'.views[r].rec = panel.views[r].rec
    BY <1>3, <2>3, <2>4 DEF PanelStates
  <2>6. NotAhead(panel'.views, Lengths')
    <3>1. \A r \in ThreadSessions : panel.views[r].rec \in Nat
      BY <1>3, PanelAssumption DEF PanelStates, PanelViews
    <3> QED BY <1>1, <2>5, <3>1 DEF NotAhead, Longer
  <2>7. \A h \in 1..MaxFollows : h # g => polls'[h] = polls[h]
    BY <2>1, <1>2
  <2>8. poll.phase = "stream" /\ UNCHANGED slipped
    BY <1>6 DEF StreamAnswers
  <2>9. CASE poll.version # panel.version
    <3>1. \A h \in 1..MaxFollows :
            polls[h].phase = "timeline" /\ polls[h].version = panel.version => polls'[h] = polls[h]
      BY <2>7, <2>8
    <3>2. CaughtUp'
      BY <1>1, <2>4, <2>8, <2>9, <3>1, ReadingGoesOn
    <3> QED BY <2>6, <3>2
  <2>10. CASE poll.version = panel.version
    <3>1. polls'[g].phase = "timeline" /\ polls'[g].session = s /\ polls'[g].version = panel'.version
      BY <1>2, <2>1, <2>4, <2>10
    <3>2. ASSUME NEW r \in ThreadSessions, ~slipped
          PROVE  Known(panel'.views[r]) <= panel'.views[r].rec \/ BeingRead(r)'
      <4>1. CASE r = s
        BY <3>1, <4>1 DEF BeingRead
      <4>2. CASE r # s /\ BeingRead(r)
        <5>1. PICK h \in 1..MaxFollows : /\ polls[h].phase = "timeline" /\ polls[h].session = r
                                         /\ polls[h].version = panel.version
          BY <4>2 DEF BeingRead
        <5>2. polls'[h] = polls[h]
          BY <2>7, <2>8, <5>1
        <5> QED BY <2>4, <5>1, <5>2 DEF BeingRead
      <4>3. CASE r # s /\ ~BeingRead(r)
        <5>1. panel'.views[r] = panel.views[r]
          BY <1>3, <2>4, <4>3 DEF PanelStates
        <5> QED BY <1>1, <3>2, <4>3, <5>1 DEF CaughtUp
      <4> QED BY <4>1, <4>2, <4>3
    <3>3. CaughtUp'
      BY <2>8, <3>2 DEF CaughtUp, Known
    <3> QED BY <2>6, <3>3
  <2> QED BY <2>9, <2>10
<1>7. CASE TimelineAnswers(g)
  <2>1. PICK t \in Timelines(s, poll.since, poll.after) :
          /\ panel' = RearmedPanel(WithView(panel, poll, [view EXCEPT !.rec = t.rec, !.known = t.known]), g)
          /\ slipped' = (slipped \/ (poll.version = panel.version /\ t.rec < Larger(t.known, Known(view))))
    BY <1>7 DEF TimelineAnswers
  <2> DEFINE new == [view EXCEPT !.rec = t.rec, !.known = t.known]
  <2>2. t.rec \in 0..MaxChanges /\ t.known \in 0..MaxChanges /\ t.rec <= Len(story[s])
    BY <1>2, <1>4, PanelAssumption DEF Timelines
  <2>3. new \in PanelViews /\ new.rec = t.rec /\ new.known = t.known /\ new.stream = view.stream
    BY <1>3, <2>2 DEF PanelViews
  <2> HIDE DEF new
  <2>4. /\ panel'.version = panel.version
        /\ panel'.views = IF poll.version = panel.version THEN [panel.views EXCEPT ![s] = new] ELSE panel.views
    <3>1. /\ SameClock(WithView(panel, poll, new))
          /\ WithView(panel, poll, new).views =
               IF poll.version = panel.version THEN [panel.views EXCEPT ![s] = new] ELSE panel.views
      BY <1>3, <2>3, ViewIsPut
    <3> QED BY <2>1, <3>1 DEF SameClock, RearmedPanel, PanelStates, new
  <2>5. polls' = [polls EXCEPT ![g] = NoPoll] /\ (slipped => slipped')
    BY <1>7, <2>1 DEF TimelineAnswers
  <2>6. NotAhead(panel'.views, Lengths')
    <3>1. \A r \in ThreadSessions : panel.views[r].rec \in Nat
      BY <1>3, PanelAssumption DEF PanelStates, PanelViews
    <3>2. t.rec <= Lengths'[s]
      BY <1>1, <1>3, <2>2 DEF Lengths
    <3>3. ASSUME NEW r \in ThreadSessions PROVE panel'.views[r].rec <= Lengths'[r]
      <4>1. panel'.views[r] = panel.views[r] \/ (r = s /\ panel'.views[r] = new)
        BY <1>3, <2>4 DEF PanelStates
      <4> QED BY <1>1, <2>3, <3>1, <3>2, <4>1 DEF NotAhead, Longer
    <3> QED BY <3>3 DEF NotAhead
  <2>7. CASE poll.version # panel.version
    <3>1. \A h \in 1..MaxFollows :
            polls[h].phase = "timeline" /\ polls[h].version = panel.version => polls'[h] = polls[h]
      BY <1>2, <2>5, <2>7
    <3>2. CaughtUp'
      BY <1>1, <2>4, <2>5, <2>7, <3>1, ReadingGoesOn
    <3> QED BY <2>6, <3>2
  <2>8. CASE poll.version = panel.version
    <3>1. ASSUME NEW r \in ThreadSessions, ~slipped'
          PROVE  Known(panel'.views[r]) <= panel'.views[r].rec \/ BeingRead(r)'
      <4>1. CASE r = s
        <5>1. panel'.views[s] = new
          BY <1>3, <2>4, <2>8 DEF PanelStates
        <5>2. ~(t.rec < Larger(t.known, Known(view)))
          BY <2>1, <2>8, <3>1
        <5>3. Known(view) \in 0..MaxChanges /\ view.stream <= Known(view) /\ view.stream \in 0..MaxChanges
          BY <1>3, LastKnown DEF PanelViews
        <5>4. t.known <= t.rec /\ view.stream <= t.rec
          BY <2>2, <5>2, <5>3, PanelAssumption DEF Larger
        <5>5. Known(new) <= new.rec
          BY <2>3, <5>4 DEF Known, Larger
        <5> QED BY <4>1, <5>1, <5>5
      <4>2. CASE r # s /\ BeingRead(r)
        <5>1. PICK h \in 1..MaxFollows : /\ polls[h].phase = "timeline" /\ polls[h].session = r
                                         /\ polls[h].version = panel.version
          BY <4>2 DEF BeingRead
        <5>2. polls'[h] = polls[h]
          BY <1>2, <2>5, <4>2, <5>1
        <5> QED BY <2>4, <5>1, <5>2 DEF BeingRead
      <4>3. CASE r # s /\ ~BeingRead(r)
        <5>1. panel'.views[r] = panel.views[r] /\ ~slipped
          BY <1>3, <2>4, <2>5, <3>1, <4>3 DEF PanelStates
        <5> QED BY <1>1, <4>3, <5>1 DEF CaughtUp
      <4> QED BY <4>1, <4>2, <4>3
    <3>2. CaughtUp'
      BY <3>1 DEF CaughtUp, Known
    <3> QED BY <2>6, <3>2
  <2> QED BY <2>7, <2>8
<1> QED BY <1>5, <1>6, <1>7

LEMMA LoadAnswersRead ==
  ASSUME PanelTyped, Reading, NEW j \in Jobs, Longer(Lengths, Lengths'), LoadAnswers(j)
  PROVE  NotAhead(panel'.views, Lengths') /\ CaughtUp'
<1> DEFINE job == jobs[j]
<1>1. /\ FollowOK /\ CaughtUp /\ NotAhead(panel.views, Lengths) /\ LoadTrue(job, Lengths)
      /\ job \in LoadJobs /\ UNCHANGED story
  BY NewPanel, JobIsOfItsKind DEF Reading, LoadAnswers, PanelTyped
<1>2. CASE ~job.mine
  <2>1. UNCHANGED <<panel, polls, slipped>>
    BY <1>2 DEF LoadAnswers
  <2>2. NotAhead(panel'.views, Lengths')
    BY <1>1, <2>1, ViewsStayTrue
  <2>3. CaughtUp'
    BY <1>1, <2>1, ReadingGoesOn
  <2> QED BY <2>2, <2>3
<1>3. CASE job.mine
  <2> DEFINE p == [panel EXCEPT !.version = panel.version + 1, !.views = job.views]
  <2> DEFINE next == [p EXCEPT !.selected = ShownIn(p)]
  <2>1. Follows(next) /\ slipped' = (slipped \/ \E s \in ThreadSessions : job.views[s].rec < job.views[s].known)
    BY <1>3 DEF LoadAnswers
  <2>2. next.views = job.views /\ panel' = Stopped(next)
    <3>1. panel \in PanelStates /\ job.views \in [ThreadSessions -> PanelViews]
      BY <1>1 DEF FollowOK, LoadJobs
    <3> QED BY <2>1, <3>1 DEF PanelStates, Follows
  <2>3. next \in [open : BOOLEAN, version : {panel.version + 1}, views : [ThreadSessions -> PanelViews],
                  selected : {ShownIn(p)}, generation : 0..MaxFollows, timer : 0..MaxFollows]
    <3>1. panel \in PanelStates /\ job.views \in [ThreadSessions -> PanelViews]
      BY <1>1 DEF FollowOK, LoadJobs
    <3> QED BY <3>1 DEF PanelStates
  <2>4. panel'.views = job.views
    <3> HIDE DEF next
    <3> QED BY <2>2, <2>3 DEF Stopped
  <2>5. \A s \in ThreadSessions : /\ job.views[s] \in PanelViews /\ job.views[s].rec <= Lengths[s]
                                  /\ job.views[s].stream = 0
    BY <1>1 DEF LoadTrue, NotAhead, LoadJobs
  <2>6. NotAhead(panel'.views, Lengths')
    <3>1. Lengths' = Lengths
      BY <1>1 DEF Lengths
    <3> QED BY <2>4, <2>5, <3>1 DEF NotAhead
  <2>7. ASSUME ~slipped', NEW s \in ThreadSessions PROVE Known(job.views[s]) <= job.views[s].rec
    <3>1. ~(job.views[s].rec < job.views[s].known)
      BY <2>1, <2>7
    <3>2. job.views[s].rec \in Nat /\ job.views[s].known \in Nat /\ job.views[s].stream = 0
      BY <2>5, PanelAssumption DEF PanelViews
    <3> QED BY <3>1, <3>2 DEF Known, Larger
  <2>8. CaughtUp'
    BY <2>4, <2>7 DEF CaughtUp, Known
  <2> QED BY <2>6, <2>8
<1> QED BY <1>2, <1>3

LEMMA ReadingStep == PanelTyped /\ Reading /\ [PanelNext]_panelVars => Reading'
<1> SUFFICES ASSUME PanelTyped, Reading, [PanelNext]_panelVars PROVE Reading'
  OBVIOUS
<1>1. /\ FollowOK /\ panel \in PanelStates /\ polls \in [1..MaxFollows -> PollStates]
      /\ jobs \in [Jobs -> JobStates] /\ CaughtUp /\ NotAhead(panel.views, Lengths) /\ JobsTrue
  BY NewPanel DEF FollowOK, PanelTyped, Reading, JobsTrue
<1>2. Longer(Lengths, Lengths') /\ Longer(Lengths', Lengths')
  BY LengthsGrow DEF Longer
<1>3. JobsTrue'
  BY <1>1, JobsStayTrueSet
<1>4. ASSUME NotAhead(panel'.views, Lengths'), CaughtUp' PROVE Reading'
  BY <1>3, <1>4 DEF Reading, JobsTrue
<1>5. ASSUME panel'.views = panel.views, panel'.version = panel.version, slipped => slipped',
             \A g \in 1..MaxFollows : polls[g].phase = "timeline" => polls'[g] = polls[g]
      PROVE  Reading'
  <2>1. NotAhead(panel'.views, Lengths')
    BY <1>1, <1>2, <1>5, ViewsStayTrue
  <2>2. CaughtUp'
    BY <1>1, <1>5, ReadingGoesOn
  <2> QED BY <2>1, <2>2, <1>4
<1>6. CASE \/ \E s \in ThreadSessions : AppendsEvent(s) \/ \E kind \in Kinds : Happens(s, kind)
           \/ UNCHANGED panelVars
  <2>1. UNCHANGED <<panel, polls, slipped>>
    BY <1>6 DEF AppendsEvent, Happens, panelVars
  <2> QED BY <2>1, <1>5
<1>7. ASSUME NEW s \in ThreadSessions, FocusSession(s) PROVE Reading'
  <2> DEFINE next == [panel EXCEPT !.selected = s]
  <2>1. FollowedAnew(next) /\ next.views = panel.views /\ next.version = panel.version
    BY <1>1 DEF PanelStates, FollowedAnew
  <2>2. Follows(next) /\ UNCHANGED slipped
    BY <1>7 DEF FocusSession
  <2> HIDE DEF next
  <2>3. /\ panel'.views = panel.views /\ panel'.version = panel.version
        /\ \A g \in 1..MaxFollows : polls[g].phase = "timeline" => polls'[g] = polls[g]
    BY <2>1, <2>2, FollowingLeavesTimelines
  <2> QED BY <2>2, <2>3, <1>5
<1>8. ASSUME NEW g \in 1..MaxFollows,
             StreamAnswers(g) \/ StreamEmpty(g) \/ TimelineAnswers(g) \/ TimelineFails(g)
      PROVE  Reading'
  BY <1>2, <1>4, <1>8, FollowersRead
<1>9. CASE PanelTimerFires
  <2>1. panel' = [panel EXCEPT !.timer = 0] /\ polls' = LoopTurn(panel, panel.timer) /\ UNCHANGED slipped
        /\ panel.timer # 0
    BY <1>9 DEF PanelTimerFires
  <2>2. panel'.views = panel.views /\ panel'.version = panel.version
    BY <1>1, <2>1 DEF PanelStates
  <2>3. panel.timer \in 1..MaxFollows /\ polls[panel.timer] = NoPoll
    BY <1>1, <2>1, PanelAssumption DEF FollowOK, FollowersOK, PanelStates
  <2>4. TurnOK(panel, panel.timer, polls')
    BY <1>1, <2>1, <2>3, LoopTurns
  <2>5. \A g \in 1..MaxFollows : polls[g].phase = "timeline" => polls'[g] = polls[g]
    BY <2>3, <2>4 DEF TurnOK, NoPoll
  <2> QED BY <2>1, <2>2, <2>5, <1>5
<1>10. CASE Dispose
  <2>1. panel'.views = [s \in ThreadSessions |-> NoPanelView]
    BY <1>10 DEF Dispose, Closed
  <2>2. NotAhead(panel'.views, Lengths')
    BY <1>2, <2>1, FirstViewsAreTrue
  <2>3. CaughtUp'
    BY <2>1 DEF CaughtUp, Known, Larger, NoPanelView
  <2> QED BY <2>2, <2>3, <1>4
<1>11. ASSUME NEW j \in Jobs, LoadAnswers(j) PROVE Reading'
  BY <1>2, <1>4, <1>11, LoadAnswersRead
<1>12. ASSUME NEW j \in Jobs,
             \/ CreateOrShow(j) \/ Refresh(j) \/ LoadLists(j) \/ JobFails(j)
             \/ PanelDecisionRefused(j) \/ \E s \in ThreadSessions : LoadReads(j, s)
             \/ PanelDecisionServed(j) \/ PanelDecisionWritten(j) \/ PanelDecisionAnswers(j)
             \/ SendGovernedTurn(j) \/ TurnServed(j) \/ TurnAnswers(j)
             \/ \E decision \in Decisions : PanelDecision(j, decision)
      PROVE  Reading'
  <2>1. UNCHANGED <<polls, slipped>>
        /\ \/ UNCHANGED panel \/ panel' = [panel EXCEPT !.open = TRUE]
           \/ \E s : panel' = [panel EXCEPT !.selected = s]
    BY <1>12 DEF CreateOrShow, Refresh, LoadLists, JobFails, PanelDecisionRefused, ShowsError, LoadReads,
         PanelDecisionServed, PanelDecisionWritten, PanelDecisionAnswers, SendGovernedTurn, TurnServed,
         TurnAnswers, PanelDecision
  <2>2. panel'.views = panel.views /\ panel'.version = panel.version
    BY <1>1, <2>1 DEF PanelStates
  <2> QED BY <2>1, <2>2, <1>5
<1> QED BY <1>6, <1>7, <1>8, <1>9, <1>10, <1>11, <1>12 DEF PanelNext

LEMMA ReadingStarts == PanelInit => Reading
<1> SUFFICES ASSUME PanelInit PROVE Reading
  OBVIOUS
<1>1. panel.views = [s \in ThreadSessions |-> NoPanelView] /\ Longer(Lengths, Lengths)
  BY DEF PanelInit, Closed, Lengths, Longer
<1>2. NotAhead(panel.views, Lengths)
  BY <1>1, FirstViewsAreTrue
<1>3. CaughtUp
  BY <1>1 DEF CaughtUp, Known, Larger, NoPanelView
<1>4. \A j \in Jobs : LoadTrue(jobs[j], Lengths)
  BY DEF PanelInit, NoJob, LoadTrue
<1> QED BY <1>2, <1>3, <1>4 DEF Reading

(* A follower of the panel that has been told of every event, with no      *)
(* timeline out, shows the records as they are, whatever loads and polls   *)
(* came in between, unless a view has slipped.                             *)
THEOREM QuietPanelShowsRecords == PanelSpec => []QuietPanelIsCurrent
<1>1. PanelSpec => [](PanelTyped /\ Reading)
  BY PanelStartsTyped, PanelStepKeepsTypes, ReadingStarts, ReadingStep, PTL DEF PanelSpec
<1>2. PanelTyped /\ Reading => QuietPanelIsCurrent
  <2> SUFFICES ASSUME PanelTyped, Reading,
                      ShownIn(panel) # NoSession, ~slipped,
                      \A g \in 1..MaxFollows : polls[g].phase # "timeline",
                      Known(panel.views[ShownIn(panel)]) = Len(story[ShownIn(panel)])
               PROVE  panel.views[ShownIn(panel)].rec = Len(story[ShownIn(panel)])
    BY DEF QuietPanelIsCurrent
  <2> DEFINE s == ShownIn(panel)
  <2>1. s \in ThreadSessions /\ panel \in PanelStates
    BY ShownIsThere DEF PanelTyped
  <2> HIDE DEF s
  <2>2. Known(panel.views[s]) <= panel.views[s].rec
    BY <2>1 DEF Reading, CaughtUp, BeingRead
  <2>3. panel.views[s].rec <= Len(story[s])
    BY <2>1 DEF Reading, NotAhead, Lengths
  <2>4. panel.views[s].rec \in Nat /\ Len(story[s]) \in Nat
    <3>1. panel.views[s] \in PanelViews
      BY <2>1 DEF PanelStates
    <3>2. story[s] \in Seq(Kinds)
      BY <2>1 DEF PanelTyped, StoriesOK
    <3> QED BY <3>1, <3>2, PanelAssumption DEF PanelViews
  <2> QED BY <2>2, <2>3, <2>4 DEF s
<1> QED BY <1>1, <1>2, PTL

-----------------------------------------------------------------------------
(* The events of a session *)

Special == {"tool_proposal.decided", "tool_action.started"}

\* Events that are neither a decision nor the start of an action.
Plain(ev) == ev \in Seq(Events) /\ \A i \in 1..Len(ev) : ev[i].type \notin Special

\* Events with no decision and one start.
OneStart(ev) ==
  /\ ev \in Seq(Events) /\ \A i \in 1..Len(ev) : ev[i].type # "tool_proposal.decided"
  /\ \E k \in 1..Len(ev) : /\ ev[k].type = "tool_action.started"
                           /\ \A i \in 1..Len(ev) : ev[i].type = "tool_action.started" => i = k

\* One decision at most, and one start exactly when it approved.
Once(ev) ==
  /\ ev \in Seq(Events)
  /\ \A i, k \in 1..Len(ev) : ev[i].type = ev[k].type /\ ev[i].type \in Special => i = k
  /\ (\E i \in 1..Len(ev) : ev[i].type = "tool_action.started")
       <=> (\E i \in 1..Len(ev) : ev[i].type = "tool_proposal.decided" /\ ev[i].status = "APPROVED")

LEMMA Joined ==
  ASSUME NEW a \in Seq(Events), NEW b \in Seq(Events)
  PROVE  /\ a \o b \in Seq(Events) /\ Len(a \o b) = Len(a) + Len(b)
         /\ \A i \in 1..Len(a) : (a \o b)[i] = a[i]
         /\ \A i \in 1..Len(b) : (a \o b)[Len(a) + i] = b[i]
         /\ \A i \in 1..Len(a \o b) : i \in 1..Len(a) \/ (i - Len(a) \in 1..Len(b) /\ (a \o b)[i] = b[i - Len(a)])
  OBVIOUS

LEMMA PlainJoined ==
  ASSUME NEW a, NEW b, Plain(a), Plain(b)
  PROVE  Plain(a \o b) /\ Len(a \o b) = Len(a) + Len(b) /\ Len(a) \in Nat /\ Len(b) \in Nat
<1>1. a \in Seq(Events) /\ b \in Seq(Events)
  BY DEF Plain
<1>2. ASSUME NEW i \in 1..Len(a \o b) PROVE (a \o b)[i].type \notin Special
  <2>1. CASE i \in 1..Len(a)
    BY <1>1, <2>1, Joined DEF Plain
  <2>2. CASE i - Len(a) \in 1..Len(b) /\ (a \o b)[i] = b[i - Len(a)]
    BY <2>2 DEF Plain
  <2> QED BY <1>1, <2>1, <2>2, Joined
<1> QED BY <1>1, <1>2, Joined DEF Plain

LEMMA PlainOne ==
  ASSUME NEW e \in Events, e.type \notin Special
  PROVE  Plain(<<e>>)
  BY DEF Plain

LEMMA PlainNone == Plain(<<>>)
  BY DEF Plain

LEMMA PlainIsOnce == ASSUME NEW ev, Plain(ev) PROVE Once(ev)
  BY DEF Plain, Once, Special

LEMMA OnceKept ==
  ASSUME NEW ev, NEW add, Once(ev), Plain(add)
  PROVE  Once(ev \o add) /\ ev \o add \in Seq(Events)
<1> DEFINE all == ev \o add
<1>1. ev \in Seq(Events) /\ add \in Seq(Events)
  BY DEF Plain, Once
<1>2. /\ all \in Seq(Events) /\ Len(all) = Len(ev) + Len(add)
      /\ \A i \in 1..Len(ev) : all[i] = ev[i]
      /\ \A i \in 1..Len(all) : i \in 1..Len(ev) \/ (i - Len(ev) \in 1..Len(add) /\ all[i] = add[i - Len(ev)])
  BY <1>1, Joined
<1> HIDE DEF all
<1>3. \A i \in 1..Len(all) : all[i].type \in Special => i \in 1..Len(ev)
  BY <1>2 DEF Plain
<1>4. \A i, k \in 1..Len(all) : all[i].type = all[k].type /\ all[i].type \in Special => i = k
  BY <1>2, <1>3 DEF Once
<1>5. 1..Len(ev) \subseteq 1..Len(all)
  BY <1>1, <1>2
<1>6. (\E i \in 1..Len(all) : all[i].type = "tool_action.started")
        <=> (\E i \in 1..Len(ev) : ev[i].type = "tool_action.started")
  BY <1>2, <1>3, <1>5 DEF Special
<1>7. (\E i \in 1..Len(all) : all[i].type = "tool_proposal.decided" /\ all[i].status = "APPROVED")
        <=> (\E i \in 1..Len(ev) : ev[i].type = "tool_proposal.decided" /\ ev[i].status = "APPROVED")
  BY <1>2, <1>3, <1>5 DEF Special
<1>8. Once(all) /\ all \in Seq(Events)
  BY <1>2, <1>4, <1>6, <1>7 DEF Once
<1> QED BY <1>8 DEF all

LEMMA OneStartJoined ==
  ASSUME NEW a, NEW b, Plain(a), OneStart(b)
  PROVE  OneStart(a \o b)
<1> DEFINE all == a \o b
<1>1. a \in Seq(Events) /\ b \in Seq(Events) /\ Len(a) \in Nat /\ Len(b) \in Nat
  BY DEF Plain, OneStart
<1>2. /\ all \in Seq(Events) /\ Len(all) = Len(a) + Len(b)
      /\ \A i \in 1..Len(a) : all[i] = a[i]
      /\ \A i \in 1..Len(b) : all[Len(a) + i] = b[i]
      /\ \A i \in 1..Len(all) : i \in 1..Len(a) \/ (i - Len(a) \in 1..Len(b) /\ all[i] = b[i - Len(a)])
  BY <1>1, Joined
<1> HIDE DEF all
<1>3. \A i \in 1..Len(all) : all[i].type # "tool_proposal.decided"
  BY <1>2 DEF Plain, OneStart, Special
<1>4. PICK k \in 1..Len(b) : /\ b[k].type = "tool_action.started"
                             /\ \A i \in 1..Len(b) : b[i].type = "tool_action.started" => i = k
  BY DEF OneStart
<1>5. Len(a) + k \in 1..Len(all) /\ all[Len(a) + k].type = "tool_action.started"
  BY <1>1, <1>2, <1>4
<1>6. ASSUME NEW i \in 1..Len(all), all[i].type = "tool_action.started" PROVE i = Len(a) + k
  <2>1. i \notin 1..Len(a)
    BY <1>2, <1>6 DEF Plain, Special
  <2>2. i - Len(a) \in 1..Len(b) /\ all[i] = b[i - Len(a)]
    BY <1>2, <2>1
  <2>3. i - Len(a) = k
    BY <1>4, <1>6, <2>2
  <2> QED BY <1>1, <2>3
<1>7. OneStart(all)
  BY <1>2, <1>3, <1>5, <1>6 DEF OneStart
<1> QED BY <1>7 DEF all

LEMMA ApprovedOnce ==
  ASSUME NEW ev, OneStart(ev), NEW e \in Events, e.type = "tool_proposal.decided", e.status = "APPROVED"
  PROVE  Once(ev \o <<e>>)
<1> DEFINE all == ev \o <<e>>
<1>1. ev \in Seq(Events) /\ Len(ev) \in Nat
  BY DEF OneStart
<1>2. /\ all \in Seq(Events) /\ Len(all) = Len(ev) + 1
      /\ \A i \in 1..Len(ev) : all[i] = ev[i]
      /\ all[Len(ev) + 1] = e
  BY <1>1
<1> HIDE DEF all
<1>3. PICK k \in 1..Len(ev) : /\ ev[k].type = "tool_action.started"
                              /\ \A i \in 1..Len(ev) : ev[i].type = "tool_action.started" => i = k
  BY DEF OneStart
<1>4. \A i \in 1..Len(all) : i \in 1..Len(ev) \/ i = Len(ev) + 1
  BY <1>1, <1>2
<1>5. \A i \in 1..Len(all) : /\ all[i].type = "tool_proposal.decided" => i = Len(ev) + 1
                             /\ all[i].type = "tool_action.started" => i = k
  BY <1>2, <1>3, <1>4 DEF OneStart
<1>6. k \in 1..Len(all) /\ all[k].type = "tool_action.started" /\ Len(ev) + 1 \in 1..Len(all)
  BY <1>1, <1>2, <1>3
<1>7. Once(all)
  BY <1>2, <1>5, <1>6 DEF Once, Special
<1> QED BY <1>7 DEF all

LEMMA DeniedOnce ==
  ASSUME NEW ev, Plain(ev), NEW e \in Events, e.type = "tool_proposal.decided", e.status = "DENIED"
  PROVE  Once(ev \o <<e>>)
<1> DEFINE all == ev \o <<e>>
<1>1. ev \in Seq(Events) /\ Len(ev) \in Nat
  BY DEF Plain
<1>2. /\ all \in Seq(Events) /\ Len(all) = Len(ev) + 1
      /\ \A i \in 1..Len(ev) : all[i] = ev[i]
      /\ all[Len(ev) + 1] = e
  BY <1>1
<1> HIDE DEF all
<1>3. \A i \in 1..Len(all) : i \in 1..Len(ev) \/ i = Len(ev) + 1
  BY <1>1, <1>2
<1>4. \A i \in 1..Len(all) : all[i].type \in Special => i = Len(ev) + 1
  BY <1>2, <1>3 DEF Plain
<1>5. Once(all)
  BY <1>2, <1>3, <1>4 DEF Once, Special, Plain
<1> QED BY <1>5 DEF all

\* No decision, hence no start.
LEMMA UndecidedIsPlain ==
  ASSUME NEW ev, Once(ev), \A i \in 1..Len(ev) : ev[i].type # "tool_proposal.decided"
  PROVE  Plain(ev)
  BY DEF Once, Plain, Special

-----------------------------------------------------------------------------
(* Tasks and timelines *)

TaskRecords == [status : TaskStatuses, latest : 0..MaxSessions]
TimelineRecords == [task : Nat, status : SessionStatuses, managed : BOOLEAN, workers : Seq(WorkerStatuses),
              selected : [id : Nat, status : WorkerStatuses \cup {"none"}], taskStatus : TaskStatuses,
              checkpoint : {"none", "PENDING", "APPROVED", "DENIED"}, actions : Seq({"COMPLETED"}),
              events : Seq(Events)]

OfStatus(st) == IF st \in TerminalStatuses THEN st ELSE "IN_PROGRESS"

\* A timeline agrees with itself.
Sound(tl) ==
  /\ tl \in TimelineRecords /\ tl.selected.id \in 0..Len(tl.workers)
  /\ tl.selected.id # 0 => tl.workers[tl.selected.id] = tl.selected.status
  /\ tl.taskStatus = OfStatus(tl.status)
  /\ Once(tl.events)

\* The tasks, the timelines, and what they say of each other.
MockTyped ==
  /\ tasks \in [Tasks -> TaskRecords \cup {NoTask}]
  /\ timelines \in [Sessions -> TimelineRecords \cup {NoTimeline}]

SessionsSound ==
  \A s \in Sessions : SessionExists(s) =>
    /\ Sound(timelines[s])
    /\ timelines[s].task \in Tasks => TaskExists(timelines[s].task)

TasksSound ==
  \A t \in Tasks : TaskExists(t) /\ tasks[t].latest # 0 =>
    /\ SessionExists(tasks[t].latest) /\ timelines[tasks[t].latest].task = t
    /\ tasks[t].status = timelines[tasks[t].latest].taskStatus

MockSound == MockTyped /\ SessionsSound /\ TasksSound

LEMMA NothingThere == NoTask \notin TaskRecords /\ NoTimeline \notin TimelineRecords
  BY DEF NoTask, TaskRecords, TaskStatuses, TerminalStatuses, NoTimeline, TimelineRecords, SessionStatuses

\* A session becomes a sound timeline on the same task, or appears with one on a task there is.
LEMMA CommitKeeps ==
  ASSUME MockSound, NEW s \in Sessions, NEW tl, Sound(tl), Commit(s, tl),
         tl.task \in Tasks => TaskExists(tl.task),
         SessionExists(s) => timelines[s].task = tl.task
  PROVE  MockSound' /\ ChatTasks' = ChatTasks
<1>1. /\ timelines' = [timelines EXCEPT ![s] = tl] /\ tl \in TimelineRecords
      /\ tasks' = [tasks EXCEPT ![tl.task] = [status |-> tl.taskStatus, latest |-> s]]
      /\ MockTyped /\ SessionsSound /\ TasksSound
  BY DEF Commit, Sound, MockSound
<1>2. tl.taskStatus \in TaskStatuses /\ s \in 0..MaxSessions /\ s # 0
  BY <1>1, MockBoundsAssumption DEF TimelineRecords, Sessions
<1>3. [status |-> tl.taskStatus, latest |-> s] \in TaskRecords
  BY <1>2 DEF TaskRecords
<1>4. MockTyped'
  BY <1>1, <1>3 DEF MockTyped
<1>5. \A t \in Tasks : tasks'[t] # NoTask <=> tasks[t] # NoTask
  <2>1. ASSUME NEW t \in Tasks, t = tl.task PROVE tasks'[t] # NoTask /\ tasks[t] # NoTask
    BY <1>1, <1>3, <2>1, NothingThere DEF TaskExists, MockTyped
  <2>2. ASSUME NEW t \in Tasks, t # tl.task PROVE tasks'[t] = tasks[t]
    BY <1>1, <2>2 DEF MockTyped
  <2> QED BY <2>1, <2>2
<1>6. /\ timelines'[s] = tl /\ tl # NoTimeline
      /\ \A r \in Sessions : r # s => timelines'[r] = timelines[r]
  BY <1>1, NothingThere DEF MockTyped
<1>7. SessionsSound'
  <2>1. ASSUME NEW r \in Sessions, timelines'[r] # NoTimeline
        PROVE  Sound(timelines'[r]) /\ (timelines'[r].task \in Tasks => tasks'[timelines'[r].task] # NoTask)
    <3>1. CASE r = s
      BY <3>1, <1>5, <1>6 DEF TaskExists
    <3>2. CASE r # s
      <4>1. Sound(timelines[r]) /\ (timelines[r].task \in Tasks => tasks[timelines[r].task] # NoTask)
        BY <2>1, <3>2, <1>1, <1>6 DEF SessionsSound, TaskExists, SessionExists
      <4> QED BY <4>1, <3>2, <1>5, <1>6
    <3> QED BY <3>1, <3>2
  <2>2. \A r \in Sessions : Sound(timelines[r])' <=> Sound(timelines'[r])
    BY DEF Sound
  <2> QED BY <2>1, <2>2 DEF SessionsSound, SessionExists, TaskExists
<1>8. TasksSound'
  <2>1. ASSUME NEW t \in Tasks, tasks'[t] # NoTask, tasks'[t].latest # 0
        PROVE  /\ tasks'[t].latest \in Sessions /\ timelines'[tasks'[t].latest] # NoTimeline
               /\ timelines'[tasks'[t].latest].task = t
               /\ tasks'[t].status = timelines'[tasks'[t].latest].taskStatus
    <3>1. CASE t = tl.task
      <4>1. tasks'[t] = [status |-> tl.taskStatus, latest |-> s]
        BY <1>1, <3>1 DEF MockTyped
      <4> QED BY <4>1, <3>1, <1>6
    <3>2. CASE t # tl.task
      <4>1. tasks'[t] = tasks[t]
        BY <1>1, <3>2 DEF MockTyped
      <4>2. /\ tasks[t].latest \in Sessions /\ timelines[tasks[t].latest] # NoTimeline
            /\ timelines[tasks[t].latest].task = t
            /\ tasks[t].status = timelines[tasks[t].latest].taskStatus
        BY <1>1, <2>1, <4>1 DEF TasksSound, TaskExists, SessionExists
      <4>3. tasks[t].latest # s
        BY <3>2, <4>2 DEF SessionExists
      <4> QED BY <4>1, <4>2, <4>3, <1>6
    <3> QED BY <3>1, <3>2
  <2> QED BY <2>1 DEF TasksSound, TaskExists, SessionExists
<1>9. ChatTasks' = ChatTasks
  BY <1>5 DEF ChatTasks, TaskExists
<1> QED BY <1>4, <1>7, <1>8, <1>9 DEF MockSound

LEMMA CreatingKeeps ==
  ASSUME MockSound, NEW t, CreateTask(t)
  PROVE  MockSound'
<1>1. /\ t \in Tasks /\ tasks[t] = NoTask /\ UNCHANGED timelines
      /\ tasks' = [tasks EXCEPT ![t] = [status |-> "NEW", latest |-> 0]]
      /\ MockTyped /\ SessionsSound /\ TasksSound
  BY DEF CreateTask, NewTask, MockSound
<1>2. [status |-> "NEW", latest |-> 0] \in TaskRecords
  BY MockBoundsAssumption DEF TaskRecords, TaskStatuses
<1>3. MockTyped'
  BY <1>1, <1>2 DEF MockTyped
<1>4. /\ tasks'[t] = [status |-> "NEW", latest |-> 0]
      /\ \A u \in Tasks : u # t => tasks'[u] = tasks[u]
  BY <1>1 DEF MockTyped
<1>5. \A u \in Tasks : tasks[u] # NoTask => tasks'[u] # NoTask
  BY <1>1, <1>2, <1>4, NothingThere
<1>6. SessionsSound'
  BY <1>1, <1>5 DEF SessionsSound, SessionExists, TaskExists, Sound
<1>7. TasksSound'
  BY <1>1, <1>4 DEF TasksSound, SessionExists, TaskExists
<1> QED BY <1>3, <1>6, <1>7 DEF MockSound

-----------------------------------------------------------------------------
(* Every operation of the runtime leaves it sound *)

Reports == {"worker.bridge.started", "worker.progress", "worker.heartbeat", "worker.status.changed"}

SoundStep == MockSound' /\ ChatTasks' = ChatTasks

\* A session that is there becomes a sound timeline on its task.
LEMMA SessionMoves ==
  ASSUME MockSound, NEW s, SessionExists(s), NEW tl, Sound(tl), tl.task = timelines[s].task, Commit(s, tl)
  PROVE  SoundStep
<1>1. s \in Sessions /\ (tl.task \in Tasks => TaskExists(tl.task))
  BY DEF SessionExists, MockSound, SessionsSound
<1> QED BY <1>1, CommitKeeps DEF SoundStep

\* A session appears, sound, on a task that is there.
LEMMA SessionAppears ==
  ASSUME MockSound, NEW s, NewSession(s), NEW tl, Sound(tl), TaskExists(tl.task), Commit(s, tl)
  PROVE  SoundStep
  BY CommitKeeps DEF SoundStep, NewSession, SessionExists

LEMMA ThereIsSound ==
  ASSUME MockSound, NEW s, SessionExists(s)
  PROVE  Sound(timelines[s]) /\ timelines[s] \in TimelineRecords /\ Once(timelines[s].events)
  BY DEF MockSound, SessionsSound, SessionExists, Sound

LEMMA PlainMaybe ==
  ASSUME NEW a, NEW b, NEW e \in Events, e.type \notin Special
  PROVE  Plain(Changed(a, b, e))
  BY PlainOne, PlainNone DEF Changed

LEMMA EventIsEvent ==
  ASSUME NEW type \in EventTypes,
         NEW st \in SessionStatuses \cup WorkerStatuses \cup
                      {"none", "AUTHORIZED", "STARTED", "APPROVED", "DENIED", "PENDING"}
  PROVE  Event(type, st) \in Events /\ Event(type, st).type = type /\ Event(type, st).status = st
  BY DEF Event, Events

LEMMA PlainEvent ==
  ASSUME NEW type \in EventTypes \ Special,
         NEW st \in SessionStatuses \cup WorkerStatuses \cup
                      {"none", "AUTHORIZED", "STARTED", "APPROVED", "DENIED", "PENDING"}
  PROVE  /\ Plain(<<Event(type, st)>>)
         /\ \A a, b : Plain(Changed(a, b, Event(type, st)))
  BY EventIsEvent, PlainOne, PlainMaybe

LEMMA CreateSessionIsSound ==
  ASSUME MockSound, NEW t, NEW s, CreateSession(t, s)
  PROVE  SoundStep
<1> DEFINE log == <<Event("session.created", "PENDING")>>
<1> DEFINE tl == [NoTimeline EXCEPT !.task = t, !.status = "PENDING", !.managed = TRUE,
                    !.taskStatus = "IN_PROGRESS", !.events = log]
<1>1. Commit(s, tl) /\ TaskExists(t) /\ NewSession(s) /\ t \in Nat
  BY DEF CreateSession, TaskExists, Tasks
<1>2. Plain(log) /\ Once(log) /\ log \in Seq(Events)
  BY PlainEvent, PlainIsOnce DEF EventTypes, Special, Plain
<1> HIDE DEF log
<1>3. NoTimeline \in [task : {0}, status : {"none"}, managed : {FALSE}, workers : {<<>>}, selected : {NoWorker},
                       taskStatus : {"none"}, checkpoint : {"none"}, actions : {<<>>}, events : {<<>>}]
  BY DEF NoTimeline
<1>8. tl \in [task : {t}, status : {"PENDING"}, managed : {TRUE}, workers : {<<>>}, selected : {NoWorker},
              taskStatus : {"IN_PROGRESS"}, checkpoint : {"none"}, actions : {<<>>}, events : {log}]
  BY <1>3
<1> HIDE DEF tl
<1>4. <<>> \in Seq(WorkerStatuses) /\ <<>> \in Seq({"COMPLETED"})
      /\ NoWorker \in [id : Nat, status : WorkerStatuses \cup {"none"}]
  BY DEF NoWorker
<1>5. tl \in TimelineRecords
  BY <1>1, <1>2, <1>8, <1>4 DEF TimelineRecords, SessionStatuses, TaskStatuses
<1>6. tl.selected.id = 0 /\ tl.workers = <<>> /\ tl.taskStatus = OfStatus(tl.status)
  BY <1>8 DEF NoWorker, OfStatus, TerminalStatuses
<1>7. Sound(tl) /\ tl.task = t
  BY <1>2, <1>8, <1>5, <1>6 DEF Sound
<1> QED BY <1>1, <1>7, SessionAppears

InvokedLog(managed) ==
  <<Event("session.created", "none"), Event("worker.attached", "COMPLETED"),
         IF managed THEN Event("worker.bridge.started", "none")
                    ELSE Event("worker.status.changed", "COMPLETED"),
         Event("worker.output.delta", "none")>>
       \o (IF managed THEN <<Event("tool_proposal.generated", "none")>> ELSE <<>>)
       \o <<Event("tool_action.completed", "COMPLETED"), Event("evidence.recorded", "none"),
            Event("session.completed", "COMPLETED")>>

LEMMA InvokedLogIsPlain ==
  ASSUME NEW managed \in BOOLEAN
  PROVE  Plain(InvokedLog(managed)) /\ 5 \in 0..Len(InvokedLog(managed))
<1> DEFINE a == <<Event("session.created", "none"), Event("worker.attached", "COMPLETED"),
         IF managed THEN Event("worker.bridge.started", "none")
                    ELSE Event("worker.status.changed", "COMPLETED"),
         Event("worker.output.delta", "none")>>
<1> DEFINE b == IF managed THEN <<Event("tool_proposal.generated", "none")>> ELSE <<>>
<1> DEFINE c == <<Event("tool_action.completed", "COMPLETED"), Event("evidence.recorded", "none"),
            Event("session.completed", "COMPLETED")>>
<1>1. Plain(a)
  BY DEF Plain, Event, Events, EventTypes, Special, SessionStatuses, TerminalStatuses, WorkerStatuses
<1>2. Plain(b)
  <2>1. Plain(<<Event("tool_proposal.generated", "none")>>)
    BY PlainEvent DEF EventTypes, Special
  <2>2. CASE managed
    BY <2>1, <2>2
  <2>3. CASE ~managed
    BY <2>3, PlainNone
  <2> QED BY <2>2, <2>3
<1>3. Plain(c)
  BY DEF Plain, Event, Events, EventTypes, Special, SessionStatuses, TerminalStatuses, WorkerStatuses
<1>6. Len(a) = 4 /\ Len(c) = 3
  OBVIOUS
<1> HIDE DEF a, b, c
<1>4. /\ Plain(a \o b) /\ Len(a \o b) = Len(a) + Len(b)
      /\ Len(a) \in Nat /\ Len(b) \in Nat
  BY <1>1, <1>2, PlainJoined, Zenon
<1>5. Plain((a \o b) \o c) /\ Len((a \o b) \o c) = Len(a \o b) + Len(c)
  BY <1>3, <1>4, PlainJoined, Zenon
<1> DEFINE log == (a \o b) \o c
<1>7. Len(log) = 7 + Len(b)
  BY <1>4, <1>5, <1>6
<1> HIDE DEF log
<1>8. 5 \in 0..Len(log)
  BY <1>4, <1>7
<1> QED BY <1>5, <1>8, Zenon DEF InvokedLog, a, b, c, log

LEMMA InvokedIsSound ==
  ASSUME NEW t \in Nat, NEW managed \in BOOLEAN
  PROVE  Sound(Invoked(t, managed)) /\ Invoked(t, managed).task = t
         /\ Invoked(t, managed).events = InvokedLog(managed)
<1> DEFINE tl == Invoked(t, managed)
<1>0. tl = [NoTimeline EXCEPT !.task = t, !.status = "COMPLETED", !.managed = managed, !.workers = <<"COMPLETED">>,
              !.selected = [id |-> 1, status |-> "COMPLETED"], !.taskStatus = "COMPLETED",
              !.actions = <<"COMPLETED">>, !.events = InvokedLog(managed)]
  BY Zenon DEF Invoked, InvokedLog
<1> HIDE DEF tl
<1>1. tl = [task |-> t, status |-> "COMPLETED", managed |-> managed, workers |-> <<"COMPLETED">>,
            selected |-> [id |-> 1, status |-> "COMPLETED"], taskStatus |-> "COMPLETED",
            checkpoint |-> "none", actions |-> <<"COMPLETED">>, events |-> InvokedLog(managed)]
  BY <1>0 DEF NoTimeline
<1>2. Plain(InvokedLog(managed)) /\ Once(InvokedLog(managed)) /\ InvokedLog(managed) \in Seq(Events)
  BY InvokedLogIsPlain, PlainIsOnce DEF Plain
<1>3. tl \in TimelineRecords
  BY <1>1, <1>2 DEF TimelineRecords, SessionStatuses, TerminalStatuses, WorkerStatuses, TaskStatuses
<1>4. Sound(tl)
  BY <1>1, <1>2, <1>3 DEF Sound, OfStatus, TerminalStatuses
<1> QED BY <1>1, <1>4 DEF tl

LEMMA InvokeAgentIsSound ==
  ASSUME MockSound, NEW t, NEW s, NEW managed \in BOOLEAN, InvokeAgent(t, s, managed)
  PROVE  SoundStep
<1>1. Commit(s, Invoked(t, managed)) /\ TaskExists(t) /\ NewSession(s) /\ t \in Nat
  BY DEF InvokeAgent, TaskExists, Tasks
<1> QED BY <1>1, InvokedIsSound, SessionAppears

LEMMA PlainCut ==
  ASSUME NEW ev, Plain(ev), NEW n \in 0..Len(ev)
  PROVE  Plain(SubSeq(ev, 1, n))
<1> DEFINE cut == SubSeq(ev, 1, n)
<1>1. /\ ev \in Seq(Events) /\ cut \in Seq(Events) /\ Len(cut) = n
      /\ \A i \in 1..n : cut[i] = ev[i] /\ i \in 1..Len(ev)
  BY DEF Plain
<1> HIDE DEF cut
<1>2. Plain(cut)
  BY <1>1 DEF Plain
<1> QED BY <1>2 DEF cut

LEMMA InvokeRuntimeIsSound ==
  ASSUME MockSound, NEW t, NEW s, InvokeRuntime(t, s)
  PROVE  SoundStep
<1> DEFINE tl == Invoked(t, TRUE)
<1> DEFINE new == LeftOpen(t)
<1>1. Commit(s, new) /\ TaskExists(t) /\ NewSession(s) /\ t \in Nat
  BY DEF InvokeRuntime, TaskExists, Tasks
<1>2. tl \in TimelineRecords /\ tl.task = t /\ tl.events = InvokedLog(TRUE)
  BY <1>1, InvokedIsSound DEF Sound
<1> DEFINE log == SubSeq(InvokedLog(TRUE), 1, 5)
<1>3. Plain(log) /\ Once(log) /\ log \in Seq(Events)
  <2>1. Plain(InvokedLog(TRUE)) /\ 5 \in 0..Len(InvokedLog(TRUE))
    BY InvokedLogIsPlain
  <2> QED BY <2>1, PlainCut, PlainIsOnce DEF Plain
<1>4. new = [tl EXCEPT !.status = "AWAITING_APPROVAL", !.workers = <<"WAITING">>,
               !.selected.status = "WAITING", !.taskStatus = "IN_PROGRESS", !.actions = <<>>, !.events = log]
  BY <1>2 DEF LeftOpen
<1>7. tl.selected.id = 1
  BY DEF Invoked, NoTimeline
<1> HIDE DEF tl, new, log
<1>9. <<"WAITING">> \in Seq(WorkerStatuses) /\ <<>> \in Seq({"COMPLETED"})
  BY DEF WorkerStatuses
<1>5. new \in TimelineRecords
  BY <1>2, <1>3, <1>4, <1>9 DEF TimelineRecords, SessionStatuses, TaskStatuses, WorkerStatuses
<1>6. /\ new.task = t /\ new.status = "AWAITING_APPROVAL" /\ new.workers = <<"WAITING">>
      /\ new.selected.status = "WAITING" /\ new.taskStatus = "IN_PROGRESS" /\ new.events = log
      /\ new.selected.id = tl.selected.id
  BY <1>2, <1>4 DEF TimelineRecords
<1>8. Sound(new)
  BY <1>3, <1>5, <1>6, <1>7 DEF Sound, OfStatus, TerminalStatuses
<1> QED BY <1>1, <1>6, <1>8, SessionAppears DEF new

LEMMA StatusesMove ==
  ASSUME NEW st \in SessionStatuses, st # "PENDING", NEW now \in TaskStatuses
  PROVE  TaskStatusForSession(st, now) = OfStatus(st) /\ OfStatus(st) \in TaskStatuses
  BY DEF TaskStatusForSession, OfStatus, TaskStatuses, SessionStatuses

LEMMA AttachWorkerIsSound ==
  ASSUME MockSound, NEW s, AttachWorker(s)
  PROVE  SoundStep
<1> DEFINE tl == timelines[s]
<1> DEFINE w == Len(tl.workers) + 1
<1> DEFINE now == IF tl.status \in {"PENDING", "AWAITING_WORKER"} THEN "READY" ELSE tl.status
<1> DEFINE add == <<Event("worker.attached", "ATTACHED"), Event("worker.status.changed", "ATTACHED")>>
<1> DEFINE add2 == Changed(tl.status, now, Event("session.status.changed", now))
<1> DEFINE new == [tl EXCEPT !.workers = Append(@, "ATTACHED"),
                     !.selected = [id |-> w, status |-> "ATTACHED"], !.status = now,
                     !.taskStatus = TaskStatusForSession(now, @),
                     !.events = @ \o add \o add2]
<1>1. SessionExists(s) /\ Commit(s, new)
  BY DEF AttachWorker
<1>2. Sound(tl) /\ tl \in TimelineRecords /\ Once(tl.events)
  BY <1>1, ThereIsSound
<1>3. now \in SessionStatuses /\ now # "PENDING"
  BY <1>2 DEF TimelineRecords, SessionStatuses
<1>4. Plain(add)
  BY DEF Plain, Event, Events, EventTypes, Special, SessionStatuses, TerminalStatuses, WorkerStatuses
<1>5. Plain(add2)
  BY <1>3, PlainEvent DEF EventTypes, Special
<1> DEFINE log == tl.events \o add \o add2
<1>6. Once(log) /\ log \in Seq(Events)
  <2> HIDE DEF add, add2
  <2>1. Once(tl.events \o add)
    BY <1>2, <1>4, OnceKept
  <2> QED BY <2>1, <1>5, OnceKept
<1>7. TaskStatusForSession(now, tl.taskStatus) = OfStatus(now) /\ OfStatus(now) \in TaskStatuses
  BY <1>2, <1>3, StatusesMove DEF TimelineRecords
<1>8. /\ tl.workers \in Seq(WorkerStatuses) /\ w \in Nat /\ w # 0
      /\ Append(tl.workers, "ATTACHED") \in Seq(WorkerStatuses)
      /\ Len(Append(tl.workers, "ATTACHED")) = w /\ Append(tl.workers, "ATTACHED")[w] = "ATTACHED"
  BY <1>2 DEF TimelineRecords, WorkerStatuses
<1>9. new = [tl EXCEPT !.workers = Append(tl.workers, "ATTACHED"),
               !.selected = [id |-> w, status |-> "ATTACHED"], !.status = now,
               !.taskStatus = OfStatus(now), !.events = log]
  BY <1>7
<1> HIDE DEF now, add, add2, log, new, w
<1>10. new \in TimelineRecords
  BY <1>2, <1>3, <1>6, <1>7, <1>8, <1>9 DEF TimelineRecords, WorkerStatuses
<1>11. /\ new.task = tl.task /\ new.status = now /\ new.workers = Append(tl.workers, "ATTACHED")
       /\ new.selected = [id |-> w, status |-> "ATTACHED"] /\ new.taskStatus = OfStatus(now)
       /\ new.events = log
  BY <1>2, <1>9 DEF TimelineRecords
<1>12. Sound(new)
  BY <1>6, <1>8, <1>10, <1>11 DEF Sound
<1> QED BY <1>1, <1>11, <1>12, SessionMoves

LEMMA StatusForWorker ==
  ASSUME NEW st \in WorkerStatuses, NEW now \in SessionStatuses
  PROVE  SessionStatusForWorker(st, now) \in SessionStatuses /\ SessionStatusForWorker(st, now) # "PENDING"
  BY DEF SessionStatusForWorker, SessionStatuses, TerminalStatuses, WorkerStatuses

LEMMA EndEventIsPlain ==
  ASSUME NEW st \in TerminalStatuses
  PROVE  EndEvent(st) \in EventTypes \ Special
  BY DEF EndEvent, EventTypes, Special, TerminalStatuses

LEMMA WorkerEventIsSound ==
  ASSUME MockSound, NEW s, NEW w, NEW type \in Reports, NEW st \in WorkerStatuses, WorkerEvent(s, w, type, st)
  PROVE  SoundStep
<1> DEFINE tl == timelines[s]
<1> DEFINE now == SessionStatusForWorker(st, tl.status)
<1> DEFINE moved == Changed(tl.workers[w], st, Event("worker.status.changed", st))
<1> DEFINE a == <<Event(type, st)>>
<1> DEFINE b == IF type = "worker.status.changed" THEN <<>> ELSE moved
<1> DEFINE c == Changed(tl.status, now, Event("session.status.changed", now))
<1> DEFINE d == IF tl.status # now /\ now \in TerminalStatuses
                THEN <<Event(EndEvent(now), now)>> ELSE <<>>
<1> DEFINE new == [tl EXCEPT !.workers[w] = st,
                     !.selected.status = IF tl.selected.id = w THEN st ELSE @,
                     !.status = now, !.taskStatus = TaskStatusForSession(now, @),
                     !.events = @ \o a \o b \o c \o d]
<1>1. SessionExists(s) /\ Commit(s, new) /\ w \in 1..Len(tl.workers)
  BY DEF WorkerEvent
<1>2. Sound(tl) /\ tl \in TimelineRecords /\ Once(tl.events)
  BY <1>1, ThereIsSound
<1>3. now \in SessionStatuses /\ now # "PENDING"
  BY <1>2, StatusForWorker DEF TimelineRecords
<1>4. Plain(a)
  BY PlainEvent DEF Reports, EventTypes, Special
<1>5. Plain(b)
  BY PlainEvent, PlainNone DEF EventTypes, Special
<1>6. Plain(c)
  BY <1>3, PlainEvent DEF EventTypes, Special
<1>7. Plain(d)
  <2>1. CASE tl.status # now /\ now \in TerminalStatuses
    <3>1. Plain(<<Event(EndEvent(now), now)>>)
      BY <2>1, <1>3, EndEventIsPlain, PlainEvent
    <3> QED BY <3>1, <2>1
  <2>2. CASE ~(tl.status # now /\ now \in TerminalStatuses)
    BY <2>2, PlainNone
  <2> QED BY <2>1, <2>2
<1> DEFINE log == tl.events \o a \o b \o c \o d
<1>8. Once(log) /\ log \in Seq(Events)
  <2> HIDE DEF a, b, c, d
  <2>1. Once(tl.events \o a)
    BY <1>2, <1>4, OnceKept
  <2>2. Once((tl.events \o a) \o b)
    BY <2>1, <1>5, OnceKept
  <2>3. Once(((tl.events \o a) \o b) \o c)
    BY <2>2, <1>6, OnceKept
  <2> QED BY <2>3, <1>7, OnceKept
<1>9. TaskStatusForSession(now, tl.taskStatus) = OfStatus(now) /\ OfStatus(now) \in TaskStatuses
  BY <1>2, <1>3, StatusesMove DEF TimelineRecords
<1> DEFINE crew == [tl.workers EXCEPT ![w] = st]
<1>10. /\ crew \in Seq(WorkerStatuses) /\ Len(crew) = Len(tl.workers) /\ crew[w] = st
       /\ \A v \in 1..Len(tl.workers) : v # w => crew[v] = tl.workers[v]
  BY <1>1, <1>2 DEF TimelineRecords
<1> DEFINE shown == [tl.selected EXCEPT !.status = IF tl.selected.id = w THEN st ELSE tl.selected.status]
<1>11. /\ shown \in [id : Nat, status : WorkerStatuses \cup {"none"}]
       /\ shown.id = tl.selected.id
       /\ shown.status = IF tl.selected.id = w THEN st ELSE tl.selected.status
  BY <1>2 DEF TimelineRecords
<1>12. new = [tl EXCEPT !.workers = crew, !.selected = shown, !.status = now,
                !.taskStatus = OfStatus(now), !.events = log]
  BY <1>9
<1> HIDE DEF now, log, new, crew, shown, a, b, c, d
<1>13. new \in TimelineRecords
  BY <1>2, <1>3, <1>8, <1>9, <1>10, <1>11, <1>12 DEF TimelineRecords
<1>14. /\ new.task = tl.task /\ new.status = now /\ new.workers = crew
       /\ new.selected = shown /\ new.taskStatus = OfStatus(now) /\ new.events = log
  BY <1>2, <1>12 DEF TimelineRecords
<1>15. /\ shown.id \in 0..Len(crew)
       /\ shown.id # 0 => crew[shown.id] = shown.status
  BY <1>1, <1>2, <1>10, <1>11 DEF Sound, TimelineRecords
<1>16. Sound(new)
  BY <1>8, <1>13, <1>14, <1>15 DEF Sound
<1> QED BY <1>1, <1>14, <1>16, SessionMoves

LEMMA CloseSessionIsSound ==
  ASSUME MockSound, NEW s, NEW st, CloseSession(s, st)
  PROVE  SoundStep
<1> DEFINE tl == timelines[s]
<1> DEFINE a == Changed(tl.status, st, Event("session.status.changed", st))
<1> DEFINE b == <<Event(EndEvent(st), st)>>
<1> DEFINE new == [tl EXCEPT !.status = st, !.taskStatus = st, !.events = @ \o a \o b]
<1>1. SessionExists(s) /\ Commit(s, new) /\ st \in TerminalStatuses
  BY DEF CloseSession
<1>2. Sound(tl) /\ tl \in TimelineRecords /\ Once(tl.events)
  BY <1>1, ThereIsSound
<1>3. st \in SessionStatuses /\ st \in TaskStatuses /\ OfStatus(st) = st
  BY <1>1 DEF SessionStatuses, TaskStatuses, OfStatus
<1>4. Plain(a) /\ Plain(b)
  BY <1>1, <1>3, PlainEvent, EndEventIsPlain DEF EventTypes, Special
<1> HIDE DEF a, b
<1> DEFINE log == tl.events \o a \o b
<1>5. Once(log) /\ log \in Seq(Events)
  BY <1>2, <1>4, OnceKept
<1>6. new = [tl EXCEPT !.status = st, !.taskStatus = st, !.events = log]
  OBVIOUS
<1> HIDE DEF new, log
<1>7. new \in TimelineRecords
  BY <1>2, <1>3, <1>5, <1>6 DEF TimelineRecords
<1>8. /\ new.task = tl.task /\ new.status = st /\ new.workers = tl.workers
      /\ new.selected = tl.selected /\ new.taskStatus = st /\ new.events = log
  BY <1>2, <1>6 DEF TimelineRecords
<1>9. Sound(new)
  BY <1>2, <1>3, <1>5, <1>7, <1>8 DEF Sound
<1> QED BY <1>1, <1>8, <1>9, SessionMoves

LEMMA RequestApprovalIsSound ==
  ASSUME MockSound, NEW s, RequestApproval(s)
  PROVE  SoundStep
<1> DEFINE tl == timelines[s]
<1> DEFINE a == <<Event("approval.requested", "PENDING"), Event("session.status.changed", "AWAITING_APPROVAL")>>
<1> DEFINE log == tl.events \o a
<1> DEFINE new == [tl EXCEPT !.checkpoint = "PENDING", !.status = "AWAITING_APPROVAL", !.events = log]
<1>1. SessionExists(s) /\ Commit(s, new) /\ tl.status \in {"READY", "RUNNING"}
  BY DEF RequestApproval
<1>2. Sound(tl) /\ tl \in TimelineRecords /\ Once(tl.events)
  BY <1>1, ThereIsSound
<1>3. Plain(a)
  BY DEF Plain, Event, Events, EventTypes, Special, SessionStatuses, TerminalStatuses, WorkerStatuses
<1> HIDE DEF a
<1>4. Once(log) /\ log \in Seq(Events)
  BY <1>2, <1>3, OnceKept
<1> HIDE DEF log
<1>5. new \in TimelineRecords
  BY <1>2, <1>4 DEF TimelineRecords, SessionStatuses
<1>6. /\ new.task = tl.task /\ new.status = "AWAITING_APPROVAL" /\ new.workers = tl.workers
      /\ new.selected = tl.selected /\ new.taskStatus = tl.taskStatus /\ new.events = log
  BY <1>2 DEF TimelineRecords
<1>7. OfStatus("AWAITING_APPROVAL") = OfStatus(tl.status)
  BY <1>1 DEF OfStatus, TerminalStatuses
<1> HIDE DEF new
<1>8. Sound(new)
  BY <1>2, <1>4, <1>5, <1>6, <1>7 DEF Sound
<1> QED BY <1>1, <1>6, <1>8, SessionMoves

LEMMA DecideCheckpointIsSound ==
  ASSUME MockSound, NEW s, NEW approve \in BOOLEAN, DecideCheckpoint(s, approve)
  PROVE  SoundStep
<1> DEFINE tl == timelines[s]
<1> DEFINE st == IF approve THEN "APPROVED" ELSE "DENIED"
<1> DEFINE now == IF ~approve THEN "BLOCKED" ELSE IF tl.selected.id # 0 THEN "READY" ELSE "AWAITING_WORKER"
<1> DEFINE a == <<Event("approval.status.changed", st)>>
<1> DEFINE b == Changed(tl.status, now, Event("session.status.changed", now))
<1> DEFINE c == IF tl.status # now /\ now = "BLOCKED" THEN <<Event("session.blocked", now)>> ELSE <<>>
<1> DEFINE log == tl.events \o a \o b \o c
<1> DEFINE was == IF approve THEN "IN_PROGRESS" ELSE "BLOCKED"
<1> DEFINE new == [tl EXCEPT !.checkpoint = st, !.status = now, !.taskStatus = was, !.events = log]
<1>1. CASE tl.checkpoint = st
  BY <1>1 DEF DecideCheckpoint, SoundStep, mockVars, MockSound, MockTyped, SessionsSound, TasksSound,
              SessionExists, TaskExists, ChatTasks, Sound
<1>2. CASE tl.checkpoint # st
  <2>1. SessionExists(s) /\ Commit(s, new)
    BY <1>2 DEF DecideCheckpoint
  <2>2. Sound(tl) /\ tl \in TimelineRecords /\ Once(tl.events)
    BY <2>1, ThereIsSound
  <2>3. /\ now \in SessionStatuses /\ was \in TaskStatuses /\ was = OfStatus(now)
        /\ st \in {"APPROVED", "DENIED"}
    BY DEF SessionStatuses, TaskStatuses, TerminalStatuses, OfStatus
  <2>4. Plain(a)
    BY PlainEvent DEF EventTypes, Special
  <2>5. Plain(b)
    BY <2>3, PlainEvent DEF EventTypes, Special
  <2>6. Plain(c)
    <3>1. Plain(<<Event("session.blocked", now)>>)
      BY <2>3, PlainEvent DEF EventTypes, Special
    <3>2. CASE tl.status # now /\ now = "BLOCKED"
      BY <3>1, <3>2
    <3>3. CASE ~(tl.status # now /\ now = "BLOCKED")
      BY <3>3, PlainNone
    <3> QED BY <3>2, <3>3
  <2> HIDE DEF a, b, c
  <2>7. Once(log) /\ log \in Seq(Events)
    <3>1. Once(tl.events \o a)
      BY <2>2, <2>4, OnceKept
    <3>2. Once((tl.events \o a) \o b)
      BY <3>1, <2>5, OnceKept
    <3> QED BY <3>2, <2>6, OnceKept
  <2> HIDE DEF log, now, was, st
  <2>8. new \in TimelineRecords
    BY <2>2, <2>3, <2>7 DEF TimelineRecords
  <2>9. /\ new.task = tl.task /\ new.status = now /\ new.workers = tl.workers
        /\ new.selected = tl.selected /\ new.taskStatus = was /\ new.events = log
    BY <2>2 DEF TimelineRecords
  <2> HIDE DEF new
  <2>10. Sound(new)
    BY <2>2, <2>3, <2>7, <2>8, <2>9 DEF Sound
  <2> QED BY <2>1, <2>9, <2>10, SessionMoves
<1> QED BY <1>1, <1>2

LEMMA ExecutedStartsOnce ==
  ASSUME NEW st \in SessionStatuses
  PROVE  OneStart(Executed(st))
<1> DEFINE now == OnceAuthorized(st)
<1> DEFINE a == <<Event("tool_action.authorized", "AUTHORIZED")>>
<1> DEFINE b == Changed(st, now, Event("session.status.changed", now))
<1> DEFINE c == <<Event("tool_action.started", "STARTED"), Event("worker.progress", "RUNNING"),
                  Event("tool_action.completed", "COMPLETED"), Event("worker.progress", "RUNNING"),
                  Event("evidence.recorded", "none")>>
<1>1. now \in SessionStatuses
  BY DEF OnceAuthorized, SessionStatuses
<1>2. Plain(a) /\ Plain(b)
  BY <1>1, PlainEvent DEF EventTypes, Special
<1>3. c \in Seq(Events) /\ Len(c) = 5
  BY DEF Event, Events, EventTypes, SessionStatuses, TerminalStatuses, WorkerStatuses
<1>4. /\ c[1].type = "tool_action.started"
      /\ \A i \in 2..5 : c[i].type \notin Special
  BY DEF Event, Special
<1>5. c[1].type # "tool_proposal.decided"
  BY <1>4
<1> HIDE DEF a, b, c
<1>6. OneStart(c)
  <2>1. \A i \in 1..5 : c[i].type = "tool_action.started" => i = 1
    BY <1>4 DEF Special
  <2>2. \A i \in 1..5 : c[i].type # "tool_proposal.decided"
    BY <1>4, <1>5 DEF Special
  <2> QED BY <1>3, <1>4, <2>1, <2>2 DEF OneStart
<1>7. Plain(a \o b)
  BY <1>2, PlainJoined
<1>8. OneStart((a \o b) \o c)
  BY <1>6, <1>7, OneStartJoined
<1> QED BY <1>8 DEF Executed, a, b, c

LEMMA DecideProposalIsSound ==
  ASSUME MockSound, NEW s, NEW approve \in BOOLEAN, DecideProposal(s, approve)
  PROVE  SoundStep
<1> DEFINE tl == timelines[s]
<1> DEFINE now == IF approve THEN OnceAuthorized(tl.status) ELSE tl.status
<1> DEFINE a == IF approve THEN Executed(tl.status) ELSE <<>>
<1> DEFINE e == Event("tool_proposal.decided", IF approve THEN "APPROVED" ELSE "DENIED")
<1> DEFINE log == tl.events \o a \o <<e>>
<1> DEFINE was == IF now = tl.status THEN tl.taskStatus ELSE "IN_PROGRESS"
<1> DEFINE done == IF approve THEN Append(tl.actions, "COMPLETED") ELSE tl.actions
<1> DEFINE new == [tl EXCEPT !.status = now, !.taskStatus = was, !.actions = done, !.events = log]
<1>1. CASE Decided(s)
  BY <1>1 DEF DecideProposal, SoundStep, mockVars, MockSound, MockTyped, SessionsSound, TasksSound,
              SessionExists, TaskExists, ChatTasks, Sound
<1>2. CASE ~Decided(s)
  <2>1. SessionExists(s) /\ Commit(s, new)
    BY <1>2 DEF DecideProposal
  <2>2. Sound(tl) /\ tl \in TimelineRecords /\ Once(tl.events)
    BY <2>1, ThereIsSound
  <2>3. Plain(tl.events)
    BY <1>2, <2>2, UndecidedIsPlain DEF Decided, Has
  <2>4. now \in SessionStatuses /\ was \in TaskStatuses /\ done \in Seq({"COMPLETED"})
    BY <2>2 DEF TimelineRecords, SessionStatuses, TaskStatuses, OnceAuthorized
  <2>5. was = OfStatus(now)
    BY <2>2 DEF Sound, OfStatus, OnceAuthorized, TerminalStatuses
  <2>6. /\ e \in Events /\ e.type = "tool_proposal.decided"
        /\ e.status = IF approve THEN "APPROVED" ELSE "DENIED"
    BY DEF Event, Events, EventTypes
  <2>7. approve => OneStart(a)
    BY <2>2, ExecutedStartsOnce DEF TimelineRecords
  <2>8. ~approve => a = <<>>
    OBVIOUS
  <2> HIDE DEF a, e
  <2>9. Once(log)
    <3>1. CASE approve
      <4>1. OneStart(tl.events \o a)
        BY <2>3, <2>7, <3>1, OneStartJoined
      <4> QED BY <4>1, <2>6, <3>1, ApprovedOnce
    <3>2. CASE ~approve
      <4>1. Plain(tl.events \o a)
        BY <2>3, <2>8, <3>2, PlainNone, PlainJoined
      <4> QED BY <4>1, <2>6, <3>2, DeniedOnce
    <3> QED BY <3>1, <3>2
  <2> HIDE DEF log, now, was, done
  <2>10. log \in Seq(Events)
    BY <2>9 DEF Once
  <2>11. new \in TimelineRecords
    BY <2>2, <2>4, <2>10 DEF TimelineRecords
  <2>12. /\ new.task = tl.task /\ new.status = now /\ new.workers = tl.workers
         /\ new.selected = tl.selected /\ new.taskStatus = was /\ new.events = log
    BY <2>2 DEF TimelineRecords
  <2> HIDE DEF new
  <2>13. Sound(new)
    BY <2>2, <2>5, <2>9, <2>11, <2>12 DEF Sound
  <2> QED BY <2>1, <2>12, <2>13, SessionMoves
<1> QED BY <1>1, <1>2

LEMMA MockStartsSound ==
  ASSUME MockInit
  PROVE  MockSound
  BY DEF MockInit, MockSound, MockTyped, SessionsSound, TasksSound, SessionExists, TaskExists

LEMMA EarlierVisitIsSound ==
  ASSUME tasks = [t \in Tasks |-> IF t = 1 THEN [status |-> "COMPLETED", latest |-> 1] ELSE NoTask],
         timelines = [s \in Sessions |-> IF s = 1 THEN Invoked(1, TRUE) ELSE NoTimeline]
  PROVE  MockSound
<1>1. 1 \in Tasks /\ 1 \in Sessions /\ 1 \in 0..MaxSessions
  BY MockBoundsAssumption DEF Tasks, Sessions
<1>2. Sound(Invoked(1, TRUE)) /\ Invoked(1, TRUE).task = 1 /\ Invoked(1, TRUE) \in TimelineRecords
  BY InvokedIsSound DEF Sound
<1>3. Invoked(1, TRUE).taskStatus = "COMPLETED"
  BY DEF Invoked, NoTimeline
<1> DEFINE record == [status |-> "COMPLETED", latest |-> 1]
<1>4. record \in TaskRecords /\ record.status = "COMPLETED" /\ record.latest = 1
  BY <1>1 DEF TaskRecords, TaskStatuses, TerminalStatuses
<1> HIDE DEF record
<1>5. /\ tasks[1] = record /\ \A t \in Tasks : t # 1 => tasks[t] = NoTask
      /\ timelines[1] = Invoked(1, TRUE) /\ \A s \in Sessions : s # 1 => timelines[s] = NoTimeline
  BY <1>1 DEF record
<1>6. record # NoTask /\ Invoked(1, TRUE) # NoTimeline
  BY <1>2, <1>4, NothingThere
<1>7. MockTyped
  BY <1>2, <1>4 DEF MockTyped, record
<1>8. SessionsSound
  BY <1>2, <1>5, <1>6 DEF SessionsSound, SessionExists, TaskExists
<1>9. TasksSound
  BY <1>1, <1>2, <1>3, <1>4, <1>5, <1>6 DEF TasksSound, SessionExists, TaskExists
<1> QED BY <1>7, <1>8, <1>9 DEF MockSound

LEMMA SoundCopiesAgree == MockSound => CopiesAgree
  BY DEF MockSound, SessionsSound, TasksSound, Sound, CopiesAgree, OfStatus, SessionExists, TaskExists

LEMMA SoundDecidesOnce == MockSound => DecidedOnce
<1> SUFFICES ASSUME MockSound, NEW s \in Sessions, SessionExists(s)
             PROVE  LET ev == timelines[s].events
                        Of(type) == {i \in 1..Len(ev) : ev[i].type = type}
                    IN /\ \A i, k \in Of("tool_proposal.decided") : i = k
                       /\ \A i, k \in Of("tool_action.started") : i = k
                       /\ Of("tool_action.started") # {} <=>
                            \E i \in Of("tool_proposal.decided") : ev[i].status = "APPROVED"
  BY DEF DecidedOnce
<1>1. Once(timelines[s].events)
  BY ThereIsSound
<1> QED BY <1>1 DEF Once, Special

-----------------------------------------------------------------------------
(* The chat: threads, handlers and chains *)

HandlerKinds == {"none", "start", "send", "resume", "threads", "launch", "heartbeat", "reattach", "recover", "close",
          "reload", "proposal", "checkpoint"}
Working == {"session", "attach", "bridge", "progress", "beat", "close", "load", "write"}
Steps == Working \cup {"none", "refreshing", "call", "reload", "history"}

IsThread(th) == th \in [task : {0} \cup Tasks, turns : {th.turns}]

\* A handler at work has a thread with a task, but for one that sends a turn.
HandlerOK(m) ==
  /\ m \in [kind : HandlerKinds, step : Steps, thread : {m.thread}, task : {m.task}, session : {m.session},
            worker : {m.worker}, view : {m.view}, yes : BOOLEAN]
  /\ IsThread(m.thread)
  /\ m.step \in Working /\ m.kind # "send" => m.thread.task \in Tasks
  /\ m.kind = "resume" => m.task \in Tasks

HandlersOK ==
  /\ handlers = [h \in Slots |-> handlers[h]]
  /\ \A h \in Slots : HandlerOK(handlers[h])

Refreshes == [phase : {"none", "listing", "ending"}, queued : BOOLEAN, listed : SUBSET Tasks, failed : BOOLEAN]
Rails == [items : SUBSET Tasks, showArchived : BOOLEAN, failed : BOOLEAN]

PageOK ==
  /\ refresh \in Refreshes /\ history \in Rails /\ others \in Nat
  /\ IsThread(thread) /\ (thread = NoThread \/ thread.task \in Tasks)

Phases == {"timer", "polling", "loaded", "refreshing", "again"}
Polling == {"polling", "loaded"}

\* A chain that polls began with a thread.
ChainOK(c) ==
  /\ c \in [token : Nat, phase : Phases, thread : {c.thread}, view : {c.view}]
  /\ c.phase \in Polling => IsThread(c.thread) /\ c.thread.task \in Tasks

\* No chain is ahead of the token, and one at most is current.
Synced(fo, ch) ==
  /\ fo \in [token : Nat, session : {fo.session}, timer : BOOLEAN]
  /\ \A c \in ch : ChainOK(c) /\ c.token <= fo.token
  /\ \A c, d \in ch : c.token = fo.token /\ d.token = fo.token => c = d

NonePolls(fo, ch) == \A c \in ch : c.token = fo.token => c.phase \notin Polling

Following == Synced(follow, chains) /\ (thread = NoThread => NonePolls(follow, chains))

\* A handler that has created a task and not yet read the history.
Starting(m) == m.kind = "start" /\ m.step \in {"write", "history"}

Listed == history.failed \/ \E listed \in Listings : history.items = Shown(listed, archived, history.showArchived)

Listing ==
  /\ Listed \/ Busy \/ \E h \in Slots : Starting(handlers[h])
  /\ refresh.phase = "ending" =>
       \/ refresh.failed \/ refresh.listed \in Listings
       \/ refresh.queued \/ \E h \in Slots : Starting(handlers[h])

ChatInv == MockSound /\ HandlersOK /\ PageOK /\ Following /\ Listing

-----------------------------------------------------------------------------
(* Handlers *)

LEMMA IdleIsOK == HandlerOK(Idle) /\ ~Starting(Idle) /\ IsThread(NoThread)
  BY DEF HandlerOK, Idle, HandlerKinds, Steps, Working, IsThread, NoThread, Starting

LEMMA HandlerStaysOK ==
  ASSUME NEW m, HandlerOK(m), NEW step \in Steps,
         step \in Working => m.kind = "send" \/ m.thread.task \in Tasks
  PROVE  /\ HandlerOK([m EXCEPT !.step = step])
         /\ [m EXCEPT !.step = step].kind = m.kind /\ [m EXCEPT !.step = step].step = step
  BY DEF HandlerOK


\* A handler moves on, and has created a task only if it will read the history.
Works(h) ==
  /\ h \in Slots
  /\ \E m : /\ handlers' = [handlers EXCEPT ![h] = m] /\ HandlerOK(m)
            /\ ~Starting(handlers[h])
            /\ ChatTasks' = ChatTasks \/ Starting(m)
  /\ UNCHANGED <<thread, archived, others, history>> /\ refresh' \in {refresh, Kicked}

LEMMA WorksWith ==
  ASSUME NEW h \in Slots, NEW m, HandlerOK(m), handlers' = [handlers EXCEPT ![h] = m], ~Starting(handlers[h]),
         ChatTasks' = ChatTasks \/ Starting(m),
         UNCHANGED <<thread, archived, others, history>>, refresh' \in {refresh, Kicked}
  PROVE  Works(h)
  BY DEF Works

LEMMA WorkKeepsHandlers ==
  ASSUME HandlersOK, NEW h, Works(h)
  PROVE  HandlersOK'
<1>1. PICK m : handlers' = [handlers EXCEPT ![h] = m] /\ HandlerOK(m) /\ h \in Slots
  BY DEF Works
<1>2. handlers' = [k \in Slots |-> handlers'[k]]
  BY <1>1 DEF HandlersOK
<1>3. \A k \in Slots : HandlerOK(handlers'[k])
  BY <1>1 DEF HandlersOK
<1>4. \A k \in Slots : HandlerOK(handlers[k])'
  BY <1>3 DEF HandlerOK, IsThread, Tasks
<1> QED BY <1>2, <1>4 DEF HandlersOK

LEMMA KickedIsBusy ==
  ASSUME PageOK
  PROVE  /\ Kicked \in Refreshes
         /\ Kicked.phase # "none" /\ Kicked.listed = refresh.listed
         /\ Kicked.phase = "ending" => refresh.phase = "ending" /\ Kicked.queued
  BY DEF PageOK, Kicked, Busy, Refreshes

\* A listing there may be stays one when only tasks of other sources are added.
LEMMA ListingsGrow ==
  ASSUME ChatTasks' = ChatTasks, others \in Nat, others' \in Nat, others' >= others
  PROVE  \A listed \in Listings : listed \in Listings'
<1> SUFFICES ASSUME NEW listed \in Listings PROVE listed \in Listings'
  OBVIOUS
<1>1. listed \subseteq ChatTasks /\ Cardinality(listed) <= ListLimit
      /\ (listed = ChatTasks \/ Cardinality(listed) + others >= ListLimit)
  BY DEF Listings
<1>2. Cardinality(listed) \in Nat
  <2>1. IsFiniteSet(1..MaxTasks)
    BY MockBoundsAssumption, FS_Interval
  <2>2. listed \subseteq 1..MaxTasks
    BY <1>1 DEF ChatTasks, Tasks
  <2>3. IsFiniteSet(listed)
    BY <2>1, <2>2, FS_Subset
  <2> QED BY <2>3, FS_CardinalityType
<1>3. listed = ChatTasks' \/ Cardinality(listed) + others' >= ListLimit
  BY <1>1, <1>2, ListAssumption
<1> QED BY <1>1, <1>3 DEF Listings

\* What the rail may say when it is read is what may be listed.
LEMMA HistoriesList ==
  ASSUME ChatTasks' = ChatTasks, others \in Nat, UNCHANGED others, NEW all \in BOOLEAN,
         history' \in Histories(archived', all)
  PROVE  Listed' /\ history' \in Rails
<1>1. \A listed \in Listings : listed \in Listings' /\ listed \subseteq Tasks
  BY ListingsGrow DEF Listings, ChatTasks
<1>2. CASE history' = FailedHistory
  BY <1>2 DEF FailedHistory, Listed, Rails
<1>3. ASSUME NEW listed \in Listings,
             history' = [items |-> Shown(listed, archived', all), showArchived |-> all, failed |-> FALSE]
      PROVE  Listed' /\ history' \in Rails
  <2>1. listed \in Listings' /\ history'.items = Shown(listed, archived', history'.showArchived)
    BY <1>1, <1>3
  <2>2. Shown(listed, archived', all) \subseteq Tasks
    BY <1>1 DEF Shown
  <2>3. history' \in Rails
    BY <1>3, <2>2 DEF Rails
  <2> QED BY <2>1, <2>3 DEF Listed, Shown
<1> QED BY <1>2, <1>3 DEF Histories

LEMMA ListedStays ==
  ASSUME Listed, ChatTasks' = ChatTasks, others \in Nat, others' \in Nat, others' >= others,
         UNCHANGED <<archived, history>>
  PROVE  Listed'
<1>1. \A listed \in Listings : listed \in Listings'
  BY ListingsGrow
<1> QED BY <1>1 DEF Listed, Shown

LEMMA WorkKeepsPage ==
  ASSUME PageOK, NEW h, Works(h)
  PROVE  PageOK'
<1>1. UNCHANGED <<thread, others, history>> /\ refresh' \in {refresh, Kicked}
  BY DEF Works
<1> QED BY <1>1, KickedIsBusy DEF PageOK, IsThread, Tasks, Refreshes, Rails

LEMMA WorkKeepsListing ==
  ASSUME HandlersOK, PageOK, Listing, NEW h, Works(h)
  PROVE  Listing'
<1>1. PICK m : /\ handlers' = [handlers EXCEPT ![h] = m] /\ h \in Slots /\ ~Starting(handlers[h])
               /\ ChatTasks' = ChatTasks \/ Starting(m)
  BY DEF Works
<1>2. UNCHANGED <<archived, others, history>> /\ refresh' \in {refresh, Kicked}
  BY DEF Works
<1>3. handlers'[h] = m /\ \A k \in Slots : k # h => handlers'[k] = handlers[k]
  BY <1>1 DEF HandlersOK
<1>4. CASE Starting(m)
  <2>1. h \in Slots /\ Starting(handlers'[h])
    BY <1>1, <1>3, <1>4
  <2>2. Starting(handlers[h])'
    BY <2>1 DEF Starting
  <2> QED BY <2>1, <2>2 DEF Listing
<1>5. CASE ChatTasks' = ChatTasks
  <2>1. (\E k \in Slots : Starting(handlers[k])) => \E k \in Slots : Starting(handlers[k])'
    BY <1>1, <1>3 DEF Starting
  <2>2. /\ Listed => Listed'
        /\ \A listed \in Listings : listed \in Listings'
    BY <1>2, <1>5, ListedStays, ListingsGrow DEF PageOK
  <2>3. CASE refresh' = refresh
    BY <2>1, <2>2, <2>3 DEF Listing, Busy
  <2>4. CASE refresh' = Kicked
    BY <2>4, KickedIsBusy DEF Listing, Busy
  <2> QED BY <1>2, <2>3, <2>4
<1> QED BY <1>1, <1>4, <1>5

LEMMA KindsKept == ASSUME UNCHANGED mockVars PROVE ChatTasks' = ChatTasks
  BY DEF ChatTasks, TaskExists, mockVars

LEMMA AwaitingSteps == Awaiting("call") \in Steps \ Working /\ Awaiting("call") # "history"
  BY DEF Awaiting, Steps, Working

\* A click puts a handler that is well formed in a slot that was free.
LEMMA BeginWorks ==
  ASSUME HandlersOK, NEW h \in Slots, NEW m, HandlerOK(m), Begin(h, m)
  PROVE  Works(h)
<1> DEFINE n == [m EXCEPT !.step = Awaiting("call")]
<1>1. /\ handlers' = [handlers EXCEPT ![h] = n] /\ handlers[h] = Idle /\ refresh' = Kicked
      /\ UNCHANGED <<tasks, timelines, thread, archived, others, history>>
  BY DEF Begin, Page
<1>2. HandlerOK(n)
  BY AwaitingSteps, HandlerStaysOK
<1>3. ~Starting(handlers[h])
  BY <1>1, IdleIsOK
<1>4. ChatTasks' = ChatTasks
  BY <1>1, KindsKept DEF mockVars
<1> HIDE DEF n
<1> QED BY <1>1, <1>2, <1>3, <1>4, WorksWith

\* A handler that has not begun to work.
LEMMA FreshIsOK ==
  ASSUME NEW m, NEW kind \in HandlerKinds, NEW task, NEW session, NEW yes \in BOOLEAN, kind = "resume" => task \in Tasks,
         m \in [kind : {kind}, step : {"none"}, thread : {NoThread}, task : {task}, session : {session},
                worker : {m.worker}, view : {m.view}, yes : {yes}]
  PROVE  HandlerOK(m)
<1>1. IsThread(m.thread)
  BY IdleIsOK
<1> QED BY <1>1 DEF HandlerOK, Steps, Working

LEMMA ClickWorks ==
  ASSUME HandlersOK, PageOK, NEW h \in Slots, Click(h)
  PROVE  Works(h)
<1>0. Idle \in [kind : {"none"}, step : {"none"}, thread : {NoThread}, task : {0}, session : {0},
                worker : {0}, view : {NoView}, yes : {FALSE}]
  BY DEF Idle
<1>1. CASE ClickThread(h)
  <2>1. PICK kind \in {"start", "send", "launch", "heartbeat", "reattach", "recover", "close", "reload", "threads"} :
          \E yes \in IF kind = "send" THEN BOOLEAN ELSE {TRUE} :
            Begin(h, [Idle EXCEPT !.kind = kind, !.yes = yes,
                                  !.session = IF kind = "reload" THEN Derived(thread).session ELSE 0])
    BY <1>1 DEF ClickThread
  <2>2. PICK yes \in BOOLEAN :
          Begin(h, [Idle EXCEPT !.kind = kind, !.yes = yes,
                                  !.session = IF kind = "reload" THEN Derived(thread).session ELSE 0])
    BY <2>1
  <2> DEFINE session == IF kind = "reload" THEN Derived(thread).session ELSE 0
  <2> DEFINE m == [Idle EXCEPT !.kind = kind, !.yes = yes, !.session = session]
  <2>3. Begin(h, m)
    BY <2>2
  <2> HIDE DEF session
  <2>4. m \in [kind : {kind}, step : {"none"}, thread : {NoThread}, task : {0}, session : {session},
               worker : {m.worker}, view : {m.view}, yes : {yes}]
    BY <1>0
  <2>5. kind \in HandlerKinds /\ kind # "resume"
    BY DEF HandlerKinds
  <2> HIDE DEF m
  <2>6. HandlerOK(m)
    BY <2>4, <2>5, FreshIsOK
  <2> QED BY <2>3, <2>6, BeginWorks
<1>2. CASE ClickFollowUp(h)
  <2> DEFINE m == [Idle EXCEPT !.kind = "start"]
  <2>1. Begin(h, m)
    BY <1>2 DEF ClickFollowUp
  <2>2. m \in [kind : {"start"}, step : {"none"}, thread : {NoThread}, task : {0}, session : {0},
               worker : {m.worker}, view : {m.view}, yes : {FALSE}]
    BY <1>0
  <2> HIDE DEF m
  <2>3. HandlerOK(m)
    BY <2>2, FreshIsOK DEF HandlerKinds
  <2> QED BY <2>1, <2>3, BeginWorks
<1>3. CASE ClickDecide(h)
  <2>1. PICK i \in 1..Len(thread.turns), kind \in {"proposal", "checkpoint"}, yes \in BOOLEAN :
          Begin(h, [Idle EXCEPT !.kind = kind, !.session = thread.turns[i].view.session, !.yes = yes])
    BY <1>3 DEF ClickDecide
  <2> DEFINE session == thread.turns[i].view.session
  <2> DEFINE m == [Idle EXCEPT !.kind = kind, !.session = session, !.yes = yes]
  <2>3. Begin(h, m)
    BY <2>1
  <2> HIDE DEF session
  <2>4. m \in [kind : {kind}, step : {"none"}, thread : {NoThread}, task : {0}, session : {session},
               worker : {m.worker}, view : {m.view}, yes : {yes}]
    BY <1>0
  <2>5. kind \in HandlerKinds /\ kind # "resume"
    BY DEF HandlerKinds
  <2> HIDE DEF m
  <2>6. HandlerOK(m)
    BY <2>4, <2>5, FreshIsOK
  <2> QED BY <2>3, <2>6, BeginWorks
<1>4. ASSUME NEW t \in Tasks, ClickResume(h, t) PROVE Works(h)
  <2> DEFINE m == [Idle EXCEPT !.kind = "resume", !.task = t]
  <2>1. Begin(h, m)
    BY <1>4 DEF ClickResume
  <2>2. m \in [kind : {"resume"}, step : {"none"}, thread : {NoThread}, task : {t}, session : {0},
               worker : {m.worker}, view : {m.view}, yes : {FALSE}]
    BY <1>0
  <2> HIDE DEF m
  <2>3. HandlerOK(m)
    BY <2>2, FreshIsOK DEF HandlerKinds
  <2> QED BY <2>1, <2>3, BeginWorks
<1> QED BY <1>1, <1>2, <1>3, <1>4 DEF Click

-----------------------------------------------------------------------------
(* Calls *)

\* What a step of a handler does besides calling the runtime.
LEMMA GoesWorks ==
  ASSUME HandlersOK, NEW h \in Slots, NEW m, HandlerOK(m), Goes(h, m), ~Starting(handlers[h]),
         ChatTasks' = ChatTasks \/ Starting(m)
  PROVE  Works(h) /\ UNCHANGED <<follow, chains>>
<1>1. /\ handlers' = [handlers EXCEPT ![h] = m] /\ refresh' = refresh
      /\ UNCHANGED <<thread, archived, others, history, follow, chains>>
  BY DEF Goes, Unwritten
<1> QED BY <1>1, WorksWith

\* The handlers of a chat in order.
LEMMA HandlerIsOK ==
  ASSUME HandlersOK, NEW h \in Slots
  PROVE  HandlerOK(handlers[h]) /\ handlers[h].yes \in BOOLEAN /\ IsThread(handlers[h].thread)
  BY DEF HandlersOK, HandlerOK

LEMMA CallStartWorks ==
  ASSUME MockSound, HandlersOK, NEW h \in Slots, CallStart(h)
  PROVE  MockSound' /\ Works(h) /\ UNCHANGED <<follow, chains>>
<1> DEFINE me == handlers[h]
<1>1. me.kind = "start" /\ me.step = "call"
  BY DEF CallStart
<1>2. PICK t \in Tasks : CreateTask(t) /\ Goes(h, [me EXCEPT !.step = "write", !.thread.task = t])
  BY DEF CallStart
<1> DEFINE m == [me EXCEPT !.step = "write", !.thread.task = t]
<1>3. HandlerOK(me)
  BY HandlerIsOK
<1> HIDE DEF me
<1>4. HandlerOK(m) /\ Starting(m)
  <2> DEFINE th == [me.thread EXCEPT !.task = t]
  <2>1. IsThread(th) /\ th.task = t
    BY <1>3 DEF HandlerOK, IsThread
  <2>2. m = [me EXCEPT !.step = "write", !.thread = th]
    BY <1>3 DEF HandlerOK
  <2> HIDE DEF th
  <2>3. m \in [kind : {"start"}, step : {"write"}, thread : {th}, task : {me.task}, session : {me.session},
               worker : {me.worker}, view : {me.view}, yes : BOOLEAN]
    BY <1>1, <1>3, <2>2 DEF HandlerOK
  <2> HIDE DEF m
  <2> QED BY <2>1, <2>3 DEF HandlerOK, HandlerKinds, Steps, Working, Starting
<1>5. ~Starting(handlers[h])
  BY <1>1 DEF Starting, me
<1> HIDE DEF m
<1>6. Goes(h, m)
  BY <1>2 DEF m
<1> QED BY <1>2, <1>4, <1>5, <1>6, CreatingKeeps, GoesWorks

\* What any step of a handler leaves it: its kind, and a thread with a task while it works.
LEMMA MovedIsOK ==
  ASSUME NEW me, HandlerOK(me), NEW m, NEW step \in Steps, NEW th, IsThread(th),
         m \in [kind : {me.kind}, step : {step}, thread : {th}, task : {m.task}, session : {m.session},
                worker : {m.worker}, view : {m.view}, yes : {me.yes}],
         step \in Working /\ me.kind # "send" => th.task \in Tasks,
         m.task = me.task \/ me.kind # "resume"
  PROVE  HandlerOK(m)
  BY DEF HandlerOK

LEMMA CallResumeWorks ==
  ASSUME MockSound, HandlersOK, NEW h \in Slots, CallResume(h)
  PROVE  MockSound' /\ Works(h) /\ UNCHANGED <<follow, chains>>
<1> DEFINE me == handlers[h]
<1>1. me.kind = "resume" /\ me.step = "call" /\ UNCHANGED <<tasks, timelines>>
  BY DEF CallResume, Page
<1>2. PICK failed : Goes(h, [me EXCEPT !.step = "write", !.thread = LoadedThread(me.task, failed)])
  BY DEF CallResume
<1> DEFINE th == LoadedThread(me.task, failed)
<1> DEFINE m == [me EXCEPT !.step = "write", !.thread = th]
<1>3. HandlerOK(me)
  BY HandlerIsOK
<1>4. ~Starting(handlers[h]) /\ Goes(h, m)
  BY <1>1, <1>2 DEF Starting
<1>5. me.task \in Tasks
  BY <1>1, <1>3 DEF HandlerOK
<1> HIDE DEF me
<1>6. IsThread(th) /\ th.task \in Tasks
  BY <1>5 DEF LoadedThread, IsThread
<1> HIDE DEF th
<1>7. /\ m \in [kind : {me.kind}, step : {"write"}, thread : {th}, task : {m.task}, session : {m.session},
                worker : {m.worker}, view : {m.view}, yes : {me.yes}]
      /\ m.task = me.task
  BY <1>3 DEF HandlerOK
<1> HIDE DEF m
<1>8. HandlerOK(m)
  BY <1>3, <1>6, <1>7, MovedIsOK DEF Steps, Working
<1>9. MockSound' /\ ChatTasks' = ChatTasks
  BY <1>1, KindsKept DEF mockVars, MockSound, MockTyped, SessionsSound, TasksSound, SessionExists, TaskExists, Sound
<1> QED BY <1>4, <1>8, <1>9, GoesWorks

LEMMA CallThreadsWorks ==
  ASSUME MockSound, HandlersOK, NEW h \in Slots, CallThreads(h)
  PROVE  MockSound' /\ Works(h) /\ UNCHANGED <<follow, chains>>
<1> DEFINE me == handlers[h]
<1> DEFINE m == [me EXCEPT !.step = "history"]
<1>1. /\ me.kind = "threads" /\ UNCHANGED <<tasks, timelines>> /\ Goes(h, m) /\ ~Starting(handlers[h])
  BY DEF CallThreads, Page, Starting
<1>2. HandlerOK(me)
  BY HandlerIsOK
<1> HIDE DEF me
<1>3. HandlerOK(m)
  BY <1>2, HandlerStaysOK DEF Steps, Working
<1> HIDE DEF m
<1>4. MockSound' /\ ChatTasks' = ChatTasks
  BY <1>1, KindsKept DEF mockVars, MockSound, MockTyped, SessionsSound, TasksSound, SessionExists, TaskExists, Sound
<1> QED BY <1>1, <1>3, <1>4, GoesWorks

LEMMA CallSendWorks ==
  ASSUME MockSound, HandlersOK, NEW h \in Slots, CallSend(h)
  PROVE  MockSound' /\ Works(h) /\ UNCHANGED <<follow, chains>>
<1> DEFINE me == handlers[h]
<1>1. me.kind = "send" /\ me.step = "call" /\ ~Starting(handlers[h])
  BY DEF CallSend, Starting
<1>2. PICK s \in Sessions : /\ InvokeAgent(thread.task, s, me.yes) \/ (me.yes /\ InvokeRuntime(thread.task, s))
                            /\ Goes(h, [me EXCEPT !.step = "load", !.session = s, !.task = thread.task])
  BY DEF CallSend
<1> DEFINE m == [me EXCEPT !.step = "load", !.session = s, !.task = thread.task]
<1>3. HandlerOK(me) /\ me.yes \in BOOLEAN
  BY HandlerIsOK
<1>4. MockSound' /\ ChatTasks' = ChatTasks
  BY <1>2, <1>3, InvokeAgentIsSound, InvokeRuntimeIsSound DEF SoundStep
<1>5. Goes(h, m)
  BY <1>2
<1> HIDE DEF me
<1>6. m \in [kind : {me.kind}, step : {"load"}, thread : {me.thread}, task : {m.task}, session : {m.session},
             worker : {m.worker}, view : {m.view}, yes : {me.yes}]
  BY <1>3 DEF HandlerOK
<1>7. IsThread(me.thread)
  BY <1>3 DEF HandlerOK
<1> HIDE DEF m
<1>8. HandlerOK(m)
  BY <1>1, <1>3, <1>6, <1>7, MovedIsOK DEF Steps, Working, me
<1> QED BY <1>1, <1>4, <1>5, <1>8, GoesWorks

LEMMA CallManagedWorks ==
  ASSUME MockSound, HandlersOK, PageOK, NEW h \in Slots, CallManaged(h)
  PROVE  MockSound' /\ Works(h) /\ UNCHANGED <<follow, chains>>
<1> DEFINE me == handlers[h]
<1> DEFINE v == ManagedContext(thread)
<1> DEFINE step == FirstStep(me.kind, v)
<1> DEFINE session == IF me.kind = "recover" THEN 0 ELSE v.session
<1> DEFINE worker == IF me.kind \in {"recover", "reattach"} THEN 0 ELSE v.worker.id
<1> DEFINE m == [me EXCEPT !.thread = thread, !.session = session, !.worker = worker, !.step = step]
<1>1. /\ me.kind \in {"launch", "heartbeat", "reattach", "recover", "close"} /\ thread # NoThread
      /\ Goes(h, m) /\ UNCHANGED <<tasks, timelines>> /\ ~Starting(handlers[h])
  BY DEF CallManaged, Page, Starting
<1>2. HandlerOK(me)
  BY HandlerIsOK
<1>3. IsThread(thread) /\ thread.task \in Tasks
  BY <1>1 DEF PageOK
<1>4. step \in Steps
  BY DEF FirstStep, Steps, Working
<1>5. MockSound' /\ ChatTasks' = ChatTasks
  BY <1>1, KindsKept DEF mockVars, MockSound, MockTyped, SessionsSound, TasksSound, SessionExists, TaskExists, Sound
<1> HIDE DEF me, v, step, session, worker
<1>6. m \in [kind : {me.kind}, step : {step}, thread : {thread}, task : {m.task}, session : {m.session},
             worker : {m.worker}, view : {m.view}, yes : {me.yes}]
  BY <1>2 DEF HandlerOK
<1> HIDE DEF m
<1>7. HandlerOK(m)
  BY <1>1, <1>2, <1>3, <1>4, <1>6, MovedIsOK
<1> QED BY <1>1, <1>5, <1>7, GoesWorks

\* A handler that works calls the runtime and goes on with its thread.
LEMMA CallerWorks ==
  ASSUME HandlersOK, SoundStep, NEW h \in Slots, NEW m, NEW step \in Steps, Goes(h, m), ~Starting(handlers[h]),
         m \in [kind : {handlers[h].kind}, step : {step}, thread : {handlers[h].thread}, task : {m.task},
                session : {m.session}, worker : {m.worker}, view : {m.view}, yes : {handlers[h].yes}],
         m.task = handlers[h].task,
         handlers[h].step \in Working \/ step \notin Working
  PROVE  MockSound' /\ Works(h) /\ UNCHANGED <<follow, chains>>
<1> DEFINE me == handlers[h]
<1>1. HandlerOK(me) /\ IsThread(me.thread)
  BY HandlerIsOK
<1>2. step \in Working /\ me.kind # "send" => me.thread.task \in Tasks
  BY <1>1 DEF HandlerOK
<1> HIDE DEF me
<1>3. HandlerOK(m)
  BY <1>1, <1>2, MovedIsOK DEF me
<1> QED BY <1>3, GoesWorks DEF SoundStep

LEMMA StepSessionWorks ==
  ASSUME MockSound, HandlersOK, NEW h \in Slots, StepSession(h)
  PROVE  MockSound' /\ Works(h) /\ UNCHANGED <<follow, chains>>
<1> DEFINE me == handlers[h]
<1>0. HandlerOK(me) /\ me.yes \in BOOLEAN
  BY HandlerIsOK
<1>p. PICK s \in Sessions : CreateSession(me.thread.task, s) /\ Goes(h, [me EXCEPT !.step = "attach", !.session = s])
  BY DEF StepSession
<1> DEFINE m == [me EXCEPT !.step = "attach", !.session = s]
<1>1. Goes(h, m) /\ me.step = "session"
  BY <1>p DEF StepSession
<1>2. ~Starting(handlers[h]) /\ me.step \in Working
  BY <1>1 DEF Starting, Working
<1>3. SoundStep
  BY <1>p, <1>0, CreateSessionIsSound DEF StepSession
<1>4. /\ m \in [kind : {me.kind}, step : {"attach"}, thread : {me.thread}, task : {m.task}, session : {m.session},
             worker : {m.worker}, view : {m.view}, yes : {me.yes}]
      /\ m.task = me.task
  BY <1>0 DEF HandlerOK
<1> HIDE DEF m
<1> QED BY <1>1, <1>2, <1>3, <1>4, CallerWorks DEF Steps, Working

LEMMA StepAttachWorks ==
  ASSUME MockSound, HandlersOK, NEW h \in Slots, StepAttach(h)
  PROVE  MockSound' /\ Works(h) /\ UNCHANGED <<follow, chains>>
<1> DEFINE me == handlers[h]
<1>0. HandlerOK(me) /\ me.yes \in BOOLEAN
  BY HandlerIsOK
<1> DEFINE m == [me EXCEPT !.step = "bridge", !.worker = Len(timelines[me.session].workers) + 1]
<1>1. Goes(h, m) /\ me.step = "attach"
  BY DEF StepAttach
<1>2. ~Starting(handlers[h]) /\ me.step \in Working
  BY <1>1 DEF Starting, Working
<1>3. SoundStep
  BY <1>0, AttachWorkerIsSound DEF StepAttach
<1>4. /\ m \in [kind : {me.kind}, step : {"bridge"}, thread : {me.thread}, task : {m.task}, session : {m.session},
             worker : {m.worker}, view : {m.view}, yes : {me.yes}]
      /\ m.task = me.task
  BY <1>0 DEF HandlerOK
<1> HIDE DEF m
<1> QED BY <1>1, <1>2, <1>3, <1>4, CallerWorks DEF Steps, Working

LEMMA StepBeatWorks ==
  ASSUME MockSound, HandlersOK, NEW h \in Slots, StepBeat(h)
  PROVE  MockSound' /\ Works(h) /\ UNCHANGED <<follow, chains>>
<1> DEFINE me == handlers[h]
<1>0. HandlerOK(me) /\ me.yes \in BOOLEAN
  BY HandlerIsOK
<1> DEFINE m == [me EXCEPT !.step = "load"]
<1>1. Goes(h, m) /\ me.step = "beat"
  BY DEF StepBeat
<1>2. ~Starting(handlers[h]) /\ me.step \in Working
  BY <1>1 DEF Starting, Working
<1>3. SoundStep
  BY <1>0, WorkerEventIsSound DEF StepBeat, Reports, WorkerStatuses
<1>4. /\ m \in [kind : {me.kind}, step : {"load"}, thread : {me.thread}, task : {m.task}, session : {m.session},
             worker : {m.worker}, view : {m.view}, yes : {me.yes}]
      /\ m.task = me.task
  BY <1>0 DEF HandlerOK
<1> HIDE DEF m
<1> QED BY <1>1, <1>2, <1>3, <1>4, CallerWorks DEF Steps, Working

LEMMA StepCloseWorks ==
  ASSUME MockSound, HandlersOK, NEW h \in Slots, StepClose(h)
  PROVE  MockSound' /\ Works(h) /\ UNCHANGED <<follow, chains>>
<1> DEFINE me == handlers[h]
<1>0. HandlerOK(me) /\ me.yes \in BOOLEAN
  BY HandlerIsOK
<1> DEFINE m == [me EXCEPT !.step = "load"]
<1>1. Goes(h, m) /\ me.step = "close"
  BY DEF StepClose
<1>2. ~Starting(handlers[h]) /\ me.step \in Working
  BY <1>1 DEF Starting, Working
<1>3. SoundStep
  BY <1>0, CloseSessionIsSound DEF StepClose
<1>4. /\ m \in [kind : {me.kind}, step : {"load"}, thread : {me.thread}, task : {m.task}, session : {m.session},
             worker : {m.worker}, view : {m.view}, yes : {me.yes}]
      /\ m.task = me.task
  BY <1>0 DEF HandlerOK
<1> HIDE DEF m
<1> QED BY <1>1, <1>2, <1>3, <1>4, CallerWorks DEF Steps, Working

LEMMA CallProposalWorks ==
  ASSUME MockSound, HandlersOK, NEW h \in Slots, CallProposal(h)
  PROVE  MockSound' /\ Works(h) /\ UNCHANGED <<follow, chains>>
<1> DEFINE me == handlers[h]
<1>0. HandlerOK(me) /\ me.yes \in BOOLEAN
  BY HandlerIsOK
<1> DEFINE m == [me EXCEPT !.step = "reload"]
<1>1. Goes(h, m) /\ me.step = "call"
  BY DEF CallProposal
<1>2. ~Starting(handlers[h])
  BY <1>1 DEF Starting, Working
<1>3. SoundStep
  BY <1>0, DecideProposalIsSound DEF CallProposal
<1>4. /\ m \in [kind : {me.kind}, step : {"reload"}, thread : {me.thread}, task : {m.task}, session : {m.session},
             worker : {m.worker}, view : {m.view}, yes : {me.yes}]
      /\ m.task = me.task
  BY <1>0 DEF HandlerOK
<1> HIDE DEF m
<1> QED BY <1>1, <1>2, <1>3, <1>4, CallerWorks DEF Steps, Working

LEMMA CallCheckpointWorks ==
  ASSUME MockSound, HandlersOK, NEW h \in Slots, CallCheckpoint(h)
  PROVE  MockSound' /\ Works(h) /\ UNCHANGED <<follow, chains>>
<1> DEFINE me == handlers[h]
<1>0. HandlerOK(me) /\ me.yes \in BOOLEAN
  BY HandlerIsOK
<1> DEFINE m == [me EXCEPT !.step = "reload"]
<1>1. Goes(h, m) /\ me.step = "call"
  BY DEF CallCheckpoint
<1>2. ~Starting(handlers[h])
  BY <1>1 DEF Starting, Working
<1>3. SoundStep
  BY <1>0, DecideCheckpointIsSound DEF CallCheckpoint
<1>4. /\ m \in [kind : {me.kind}, step : {"reload"}, thread : {me.thread}, task : {m.task}, session : {m.session},
             worker : {m.worker}, view : {m.view}, yes : {me.yes}]
      /\ m.task = me.task
  BY <1>0 DEF HandlerOK
<1> HIDE DEF m
<1> QED BY <1>1, <1>2, <1>3, <1>4, CallerWorks DEF Steps, Working

LEMMA StepReportWorks ==
  ASSUME MockSound, HandlersOK, NEW h \in Slots, StepReport(h)
  PROVE  MockSound' /\ Works(h) /\ UNCHANGED <<follow, chains>>
<1> DEFINE me == handlers[h]
<1>0. HandlerOK(me) /\ me.yes \in BOOLEAN
  BY HandlerIsOK
<1>1. CASE /\ me.step = "bridge"
           /\ WorkerEvent(me.session, me.worker, "worker.bridge.started", "READY")
           /\ Goes(h, [me EXCEPT !.step = "progress"])
  <2> DEFINE m == [me EXCEPT !.step = "progress"]
  <2>1. ~Starting(handlers[h]) /\ me.step \in Working /\ Goes(h, m)
    BY <1>1 DEF Starting, Working
  <2>2. SoundStep
    BY <1>1, WorkerEventIsSound DEF Reports, WorkerStatuses
  <2>3. /\ m \in [kind : {me.kind}, step : {"progress"}, thread : {me.thread}, task : {m.task}, session : {m.session},
               worker : {m.worker}, view : {m.view}, yes : {me.yes}]
        /\ m.task = me.task
    BY <1>0 DEF HandlerOK
  <2> HIDE DEF m
  <2> QED BY <2>1, <2>2, <2>3, CallerWorks DEF Steps, Working
<1>2. CASE /\ me.step = "progress"
           /\ WorkerEvent(me.session, me.worker, "worker.progress", "RUNNING")
           /\ Goes(h, [me EXCEPT !.step = "load"])
  <2> DEFINE m == [me EXCEPT !.step = "load"]
  <2>1. ~Starting(handlers[h]) /\ me.step \in Working /\ Goes(h, m)
    BY <1>2 DEF Starting, Working
  <2>2. SoundStep
    BY <1>2, WorkerEventIsSound DEF Reports, WorkerStatuses
  <2>3. /\ m \in [kind : {me.kind}, step : {"load"}, thread : {me.thread}, task : {m.task}, session : {m.session},
               worker : {m.worker}, view : {m.view}, yes : {me.yes}]
        /\ m.task = me.task
    BY <1>0 DEF HandlerOK
  <2> HIDE DEF m
  <2> QED BY <2>1, <2>2, <2>3, CallerWorks DEF Steps, Working
<1> QED BY <1>1, <1>2 DEF StepReport

LEMMA MockStays ==
  ASSUME MockSound, UNCHANGED <<tasks, timelines>>
  PROVE  MockSound' /\ ChatTasks' = ChatTasks /\ SoundStep
  BY KindsKept DEF mockVars, MockSound, MockTyped, SessionsSound, TasksSound, SessionExists, TaskExists, Sound, SoundStep

LEMMA StepLoadWorks ==
  ASSUME MockSound, HandlersOK, NEW h \in Slots, StepLoad(h)
  PROVE  MockSound' /\ Works(h) /\ UNCHANGED <<follow, chains>>
<1> DEFINE me == handlers[h]
<1>0. HandlerOK(me) /\ me.yes \in BOOLEAN
  BY HandlerIsOK
<1>1. PICK v \in Loads(me.session) : Goes(h, [me EXCEPT !.step = "write", !.view = v])
  BY DEF StepLoad
<1> DEFINE m == [me EXCEPT !.step = "write", !.view = v]
<1>2. Goes(h, m) /\ ~Starting(handlers[h]) /\ me.step \in Working
  BY <1>1 DEF StepLoad, Starting, Working
<1>3. SoundStep
  BY MockStays DEF StepLoad, Page
<1>4. /\ m \in [kind : {me.kind}, step : {"write"}, thread : {me.thread}, task : {m.task}, session : {m.session},
             worker : {m.worker}, view : {m.view}, yes : {me.yes}]
      /\ m.task = me.task
  BY <1>0 DEF HandlerOK
<1> HIDE DEF m
<1> QED BY <1>2, <1>3, <1>4, CallerWorks DEF Steps, Working

LEMMA NoTurnsNoSession == \A s : FirstWith(NoThread, s) = {}
  BY DEF FirstWith, NoThread

LEMMA StepReloadWorks ==
  ASSUME MockSound, HandlersOK, PageOK, NEW h \in Slots, StepReload(h)
  PROVE  MockSound' /\ Works(h) /\ UNCHANGED <<follow, chains>>
<1> DEFINE me == handlers[h]
<1> DEFINE step == IF FirstWith(thread, me.session) # {} THEN "load" ELSE "history"
<1> DEFINE m == [me EXCEPT !.thread = thread, !.step = step]
<1>1. /\ me.step = "reload" \/ (me.kind = "reload" /\ me.step = "call")
      /\ Goes(h, m) /\ UNCHANGED <<tasks, timelines>>
  BY DEF StepReload, Page
<1>2. HandlerOK(me)
  BY HandlerIsOK
<1>3. ~Starting(handlers[h])
  BY <1>1 DEF Starting
<1>4. IsThread(thread) /\ (step \in Working => thread.task \in Tasks) /\ step \in Steps
  BY NoTurnsNoSession DEF PageOK, Working, Steps
<1>5. MockSound' /\ ChatTasks' = ChatTasks
  BY <1>1, MockStays
<1> HIDE DEF me, step
<1>6. /\ m \in [kind : {me.kind}, step : {step}, thread : {thread}, task : {m.task}, session : {m.session},
             worker : {m.worker}, view : {m.view}, yes : {me.yes}]
      /\ m.task = me.task
  BY <1>2 DEF HandlerOK
<1> HIDE DEF m
<1>7. HandlerOK(m)
  BY <1>2, <1>4, <1>6, MovedIsOK
<1> QED BY <1>1, <1>3, <1>5, <1>7, GoesWorks

LEMMA FailsWorks ==
  ASSUME MockSound, HandlersOK, NEW h \in Slots, Fails(h)
  PROVE  MockSound' /\ Works(h) /\ UNCHANGED <<follow, chains>>
<1>1. /\ handlers' = [handlers EXCEPT ![h] = Idle] /\ refresh' = Kicked /\ ~Starting(handlers[h])
      /\ UNCHANGED <<tasks, timelines, thread, archived, others, history, follow, chains>>
  BY DEF Fails, Page, Unwritten, Starting
<1>2. MockSound' /\ ChatTasks' = ChatTasks
  BY <1>1, MockStays
<1> QED BY <1>1, <1>2, IdleIsOK, WorksWith

-----------------------------------------------------------------------------
(* Writing the thread, and reading the history *)

LEMMA TurnsReplaced ==
  ASSUME NEW th, IsThread(th), th.task \in Tasks, NEW new,
         \E turns : new = [th EXCEPT !.turns = turns]
  PROVE  IsThread(new) /\ new.task \in Tasks
  BY DEF IsThread

LEMMA WrittenIsThread ==
  ASSUME PageOK, NEW me, HandlerOK(me), me.step = "write", me.kind = "send" => thread # NoThread
  PROVE  IsThread(Written(me)) /\ Written(me).task \in Tasks
<1>1. me.kind # "send" => IsThread(me.thread) /\ me.thread.task \in Tasks
  BY DEF HandlerOK, Working
<1>2. CASE me.kind \in {"start", "resume"}
  BY <1>1, <1>2 DEF Written
<1>3. CASE me.kind = "send"
  <2>1. Written(me) = [thread EXCEPT !.turns = Append(@, Turn(me.session, me.view))]
    BY <1>3 DEF Written
  <2>2. IsThread(thread) /\ thread.task \in Tasks
    BY <1>3 DEF PageOK
  <2> QED BY <2>1, <2>2 DEF IsThread
<1>4. CASE me.kind \in {"proposal", "checkpoint", "reload"}
  <2>1. Written(me) = Reloaded(me.thread, me.session, me.view)
    BY <1>4 DEF Written
  <2>2. \E turns : Written(me) = [me.thread EXCEPT !.turns = turns]
    BY <2>1, Zenon DEF Reloaded
  <2> QED BY <1>1, <1>4, <2>2, TurnsReplaced
<1>5. CASE me.kind \notin {"start", "resume", "send", "proposal", "checkpoint", "reload"}
  <2>1. Written(me) = Upsert(me.thread, LaunchTurn(me))
    BY <1>5 DEF Written
  <2>2. \E turns : Written(me) = [me.thread EXCEPT !.turns = turns]
    BY <2>1, Zenon DEF Upsert
  <2> QED BY <1>1, <1>5, <2>2, TurnsReplaced
<1> QED BY <1>2, <1>3, <1>4, <1>5

\* A thread with a task is a thread.
LEMMA SomeThread == \A th : th.task \in Tasks => th # NoThread
  BY DEF NoThread, Tasks

LEMMA WriteKeeps ==
  ASSUME HandlersOK, PageOK, Following, Listing, NEW h \in Slots, Write(h)
  PROVE  HandlersOK' /\ PageOK' /\ Following' /\ Listing'
<1> DEFINE me == handlers[h]
<1> DEFINE on == [me EXCEPT !.step = "history"]
<1> DEFINE lost == me.kind = "send" /\ thread = NoThread
<1>1. /\ me.step = "write" /\ thread' = IF lost THEN thread ELSE Written(me)
      /\ UNCHANGED <<tasks, timelines, archived, others, history, follow, chains>>
  BY DEF Write, Page
<1>2. \/ handlers' = [handlers EXCEPT ![h] = on] /\ refresh' = refresh
      \/ handlers' = [handlers EXCEPT ![h] = Idle] /\ refresh' = Kicked
  BY DEF Write
<1>3. HandlerOK(me) /\ HandlerOK(on) /\ on.kind = me.kind /\ on.step = "history"
  BY HandlerIsOK, HandlerStaysOK DEF Steps, Working
<1>4. IsThread(thread') /\ (thread' = NoThread \/ thread'.task \in Tasks)
  BY <1>1, <1>3, WrittenIsThread DEF PageOK
<1>5. thread' = NoThread => thread = NoThread
  BY <1>1, <1>3, WrittenIsThread, SomeThread
<1>6. ChatTasks' = ChatTasks
  BY <1>1, KindsKept DEF mockVars
<1>7. HandlersOK'
  <2>1. handlers' = [k \in Slots |-> handlers'[k]]
    BY <1>2 DEF HandlersOK
  <2>2. \A k \in Slots : HandlerOK(handlers'[k])
    BY <1>2, <1>3, IdleIsOK DEF HandlersOK
  <2>3. \A k \in Slots : HandlerOK(handlers[k])'
    BY <2>2 DEF HandlerOK, IsThread, Tasks
  <2> QED BY <2>1, <2>3 DEF HandlersOK
<1>8. PageOK'
  <2>1. IsThread(thread)'
    BY <1>4 DEF IsThread, Tasks
  <2> QED BY <1>1, <1>2, <1>4, <2>1, KickedIsBusy DEF PageOK, Tasks, NoThread
<1>9. Following'
  BY <1>1, <1>5 DEF Following, Synced, NonePolls, ChainOK, IsThread, Tasks, NoThread
<1>10. Listing'
  <2>1. /\ Listed => Listed'
        /\ \A listed \in Listings : listed \in Listings'
    BY <1>1, <1>6, ListedStays, ListingsGrow DEF PageOK
  <2>2. CASE handlers' = [handlers EXCEPT ![h] = on] /\ refresh' = refresh
    <3>1. handlers'[h] = on /\ \A k \in Slots : k # h => handlers'[k] = handlers[k]
      BY <2>2 DEF HandlersOK
    <3>2. \A k \in Slots : Starting(handlers[k]) => Starting(handlers'[k])
      BY <1>3, <3>1 DEF Starting
    <3>3. (\E k \in Slots : Starting(handlers[k])) => \E k \in Slots : Starting(handlers[k])'
      BY <3>2 DEF Starting
    <3> QED BY <2>1, <2>2, <3>3 DEF Listing, Busy
  <2>3. CASE refresh' = Kicked
    BY <2>3, KickedIsBusy DEF Listing, Busy
  <2> QED BY <1>2, <2>2, <2>3
<1> QED BY <1>7, <1>8, <1>9, <1>10

\* The history is read again, and the page refreshed.
LEMMA ReadingLists ==
  ASSUME PageOK, Listed', refresh' = Kicked
  PROVE  Listing'
  BY KickedIsBusy DEF Listing, Busy

LEMMA ReadHistoryKeeps ==
  ASSUME HandlersOK, PageOK, Following, Listing, NEW h \in Slots, ReadHistory(h)
  PROVE  HandlersOK' /\ PageOK' /\ Following' /\ Listing'
<1>1. /\ handlers' = [handlers EXCEPT ![h] = Idle] /\ refresh' = Kicked
      /\ history' \in Histories(archived', history.showArchived)
      /\ UNCHANGED <<tasks, timelines, thread, archived, others, follow, chains>>
  BY DEF ReadHistory, Page
<1>2. ChatTasks' = ChatTasks /\ ChatTasks \subseteq Tasks
  BY <1>1, KindsKept DEF mockVars, ChatTasks
<1>3. HandlersOK'
  <2>1. handlers' = [k \in Slots |-> handlers'[k]]
    BY <1>1 DEF HandlersOK
  <2>2. \A k \in Slots : HandlerOK(handlers'[k])
    BY <1>1, IdleIsOK DEF HandlersOK
  <2>3. \A k \in Slots : HandlerOK(handlers[k])'
    BY <2>2 DEF HandlerOK, IsThread, Tasks
  <2> QED BY <2>1, <2>3 DEF HandlersOK
<1>6. Listed' /\ history' \in Rails
  BY <1>1, <1>2, HistoriesList DEF PageOK, Rails
<1>4. PageOK'
  BY <1>1, <1>6, KickedIsBusy DEF PageOK, IsThread, Tasks, NoThread, Refreshes, Rails
<1>5. Following'
  BY <1>1 DEF Following, Synced, NonePolls, ChainOK, IsThread, Tasks, NoThread
<1> QED BY <1>1, <1>3, <1>4, <1>5, <1>6, ReadingLists

-----------------------------------------------------------------------------
(* The follow loop *)

LEMMA FollowingNow ==
  ASSUME Synced(follow', chains'), thread' = NoThread => NonePolls(follow', chains')
  PROVE  Following'
  BY DEF Following, Synced, NonePolls, ChainOK, IsThread, Tasks, NoThread

\* Clearing the loop moves the token past every chain.
LEMMA ClearedIsSynced ==
  ASSUME NEW fo, NEW ch, Synced(fo, ch)
  PROVE  LET c == Cleared(fo, ch) IN
           /\ Synced(c.follow, c.chains)
           /\ \A k \in c.chains : k.token < c.follow.token
<1> DEFINE new == [token |-> fo.token + 1, session |-> 0, timer |-> FALSE]
<1> DEFINE left == {c \in ch : ~(c.phase = "timer" /\ c.token = fo.token)}
<1>1. Cleared(fo, ch).follow = new /\ Cleared(fo, ch).chains = left
  BY DEF Cleared
<1>2. fo.token \in Nat /\ \A k \in ch : k.token \in Nat /\ k.token <= fo.token /\ ChainOK(k)
  BY DEF Synced, ChainOK
<1>3. /\ new \in [token : Nat, session : {new.session}, timer : BOOLEAN] /\ new.token = fo.token + 1
  BY <1>2
<1> HIDE DEF new
<1>4. \A k \in left : ChainOK(k) /\ k.token < new.token /\ k.token \in Nat
  BY <1>2, <1>3
<1> HIDE DEF left
<1>5. Synced(new, left)
  BY <1>2, <1>3, <1>4 DEF Synced
<1> QED BY <1>1, <1>4, <1>5

LEMMA ClearedPollsNot ==
  ASSUME NEW fo, NEW ch, Synced(fo, ch)
  PROVE  NonePolls(Cleared(fo, ch).follow, Cleared(fo, ch).chains)
<1> DEFINE c == Cleared(fo, ch)
<1>1. Synced(c.follow, c.chains) /\ \A k \in c.chains : k.token < c.follow.token
  BY ClearedIsSynced
<1> HIDE DEF c
<1>2. \A k \in c.chains : k.token # c.follow.token
  BY <1>1 DEF Synced, ChainOK
<1>3. NonePolls(c.follow, c.chains)
  BY <1>2 DEF NonePolls
<1> QED BY <1>3 DEF c

\* So does restarting it, with one chain more.
LEMMA ReconciledIsSynced ==
  ASSUME NEW th, NEW vis, NEW fo, NEW ch, Synced(fo, ch)
  PROVE  LET r == Reconciled(th, vis, fo, ch) IN
           /\ Synced(r.follow, r.chains)
           /\ NonePolls(fo, ch) => NonePolls(r.follow, r.chains)
<1> DEFINE d == Derived(th)
<1> DEFINE c == Cleared(fo, ch)
<1> DEFINE r == Reconciled(th, vis, fo, ch)
<1> DEFINE chain == [token |-> c.follow.token, phase |-> "timer", thread |-> NoThread, view |-> NoView]
<1> DEFINE loop == [c.follow EXCEPT !.session = d.session, !.timer = TRUE]
<1>1. Synced(c.follow, c.chains) /\ NonePolls(c.follow, c.chains) /\ \A k \in c.chains : k.token < c.follow.token
  BY ClearedIsSynced, ClearedPollsNot
<1>2. \/ r.follow = c.follow /\ r.chains = c.chains
      \/ r.follow = fo /\ r.chains = ch
      \/ r.follow = loop /\ r.chains = c.chains \cup {chain}
  <2>1. r \in {c, [follow |-> fo, chains |-> ch], [follow |-> loop, chains |-> c.chains \cup {chain}]}
    BY DEF Reconciled
  <2> HIDE DEF r, c, chain, loop
  <2> QED BY <2>1
<1> HIDE DEF r, c, d
<1>3. loop \in [token : Nat, session : {loop.session}, timer : BOOLEAN] /\ loop.token = c.follow.token /\ loop.token \in Nat
  BY <1>1 DEF Synced
<1>4. chain \in [token : Nat, phase : Phases, thread : {chain.thread}, view : {chain.view}]
      /\ chain.phase = "timer" /\ chain.token = loop.token
  BY <1>3 DEF Phases
<1> HIDE DEF chain, loop
<1>5. ChainOK(chain) /\ chain.phase \notin Polling
  BY <1>4 DEF ChainOK, Polling
<1>6. Synced(loop, c.chains \cup {chain})
  <2>1. \A k \in c.chains : ChainOK(k) /\ k.token < loop.token /\ k.token \in Nat
    BY <1>1, <1>3 DEF Synced, ChainOK
  <2>2. \A k \in c.chains \cup {chain} : ChainOK(k) /\ k.token <= loop.token
    BY <1>3, <1>4, <1>5, <2>1
  <2>3. \A k, l \in c.chains \cup {chain} : k.token = loop.token /\ l.token = loop.token => k = l
    BY <1>3, <2>1
  <2> QED BY <1>3, <2>2, <2>3 DEF Synced
<1>7. NonePolls(loop, c.chains \cup {chain})
  BY <1>1, <1>3, <1>5 DEF NonePolls
<1> QED BY <1>1, <1>2, <1>6, <1>7 DEF r

\* A chain goes on, or is over.
LEMMA ChainMoves ==
  ASSUME NEW fo, NEW ch, Synced(fo, ch), NEW c \in ch, NEW add,
         \A d \in add : ChainOK(d) /\ d.token = c.token,
         \A d, e \in add : d = e
  PROVE  Synced(fo, (ch \ {c}) \cup add)
<1> DEFINE new == (ch \ {c}) \cup add
<1>1. \A d \in new : ChainOK(d) /\ d.token <= fo.token
  BY DEF Synced
<1>2. \A d, e \in new : d.token = fo.token /\ e.token = fo.token => d = e
  BY DEF Synced
<1>3. fo \in [token : Nat, session : {fo.session}, timer : BOOLEAN]
  BY DEF Synced
<1> HIDE DEF new
<1>4. Synced(fo, new)
  BY <1>1, <1>2, <1>3 DEF Synced
<1> QED BY <1>4 DEF new

LEMMA TimerSet ==
  ASSUME NEW ch, Synced(follow, ch), follow' = follow \/ follow' = [follow EXCEPT !.timer = TRUE]
  PROVE  Synced(follow', ch) /\ (NonePolls(follow, ch) => NonePolls(follow', ch))
<1>1. follow' \in [token : Nat, session : {follow'.session}, timer : BOOLEAN] /\ follow'.token = follow.token
  BY DEF Synced
<1> QED BY <1>1 DEF Synced, NonePolls

LEMMA NoThreadIsNotFollowed == ~Derived(NoThread).follow
  BY DEF Derived, NoThread, LastTurn, Turn, SessionOf, NoView

\* Any move of a chain: it keeps its token, and polls only for a thread.
Moves(c, add) ==
  /\ chains' = (chains \ {c}) \cup add
  /\ \A d \in add : ChainOK(d) /\ d.token = c.token
  /\ \A d \in add : d.phase \in Polling /\ d.token = follow.token => c.phase \in Polling \/ thread # NoThread
  /\ \A d, e \in add : d = e
  /\ follow' = follow \/ follow' = [follow EXCEPT !.timer = TRUE]

LEMMA MovesFollow ==
  ASSUME Following, NEW c \in chains, NEW add, Moves(c, add), thread' = NoThread => thread = NoThread
  PROVE  Following'
<1>1. Synced(follow, chains')
  BY ChainMoves DEF Following, Moves
<1>2. Synced(follow', chains') /\ (NonePolls(follow, chains') => NonePolls(follow', chains'))
  BY <1>1, TimerSet DEF Moves
<1>3. ASSUME thread' = NoThread PROVE NonePolls(follow, chains')
  <2>1. NonePolls(follow, chains) /\ thread = NoThread
    BY <1>3 DEF Following
  <2>2. c.token = follow.token => c.phase \notin Polling
    BY <2>1 DEF NonePolls
  <2>3. ASSUME NEW d \in chains', d.token = follow.token PROVE d.phase \notin Polling
    <3>1. CASE d \in chains
      BY <2>1, <2>3, <3>1 DEF NonePolls
    <3>2. CASE d \in add
      BY <2>1, <2>2, <2>3, <3>2 DEF Moves
    <3> QED BY <2>3, <3>1, <3>2 DEF Moves
  <2> QED BY <2>3 DEF NonePolls
<1> QED BY <1>2, <1>3, FollowingNow

LEMMA HandlersStay == ASSUME HandlersOK, UNCHANGED handlers PROVE HandlersOK'
  BY DEF HandlersOK, HandlerOK, IsThread, Tasks

LEMMA PageStays ==
  ASSUME PageOK, UNCHANGED history, others' \in {others, others + 1}, refresh' \in {refresh, Kicked},
         thread' = thread \/ (IsThread(thread') /\ (thread' = NoThread \/ thread'.task \in Tasks))
  PROVE  PageOK'
  BY KickedIsBusy DEF PageOK, IsThread, Tasks, NoThread, Refreshes, Rails

LEMMA ListingStays ==
  ASSUME PageOK, Listing, ChatTasks' = ChatTasks, UNCHANGED <<handlers, archived, history>>,
         others' \in {others, others + 1}, refresh' \in {refresh, Kicked}
  PROVE  Listing'
<1>1. (\E h \in Slots : Starting(handlers[h])) => \E h \in Slots : Starting(handlers[h])'
  BY DEF Starting
<1>0. others \in Nat /\ others' \in Nat /\ others' >= others
  BY DEF PageOK
<1>2. /\ Listed => Listed'
      /\ \A listed \in Listings : listed \in Listings'
  BY <1>0, ListedStays, ListingsGrow
<1>3. CASE refresh' = refresh
  BY <1>1, <1>2, <1>3 DEF Listing, Busy
<1>4. CASE refresh' = Kicked
  BY <1>4, KickedIsBusy DEF Listing, Busy
<1> QED BY <1>3, <1>4

LEMMA FollowingStays ==
  ASSUME Following, UNCHANGED <<follow, chains>>, thread' = NoThread => thread = NoThread
  PROVE  Following'
  BY FollowingNow DEF Following

LEMMA RearmedMoves ==
  ASSUME Following, NEW c \in chains
  PROVE  /\ \A d \in Rearmed(c) : ChainOK(d) /\ d.token = c.token /\ d.phase \notin Polling
         /\ \A d, e \in Rearmed(c) : d = e
<1> DEFINE new == [c EXCEPT !.phase = "timer", !.thread = NoThread, !.view = NoView]
<1>1. ChainOK(c)
  BY DEF Following, Synced
<1>2. ChainOK(new) /\ new.token = c.token /\ new.phase = "timer"
  BY <1>1 DEF ChainOK, Phases, Polling
<1>3. Rearmed(c) \subseteq {new}
  BY DEF Rearmed
<1> HIDE DEF new
<1> QED BY <1>2, <1>3 DEF Polling

\* The thread is what it was, or has a task.
ThreadGoes == thread' = thread \/ (IsThread(thread') /\ thread'.task \in Tasks)

LEMMA FollowLoopMoves ==
  ASSUME PageOK, Following, NEW c \in chains, FollowLoop(c)
  PROVE  /\ \E add : Moves(c, add)
         /\ ThreadGoes /\ (thread = NoThread => thread' = NoThread) /\ refresh' \in {refresh, Kicked}
         /\ UNCHANGED <<tasks, timelines, archived, others, history, handlers>>
<1>0. ChainOK(c) /\ c.token \in Nat /\ Awaiting("again") \in {"again", "refreshing"}
  BY DEF Following, Synced, ChainOK, Awaiting
<1>1. CASE TimerFires(c)
  <2> DEFINE new == [c EXCEPT !.phase = "polling", !.thread = thread]
  <2> DEFINE add == IF c.token = follow.token /\ visible /\ Derived(thread).follow THEN {new} ELSE {}
  <2>1. /\ chains' = (chains \ {c}) \cup add
        /\ UNCHANGED <<tasks, timelines, thread, archived, others, history, handlers, refresh, follow>>
    BY <1>1 DEF TimerFires
  <2>2. ASSUME Derived(thread).follow PROVE IsThread(thread) /\ thread.task \in Tasks /\ thread # NoThread
    BY <2>2, NoThreadIsNotFollowed DEF PageOK
  <2>3. Derived(thread).follow => ChainOK(new) /\ new.token = c.token
    BY <1>0, <2>2 DEF ChainOK, Phases, Polling
  <2> HIDE DEF new
  <2>4. Moves(c, add)
    BY <2>1, <2>2, <2>3 DEF Moves
  <2> QED BY <2>1, <2>4 DEF ThreadGoes
<1>2. CASE PollEmpty(c) \/ FollowAgain(c)
  <2>1. /\ chains' = (chains \ {c}) \cup Rearmed(c)
        /\ follow' = follow \/ follow' = [follow EXCEPT !.timer = TRUE]
        /\ UNCHANGED <<tasks, timelines, thread, archived, others, history, handlers, refresh>>
    BY <1>2 DEF PollEmpty, FollowAgain
  <2>2. Moves(c, Rearmed(c))
    BY <2>1, RearmedMoves DEF Moves
  <2> QED BY <2>1, <2>2 DEF ThreadGoes
<1>3. CASE PollFails(c)
  <2> DEFINE new == [c EXCEPT !.phase = Awaiting("again"), !.thread = NoThread]
  <2> DEFINE add == IF c.token = follow.token THEN {new} ELSE {}
  <2>1. /\ chains' = (chains \ {c}) \cup add /\ refresh' \in {refresh, Kicked}
        /\ UNCHANGED <<tasks, timelines, thread, archived, others, history, handlers, follow>>
    BY <1>3 DEF PollFails
  <2>2. ChainOK(new) /\ new.token = c.token /\ new.phase \notin Polling
    BY <1>0 DEF ChainOK, Phases, Polling
  <2> HIDE DEF new
  <2>3. Moves(c, add)
    BY <2>1, <2>2 DEF Moves
  <2> QED BY <2>1, <2>3 DEF ThreadGoes
<1>4. CASE PollAnswers(c)
  <2>1. PICK v : chains' = (chains \ {c}) \cup
          {[c EXCEPT !.phase = "loaded", !.view = [v EXCEPT !.seq = Len(timelines[Derived(c.thread).session].events)]]}
    BY <1>4 DEF PollAnswers
  <2> DEFINE view == [v EXCEPT !.seq = Len(timelines[Derived(c.thread).session].events)]
  <2> DEFINE new == [c EXCEPT !.phase = "loaded", !.view = view]
  <2>2. /\ chains' = (chains \ {c}) \cup {new} /\ c.phase = "polling"
        /\ UNCHANGED <<tasks, timelines, thread, archived, others, history, handlers, refresh, follow>>
    BY <1>4, <2>1 DEF PollAnswers
  <2> HIDE DEF view
  <2>3. ChainOK(new) /\ new.token = c.token
    BY <1>0, <2>2 DEF ChainOK, Phases, Polling
  <2> HIDE DEF new
  <2>4. Moves(c, {new})
    BY <2>2, <2>3 DEF Moves, Polling
  <2> QED BY <2>2, <2>4 DEF ThreadGoes
<1>5. CASE FollowWrites(c)
  <2> DEFINE new == [c EXCEPT !.phase = Awaiting("again"), !.thread = NoThread, !.view = NoView]
  <2>1. c.phase = "loaded" /\ UNCHANGED <<tasks, timelines, archived, others, history, handlers, follow>>
    BY <1>5 DEF FollowWrites
  <2>2. CASE c.token # follow.token
    <3>1. chains' = chains \ {c} /\ UNCHANGED <<thread, refresh>>
      BY <1>5, <2>2 DEF FollowWrites
    <3>2. Moves(c, {})
      BY <2>1, <3>1 DEF Moves
    <3> QED BY <2>1, <3>1, <3>2 DEF ThreadGoes
  <2>3. CASE c.token = follow.token
    <3>1. /\ chains' = (chains \ {c}) \cup {new} /\ refresh' = Kicked
          /\ thread' = LastReloaded(c.thread, c.view)
      BY <1>5, <2>3 DEF FollowWrites
    <3>2. ChainOK(new) /\ new.token = c.token /\ new.phase \notin Polling
      BY <1>0 DEF ChainOK, Phases, Polling
    <3>3. IsThread(c.thread) /\ c.thread.task \in Tasks
      BY <1>0, <2>1 DEF ChainOK, Polling
    <3>4. \E turns : thread' = [c.thread EXCEPT !.turns = turns]
      BY <3>1, Zenon DEF LastReloaded
    <3>5. IsThread(thread') /\ thread'.task \in Tasks
      BY <3>3, <3>4, TurnsReplaced
    <3>6. thread # NoThread
      BY <2>1, <2>3 DEF Following, NonePolls, Polling
    <3> HIDE DEF new
    <3>7. Moves(c, {new})
      BY <2>1, <3>1, <3>2 DEF Moves
    <3> QED BY <2>1, <3>1, <3>5, <3>6, <3>7 DEF ThreadGoes
  <2> QED BY <2>2, <2>3
<1> QED BY <1>1, <1>2, <1>3, <1>4, <1>5 DEF FollowLoop

LEMMA FollowLoopKeeps ==
  ASSUME ChatInv, NEW c \in chains, FollowLoop(c)
  PROVE  ChatInv'
<1>0. MockSound /\ HandlersOK /\ PageOK /\ Following /\ Listing
  BY DEF ChatInv
<1>1. /\ \E add : Moves(c, add)
      /\ ThreadGoes /\ (thread = NoThread => thread' = NoThread) /\ refresh' \in {refresh, Kicked}
      /\ UNCHANGED <<tasks, timelines, archived, others, history, handlers>>
  BY <1>0, FollowLoopMoves
<1>2. thread' = NoThread => thread = NoThread
  BY <1>1, SomeThread DEF ThreadGoes
<1>3. Following'
  BY <1>0, <1>1, <1>2, MovesFollow
<1>4. PageOK'
  BY <1>0, <1>1, PageStays DEF ThreadGoes
<1>5. MockSound' /\ ChatTasks' = ChatTasks
  BY <1>0, <1>1, MockStays
<1>6. Listing'
  BY <1>0, <1>1, <1>5, ListingStays
<1>7. HandlersOK'
  BY <1>0, <1>1, HandlersStay
<1> QED BY <1>3, <1>4, <1>5, <1>6, <1>7 DEF ChatInv

-----------------------------------------------------------------------------
(* Every step of the chat *)

LEMMA HandlerKeeps ==
  ASSUME ChatInv, NEW h \in Slots, Handler(h) \/ Fails(h)
  PROVE  ChatInv'
<1>0. MockSound /\ HandlersOK /\ PageOK /\ Following /\ Listing
  BY DEF ChatInv
<1>1. ASSUME MockSound', Works(h), UNCHANGED <<follow, chains>> PROVE ChatInv'
  <2>1. UNCHANGED thread
    BY <1>1 DEF Works
  <2> QED BY <1>0, <1>1, <2>1, WorkKeepsHandlers, WorkKeepsPage, WorkKeepsListing, FollowingStays DEF ChatInv
<1>2. ASSUME Write(h) \/ ReadHistory(h) PROVE ChatInv'
  <2>1. MockSound'
    BY <1>0, <1>2, MockStays DEF Write, ReadHistory, Page
  <2> QED BY <1>0, <1>2, <2>1, WriteKeeps, ReadHistoryKeeps DEF ChatInv
<1>3. CASE Fails(h)
  BY <1>0, <1>1, <1>3, FailsWorks
<1>4. CASE CallStart(h) \/ CallResume(h) \/ CallThreads(h) \/ CallSend(h) \/ CallManaged(h) \/ StepSession(h)
  BY <1>0, <1>1, <1>4, CallStartWorks, CallResumeWorks, CallThreadsWorks, CallSendWorks, CallManagedWorks,
     StepSessionWorks
<1>5. CASE StepAttach(h) \/ StepReport(h) \/ StepBeat(h) \/ StepClose(h) \/ CallProposal(h) \/ CallCheckpoint(h)
           \/ StepReload(h) \/ StepLoad(h)
  BY <1>0, <1>1, <1>5, StepAttachWorks, StepReportWorks, StepBeatWorks, StepCloseWorks, CallProposalWorks,
     CallCheckpointWorks, StepReloadWorks, StepLoadWorks
<1> QED BY <1>2, <1>3, <1>4, <1>5 DEF Handler

LEMMA ClearingFollows ==
  ASSUME Following, LET c == Cleared(follow, chains) IN follow' = c.follow /\ chains' = c.chains
  PROVE  Following'
<1>1. Synced(follow, chains)
  BY DEF Following
<1>2. Synced(follow', chains') /\ NonePolls(follow', chains')
  BY <1>1, ClearedIsSynced, ClearedPollsNot
<1> QED BY <1>2, FollowingNow

LEMMA ClickKeeps ==
  ASSUME ChatInv, NEW h \in Slots, Click(h)
  PROVE  ChatInv'
<1>0. MockSound /\ HandlersOK /\ PageOK /\ Following /\ Listing
  BY DEF ChatInv
<1>1. Works(h)
  BY <1>0, ClickWorks
<1>2. UNCHANGED <<tasks, timelines, thread>>
  BY DEF Click, ClickThread, ClickFollowUp, ClickResume, ClickDecide, Begin, Page
<1>3. Following'
  <2>1. CASE ClickFollowUp(h)
    BY <1>0, <2>1, ClearingFollows DEF ClickFollowUp
  <2>2. CASE UNCHANGED <<follow, chains>>
    BY <1>0, <1>2, <2>2, FollowingStays
  <2>3. ClickFollowUp(h) \/ UNCHANGED <<follow, chains>>
    BY DEF Click, ClickThread, ClickResume, ClickDecide
  <2> QED BY <2>1, <2>2, <2>3
<1>4. MockSound'
  BY <1>0, <1>2, MockStays
<1> QED BY <1>0, <1>1, <1>3, <1>4, WorkKeepsHandlers, WorkKeepsPage, WorkKeepsListing DEF ChatInv

LEMMA RuntimeKeeps ==
  ASSUME ChatInv, Elsewhere \/ \E s \in Sessions : RuntimeOps(s)
  PROVE  ChatInv'
<1>0. MockSound /\ HandlersOK /\ PageOK /\ Following /\ Listing
  BY DEF ChatInv
<1>1. SoundStep
  <2>1. CASE Elsewhere
    <3>1. PICK s \in Sessions :
            \/ RequestApproval(s)
            \/ \E yes \in BOOLEAN : DecideProposal(s, yes)
            \/ CloseSession(s, "COMPLETED")
            \/ \E w \in 1..Len(timelines[s].workers), st \in {"WAITING", "BLOCKED"} :
                  WorkerEvent(s, w, "worker.status.changed", st)
      BY <2>1 DEF Elsewhere
    <3> QED BY <1>0, <3>1, RequestApprovalIsSound, DecideProposalIsSound, CloseSessionIsSound, WorkerEventIsSound
            DEF Reports, WorkerStatuses
  <2>2. ASSUME NEW s \in Sessions, RuntimeOps(s) PROVE SoundStep
    <3>1. CASE RuntimeOpsClose(s)
      BY <1>0, <3>1, CloseSessionIsSound DEF RuntimeOpsClose
    <3>2. CASE RuntimeOpsAttach(s)
      BY <1>0, <3>2, AttachWorkerIsSound DEF RuntimeOpsAttach
    <3>3. CASE RuntimeOpsReport(s)
      BY <1>0, <3>3, WorkerEventIsSound DEF RuntimeOpsReport, Reports, WorkerStatuses
    <3> QED BY <2>2, <3>1, <3>2, <3>3 DEF RuntimeOps
  <2> QED BY <2>1, <2>2
<1>2. /\ refresh' \in {refresh, Kicked}
      /\ UNCHANGED <<thread, archived, others, history, handlers, follow, chains>>
  BY DEF Elsewhere, RuntimeOps, chatVars
<1> QED BY <1>0, <1>1, <1>2, HandlersStay, PageStays, ListingStays, FollowingStays DEF SoundStep, ChatInv

\* The operator puts the thread away, and moves through the rail and the views.
LEMMA PageActionKeeps ==
  ASSUME ChatInv, SwitchView \/ ResetThread \/ ToggleArchived \/ \E t \in Tasks : ArchiveThread(t) \/ RestoreThread(t)
  PROVE  ChatInv'
<1>0. MockSound /\ HandlersOK /\ PageOK /\ Following /\ Listing
  BY DEF ChatInv
<1>1. UNCHANGED <<tasks, timelines, handlers>> /\ refresh' \in {refresh, Kicked}
  BY DEF SwitchView, ResetThread, ToggleArchived, ArchiveThread, RestoreThread, Page
<1>2. MockSound' /\ ChatTasks' = ChatTasks /\ HandlersOK'
  BY <1>0, <1>1, MockStays, HandlersStay
<1>3. CASE SwitchView
  <2>1. LET r == Reconciled(thread, ~visible, follow, chains) IN follow' = r.follow /\ chains' = r.chains
    BY <1>3 DEF SwitchView
  <2>2. UNCHANGED <<thread, archived, others, history>>
    BY <1>3 DEF SwitchView
  <2>3. Following'
    BY <1>0, <2>1, <2>2, ReconciledIsSynced, FollowingNow DEF Following
  <2> QED BY <1>0, <1>1, <1>2, <2>2, <2>3, PageStays, ListingStays DEF ChatInv
<1>4. CASE ResetThread
  <2>1. ClearThread /\ UNCHANGED <<archived, others, history>>
    BY <1>4 DEF ResetThread
  <2>2. Following'
    BY <1>0, <2>1, ClearingFollows DEF ClearThread
  <2>3. PageOK'
    BY <1>0, <1>1, <2>1, IdleIsOK, PageStays DEF ClearThread
  <2> QED BY <1>0, <1>1, <1>2, <2>1, <2>2, <2>3, ListingStays DEF ChatInv
<1>5. ASSUME ToggleArchived \/ \E t \in Tasks : ArchiveThread(t) \/ RestoreThread(t)
      PROVE  ChatInv'
  <2>1. /\ refresh' = Kicked /\ UNCHANGED others
        /\ \E all \in BOOLEAN : history' \in Histories(archived', all)
    <3>1. history.showArchived \in BOOLEAN /\ (~history.showArchived) \in BOOLEAN
      BY <1>0 DEF PageOK, Rails
    <3>2. CASE ToggleArchived
      BY <3>1, <3>2 DEF ToggleArchived
    <3>3. CASE \E t \in Tasks : ArchiveThread(t) \/ RestoreThread(t)
      BY <3>1, <3>3 DEF ArchiveThread, RestoreThread
    <3> QED BY <1>5, <3>2, <3>3
  <2>3. Listed' /\ history' \in Rails
    BY <1>0, <1>2, <2>1, HistoriesList DEF PageOK
  <2>4. Listing'
    BY <1>0, <2>1, <2>3, ReadingLists
  <2>5. (thread' = thread /\ UNCHANGED <<follow, chains>>) \/ ClearThread
    BY <1>5 DEF ToggleArchived, ArchiveThread, RestoreThread
  <2>6. Following'
    BY <1>0, <2>5, ClearingFollows, FollowingStays DEF ClearThread
  <2>7. IsThread(thread') /\ (thread' = NoThread \/ thread'.task \in Tasks)
    BY <1>0, <2>5, IdleIsOK DEF ClearThread, PageOK
  <2>8. PageOK'
    BY <1>0, <2>1, <2>3, <2>7, KickedIsBusy DEF PageOK, IsThread, Tasks, NoThread, Refreshes, Rails
  <2> QED BY <1>2, <2>4, <2>6, <2>8 DEF ChatInv
<1> QED BY <1>3, <1>4, <1>5

LEMMA RefreshListsKeeps ==
  ASSUME ChatInv, RefreshLists
  PROVE  ChatInv'
<1>0. MockSound /\ HandlersOK /\ PageOK /\ Following /\ Listing
  BY DEF ChatInv
<1>1. /\ \E listed \in Listings \cup {{}}, failed \in BOOLEAN :
           /\ refresh' = [refresh EXCEPT !.phase = "ending", !.listed = listed, !.failed = failed]
           /\ failed \/ listed \in Listings
      /\ UNCHANGED <<tasks, timelines, thread, archived, others, history, handlers, follow, chains>>
  BY DEF RefreshLists
<1>2. MockSound' /\ ChatTasks' = ChatTasks /\ HandlersOK' /\ Following'
  BY <1>0, <1>1, MockStays, HandlersStay, FollowingStays
<1>3. /\ refresh' \in Refreshes /\ refresh'.phase = "ending"
      /\ refresh'.failed \/ refresh'.listed \in Listings
  <2>1. \A listed \in Listings \cup {{}} : listed \subseteq Tasks
    BY DEF Listings, ChatTasks
  <2> QED BY <1>0, <1>1, <2>1 DEF PageOK, Refreshes
<1>4. PageOK'
  BY <1>0, <1>1, <1>3 DEF PageOK, IsThread, Tasks, NoThread, Refreshes, Rails
<1>5. Listing'
  <2>1. \A listed \in Listings : listed \in Listings'
    BY <1>0, <1>1, <1>2, ListingsGrow DEF PageOK
  <2> QED BY <1>3, <2>1 DEF Listing, Busy
<1> QED BY <1>2, <1>4, <1>5 DEF ChatInv

\* What was listed is what there is, unless another refresh or a handler will list again.
LEMMA RefreshEndsKeeps ==
  ASSUME ChatInv, RefreshEnds
  PROVE  ChatInv'
<1>0. MockSound /\ HandlersOK /\ PageOK /\ Following /\ Listing
  BY DEF ChatInv
<1> DEFINE woken == {IF c.phase = "refreshing" THEN [c EXCEPT !.phase = "again"] ELSE c : c \in chains}
<1>1. /\ refresh.phase = "ending"
      /\ history' = IF refresh.failed THEN FailedHistory
                    ELSE [history EXCEPT !.items = Shown(refresh.listed, archived, history.showArchived),
                                         !.failed = FALSE]
      /\ handlers' = [h \in Slots |-> IF handlers[h].step = "refreshing"
                                        THEN [handlers[h] EXCEPT !.step = "call"] ELSE handlers[h]]
      /\ refresh' = [phase |-> IF refresh.queued THEN "listing" ELSE "none", queued |-> FALSE, listed |-> {},
                     failed |-> FALSE]
      /\ UNCHANGED <<tasks, timelines, thread, archived, others>>
  BY DEF RefreshEnds
<1>2. LET r == Reconciled(thread, visible, follow, woken) IN follow' = r.follow /\ chains' = r.chains
  BY DEF RefreshEnds
<1>3. MockSound' /\ ChatTasks' = ChatTasks
  BY <1>0, <1>1, MockStays
<1>4. HandlersOK'
  <2>1. handlers' = [k \in Slots |-> handlers'[k]]
    BY <1>1
  <2>2. \A k \in Slots : HandlerOK(handlers'[k])
    <3>1. ASSUME NEW k \in Slots PROVE HandlerOK(handlers'[k])
      <4>1. HandlerOK(handlers[k]) /\ HandlerOK([handlers[k] EXCEPT !.step = "call"])
        BY <1>0, HandlerIsOK, HandlerStaysOK DEF Steps, Working
      <4> QED BY <1>1, <4>1
    <3> QED BY <3>1
  <2>3. \A k \in Slots : HandlerOK(handlers[k])'
    BY <2>2 DEF HandlerOK, IsThread, Tasks
  <2> QED BY <2>1, <2>3 DEF HandlersOK
<1>5. Synced(follow, woken) /\ (NonePolls(follow, chains) => NonePolls(follow, woken))
  <2>1. Synced(follow, chains)
    BY <1>0 DEF Following
  <2>2. \A c \in chains : ChainOK(c) /\ c.token <= follow.token
    BY <2>1 DEF Synced
  <2> DEFINE Woken(c) == IF c.phase = "refreshing" THEN [c EXCEPT !.phase = "again"] ELSE c
  <2>3. \A c \in chains : /\ ChainOK(Woken(c)) /\ Woken(c).token = c.token
                          /\ Woken(c).phase \in Polling => c.phase \in Polling
    BY <2>2 DEF ChainOK, Phases, Polling
  <2>4. woken = {Woken(c) : c \in chains}
    OBVIOUS
  <2> HIDE DEF woken, Woken
  <2>5. \A d \in woken : \E c \in chains : d = Woken(c)
    BY <2>4
  <2>6. \A d \in woken : ChainOK(d) /\ d.token <= follow.token
    BY <2>2, <2>3, <2>5
  <2>7. \A d, e \in woken : d.token = follow.token /\ e.token = follow.token => d = e
    <3>1. ASSUME NEW d \in woken, NEW e \in woken, d.token = follow.token, e.token = follow.token PROVE d = e
      <4>1. PICK a \in chains : d = Woken(a)
        BY <2>5
      <4>2. PICK b \in chains : e = Woken(b)
        BY <2>5
      <4>3. a = b
        BY <2>1, <2>3, <3>1, <4>1, <4>2 DEF Synced
      <4> QED BY <4>1, <4>2, <4>3
    <3> QED BY <3>1
  <2>8. Synced(follow, woken)
    BY <2>1, <2>6, <2>7 DEF Synced
  <2>9. NonePolls(follow, chains) => NonePolls(follow, woken)
    BY <2>3, <2>5 DEF NonePolls
  <2> QED BY <2>8, <2>9
<1> HIDE DEF woken
<1>6. Following'
  BY <1>0, <1>1, <1>2, <1>5, ReconciledIsSynced, FollowingNow DEF Following
<1>7. PageOK'
  <2>1. history' \in Rails
    <3>1. Shown(refresh.listed, archived, history.showArchived) \subseteq Tasks
      BY <1>0 DEF PageOK, Shown, Refreshes
    <3> QED BY <1>0, <1>1, <3>1 DEF PageOK, Rails, FailedHistory
  <2>2. refresh' \in Refreshes
    BY <1>1 DEF Refreshes
  <2> QED BY <1>0, <1>1, <2>1, <2>2 DEF PageOK, IsThread, Tasks, NoThread, Refreshes, Rails
<1>8. Listing'
  <2>0. /\ refresh.failed => history' = FailedHistory
        /\ ~refresh.failed =>
             history' = [history EXCEPT !.items = Shown(refresh.listed, archived, history.showArchived),
                                        !.failed = FALSE]
    BY DEF RefreshEnds
  <2>1. CASE refresh.queued
    BY <1>1, <2>1 DEF Listing, Busy
  <2>2. CASE refresh.failed \/ refresh.listed \in Listings
    <3>1. ASSUME refresh.failed PROVE Listed'
      <4>1. history' = FailedHistory
        BY <2>0, <3>1
      <4>2. history'.failed = TRUE
        BY <4>1 DEF FailedHistory
      <4> QED BY <4>2 DEF Listed
    <3>2. ASSUME ~refresh.failed PROVE Listed'
      <4>1. refresh.listed \in Listings'
        <5>1. others \in Nat /\ others' \in Nat /\ others' >= others
          BY <1>0, <1>1 DEF PageOK
        <5> QED BY <1>3, <2>2, <3>2, <5>1, ListingsGrow
      <4>2. history'.items = Shown(refresh.listed, archived, history'.showArchived)
        BY <1>0, <2>0, <3>2 DEF PageOK, Rails
      <4>3. \E listed \in Listings' : history'.items = Shown(listed, archived', history'.showArchived)
        BY <1>1, <4>1, <4>2 DEF Shown
      <4> QED BY <4>3 DEF Listed, Shown
    <3>3. Listed'
      BY <3>1, <3>2
    <3> QED BY <1>1, <3>3 DEF Listing
  <2>3. CASE \E h \in Slots : Starting(handlers[h])
    <3>1. PICK h \in Slots : Starting(handlers[h])
      BY <2>3
    <3>2. handlers'[h] = handlers[h]
      BY <1>1, <3>1 DEF Starting
    <3>3. Starting(handlers[h])'
      BY <3>1, <3>2 DEF Starting
    <3> QED BY <1>1, <3>3 DEF Listing
  <2> QED BY <1>0, <1>1, <2>1, <2>2, <2>3 DEF Listing
<1> QED BY <1>3, <1>4, <1>6, <1>7, <1>8 DEF ChatInv

\* Another surface fills the listings.
LEMMA OthersCreateKeeps ==
  ASSUME ChatInv, OthersCreate
  PROVE  ChatInv'
<1>0. MockSound /\ HandlersOK /\ PageOK /\ Following /\ Listing
  BY DEF ChatInv
<1>1. /\ others' = others + 1
      /\ UNCHANGED <<tasks, timelines, thread, archived, history, handlers, refresh, follow, chains>>
  BY DEF OthersCreate
<1> QED BY <1>0, <1>1, MockStays, HandlersStay, PageStays, ListingStays, FollowingStays DEF ChatInv

LEMMA ChatStarts == Init => ChatInv
<1> SUFFICES ASSUME Init PROVE ChatInv
  OBVIOUS
<1>1. MockSound
  BY MockStartsSound, EarlierVisitIsSound DEF Init
<1>2. HandlersOK
  BY IdleIsOK DEF Init, HandlersOK
<1>3. PageOK
  BY IdleIsOK DEF Init, PageOK, Refreshes, Rails
<1>4. Following
  BY DEF Init, Following, Synced, NonePolls
<1>5. Listing
  BY DEF Init, Listing, Busy
<1> QED BY <1>1, <1>2, <1>3, <1>4, <1>5 DEF ChatInv

LEMMA ChatGoesOn == ChatInv /\ [Next]_vars => ChatInv'
<1> SUFFICES ASSUME ChatInv, [Next]_vars PROVE ChatInv'
  OBVIOUS
<1>1. CASE RefreshLists
  BY <1>1, RefreshListsKeeps
<1>2. CASE RefreshEnds
  BY <1>2, RefreshEndsKeeps
<1>3. CASE SwitchView \/ ResetThread \/ ToggleArchived \/ \E t \in Tasks : ArchiveThread(t) \/ RestoreThread(t)
  BY <1>3, PageActionKeeps
<1>4. CASE Elsewhere \/ \E s \in Sessions : RuntimeOps(s)
  BY <1>4, RuntimeKeeps
<1>8. CASE OthersCreate
  BY <1>8, OthersCreateKeeps
<1>5. CASE \E c \in chains : FollowLoop(c)
  BY <1>5, FollowLoopKeeps
<1>6. CASE \E h \in Slots : Click(h) \/ Handler(h) \/ Fails(h)
  BY <1>6, ClickKeeps, HandlerKeeps
<1>7. CASE UNCHANGED vars
  <2>1. UNCHANGED <<tasks, timelines, thread, archived, others, history, handlers, refresh, follow, chains>>
    BY <1>7 DEF vars, chatVars
  <2>2. MockSound /\ HandlersOK /\ PageOK /\ Following /\ Listing
    BY DEF ChatInv
  <2> QED BY <2>1, <2>2, MockStays, HandlersStay, PageStays, ListingStays, FollowingStays DEF ChatInv
<1> QED BY <1>1, <1>2, <1>3, <1>4, <1>5, <1>6, <1>7, <1>8 DEF Next

\* The invariant of the chat holds whatever its handlers, its refresh, its follow loop, the
\* runtime workspace and other surfaces do, in whatever order.
THEOREM ChatIsConsistent == Spec => []ChatInv
BY ChatStarts, ChatGoesOn, PTL DEF Spec

\* The copies the page keeps of a worker and of a task agree, whatever the handlers of the chat,
\* the runtime workspace and other surfaces do to a session, and in whatever order.
THEOREM ChatCopiesAgree == Spec => []CopiesAgree
BY ChatIsConsistent, SoundCopiesAgree, PTL DEF ChatInv

\* A proposal is decided once, and its action started once, exactly when it was approved, however
\* many handlers and surfaces decide it.
THEOREM ProposalsDecidedOnce == Spec => []DecidedOnce
BY ChatIsConsistent, SoundDecidesOnce, PTL DEF ChatInv

\* A session is never polled twice at a time.
THEOREM ChatHasOneFollower == Spec => []OneFollower
<1>1. ChatInv => OneFollower
  <2> SUFFICES ASSUME ChatInv PROVE Cardinality({c \in chains : c.token = follow.token}) <= 1
    BY DEF OneFollower
  <2> DEFINE now == {c \in chains : c.token = follow.token}
  <2>1. \A c, d \in now : c = d
    BY DEF ChatInv, Following, Synced
  <2>2. CASE now = {}
    BY <2>2, FS_EmptySet
  <2>3. CASE now # {}
    <3>1. PICK c \in now : TRUE
      BY <2>3
    <3>2. now = {c}
      BY <2>1
    <3>3. Cardinality(now) = 1
      BY <3>2, FS_Singleton
    <3> QED BY <3>3
  <2> QED BY <2>2, <2>3
<1> QED BY <1>1, ChatIsConsistent, PTL

\* When nothing is going on, the history rail says that it failed or shows a listing of the
\* tasks there are, which leaves a task out only when it is full.
THEOREM QuietRailIsCurrent == Spec => []QuietHistoryIsCurrent
<1>1. ChatInv => QuietHistoryIsCurrent
  <2> SUFFICES ASSUME ChatInv, ~Busy, \A h \in Slots : handlers[h] = Idle,
                      ~history.failed
               PROVE  \E listed \in Listings : history.items = Shown(listed, archived, history.showArchived)
    BY DEF QuietHistoryIsCurrent
  <2>1. \A h \in Slots : ~Starting(handlers[h])
    BY IdleIsOK
  <2> QED BY <2>1 DEF ChatInv, Listing, Listed
<1> QED BY <1>1, ChatIsConsistent, PTL

\* Only a handler writes a thread where there was none.
THEOREM ThreadsAreOpenedByChoice == Spec => OnlyHandlersOpenThreads
<1> DEFINE Step == thread = NoThread /\ thread' # NoThread =>
                     \E h \in Slots : handlers[h].step = "write" /\ handlers'[h] # handlers[h]
<1>1. ChatInv /\ [Next]_vars => [Step]_vars
  <2> SUFFICES ASSUME ChatInv, Next, thread = NoThread, thread' # NoThread
               PROVE  \E h \in Slots : handlers[h].step = "write" /\ handlers'[h] # handlers[h]
    BY DEF vars
  <2>0. PageOK /\ HandlersOK /\ Following
    BY DEF ChatInv
  <2>1. ~(RefreshLists \/ RefreshEnds \/ SwitchView \/ ResetThread \/ ToggleArchived
         \/ Elsewhere \/ OthersCreate)
    BY DEF OthersCreate, RefreshLists, RefreshEnds, SwitchView, ResetThread, ClearThread, ToggleArchived, Elsewhere, chatVars
  <2>2. ~\E t \in Tasks : ArchiveThread(t) \/ RestoreThread(t)
    BY DEF ArchiveThread, RestoreThread, ClearThread
  <2>3. ~\E s \in Sessions : RuntimeOps(s)
    BY DEF RuntimeOps
  <2>4. ~\E c \in chains : FollowLoop(c)
    BY <2>0, FollowLoopMoves
  <2>5. PICK h \in Slots : Click(h) \/ Handler(h) \/ Fails(h)
    BY <2>1, <2>2, <2>3, <2>4 DEF Next
  <2>6. ~Click(h)
    BY DEF Click, ClickThread, ClickFollowUp, ClickResume, ClickDecide, Begin
  <2>7. Write(h)
    BY <2>5, <2>6 DEF Handler, Fails, Goes, Unwritten, CallStart, CallResume, CallThreads, CallSend, CallManaged,
         StepSession, StepAttach, StepReport, StepBeat, StepClose, CallProposal, CallCheckpoint, StepReload,
         StepLoad, ReadHistory
  <2> DEFINE on == [handlers[h] EXCEPT !.step = "history"]
  <2>8. handlers[h].step = "write" /\ (handlers' = [handlers EXCEPT ![h] = on] \/ handlers' = [handlers EXCEPT ![h] = Idle])
    BY <2>7 DEF Write
  <2>9. on.step = "history" /\ Idle.step = "none"
    BY <2>0, HandlerIsOK, HandlerStaysOK DEF Steps, Working, Idle
  <2> HIDE DEF on
  <2>10. handlers'[h] \in {on, Idle}
    BY <2>0, <2>8 DEF HandlersOK
  <2> QED BY <2>8, <2>9, <2>10
<1> QED BY <1>1, ChatIsConsistent, PTL DEF Spec, OnlyHandlersOpenThreads
=============================================================================

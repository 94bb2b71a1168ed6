----------------------- MODULE SessionEventLogProofs -----------------------
(***************************************************************************)
(* Proofs about SessionEventLog, for every set of writers and followers,   *)
(* every limit and every bound.                                            *)
(*                                                                         *)
(* LogInv, FollowInv and TypeOK are proved together: that a writer's       *)
(* number is in use or the next one keeps the log without a gap, and a log *)
(* without a gap is what makes the cut of a poll a run of numbers that     *)
(* starts right after the cursor.                                          *)
(***************************************************************************)
EXTENDS SessionEventLog, FiniteSetTheorems, TLAPS

(* MAX of a log without a gap is its length. *)
LEMMA NextIsOneMore ==
  ASSUME NEW n \in Nat
  PROVE  NextSequence(1..n) = n + 1
<1>1. CASE n = 0
  BY <1>1, SMT DEF NextSequence, Last
<1>2. CASE n > 0
  <2>1. n \in 1..n /\ \A m \in 1..n : m <= n
    BY <1>2
  <2>2. Last(1..n) = n
    BY <1>2, <2>1 DEF Last
  <2> QED
    BY <2>2 DEF NextSequence
<1> QED
  BY <1>1, <1>2

(* A set of sequence numbers without a gap, and its size. *)
LEMMA SizeOfRange ==
  ASSUME NEW n \in Nat
  PROVE  IsFiniteSet(1..n) /\ Cardinality(1..n) = n
BY FS_Interval, SMT

(* Writing the next number, or one in use, leaves no gap. *)
LEMMA RangeGrows ==
  ASSUME NEW n \in Nat, NEW h \in Nat \ {0}, h <= n + 1
  PROVE  \E k \in Nat : (1..n) \cup {h} = 1..k /\ n <= k
<1>1. CASE h <= n
  <2> (1..n) \cup {h} = 1..n
    BY <1>1
  <2> QED
    OBVIOUS
<1>2. CASE h = n + 1
  <2> (1..n) \cup {h} = 1..(n + 1)
    BY <1>2
  <2> QED
    OBVIOUS
<1> QED
  BY <1>1, <1>2

Inv == TypeOK /\ LogInv

Following == RunProjected \/ \A f \in Followers : FollowInv(f)

(* The log as a range of numbers. *)
LEMMA LogLength ==
  ASSUME LogInv
  PROVE  \E n \in Nat : /\ DOMAIN log = 1..n
                        /\ n = Cardinality(DOMAIN log)
BY FS_CardinalityType DEF LogInv, SequencesGapFree

-----------------------------------------------------------------------------
LEMMA InitInv == Init => Inv /\ Following
<1> SUFFICES ASSUME Init PROVE Inv /\ Following
  OBVIOUS
<1> USE LogBoundsAssumption
<1>1. DOMAIN log = 1..0
  BY DEF Init
<1>2. TypeOK
  BY <1>1 DEF TypeOK, Idle, Init
<1>3. LogInv
  BY <1>1, SizeOfRange DEF LogInv, SequencesGapFree, Idle, Init
<1>4. Following
  BY DEF Following, FollowInv, Init
<1> QED
  BY <1>2, <1>3, <1>4 DEF Inv

-----------------------------------------------------------------------------
(* Appending keeps the log typed and without a gap. *)
LEMMA PublishKeepsLog ==
  ASSUME Inv, NEW w \in Writers, Publish(w)
  PROVE  Inv'
<1>0. PICK n \in Nat : DOMAIN log = 1..n /\ n = Cardinality(DOMAIN log)
  BY LogLength DEF Inv
<1>1. /\ holding \in [Writers -> Nat]
      /\ count \in [Writers -> 0..MaxAppends]
      /\ MaxAppends \in Nat
  BY LogBoundsAssumption DEF Inv, TypeOK
<1>2. \A x \in Writers : holding[x] <= n + 1 /\ (holding[x] # 0 => count[x] > 0)
  BY <1>0 DEF Inv, LogInv, Idle
<1>3. UNCHANGED streamVars => /\ batch' \in [Followers -> SUBSET Event]
                              /\ cursor' \in [Followers -> Nat]
                              /\ given' \in [Followers -> Seq(Event)]
                              /\ breaks' \in [Followers -> 0..MaxBreaks]
  BY DEF Inv, TypeOK, streamVars
<1>4. CASE ReadNextSequence(w)
  <2>1. holding' = [holding EXCEPT ![w] = n + 1]
    BY <1>0, <1>4, NextIsOneMore DEF ReadNextSequence
  <2>2. /\ count' = [count EXCEPT ![w] = @ + 1]
        /\ count[w] < MaxAppends
        /\ log' = log /\ crossed' = crossed
        /\ UNCHANGED streamVars
    BY <1>4 DEF ReadNextSequence
  <2>3. TypeOK'
    BY <1>1, <1>3, <2>1, <2>2 DEF Inv, TypeOK
  <2>4. \A x \in Writers : holding'[x] <= n + 1 /\ (holding'[x] # 0 => count'[x] > 0)
    BY <1>1, <1>2, <2>1, <2>2
  <2>5. LogInv'
    BY <1>0, <2>2, <2>4 DEF Inv, LogInv, SequencesGapFree, Idle
  <2> QED
    BY <2>3, <2>5 DEF Inv
<1>5. CASE InsertEvent(w)
  <2>1. /\ holding[w] # 0
        /\ holding' = [holding EXCEPT ![w] = 0]
        /\ UNCHANGED <<count, streamVars>>
    BY <1>5 DEF InsertEvent, Idle
  <2>2. /\ count' = count
        /\ UNCHANGED streamVars
    BY <2>1
  <2>3. \A x \in Writers : holding'[x] <= n + 1 /\ (holding'[x] # 0 => count'[x] > 0)
    BY <1>1, <1>2, <2>1, <2>2
  <2>4. CASE UNCHANGED <<log, crossed>>
    <3>1. TypeOK'
      BY <1>1, <1>3, <2>1, <2>2, <2>4 DEF Inv, TypeOK
    <3>2. LogInv'
      BY <1>0, <2>3, <2>4 DEF Inv, LogInv, SequencesGapFree, Idle
    <3> QED
      BY <3>1, <3>2 DEF Inv
  <2>5. CASE /\ log' = [m \in DOMAIN log \cup {holding[w]} |->
                          IF m = holding[w] THEN [by |-> w, nr |-> count[w]] ELSE log[m]]
             /\ crossed' = IF holding[w] \in DOMAIN log
                           THEN crossed \cup {log[holding[w]], [by |-> w, nr |-> count[w]]}
                           ELSE crossed
    <3>1. holding[w] \in Nat \ {0} /\ holding[w] <= n + 1
      BY <1>1, <1>2, <2>1
    <3>2. count[w] \in 1..MaxAppends
      BY <1>1, <1>2, <2>1
    <3>3. PICK k \in Nat : (1..n) \cup {holding[w]} = 1..k /\ n <= k
      BY <3>1, RangeGrows
    <3>4. DOMAIN log' = 1..k
      BY <1>0, <2>5, <3>3
    <3>5. [by |-> w, nr |-> count[w]] \in Body
      BY <3>2 DEF Body
    <3>6. \A m \in DOMAIN log' : log'[m] \in Body
      BY <2>5, <3>5 DEF Inv, TypeOK
    <3>7. crossed' \subseteq Body
      BY <2>5, <3>5 DEF Inv, TypeOK
    <3>8. TypeOK'
      BY <1>1, <1>3, <2>1, <2>2, <3>4, <3>6, <3>7 DEF TypeOK
    <3>9. IsFiniteSet(DOMAIN log') /\ Cardinality(DOMAIN log') = k
      BY <3>4, SizeOfRange
    <3>10. \A x \in Writers : holding'[x] <= k + 1
      BY <1>1, <2>1, <2>3, <3>3
    <3>11. LogInv'
      BY <2>3, <3>4, <3>9, <3>10 DEF LogInv, SequencesGapFree, Idle
    <3> QED
      BY <3>8, <3>11 DEF Inv
  <2> QED
    BY <1>5, <2>4, <2>5 DEF InsertEvent
<1>6. CASE AbandonAppend(w)
  <2>1. /\ holding' = [holding EXCEPT ![w] = 0]
        /\ log' = log /\ count' = count /\ crossed' = crossed
        /\ UNCHANGED streamVars
    BY <1>6 DEF AbandonAppend, Idle
  <2>2. TypeOK'
    BY <1>1, <1>3, <2>1 DEF Inv, TypeOK
  <2>3. \A x \in Writers : holding'[x] <= n + 1 /\ (holding'[x] # 0 => count'[x] > 0)
    BY <1>1, <1>2, <2>1
  <2>4. LogInv'
    BY <1>0, <2>1, <2>3 DEF Inv, LogInv, SequencesGapFree, Idle
  <2> QED
    BY <2>2, <2>4 DEF Inv
<1> QED
  BY <1>4, <1>5, <1>6 DEF Publish

(* An append does not disturb a follower: what its batch holds was stored  *)
(* before, and so was every smaller number.                                *)
LEMMA PublishKeepsFollowers ==
  ASSUME Inv, Following, NEW w \in Writers, Publish(w)
  PROVE  Following'
<1>1. PICK n \in Nat : DOMAIN log = 1..n
  BY LogLength DEF Inv
<1>2. DOMAIN log \subseteq DOMAIN log'
  BY DEF Publish, ReadNextSequence, InsertEvent, AbandonAppend
<1>3. PICK k \in Nat : DOMAIN log' = 1..k
  <2>1. Inv'
    BY PublishKeepsLog
  <2>2. IsFiniteSet(DOMAIN log') /\ DOMAIN log' = 1..Cardinality(DOMAIN log')
    BY <2>1 DEF Inv, LogInv, SequencesGapFree
  <2> QED
    BY <2>2, FS_CardinalityType
<1>4. /\ batch' = batch /\ cursor' = cursor /\ given' = given
  BY DEF Publish, ReadNextSequence, InsertEvent, AbandonAppend, streamVars
<1>5. ASSUME NEW f \in Followers, FollowInv(f)
      PROVE  FollowInv(f)'
  <2>1. \A e \in batch[f], m \in DOMAIN log' :
          cursor[f] < m /\ m < e.seq => \E o \in batch[f] : o.seq = m
    BY <1>1, <1>3, <1>5 DEF FollowInv
  <2>2. \A e \in batch[f] : e.seq > cursor[f] /\ e.seq \in DOMAIN log'
    BY <1>2, <1>5 DEF FollowInv
  <2> QED
    BY <1>4, <1>5, <2>1, <2>2 DEF FollowInv
<1> QED
  BY <1>5 DEF Following

-----------------------------------------------------------------------------
(* Without projected events the feed is the log, each number once. *)
LEMMA FeedIsLog ==
  ASSUME ~RunProjected, NEW c \in Nat, NEW e \in FeedAfter(c)
  PROVE  /\ e = [seq |-> e.seq, body |-> log[e.seq]]
         /\ e.seq \in DOMAIN log
         /\ e.seq > c
BY DEF FeedAfter, Projected

(* The steps of a stream leave the log alone and keep the follower typed.  *)
LEMMA StreamKeepsLog ==
  ASSUME Inv, NEW f \in Followers, PollAny(f) \/ WriteAny(f) \/ Break(f)
  PROVE  Inv'
<1> USE LogBoundsAssumption
<1>1. log' = log /\ holding' = holding /\ count' = count /\ crossed' = crossed
  BY DEF PollAny, Poll, WriteAny, WriteEvent, Break, logVars
<1>2. LogInv'
  BY <1>1 DEF Inv, LogInv, SequencesGapFree
<1>3. /\ batch \in [Followers -> SUBSET Event]
      /\ cursor \in [Followers -> Nat]
      /\ given \in [Followers -> Seq(Event)]
      /\ breaks \in [Followers -> 0..MaxBreaks]
  BY DEF Inv, TypeOK
<1>4. CASE PollAny(f)
  <2>1. PICK chosen \in SUBSET FeedAfter(cursor[f]) : Poll(f, chosen)
    BY <1>4 DEF PollAny
  <2>2. FeedAfter(cursor[f]) \subseteq Event
    <3>1. \A m \in DOMAIN log : [seq |-> m, body |-> log[m]] \in Event
      BY DEF Inv, TypeOK, Event
    <3>2. Projected \subseteq Event
      BY DEF Projected, Event, Body
    <3> QED
      BY <3>1, <3>2 DEF FeedAfter
  <2>3. batch' \in [Followers -> SUBSET Event]
    BY <1>3, <2>1, <2>2 DEF Poll
  <2>4. cursor' = cursor /\ given' = given /\ breaks' = breaks
    BY <2>1 DEF Poll
  <2> QED
    BY <1>1, <1>2, <1>3, <2>3, <2>4 DEF Inv, TypeOK
<1>5. CASE WriteAny(f)
  <2>1. PICK e \in batch[f] : WriteEvent(f, e)
    BY <1>5 DEF WriteAny
  <2>2. e \in Event
    BY <1>3
  <2>3. given' \in [Followers -> Seq(Event)]
    BY <1>3, <2>1, <2>2 DEF WriteEvent
  <2>4. cursor' \in [Followers -> Nat]
    BY <1>3, <2>1, <2>2 DEF WriteEvent, Event
  <2>5. batch' \in [Followers -> SUBSET Event] /\ breaks' = breaks
    BY <1>3, <2>1 DEF WriteEvent
  <2> QED
    BY <1>1, <1>2, <1>3, <2>3, <2>4, <2>5 DEF Inv, TypeOK
<1>6. CASE Break(f)
  <2>1. batch' \in [Followers -> SUBSET Event]
    BY <1>3, <1>6 DEF Break
  <2>2. breaks' \in [Followers -> 0..MaxBreaks]
    BY <1>3, <1>6 DEF Break
  <2>3. cursor' = cursor /\ given' = given
    BY <1>6 DEF Break
  <2> QED
    BY <1>1, <1>2, <1>3, <2>1, <2>2, <2>3 DEF Inv, TypeOK
<1> QED
  BY <1>4, <1>5, <1>6

(* A step of f's own stream. *)
LEMMA StreamKeepsItsFollower ==
  ASSUME ~RunProjected, Inv, NEW f \in Followers, FollowInv(f),
         PollAny(f) \/ WriteAny(f) \/ Break(f)
  PROVE  FollowInv(f)'
<1>0. PICK n \in Nat : DOMAIN log = 1..n
  BY LogLength DEF Inv
<1>1. log' = log
  BY DEF PollAny, Poll, WriteAny, WriteEvent, Break, logVars
<1>2. /\ batch \in [Followers -> SUBSET Event]
      /\ cursor \in [Followers -> Nat]
      /\ given \in [Followers -> Seq(Event)]
  BY DEF Inv, TypeOK
<1>3. CASE PollAny(f)
  <2>1. PICK chosen \in SUBSET FeedAfter(cursor[f]) : Poll(f, chosen)
    BY <1>3 DEF PollAny
  <2>2. batch'[f] = chosen /\ cursor' = cursor /\ given' = given
    BY <1>2, <2>1 DEF Poll
  <2>3. \A e \in chosen : /\ e = [seq |-> e.seq, body |-> log[e.seq]]
                          /\ e.seq \in DOMAIN log
                          /\ e.seq > cursor[f]
    BY <1>2, FeedIsLog
  <2>4. ASSUME NEW e \in chosen, NEW k \in DOMAIN log, cursor[f] < k, k < e.seq
        PROVE  \E o \in chosen : o.seq = k
    <3> DEFINE o == [seq |-> k, body |-> log[k]]
    <3>1. o \in FeedAfter(cursor[f])
      BY <2>4 DEF FeedAfter
    <3>2. \A x \in FeedAfter(cursor[f]) \ chosen : e.seq <= x.seq
      BY <2>1 DEF Poll, First
    <3>3. e.seq \in Nat /\ k \in Nat /\ o.seq = k
      BY <1>0, <2>3
    <3>4. o \in chosen
      BY <2>4, <3>1, <3>2, <3>3
    <3> QED
      BY <3>3, <3>4
  <2> QED
    BY <1>1, <2>2, <2>3, <2>4 DEF FollowInv
<1>4. CASE WriteAny(f)
  <2>1. PICK e \in batch[f] : WriteEvent(f, e)
    BY <1>4 DEF WriteAny
  <2>2. /\ \A o \in batch[f] : e.seq <= o.seq
        /\ batch'[f] = batch[f] \ {e}
        /\ given'[f] = Append(given[f], e)
        /\ cursor'[f] = IF e.seq > cursor[f] THEN e.seq ELSE cursor[f]
    BY <1>2, <2>1 DEF WriteEvent
  <2>3. /\ cursor[f] \in Nat /\ given[f] \in Seq(Event)
        /\ e \in Event /\ e.seq \in Nat
    <3>1. e \in Event
      BY <1>2
    <3>2. e.seq \in Nat
      BY <3>1 DEF Event
    <3> QED
      BY <1>2, <3>1, <3>2
  <2>4. e.seq > cursor[f] /\ e.seq \in 1..n
    BY <1>0 DEF FollowInv
  <2>5. e.seq = cursor[f] + 1
    <3>1. SUFFICES ASSUME e.seq > cursor[f] + 1 PROVE FALSE
      BY <2>3, <2>4
    <3>2. cursor[f] + 1 \in DOMAIN log
      BY <1>0, <2>3, <2>4, <3>1
    <3>3. \E o \in batch[f] : o.seq = cursor[f] + 1
      BY <2>3, <3>1, <3>2 DEF FollowInv
    <3> QED
      BY <2>2, <2>3, <3>1, <3>3
  <2>6. cursor'[f] = cursor[f] + 1
    BY <2>2, <2>3, <2>5
  <2>7. /\ Len(given'[f]) = Len(given[f]) + 1
        /\ given'[f][Len(given[f]) + 1] = e
        /\ \A i \in 1..Len(given[f]) : given'[f][i] = given[f][i]
    BY <2>2, <2>3
  <2>8. cursor'[f] = Len(given'[f])
    BY <2>6, <2>7 DEF FollowInv
  <2>9. \A i \in 1..Len(given'[f]) : given'[f][i].seq = i
    <3>1. cursor[f] = Len(given[f]) /\ \A i \in 1..Len(given[f]) : given[f][i].seq = i
      BY DEF FollowInv
    <3> QED
      BY <2>3, <2>5, <2>7, <3>1
  <2>10. \A o \in batch'[f] : o.seq > cursor'[f] /\ o.seq \in DOMAIN log
    <3>1. SUFFICES ASSUME NEW o \in batch[f], o # e
                   PROVE  o.seq > cursor[f] + 1 /\ o.seq \in DOMAIN log
      BY <2>2, <2>6
    <3>2. o.seq # e.seq /\ o.seq \in DOMAIN log /\ e.seq <= o.seq
      BY <2>2, <3>1 DEF FollowInv
    <3> QED
      BY <1>0, <2>3, <2>5, <3>2
  <2>11. ASSUME NEW x \in batch'[f], NEW k \in DOMAIN log, cursor'[f] < k, k < x.seq
         PROVE  \E o \in batch'[f] : o.seq = k
    <3>1. x \in batch[f] /\ cursor[f] < k /\ k # e.seq
      BY <1>0, <2>2, <2>3, <2>5, <2>6, <2>11
    <3>2. PICK o \in batch[f] : o.seq = k
      BY <2>11, <3>1 DEF FollowInv
    <3> QED
      BY <2>2, <3>1, <3>2
  <2>12. \A x, o \in batch'[f] : x.seq = o.seq => x = o
    BY <2>2 DEF FollowInv
  <2> QED
    BY <1>1, <2>8, <2>9, <2>10, <2>11, <2>12 DEF FollowInv
<1>5. CASE Break(f)
  <2>1. batch'[f] = {} /\ cursor' = cursor /\ given' = given
    BY <1>2, <1>5 DEF Break
  <2> QED
    BY <2>1 DEF FollowInv
<1> QED
  BY <1>3, <1>4, <1>5

(* A step of f's stream is nothing to another follower. *)
LEMMA StreamKeepsOthers ==
  ASSUME Inv, NEW f \in Followers, PollAny(f) \/ WriteAny(f) \/ Break(f),
         NEW g \in Followers, g # f, FollowInv(g)
  PROVE  FollowInv(g)'
<1>1. log' = log
  BY DEF PollAny, Poll, WriteAny, WriteEvent, Break, logVars
<1>2. batch'[g] = batch[g] /\ cursor'[g] = cursor[g] /\ given'[g] = given[g]
  BY DEF Inv, TypeOK, PollAny, Poll, WriteAny, WriteEvent, Break
<1> QED
  BY <1>1, <1>2 DEF FollowInv

-----------------------------------------------------------------------------
LEMMA NextKeepsInv == Inv /\ Following /\ [Next]_vars => (Inv /\ Following)'
<1> SUFFICES ASSUME Inv, Following, [Next]_vars PROVE Inv' /\ Following'
  OBVIOUS
<1>1. CASE UNCHANGED vars
  BY <1>1 DEF vars, Inv, TypeOK, LogInv, SequencesGapFree, Following, FollowInv
<1>2. ASSUME NEW w \in Writers, Publish(w)
      PROVE  Inv' /\ Following'
  BY <1>2, PublishKeepsLog, PublishKeepsFollowers
<1>3. ASSUME NEW f \in Followers, PollAny(f) \/ WriteAny(f) \/ Break(f)
      PROVE  Inv' /\ Following'
  <2>1. Inv'
    BY <1>3, StreamKeepsLog
  <2>2. ASSUME ~RunProjected, NEW g \in Followers
        PROVE  FollowInv(g)'
    <3>1. FollowInv(g)
      BY <2>2 DEF Following
    <3> QED
      BY <1>3, <2>2, <3>1, StreamKeepsItsFollower, StreamKeepsOthers
  <2>3. Following'
    BY <2>2 DEF Following
  <2> QED
    BY <2>1, <2>3
<1> QED
  BY <1>1, <1>2, <1>3 DEF Next

LEMMA InvariantsHold == Spec => [](Inv /\ Following)
BY InitInv, NextKeepsInv, PTL DEF Spec

(* Every reachable state of the log and its streams is well typed. *)
THEOREM TypeCorrect == Spec => []TypeOK
<1>1. Inv => TypeOK
  BY DEF Inv
<1> QED
  BY <1>1, InvariantsHold, PTL

(* Stored sequence numbers are 1, 2, ... without a gap, however many       *)
(* writers interleave their SELECT and their INSERT and whichever INSERTs  *)
(* are lost (AppendSessionEvent).                                          *)
THEOREM LogHasNoGap == Spec => []SequencesGapFree
<1>1. Inv => SequencesGapFree
  BY DEF Inv, LogInv
<1> QED
  BY <1>1, InvariantsHold, PTL

(* In a session no run is projected into, every follower is given the      *)
(* numbers 1, 2, 3, ... in order and without a gap, for every limit,       *)
(* however often its stream breaks (streamSessionEventsV1Alpha2).          *)
THEOREM FollowersAreInOrder == Spec => [](~RunProjected => FollowersInOrder)
<1>1. Following => (~RunProjected => FollowersInOrder)
  BY DEF Following, FollowInv, FollowersInOrder
<1> QED
  BY <1>1, InvariantsHold, PTL
=============================================================================

-------------------------- MODULE SessionEventLog --------------------------
(***************************************************************************)
(* The event log of one session: PostgresRunStore.AppendSessionEvent, the  *)
(* list query, and the server-sent event stream that follows the log.      *)
(*                                                                         *)
(* Every handler that touches a session appends events to it, best effort. *)
(* An append is two statements without a transaction: SELECT MAX+1, then   *)
(* INSERT ... ON CONFLICT (event_id) DO UPDATE, where the event id is made *)
(* of the session and that number.  The stream polls the list query with a *)
(* cursor; a client that lost its stream resumes from its last event.  If  *)
(* the session is also a run's, the list query merges two events made up   *)
(* from the run's row, numbered 1 and 2.                                   *)
(*                                                                         *)
(* Abstracted: payloads (an event says who appended it and the how-maniest *)
(* of its appends it is), the timing of the polls, the stream's deadline   *)
(* (a stream that ends is a stream that breaks).                           *)
(***************************************************************************)
EXTENDS Naturals, FiniteSets, Sequences

CONSTANTS
  Writers,        \* handlers appending to the session
  Followers,      \* clients following it
  StoreOutcomes,  \* what may become of the INSERT, as in RunPipeline
  RunProjected,   \* the session is a run's: two events are projected from it
  Limit,          \* the query's limit
  MaxAppends,     \* BOUND: appends per writer
  MaxBreaks       \* BOUND: broken streams per follower

ASSUME LogStoreAssumption ==
  "ok" \in StoreOutcomes /\ StoreOutcomes \subseteq {"ok", "lost", "unacked"}
ASSUME LogBoundsAssumption ==
  /\ Limit \in Nat \ {0} /\ MaxAppends \in Nat /\ MaxBreaks \in Nat
  /\ RunProjected \in BOOLEAN
  /\ "run" \notin Writers

-----------------------------------------------------------------------------
(* Values *)

(* What an event says: its author and the how-maniest of its appends; or   *)
(* one of the two things a run's row says.                                 *)
Body == [by : Writers, nr : 1..MaxAppends] \cup [by : {"run"}, nr : 1..2]

Event == [seq : Nat \ {0}, body : Body]

(* A writer between its SELECT and its INSERT holds the number it read.    *)
Idle == 0

VARIABLES
  log,       \* the rows of the session: sequence -> body
  holding,   \* holding[w]: the sequence number w is about to use, or Idle
  count,     \* count[w]: appends w has begun
  crossed,   \* what the events said of which one took the other's number
  batch,     \* batch[f]: events the stream has read and not yet written to f
  cursor,    \* cursor[f]: the last sequence f was given
  given,     \* given[f]: the events f was given, in order
  breaks     \* breaks[f]: streams f has lost

logVars    == <<log, holding, count, crossed>>
streamVars == <<batch, cursor, given, breaks>>
vars == <<log, holding, count, crossed, batch, cursor, given, breaks>>

Init ==
  /\ log     = <<>>
  /\ holding = [w \in Writers |-> Idle]
  /\ count   = [w \in Writers |-> 0]
  /\ crossed = {}
  /\ batch   = [f \in Followers |-> {}]
  /\ cursor  = [f \in Followers |-> 0]
  /\ given   = [f \in Followers |-> <<>>]
  /\ breaks  = [f \in Followers |-> 0]

-----------------------------------------------------------------------------
(* Appending *)

(* The highest number in use, 0 for an empty log. *)
Last(seqs) == IF seqs = {} THEN 0 ELSE CHOOSE n \in seqs : \A m \in seqs : m <= n

NextSequenceTwice(seqs) == Last(seqs) + 2   \* slip: incremented in SQL and in Go

(* SELECT COALESCE(MAX(sequence), 0) + 1 *)
NextSequence(seqs) == Last(seqs) + 1

ReadNextSequence(w) ==
  /\ holding[w] = Idle
  /\ count[w] < MaxAppends
  /\ count'   = [count EXCEPT ![w] = @ + 1]
  /\ holding' = [holding EXCEPT ![w] = NextSequence(DOMAIN log)]
  /\ UNCHANGED <<log, crossed, streamVars>>

(* The INSERT: an event that took the same number in the meantime is       *)
(* overwritten.  Whatever the outcome, the handler goes on.                *)
InsertEvent(w) ==
  LET n == holding[w]
      mine == [by |-> w, nr |-> count[w]]
  IN /\ n # Idle
     /\ holding' = [holding EXCEPT ![w] = Idle]
     /\ \/ /\ "lost" \in StoreOutcomes
           /\ UNCHANGED <<log, crossed>>
        \/ /\ log' = [m \in DOMAIN log \cup {n} |-> IF m = n THEN mine ELSE log[m]]
           /\ crossed' = IF n \in DOMAIN log THEN crossed \cup {log[n], mine} ELSE crossed
     /\ UNCHANGED <<count, streamVars>>

(* The process dies between the two statements, or the SELECT failed. *)
AbandonAppend(w) ==
  /\ holding[w] # Idle
  /\ holding' = [holding EXCEPT ![w] = Idle]
  /\ UNCHANGED <<log, count, crossed, streamVars>>

-----------------------------------------------------------------------------
(* Following *)

(* projectLegacyRunToSessionEvents: created and status, always 1 and 2. *)
Projected ==
  IF RunProjected
  THEN {[seq |-> n, body |-> [by |-> "run", nr |-> n]] : n \in 1..2}
  ELSE {}

FeedAfterInclusive(c) ==   \* slip: sequence >= cursor
  {e \in {[seq |-> n, body |-> log[n]] : n \in DOMAIN log} \cup Projected : e.seq >= c}

(* listSessionEventsForRead without its limit: events after the cursor. *)
FeedAfter(c) ==
  {e \in {[seq |-> n, body |-> log[n]] : n \in DOMAIN log} \cup Projected : e.seq > c}

FirstUnordered(chosen, all) ==   \* slip: LIMIT without ORDER BY
  /\ chosen \subseteq all
  /\ Cardinality(chosen) = IF Cardinality(all) < Limit THEN Cardinality(all) ELSE Limit

(* ORDER BY sequence LIMIT n, before the merge and after it.  Events with  *)
(* equal numbers are ordered by their timestamps: either may come first.   *)
First(chosen, all) ==
  /\ chosen \subseteq all
  /\ Cardinality(chosen) = IF Cardinality(all) < Limit THEN Cardinality(all) ELSE Limit
  /\ \A c \in chosen, o \in all \ chosen : c.seq <= o.seq

(* One poll of the stream, or the request that opens it. *)
Poll(f, chosen) ==
  /\ batch[f] = {}
  /\ chosen # {}
  /\ First(chosen, FeedAfter(cursor[f]))
  /\ batch' = [batch EXCEPT ![f] = chosen]
  /\ UNCHANGED <<logVars, cursor, given, breaks>>

(* writeEvents writes them one by one, in order. *)
WriteEvent(f, e) ==
  /\ e \in batch[f]
  /\ \A o \in batch[f] : e.seq <= o.seq
  /\ batch'  = [batch EXCEPT ![f] = @ \ {e}]
  /\ given'  = [given EXCEPT ![f] = Append(@, e)]
  /\ cursor' = [cursor EXCEPT ![f] = IF e.seq > @ THEN e.seq ELSE @]
  /\ UNCHANGED <<logVars, breaks>>

(* The stream ends with events unwritten; the client asks again from the   *)
(* last id it was given.                                                   *)
Break(f) ==
  /\ batch[f] # {}
  /\ breaks[f] < MaxBreaks
  /\ breaks' = [breaks EXCEPT ![f] = @ + 1]
  /\ batch'  = [batch EXCEPT ![f] = {}]
  /\ UNCHANGED <<logVars, cursor, given>>

Publish(w) == ReadNextSequence(w) \/ InsertEvent(w) \/ AbandonAppend(w)

PollAny(f) == \E chosen \in SUBSET FeedAfter(cursor[f]) : Poll(f, chosen)
WriteAny(f) == \E e \in batch[f] : WriteEvent(f, e)

Next ==
  \/ \E w \in Writers : Publish(w)
  \/ \E f \in Followers : PollAny(f) \/ WriteAny(f) \/ Break(f)

Spec == Init /\ [][Next]_vars

(* A stream that is followed polls on its ticker and writes what it read. *)
FairSpec ==
  Spec /\ \A f \in Followers : WF_vars(PollAny(f)) /\ WF_vars(WriteAny(f))

-----------------------------------------------------------------------------
(* Properties *)

TypeOK ==
  /\ DOMAIN log \subseteq Nat \ {0}
  /\ \A n \in DOMAIN log : log[n] \in Body
  /\ holding \in [Writers -> Nat]
  /\ count \in [Writers -> 0..MaxAppends]
  /\ crossed \subseteq Body
  /\ batch \in [Followers -> SUBSET Event]
  /\ cursor \in [Followers -> Nat]
  /\ given \in [Followers -> Seq(Event)]
  /\ breaks \in [Followers -> 0..MaxBreaks]

(* Stored sequence numbers are 1, 2, ... without a gap, although appends   *)
(* interleave, get lost and use numbers read earlier                       *)
(* (store_v1alpha2.go:1093-1112).                                          *)
SequencesGapFree == DOMAIN log = 1..Cardinality(DOMAIN log)

(* A follower is given 1, 2, 3, ...: no number twice, none left out, none  *)
(* out of order, across polls, limits, broken streams and writers that     *)
(* overwrite each other (api_v1alpha2.go:3356-3442).  Stated for sessions  *)
(* no run is projected into.                                               *)
FollowersInOrder ==
  \A f \in Followers :
    /\ cursor[f] = Len(given[f])
    /\ \A i \in 1..Len(given[f]) : given[f][i].seq = i

(* A stored event of which no other event took the number is in the end    *)
(* given, with what it says, to every follower that keeps following,       *)
(* although its streams break (api_v1alpha2.go:3415-3441).  Of two events  *)
(* that took one number a follower may miss either: FeedIsAppendOnly.      *)
FollowersCatchUp ==
  \A f \in Followers, w \in Writers, nr \in 1..MaxAppends :
    LET said == [by |-> w, nr |-> nr]
    IN (\E n \in DOMAIN log : log[n] = said)
         ~> \/ \E i \in 1..Len(given[f]) : given[f][i].body = said
            \/ said \in crossed

(* "Append-only ordered session event feed.": what a follower was given    *)
(* under a number is what the feed has under it (AppendSessionEvent,       *)
(* store_v1alpha2.go:1093-1112).  The code does not keep it.               *)
FeedIsAppendOnly ==
  \A f \in Followers : \A i \in 1..Len(given[f]) :
    LET e == given[f][i] IN e.seq \in DOMAIN log /\ log[e.seq] = e.body

(* The inductive core of the two: a writer holds a number in use or the    *)
(* next one; a batch holds, each once, all the stored numbers from the     *)
(* cursor to some later one.                                               *)
LogInv ==
  /\ SequencesGapFree
  /\ IsFiniteSet(DOMAIN log)
  /\ \A w \in Writers :
       /\ holding[w] <= Cardinality(DOMAIN log) + 1
       /\ holding[w] # Idle => count[w] > 0

FollowInv(f) ==
  /\ cursor[f] = Len(given[f])
  /\ \A i \in 1..Len(given[f]) : given[f][i].seq = i
  /\ \A e \in batch[f] : e.seq > cursor[f] /\ e.seq \in DOMAIN log
  /\ \A e, o \in batch[f] : e.seq = o.seq => e = o
  /\ \A e \in batch[f], k \in DOMAIN log :
       cursor[f] < k /\ k < e.seq => \E o \in batch[f] : o.seq = k
=============================================================================

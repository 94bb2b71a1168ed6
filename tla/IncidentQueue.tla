---------------------------- MODULE IncidentQueue ----------------------------
(***************************************************************************)
(* The incident queue of the desktop page.  A package is made of the run   *)
(* whose detail is shown, then filed, closed, reopened or returned to      *)
(* draft.  Every tab of the page keeps the queue in memory and writes the  *)
(* whole of it to the storage of the browser, which tells the other tabs;  *)
(* a tab that is told replaces its own queue.                              *)
(***************************************************************************)
EXTENDS Naturals, Sequences, SequencesExt

CONSTANTS Tabs,          \* the tabs of the page
          Incidents,     \* the runs a package may be made of
          NoIncident,    \* no detail is shown
          MaxQueue,      \* the packages a queue keeps, 20 in the page
          MaxWrites      \* (bound) how often a behaviour writes a queue

ASSUME QueueAssumption == MaxQueue \in Nat \ {0} /\ MaxWrites \in Nat /\ NoIncident \notin Incidents

VARIABLES queues,   \* tab -> the packages it keeps, the newest first: [id, run, status]
          inStorage,   \* the queue in the storage of the browser
          mail,     \* tab -> the queues written by others it has not been told of yet
          marked,   \* tab -> the packages selected for an action on several
          details,  \* tab -> [shown, asked]: the run shown, and those whose detail was asked for
          made,     \* the packages made so far; the moment a package is made is its id
          writes,   \* (bound) the writes so far
          filed,    \* (history) the packages that have been filed
          apart     \* (history) whether a write was refused, or made by a tab that had not been told of another

queueVars == <<queues, inStorage, mail, marked, details, made, writes, filed, apart>>

Statuses == {"drafted", "filed", "closed"}
Entries == [id : 1..MaxWrites, run : Incidents, status : Statuses]
Ids(list) == {list[i].id : i \in DOMAIN list}
EntryOf(list, id) == CHOOSE e \in ToSet(list) : e.id = id

QueueTypeOK ==
  /\ queues \in [Tabs -> Seq(Entries)] /\ \A t \in Tabs : Len(queues[t]) <= MaxQueue
  /\ inStorage \in Seq(Entries) /\ Len(inStorage) <= MaxQueue
  /\ mail \in [Tabs -> Seq(Seq(Entries))]
  /\ marked \in [Tabs -> SUBSET (1..MaxWrites)] /\ \A t \in Tabs : marked[t] \subseteq Ids(queues[t])
  /\ details \in [Tabs -> [shown : Incidents \cup {NoIncident}, asked : SUBSET Incidents]]
  /\ made \in 0..MaxWrites /\ writes \in 0..MaxWrites /\ filed \subseteq 1..made /\ apart \in BOOLEAN

QueueInit ==
  /\ queues = [t \in Tabs |-> <<>>] /\ inStorage = <<>> /\ mail = [t \in Tabs |-> <<>>]
  /\ marked = [t \in Tabs |-> {}]
  /\ details = [t \in Tabs |-> [shown |-> NoIncident, asked |-> {}]]
  /\ made = 0 /\ writes = 0 /\ filed = {} /\ apart = FALSE

\* canTransitionIncidentStatus
CanTransition(from, to) == <<from, to>> \in {<<"drafted", "filed">>, <<"filed", "closed">>, <<"filed", "drafted">>, <<"closed", "filed">>}

WithStatus(list, ids, status) ==
  [i \in DOMAIN list |-> IF list[i].id \in ids THEN [list[i] EXCEPT !.status = status] ELSE list[i]]

-----------------------------------------------------------------------------
(* The storage *)

StoredSilently(t, list) ==   \* Mutant: the other tabs are not told
  writes < MaxWrites /\ writes' = writes + 1 /\ inStorage' = list /\ UNCHANGED <<mail, apart>>

\* persistIncidentHistory: the whole queue of the tab is written, and the other tabs will
\* be told if it is another one; storage that is full refuses it, and the page goes on.
Stored(t, list) ==
  /\ writes < MaxWrites /\ writes' = writes + 1
  /\ \/ /\ inStorage' = list
        /\ mail' = [u \in Tabs |-> IF u # t /\ list # inStorage THEN Append(mail[u], list) ELSE mail[u]]
        /\ apart' = (apart \/ mail[t] # <<>>)
     \/ apart' = TRUE /\ UNCHANGED <<inStorage, mail>>

\* The queue of a tab is replaced and rendered: what is no longer there is no longer marked.
Shows(t, list, marks) ==
  /\ queues' = [queues EXCEPT ![t] = list]
  /\ marked' = [marked EXCEPT ![t] = marks \cap Ids(list)]

Synced(t, list) == Shows(t, list, marked[t])

\* A tab is told of what another one has written.
StorageEvent(t) ==
  /\ mail[t] # <<>>
  /\ Synced(t, Head(mail[t]))
  /\ mail' = [mail EXCEPT ![t] = Tail(@)]
  /\ UNCHANGED <<inStorage, details, made, writes, filed, apart>>

\* A tab is opened again.
Reopen(t) ==
  /\ Shows(t, inStorage, {})
  /\ mail' = [mail EXCEPT ![t] = <<>>]
  /\ details' = [details EXCEPT ![t] = [shown |-> NoIncident, asked |-> {}]]
  /\ UNCHANGED <<inStorage, made, writes, filed, apart>>

-----------------------------------------------------------------------------
(* The detail of a run *)

\* openRunDetail
AskDetail(t, r) ==
  /\ details' = [details EXCEPT ![t].asked = @ \cup {r}]
  /\ UNCHANGED <<queues, inStorage, mail, marked, made, writes, filed, apart>>

\* The detail shown is that of the answer that came last, whatever was asked last; a
\* failure shows the summary of the run, or nothing when there is none.
DetailAnswered(t, r) ==
  /\ r \in details[t].asked
  /\ \E shown \in {r, NoIncident} : details' = [details EXCEPT ![t] = [shown |-> shown, asked |-> @.asked \ {r}]]
  /\ UNCHANGED <<queues, inStorage, mail, marked, made, writes, filed, apart>>

\* The run shown is clicked again, or the operator signs out; an answer still out will show
\* its run.  Signing out clears the selection of packages too.
PutAway(t) ==
  /\ details[t].shown # NoIncident
  /\ details' = [details EXCEPT ![t].shown = NoIncident]
  /\ marked' \in {marked, [marked EXCEPT ![t] = {}]}
  /\ UNCHANGED <<queues, inStorage, mail, made, writes, filed, apart>>

-----------------------------------------------------------------------------
(* The queue *)

\* A package of the run shown is exported and becomes the first of the queue; the oldest
\* leaves a queue that is full.
ExportPackage(t) ==
  LET entry == [id |-> made + 1, run |-> details[t].shown, status |-> "drafted"]
      longer == <<entry>> \o queues[t]
      list == IF Len(longer) > MaxQueue THEN SubSeq(longer, 1, MaxQueue) ELSE longer
  IN /\ details[t].shown # NoIncident
     /\ Stored(t, list) /\ Shows(t, list, marked[t])
     /\ made' = made + 1
     /\ UNCHANGED <<details, filed>>

Mark(t, id) ==
  /\ id \in Ids(queues[t])
  /\ marked' = [marked EXCEPT ![t] = IF id \in @ THEN @ \ {id} ELSE @ \cup {id}]
  /\ UNCHANGED <<queues, inStorage, mail, details, made, writes, filed, apart>>

Unmark(t) ==
  /\ marked[t] # {}
  /\ marked' = [marked EXCEPT ![t] = {}]
  /\ UNCHANGED <<queues, inStorage, mail, details, made, writes, filed, apart>>

Moved(t, ids, status) ==
  /\ Stored(t, WithStatus(queues[t], ids, status))
  /\ Shows(t, WithStatus(queues[t], ids, status), marked[t])
  /\ filed' = IF status = "filed" THEN filed \cup ids ELSE filed
  /\ UNCHANGED <<details, made>>

\* One package is moved on by its row, or by the focus of the incident workspace.
Transition(t, id, status) ==
  /\ id \in Ids(queues[t]) /\ CanTransition(EntryOf(queues[t], id).status, status)
  /\ Moved(t, {id}, status)

AllMarked(t, status) ==   \* Mutant: every selected package is moved on
  marked[t] \cap Ids(queues[t])

\* The selected packages that may be moved on; the others are skipped.
Eligible(t, status) == {id \in marked[t] \cap Ids(queues[t]) : CanTransition(EntryOf(queues[t], id).status, status)}

BulkTransition(t, status) ==
  /\ Eligible(t, status) # {}
  /\ Moved(t, Eligible(t, status), status)

\* The queue is cleared, once that has been typed.
ClearQueue(t) ==
  /\ Stored(t, <<>>)
  /\ Shows(t, <<>>, {})
  /\ UNCHANGED <<details, made, filed>>

QueueNext ==
  \E t \in Tabs :
    \/ StorageEvent(t) \/ Reopen(t) \/ PutAway(t) \/ ExportPackage(t) \/ Unmark(t) \/ ClearQueue(t)
    \/ \E r \in Incidents : AskDetail(t, r) \/ DetailAnswered(t, r)
    \/ \E id \in 1..made : Mark(t, id) \/ \E status \in Statuses : Transition(t, id, status)
    \/ \E status \in {"filed", "closed"} : BulkTransition(t, status)

QueueSpec == QueueInit /\ [][QueueNext]_queueVars

-----------------------------------------------------------------------------
(* Properties *)

\* Tabs that have been told of everything keep the same queue, and the one that is stored:
\* unless a write was refused, or two crossed, after which they may keep each other's.
QuietTabsAgree ==
  (~apart /\ \A t \in Tabs : mail[t] = <<>>) => \A t \in Tabs : queues[t] = inStorage

\* A package counted as closed has been handed off, whichever tab filed it and whichever
\* closed it, one by one or with others.
ClosedWasFiled ==
  \A list \in {queues[t] : t \in Tabs} \cup {inStorage} :
    \A i \in DOMAIN list : list[i].status = "closed" => list[i].id \in filed
=============================================================================

--------------------------- MODULE MCSessionClients ---------------------------
(* The two clients that keep a session before an operator and follow it: the chat of the
   desktop page, and the panel of the VS Code client.  One of them at a time. *)
EXTENDS OperatorChat, ThreadPanel, TLC

CONSTANTS h1, h2,   \* the handlers of the chat that are under way
          s1, s2    \* the sessions of the thread: one is asked about, the other works

VARIABLE focus

MCSlots == {h1, h2}
MCSymmetry == Permutations(MCSlots)

\* The buttons of the present markup, and all the controls the click handler serves.
ShownButtons == {"start", "send", "resume", "threads"}
ServedButtons == ShownButtons \cup {"launch", "heartbeat", "reattach", "recover", "close", "reload"}

MCInit == focus \in {"chat", "panel"} /\ Init /\ PanelInit /\ (focus = "panel" => MockInit)

MCNext ==
  /\ UNCHANGED focus
  /\ \/ focus = "chat" /\ Next /\ UNCHANGED panelVars
     \/ focus = "panel" /\ PanelNext /\ UNCHANGED vars

MCSpec == MCInit /\ [][MCNext]_<<vars, panelVars, focus>>

\* The type invariants of the two clients.
ClientTypesOK == IF focus = "chat" THEN ChatTypeOK ELSE PanelTypeOK

\* Of the chat: tasks of other sources come, and the rail has failed, only while no session
\* is followed.
\* Of the panel: one call of the past, whose answer comes late; one session that works and
\* one that is asked about, and of two decisions that cross only the session they are on;
\* a third view only after one change; nothing further once a view has slipped.
MCBound ==
  /\ others # 0 \/ history.failed => chains = {}
  /\ ~slipped
  /\ Len(story[s2]) <= 1 /\ Changes(s2, Len(story[s2])) \subseteq {"worked"}
  /\ Changes(s1, Len(story[s1])) \cap {"worked", "ended"} = {}
  /\ story[s2] # <<>> => story[s1] # <<>> /\ Len(story[s1]) <= 2
  /\ Len(story[s1]) > 2 => panel.generation <= 1
  /\ panel.generation > 2 => Len(story[s1]) <= 1
  /\ Cardinality({g \in 1..MaxFollows : polls[g] # NoPoll /\ g # panel.generation})
       + Cardinality({j \in Jobs : ~Free(j) /\ ~jobs[j].mine}) <= 1
  /\ \A j \in Jobs : /\ jobs[j].kind = "turn" => jobs[j].session = s2
                    /\ page.kind = "error" => Free(j)
=============================================================================

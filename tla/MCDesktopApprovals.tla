------------------------- MODULE MCDesktopApprovals -------------------------
(* What an operator of the desktop application approves: a request that the gateway holds
   back, whose files the application's processes share, or a proposal on the page's boards.
   One of the two at a time, and one workspace at a time: they share nothing. *)
EXTENDS GatewayHold, GovernanceDesk, TLC

CONSTANTS
  q1, q2, h1, h2,  \* the gateway's requests and interposition ids
  a, b             \* the contents of a draft

VARIABLE focus

\* Two requests of one turn over the websocket, or two calls of one tool, each with an
\* interposition id of its own; a plain request beside a tool call, or two plain requests,
\* that carry the same id.
Is(kinds, ids) == [q \in Requests |-> [kind |-> kinds[q], turn |-> 1, hold |-> ids[q]]]
Alike(kind) == {[q \in Requests |-> kind]}
Mixed == {k \in [Requests -> {"http", "tool"}] : k[q1] # k[q2]}
AllPlans ==
  LET own == {i \in [Requests -> Holds] : i[q1] # i[q2]}
      shared == [Requests -> Holds] \ own
  IN {Is(k, i) : k \in Alike("socket") \cup Alike("tool"), i \in own}
       \cup {Is(k, i) : k \in Alike("http") \cup Mixed, i \in shared}

\* No part of the gateway tells two requests or two ids apart but by what they carry.
GatewaySymmetry == Permutations(Requests) \cup Permutations(Holds)

\* The option lists cover an empty context, one that no longer offers what a draft holds,
\* and two orders of the same options.
MCContents == {a, b}
MCOffers == {<<a>>, <<b, a>>}
MCUses == {{"authority", "grant"}, {"authority"}, {"grant"}, {"platform"}, {"guardrail"}, {"policy"}, {"compliance"}, {"network"}}

MCInit ==
  /\ focus \in {"gateway", "boards"} /\ Init /\ AdminInit
  /\ focus = "gateway" => inUse = {} /\ routingLive /\ \A k \in Kinds : offered[k] = <<a>>
  /\ focus = "boards" => inUse \in MCUses /\ plan = CHOOSE p \in Plans : TRUE

MCNext ==
  /\ UNCHANGED focus
  /\ \/ focus = "gateway" /\ Next /\ UNCHANGED adminVars
     \/ focus = "boards" /\ AdminNext /\ UNCHANGED vars

MCSpec == MCInit /\ [][MCNext]_<<vars, adminVars, focus>>

\* Two proposals and one approval, or one proposal approved twice; with the two editors
\* of identity, two proposals undecided or one that is approved, all verdicts offered.
MCBound ==
  /\ Len(approvals) + Cardinality({c \in Changes : Queued(c)}) + Cardinality(inUse) <= 4
  /\ Cardinality(inUse) = 2 => routingLive
=============================================================================

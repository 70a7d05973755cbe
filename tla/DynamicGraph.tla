---------------------------- MODULE DynamicGraph -----------------------------
(***************************************************************************)
(* src/graph/dynamic-agent-graph.ts: a graph that is changed while it is   *)
(* in use, by calls that check the graph first.                            *)
(***************************************************************************)
EXTENDS Naturals, Sequences, SequencesExt, FiniteSets

CONSTANT Ids

VARIABLES
  nodes,              \* the keys of "nodes"
  edges               \* edges[to] = [from, ...]

vars == <<nodes, edges>>

Init ==
  /\ nodes = {}
  /\ edges = [n \in Ids |-> <<>>]

Targets(from) == {to \in Ids : from \in ToSet(edges[to])}

-----------------------------------------------------------------------------
(* wouldCreateCycle(): a search forward from "to" for "from".  The loop    *)
(* ends with its stack empty or "from" on top of it.                       *)

\* Variant: the search runs against the edges.
PushedBackwards(current) == edges[current]

Pushed(current) == SetToSeq(Targets(current))

Turn(search, from) ==
  LET current == Last(search.stack)
      rest == Front(search.stack)
  IN IF search.stack = <<>> THEN search
     ELSE IF current = from THEN search
     ELSE IF current \in search.visited THEN [stack |-> rest, visited |-> search.visited]
     ELSE [stack |-> rest \o Pushed(current), visited |-> search.visited \cup {current}]

(* Each turn takes a node off the stack, and each node is pushed once by   *)
(* each other at most.                                                     *)
MaxTurns == 1 + Cardinality(Ids) * Cardinality(Ids)

Searched(from, to) ==
  LET search[turns \in 0 .. MaxTurns] ==
        IF turns = 0 THEN [stack |-> <<to>>, visited |-> {}] ELSE Turn(search[turns - 1], from)
  IN search[MaxTurns]

WouldCreateCycle(from, to) == Searched(from, to).stack # <<>>

-----------------------------------------------------------------------------
(* A call whose conditions do not hold is rejected: only the log, which is *)
(* left out, records it.  replaceNode() keeps the id and the edges.        *)
AddNode(id) ==
  /\ id \notin nodes
  /\ nodes' = nodes \cup {id}
  /\ UNCHANGED edges

RemoveNode(id) ==
  /\ id \in nodes /\ Targets(id) = {}
  /\ nodes' = nodes \ {id}
  /\ edges' = [edges EXCEPT ![id] = <<>>]

AddEdge(from, to) ==
  /\ {from, to} \subseteq nodes
  /\ ~WouldCreateCycle(from, to)
  /\ from \notin ToSet(edges[to])
  /\ edges' = [edges EXCEPT ![to] = Append(@, from)]
  /\ UNCHANGED nodes

\* filter(): no edge is there twice.
RemoveEdge(from, to) ==
  /\ \E i \in DOMAIN edges[to] :
       /\ edges[to][i] = from
       /\ edges' = [edges EXCEPT ![to] = RemoveAt(@, i)]
  /\ UNCHANGED nodes

Next ==
  \/ \E id \in Ids : AddNode(id) \/ RemoveNode(id)
  \/ \E from, to \in Ids : AddEdge(from, to) \/ RemoveEdge(from, to)

-----------------------------------------------------------------------------
EdgeSet == {edge \in Ids \X Ids : edge[1] \in ToSet(edges[edge[2]])}

(* A finite graph has no cycle when among any of its nodes there is one    *)
(* that none of them leads to.                                             *)
Acyclic(arrows) ==
  \A some \in SUBSET nodes :
    some # {} => \E n \in some : \A m \in some : <<m, n>> \notin arrows

(* However long the graph is changed, it stays one that can run: without   *)
(* cycles, every edge between nodes that exist, and none twice.  And an    *)
(* edge is refused as one that closes a cycle only when it closes one.     *)
StaysSound ==
  /\ EdgeSet \subseteq nodes \X nodes
  /\ Acyclic(EdgeSet)
  /\ \A n \in Ids : IsInjective(edges[n])
  /\ \A from, to \in nodes : WouldCreateCycle(from, to) => ~Acyclic(EdgeSet \cup {<<from, to>>})
=============================================================================

------------------------------ MODULE FlowGraph ------------------------------
(***************************************************************************)
(* The graph every component reads: schema::FlowGraph with its nodes in    *)
(* declaration order and its edges, each naming the source port it reads   *)
(* ("out" when the document names none, FlowEdge::source_port).            *)
(*                                                                         *)
(* Node ids and port ids are opaque values.  The kinds that matter to the  *)
(* control are two sets: notes, which the frontier itself settles, and the *)
(* nodes a catalogue files under layout or annotation, which only the      *)
(* engine recognises as visual.                                            *)
(***************************************************************************)
EXTENDS Integers, FiniteSets, Sequences

CONSTANTS
  Node,       \* the node ids
  Port,       \* the port ids
  NodeList,   \* graph.nodes: the node ids in declaration order
  Edges,      \* graph.edges: records [source, port, target]
  Note,       \* nodes whose kind id matches "note"
  Lane        \* nodes whose kind the run's catalogue files as layout/annotation

ASSUME GraphAssumption ==
  /\ IsFiniteSet(Node)
  /\ NodeList \in Seq(Node)
  /\ \A n \in Node : \E i \in DOMAIN NodeList : NodeList[i] = n
  /\ \A i, j \in DOMAIN NodeList : NodeList[i] = NodeList[j] => i = j
  /\ Edges \subseteq [source : Node, port : Port, target : Node]
  /\ Note \subseteq Node
  /\ Lane \subseteq Node

Incoming(n) == {e \in Edges : e.target = n}
Sources(n)  == {e.source : e \in Incoming(n)}

Declared(n) == CHOOSE i \in DOMAIN NodeList : NodeList[i] = n

\* Kahn's algorithm orders every node exactly when every non-empty set of
\* nodes has a member none of whose sources lies in the set.
Acyclic ==
  \A S \in SUBSET Node : S # {} => \E n \in S : Sources(n) \cap S = {}

=============================================================================

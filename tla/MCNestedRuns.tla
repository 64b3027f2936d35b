----------------------------- MODULE MCNestedRuns -----------------------------
(***************************************************************************)
(* Instances of a durable run with lanes and children for TLC.             *)
(***************************************************************************)
EXTENDS NestedRunsProps

Edge(s, p, t) == [source |-> s, port |-> p, target |-> t]

MCPort == {"ok", "no", "item", "done", "out"}

\* The gate g, and behind it a subflow c that holds a subgraph s with a gate
\* of its own, then the visual node v; a loop over b and the gate q, then z.
\* Unescaped, g would spell the place of b in the loop's first lane, and q
\* spells b escaped.
MCNode == {"g", "l", "b", "q", "c", "z", "v"}
MCList == <<"g", "l", "b", "q", "c", "z", "v">>
MCEdges == {Edge("g", "ok", "c"), Edge("l", "item", "b"), Edge("b", "out", "q"),
            Edge("q", "ok", "z"), Edge("l", "done", "z"), Edge("c", "out", "v")}
MCInner == {"s", "h"}
MCNodeId == MCNode \cup MCInner
MCKind == [n \in MCNodeId |->
             CASE n \in {"g", "q", "h"} -> "gate"
               [] n = "l" -> "for_each"
               [] n = "s" -> "subgraph"
               [] n = "c" -> "subflow"
               [] OTHER   -> "step"]
MCOutcomes == [n \in MCNodeId |->
                 IF n \in {"g", "q", "h"} THEN {{"ok"}} ELSE {{"out"}}]
MCItems == [n \in {"l"} |-> 2]
MCMaxItems == [n \in {"l"} |-> 2]
MCChild == [n \in {"c", "s"} |->
              [nodes |-> IF n = "c" THEN {"s"} ELSE {"h"}, edges |-> {}]]
MCSpelled == [n \in MCNodeId |->
                CASE n = "b" -> <<"a", "/", "b">>
                  [] n = "q" -> <<"a", "%", "2", "F", "b">>
                  [] n = "g" -> <<"l", "#", "0", "/", "a", "%", "2", "F", "b">>
                  [] OTHER   -> <<n>>]
MCTries == [n \in MCNode |-> IF n = "l" THEN 2 ELSE 1]

=============================================================================

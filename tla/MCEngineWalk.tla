----------------------------- MODULE MCEngineWalk ----------------------------
(***************************************************************************)
(* Instances of the walk.  A decision t lights x, y, both or neither; c is *)
(* its x branch, k a note on its y branch, l a lane beside it; m merges c, *)
(* l and an edge from a port t can never publish; u is an independent root *)
(* whose kind may have no executor.                                        *)
(***************************************************************************)
EXTENDS EngineWalkProps

Edge(s, p, t) == [source |-> s, port |-> p, target |-> t]

MCNode == {"t", "c", "k", "l", "m", "u"}
MCNodeList == <<"m", "c", "t", "k", "u", "l">>
MCPort == {"x", "y", "z", "out"}
MCEdges == {Edge("t", "x", "c"), Edge("t", "y", "k"), Edge("t", "y", "l"),
            Edge("c", "out", "m"), Edge("l", "out", "m"), Edge("t", "z", "m"),
            Edge("u", "out", "m")}
MCOutcomes ==
  [n \in MCNode |-> CASE n = "t" -> SUBSET {"x", "y"}
                      [] n = "c" -> {{}, {"out"}}
                      [] OTHER   -> {{"out"}}]
MCPossible == [n \in MCNode |-> IF n = "t" THEN {"x", "y"} ELSE {"out"}]

\* A run of the whole graph, from the start or resumed.
MCFresh ==
  {[stored |-> stored, fenced |-> {}, unbound |-> {"m"}, interrupts |-> TRUE]
     : stored \in {[n \in {} |-> {}], [n \in {"t", "l"} |-> {"x", "out"}]}}

-----------------------------------------------------------------------------
\* What one row can be; a lane never completes.
RowsOf(n) ==
  {[Absent EXCEPT !.status = s] : s \in {"absent", "claimed", "failed", "skipped"}}
  \cup {[Absent EXCEPT !.status = "completed", !.ports = P] :
           P \in {Q \in MCOutcomes[n] : n \notin Lane}}

\* The rows of t and its branches first, then those of u and the merge.
MCRows ==
  LET Branches == {r \in [t : RowsOf("t"), c : RowsOf("c"), k : RowsOf("k"),
                          l : RowsOf("l"), m : {Absent}, u : RowsOf("u")] :
                     \A n \in {"t", "c", "k", "l", "u"} : Plausible(r, n)}
  IN  {r \in {[b EXCEPT !["m"] = m] : b \in Branches, m \in RowsOf("m")} :
         Plausible(r, "m")}

\* A replay for each claimed node, and the probe.
MCReplays ==
  UNION {{Replaying(r, {n}) : n \in Held(r)} \cup {Replaying(r, {})} : r \in MCRows}

MCStarts == MCFresh \cup MCReplays

=============================================================================

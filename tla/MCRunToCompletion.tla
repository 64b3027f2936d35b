-------------------------- MODULE MCRunToCompletion --------------------------
(***************************************************************************)
(* Instances of the in-process driver.                                     *)
(***************************************************************************)
EXTENDS RunToCompletionProps

Edge(s, p, t) == [source |-> s, port |-> p, target |-> t]

MCPort == {"x", "y", "out"}

\* A decision t whose y output kills s, so that b is ready a pass before the
\* merge m declared ahead of it; g is a gate beside them, k a note.
MCNode == {"t", "m", "s", "b", "g", "k"}
MCNodeList == <<"t", "m", "k", "s", "b", "g">>
MCEdges == {Edge("t", "x", "s"), Edge("s", "out", "m"), Edge("t", "y", "m"),
            Edge("t", "y", "b"), Edge("t", "x", "k")}
MCOutcomes ==
  [n \in MCNode |-> IF n = "t" THEN {{"x"}, {"y"}} ELSE {{"out"}}]
MCTries == [n \in MCNode |-> 2]

MCOwner == MCNode \X (1..8)

=============================================================================

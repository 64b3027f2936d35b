---------------------------- MODULE MCCoordinator ----------------------------
(***************************************************************************)
(* Instances of the queued run for TLC.                                    *)
(***************************************************************************)
EXTENDS CoordinatorProps, TLC

Edge(s, p, t) == [source |-> s, port |-> p, target |-> t]

MCPort == {"x", "y", "out"}

\* Two roots a and b; b readies y and z, declared before a's successor x.
FanNode == {"a", "b", "y", "z", "x"}
FanList == <<"a", "b", "y", "z", "x">>
FanEdges == {Edge("a", "out", "x"), Edge("b", "out", "y"), Edge("b", "out", "z")}
FanOutcomes == [n \in FanNode |-> {{"out"}}]
FanTries == [n \in FanNode |-> 0]

\* A gate t whose answer kills s, so that the merge m is ready a pass
\* earlier once the skip of s is stored: b and m change places.  k is a note.
ShiftNode == {"t", "m", "s", "b", "k"}
ShiftList == <<"t", "m", "k", "s", "b">>
ShiftEdges == {Edge("t", "x", "s"), Edge("s", "out", "m"), Edge("t", "y", "m"),
               Edge("t", "y", "b"), Edge("t", "x", "k")}
ShiftOutcomes ==
  [n \in ShiftNode |-> IF n = "t" THEN {{"x"}, {"y"}} ELSE {{"out"}}]
ShiftTries == [n \in ShiftNode |-> 2]

Tokens == Permutations(Owner)

=============================================================================

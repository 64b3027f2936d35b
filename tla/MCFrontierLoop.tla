--------------------------- MODULE MCFrontierLoop ----------------------------
(***************************************************************************)
(* A graph whose dead branch is declared backwards, so that the cascade    *)
(* needs a pass per node, joined by a live edge and carrying a note, a     *)
(* pair of nodes on a cycle and the rows a run of it can leave behind.     *)
(***************************************************************************)
EXTENDS FrontierLoopProps

Edge(s, p, t) == [source |-> s, port |-> p, target |-> t]

MCNode == {"a", "b", "c", "m", "n", "t", "u", "v"}
MCNodeList == <<"a", "m", "b", "u", "c", "n", "t", "v">>
MCPort == {"x", "y", "out"}
MCEdges == {Edge("t", "x", "c"), Edge("c", "out", "b"), Edge("b", "out", "a"),
            Edge("a", "out", "m"), Edge("t", "y", "m"), Edge("t", "y", "n"),
            Edge("t", "x", "u"), Edge("u", "out", "v"), Edge("v", "out", "u")}

\* What one row can be; t chooses its ports, the others publish "out".
RowsOf(n) ==
  {[Absent EXCEPT !.status = s] : s \in RunStatus \cup {"absent"}} \cup
  {[Absent EXCEPT !.status = "completed", !.ports = P] :
     P \in IF n = "t" THEN SUBSET {"x", "y"} ELSE {{"out"}}}

Plausible(n, r) ==
  /\ r[n].status # "absent" => Sources(n) \subseteq Settled(r)
  /\ r[n].status \in {"claimed", "paused", "completed", "failed"} =>
       Lit(r, n) /\ n \notin Note
  /\ r[n].status = "skipped" => ~Lit(r, n) \/ n \in Note

\* Rows a run can reach, built along the graph: t, then what t decides.
\* u and v wait on each other and never get a row.
MCRowStates ==
  LET Row0(n) == IF n \in {"u", "v"} THEN {Absent} ELSE RowsOf(n)
      Chain == {[n \in MCNode |-> CASE n = "t" -> t [] n = "c" -> c
                                    [] n = "b" -> b [] n = "a" -> a
                                    [] OTHER -> Absent] :
                  t \in Row0("t"), c \in Row0("c"),
                  b \in Row0("b"), a \in Row0("a")}
      Ok == {r \in Chain : \A n \in {"t", "c", "b", "a"} : Plausible(n, r)}
      All == {[r EXCEPT !["m"] = m, !["n"] = k] :
                r \in Ok, m \in Row0("m"), k \in Row0("n")}
  IN  {r \in All : Plausible("m", r) /\ Plausible("n", r)}

=============================================================================

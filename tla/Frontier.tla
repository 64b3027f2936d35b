------------------------------ MODULE Frontier -------------------------------
(***************************************************************************)
(* Frontier::compute, is_complete, has_work_in_flight and select_dispatch, *)
(* as functions of the graph and the rows.                                 *)
(*                                                                         *)
(* compute is a loop over the node list that settles skips as it goes and  *)
(* repeats until nothing changes.  What it computes is stated here as the  *)
(* least fixpoint the loop reaches (Skips, Ready) and the order in which   *)
(* the loop reaches it (PassOf, Before); module FrontierLoop models the    *)
(* loop itself and shows that the two agree.                               *)
(***************************************************************************)
EXTENDS FlowGraph, ClaimStore, FiniteSetsExt

Settled(rows)   == {n \in Node : IsSettled(rows[n])}
Held(rows)      == {n \in Node : IsHeld(rows[n])}
Undecided(rows) == {n \in Node : rows[n].status = "absent"}

\* Mutant of Active: the port the edge reads is not looked at.
MutantActive(rows, e) == rows[e.source].status = "completed"

\* An edge is active when its source completed and lit the port it reads.
Active(rows, e) ==
  /\ rows[e.source].status = "completed"
  /\ e.port \in rows[e.source].ports

\* Mutant of Lit: every incoming edge has to be active.
MutantLitByAll(rows, n) == \A e \in Incoming(n) : Active(rows, e)

Lit(rows, n) == Incoming(n) = {} \/ \E e \in Incoming(n) : Active(rows, e)

\* n is undecided and every source is settled, counting the nodes of S,
\* skipped earlier in the same call.
Unblocked(rows, S, n) ==
  /\ n \in Undecided(rows)
  /\ Sources(n) \subseteq Settled(rows) \cup S

\* The nodes one sweep settles as skipped, given that S are.
Drops(rows, S) ==
  {n \in Node : Unblocked(rows, S, n) /\ (~Lit(rows, n) \/ n \in Note)}

\* FrontierResult.skipped: the least set closed under Drops.
Skips(rows) ==
  LET closed == {S \in SUBSET Undecided(rows) : Drops(rows, S) \subseteq S}
  IN  {n \in Undecided(rows) : \A S \in closed : n \in S}

\* FrontierResult.ready, as a set.
Ready(rows) ==
  LET skips == Skips(rows)
  IN  {n \in Node : /\ Unblocked(rows, skips, n)
                    /\ Lit(rows, n)
                    /\ n \notin Note}

\* The pass of the loop that reaches n: a source skipped at a later position
\* of the node list is seen one pass later.
PassOf(rows) ==
  LET skips == Skips(rows)
      pass[n \in Node] ==
        Max({1} \cup {pass[s] + (IF Declared(s) > Declared(n) THEN 1 ELSE 0)
                        : s \in Sources(n) \cap skips})
  IN  pass

\* The nodes of S in the order the loop reaches them, as positions from 0.
Ranking(rows, S) ==
  LET pass == PassOf(rows)
      Before(m, n) == \/ pass[m] < pass[n]
                      \/ pass[m] = pass[n] /\ Declared(m) < Declared(n)
  IN  [n \in S |-> Cardinality({m \in S : Before(m, n)})]

IsComplete(rows)      == \A n \in Node : IsSettled(rows[n])
HasWorkInFlight(rows) == \E n \in Node : IsHeld(rows[n])

\* Mutants of SelectDispatch: one too many; the budget measured against
\* everything started, settled or not.
MutantSelectOneOver(ranking, rows, max) ==
  {n \in DOMAIN ranking :
     max = 0 \/ ranking[n] <= max - Cardinality(Held(rows))}
MutantSelectStarted(ranking, rows, max) ==
  {n \in DOMAIN ranking :
     max = 0 \/ ranking[n] < max - Cardinality(Node \ Undecided(rows))}

\* The first max - held ready nodes, or all of them when max is 0.
SelectDispatch(ranking, rows, max) ==
  {n \in DOMAIN ranking :
     max = 0 \/ ranking[n] < max - Cardinality(Held(rows))}

=============================================================================

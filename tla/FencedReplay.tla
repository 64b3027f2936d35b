------------------------------- MODULE FencedReplay ------------------------------
(***************************************************************************)
(* What replay_up_to and the durable diagnostics decide from a snapshot of *)
(* the rows.  The replay is a walk of the engine in which completed nodes  *)
(* republish their stored ports and every other node but one is fenced;    *)
(* module EngineWalk models that walk and shows that its verdict on the    *)
(* node is the one stated here.                                            *)
(***************************************************************************)
EXTENDS Frontier

\* Mutant of ExecutorRuns: the walk stops at the first node not settled yet.
MutantStopsAtSibling(snapshot, n) ==
  /\ Acyclic /\ Lit(snapshot, n) /\ n \notin Note \cup Lane
  /\ \A m \in Node : Declared(m) < Declared(n) => IsSettled(snapshot[m])

\* The node is executed: it is lit and not visual, and no cycle ended the
\* walk before it started.
ExecutorRuns(snapshot, n) ==
  Acyclic /\ Lit(snapshot, n) /\ n \notin Note \cup Lane

\* The walk replay_up_to starts for the nodes of target (one, or none for the
\* probe): the others are fenced, and what completed is resumed.
Replaying(snapshot, target) ==
  [rows |-> snapshot,
   stored |-> [n \in {m \in Node : snapshot[m].status = "completed"} |->
                 snapshot[n].ports],
   fenced |-> Node \ target,
   unbound |-> {},
   interrupts |-> FALSE]

\* The edges into n that the rows (ClaimRows) say can never deliver.
UndeliveredRows(snapshot, possible, n) ==
  {e \in Incoming(n) : /\ snapshot[e.source].status = "completed"
                       /\ e.port \notin snapshot[e.source].ports
                       /\ e.port \notin possible[e.source]}

=============================================================================

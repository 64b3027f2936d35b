----------------------------- MODULE DurableRun ------------------------------
(***************************************************************************)
(* What a durable run promises of each node, with no worker, queue, claim  *)
(* or snapshot in sight: the engine's rule, one node at a time.  A node is *)
(* due when every source has settled; a due node starts if it is live and  *)
(* is passed over otherwise; a started node finishes or fails once, and a  *)
(* settled node never moves again.                                         *)
(***************************************************************************)
EXTENDS FlowGraph

VARIABLES
  phase,      \* [Node -> {"pending", "held", "completed", "skipped", "failed"}]
  lit         \* [Node -> SUBSET Port]: the ports a completed node published

runVars == <<phase, lit>>

Over == {"completed", "skipped", "failed"}

Live(n) ==
  \/ Incoming(n) = {}
  \/ \E e \in Incoming(n) : phase[e.source] = "completed" /\ e.port \in lit[e.source]

Due(n) == phase[n] = "pending" /\ \A s \in Sources(n) : phase[s] \in Over

RunInit ==
  /\ phase = [n \in Node |-> "pending"]
  /\ lit = [n \in Node |-> {}]

Move(n, to) == phase' = [phase EXCEPT ![n] = to]

Start(n) ==
  /\ Due(n) /\ Live(n) /\ n \notin Note
  /\ Move(n, "held") /\ UNCHANGED lit

Finish(n) ==
  /\ phase[n] = "held"
  /\ Move(n, "completed")
  /\ \E P \in SUBSET Port : lit' = [lit EXCEPT ![n] = P]

\* Its executor failed, or there is none and it never started.
Fail(n) ==
  /\ \/ phase[n] = "held"
     \/ Due(n) /\ Live(n) /\ n \notin Note \cup Lane
  /\ Move(n, "failed") /\ UNCHANGED lit

\* Down a dead branch, an annotation, or a lane the engine walks past.
PassOver(n) ==
  /\ \/ Due(n) /\ (~Live(n) \/ n \in Note \cup Lane)
     \/ phase[n] = "held" /\ n \in Lane
  /\ Move(n, "skipped") /\ UNCHANGED lit

\* A parked gate's row is released: the node is due once more.
Withdraw(n) == phase[n] = "held" /\ Move(n, "pending") /\ UNCHANGED lit

RunNext ==
  \E n \in Node : Start(n) \/ Finish(n) \/ Fail(n) \/ PassOver(n) \/ Withdraw(n)

RunSpec == RunInit /\ [][RunNext]_runVars

=============================================================================

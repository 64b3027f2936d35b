------------------------------- MODULE NodeRun -------------------------------
(***************************************************************************)
(* What one call of an executor can come to, and how often a node may be   *)
(* tried: what both drivers of a durable run know of the nodes.            *)
(***************************************************************************)
EXTENDS FencedReplay

CONSTANTS
  Outcomes,       \* [Node -> SUBSET SUBSET Port]: the ports an output may light
  Fallible,       \* nodes whose executor may abort
  Gate,           \* human gates: pause until answered
  Unsafe,         \* nodes whose kind declares "unsafe-to-replay"
  PolicyTries     \* [Node -> Nat]: the policy's tries for the node's kind

ASSUME NodeRunAssumption ==
  /\ Outcomes \in [Node -> SUBSET SUBSET Port]
  /\ \A n \in Node : Outcomes[n] # {}
  /\ Fallible \subseteq Node /\ Gate \subseteq Node /\ Unsafe \subseteq Node
  /\ PolicyTries \in [Node -> Nat]

\* Mutant of TriesFor: the pin of an unsafe node is forgotten.
MutantTriesFor(n) == IF PolicyTries[n] = 0 THEN 1 ELSE PolicyTries[n]

(* RetryPolicy::tries_for_kind. *)
TriesFor(n) ==
  IF n \in Unsafe \/ PolicyTries[n] = 0 THEN 1 ELSE PolicyTries[n]

Verdict == [kind : {"none", "output", "pause", "skip", "error"},
            ports : SUBSET Port]
Said(kind) == [kind |-> kind, ports |-> {}]
NoVerdict  == Said("none")

\* The executor's answer, given the gates that have one recorded.
Executed(n, answered) ==
  IF n \in Gate \ answered THEN {Said("pause")}
  ELSE [kind : {"output"}, ports : Outcomes[n]] \cup
       (IF n \in Fallible THEN {Said("error")} ELSE {})

(***************************************************************************)
(* replay_up_to(graph, n) on a snapshot: completed nodes republish their   *)
(* stored ports, every other node but n is fenced and lights no port an    *)
(* edge reads, so n is run exactly when the engine finds it lit and not    *)
(* visual.  A cycle ends the walk before it starts.                        *)
(***************************************************************************)
Replay(snapshot, n, answered) ==
  IF ExecutorRuns(snapshot, n) THEN Executed(n, answered)
  ELSE {Said(IF Acyclic THEN "skip" ELSE "error")}

=============================================================================

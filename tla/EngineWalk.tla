----------------------------- MODULE EngineWalk ------------------------------
(***************************************************************************)
(* The engine's one walk over a graph: start, next_step, resume and        *)
(* finish, driven as FlowRunner::run drives them, one iteration of         *)
(* next_step's loop per step.                                              *)
(*                                                                         *)
(* The order is any that puts sources first; module TopoSort shows that    *)
(* topo_sort's is one.  A walk is given the outputs it resumes from and    *)
(* the nodes bound to the fence of replay_up_to.  Values are left out: an  *)
(* output is the set of ports it activates, port_values the set of its     *)
(* keys.  A fence publishes a port no edge reads, so it lights nothing.    *)
(***************************************************************************)
EXTENDS FlowGraph

CONSTANTS
  Starts,      \* what a walk may be given: records with at least
               \*   stored: resume_outputs, [some nodes -> SUBSET Port]
               \*   fenced: SUBSET Node
               \*   unbound: the nodes no executor is registered for
               \*   interrupts: whether the host passes a signal and a timeout
  Outcomes,    \* [Node -> SUBSET SUBSET Port]: the ports an output may light
  Possible,    \* [Node -> SUBSET Port]: possible_ports of the node's kind
  Fallible     \* nodes whose executor may abort

ASSUME WalkAssumption ==
  /\ \A s \in Starts : /\ DOMAIN s.stored \subseteq Node
                       /\ s.fenced \subseteq Node /\ s.unbound \subseteq Node
                       /\ s.interrupts \in BOOLEAN
  /\ Outcomes \in [Node -> SUBSET SUBSET Port]
  /\ Possible \in [Node -> SUBSET Port]
  /\ Fallible \subseteq Node

VARIABLES
  given,       \* the start, never written
  order,       \* the nodes in topological order
  cursor,      \* the place in it, from 1
  state,       \* "walking", "awaiting" an outcome, "finished"
  lit,         \* the keys of port_values: <<node, port>>
  outputs,     \* the nodes with an output
  warned,      \* the edges warned about
  error,       \* the first error's cause, or "none"
  cancelled,   \* a host signal ended the walk
  signal,      \* the host's signal is tripped
  expired,     \* the clock is past the budget
  ran          \* history: calls of a node's own executor

interrupts == <<signal, expired>>
vars == <<given, order, cursor, state, lit, outputs, warned, error, cancelled,
          signal, expired, ran>>

SourcesFirst(o) ==
  /\ \A i, j \in DOMAIN o : o[i] = o[j] => i = j
  /\ \A e \in Edges, i, j \in DOMAIN o :
       o[i] = e.source /\ o[j] = e.target => i < j

Orders == {o \in [1..Cardinality(Node) -> Node] : SourcesFirst(o)}

Init ==
  /\ IF Acyclic
     THEN /\ order \in Orders
          /\ state = "walking" /\ error = "none"
     ELSE order = <<>> /\ state = "finished" /\ error = "cycle"
  /\ given \in Starts
  /\ cursor = 1
  /\ lit = {} /\ outputs = {} /\ warned = {}
  /\ cancelled = FALSE /\ signal = FALSE /\ expired = FALSE
  /\ ran = [n \in Node |-> 0]

-----------------------------------------------------------------------------
Looking == state = "walking" /\ cursor <= Len(order)

Cancel ==
  /\ Looking /\ signal
  /\ cancelled' = TRUE /\ state' = "finished"
  /\ UNCHANGED <<given, order, cursor, lit, outputs, warned, error, interrupts, ran>>

TimeOut ==
  /\ Looking /\ ~signal /\ expired
  /\ error' = "timeout" /\ state' = "finished"
  /\ UNCHANGED <<given, order, cursor, lit, outputs, warned, cancelled, interrupts, ran>>

Here == order[cursor]

Publish(n, ports) ==
  /\ outputs' = outputs \cup {n}
  /\ lit' = lit \cup {<<n, p>> : p \in ports}

\* A resumed node's stored output lights the ports it lit before.
Republish ==
  /\ Looking /\ ~signal /\ ~expired
  /\ Here \in DOMAIN given.stored
  /\ Publish(Here, given.stored[Here])
  /\ cursor' = cursor + 1
  /\ UNCHANGED <<given, order, state, warned, error, cancelled, interrupts, ran>>

\* Mutants of Dark: an edge from a node that finished is live; every edge
\* has to be.
MutantDark(n) ==
  Incoming(n) # {} /\ \A e \in Incoming(n) : e.source \notin outputs
MutantDarkUnlessAll(n) ==
  \E e \in Incoming(n) : <<e.source, e.port>> \notin lit

Dark(n) ==
  Incoming(n) # {} /\ \A e \in Incoming(n) : <<e.source, e.port>> \notin lit

\* Mutant of Undelivered: any port its source did not publish.
MutantUndelivered(n) ==
  {e \in Incoming(n) : e.source \in outputs /\ <<e.source, e.port>> \notin lit}

\* undelivered_edge_warnings: the source finished and can never publish the
\* port.  An output is the walk's record of completion, a fence's included.
Undelivered(n) ==
  {e \in Incoming(n) : /\ e.source \in outputs
                       /\ <<e.source, e.port>> \notin lit
                       /\ e.port \notin Possible[e.source]}

\* Mutant of Reached: the signal and the budget are looked at later.
MutantReached ==
  /\ Looking
  /\ Here \notin DOMAIN given.stored
  /\ warned' = warned \cup Undelivered(Here)
  /\ UNCHANGED <<given, order, lit, outputs, cancelled, interrupts>>

\* The walk stands at a node that is not resumed, and warns about its edges.
Reached ==
  /\ Looking /\ ~signal /\ ~expired
  /\ Here \notin DOMAIN given.stored
  /\ warned' = warned \cup Undelivered(Here)
  /\ UNCHANGED <<given, order, lit, outputs, cancelled, interrupts>>

PassDead ==
  /\ Reached /\ Dark(Here)
  /\ cursor' = cursor + 1
  /\ UNCHANGED <<state, error, ran>>

PassVisual ==
  /\ Reached /\ ~Dark(Here) /\ Here \in Note \cup Lane
  /\ cursor' = cursor + 1
  /\ UNCHANGED <<state, error, ran>>

Unregistered ==
  /\ Reached /\ ~Dark(Here) /\ Here \notin Note \cup Lane
  /\ Here \in given.unbound \ given.fenced
  /\ error' = "unbound" /\ state' = "finished"
  /\ UNCHANGED <<cursor, ran>>

Call ==
  /\ Reached /\ ~Dark(Here) /\ Here \notin Note \cup Lane
  /\ Here \notin given.unbound \ given.fenced
  /\ state' = "awaiting"
  /\ ran' = IF Here \in given.fenced THEN ran ELSE [ran EXCEPT ![Here] = @ + 1]
  /\ UNCHANGED <<cursor, error>>

-----------------------------------------------------------------------------

Return ==
  /\ state = "awaiting"
  /\ \E ports \in IF Here \in given.fenced THEN {{}} ELSE Outcomes[Here] :
       Publish(Here, ports)
  /\ state' = "walking" /\ cursor' = cursor + 1
  /\ UNCHANGED <<given, order, warned, error, cancelled, interrupts, ran>>

\* Mutant of Abort: a fence stops the walk.
MutantAbort ==
  /\ state = "awaiting" /\ Here \in Fallible \cup given.fenced
  /\ error' = "abort" /\ state' = "finished"
  /\ UNCHANGED <<given, order, cursor, lit, outputs, warned, cancelled, interrupts, ran>>

Abort ==
  /\ state = "awaiting" /\ Here \in Fallible \ given.fenced
  /\ error' = "abort" /\ state' = "finished"
  /\ UNCHANGED <<given, order, cursor, lit, outputs, warned, cancelled, interrupts, ran>>

\* Nothing left: the walk is over whatever the signal and the clock say.
EndOfOrder ==
  /\ state = "walking" /\ cursor > Len(order)
  /\ state' = "finished"
  /\ UNCHANGED <<given, order, cursor, lit, outputs, warned, error, cancelled,
                 interrupts, ran>>

Trip ==
  /\ given.interrupts /\ state # "finished" /\ ~signal
  /\ signal' = TRUE
  /\ UNCHANGED <<given, order, cursor, state, lit, outputs, warned, error,
                 cancelled, expired, ran>>

Expire ==
  /\ given.interrupts /\ state # "finished" /\ ~expired
  /\ expired' = TRUE
  /\ UNCHANGED <<given, order, cursor, state, lit, outputs, warned, error,
                 cancelled, signal, ran>>

Step == \/ Cancel \/ TimeOut \/ Republish \/ PassDead \/ PassVisual
        \/ Unregistered \/ Call \/ Return \/ Abort \/ EndOfOrder

Next == Step \/ Trip \/ Expire

Spec == Init /\ [][Next]_vars

\* finish: no result when cancelled, else ok unless there is an error.
ResultOk == state = "finished" /\ ~cancelled /\ error = "none"

=============================================================================

------------------------------ MODULE NestedRuns ------------------------------
(***************************************************************************)
(* A durable run whose nodes run graphs of their own, driven by one thread *)
(* (the gates' Submissions are an Rc<RefCell>): run_node for a node of the *)
(* graph, and under it, as deep as it goes, the lanes of for_each and the  *)
(* children of subgraph and subflow.                                       *)
(*                                                                         *)
(* A job is a stack of walks: the fenced replay of its own node at the     *)
(* bottom and, above a node that runs a graph, the walk of that graph.     *)
(* One step visits one node of the topmost walk, or ends that walk.  A     *)
(* crash may come between any two steps: the rows stay, the stack and the  *)
(* Submissions are lost.                                                   *)
(*                                                                         *)
(* What a walk does with skips and orders is module EngineWalk's business: *)
(* here a node is visited once its sources are, and runs if it is lit.     *)
(***************************************************************************)
EXTENDS Frontier, Submissions, RunIdentity

CONSTANTS
  Inner,        \* the node ids of child graphs
  Kind,         \* [Node \cup Inner -> NodeKind]
  Outcomes,     \* [Node \cup Inner -> SUBSET SUBSET Port]: ports an output lights
  Fallible,     \* nodes whose executor may abort
  AutoAnswer,   \* gates with autoAnswerFromInput on
  Prefilled,    \* gates whose input port holds a value
  Collects,     \* for_each nodes with mode "collect"
  Items,        \* [for_each nodes -> Nat]: how many items the source resolves to
  MaxItems,     \* [for_each nodes -> Int]: the maxItems option
  Child,        \* [subgraph and subflow nodes -> graphs and NoGraph]
  NoGraph,      \* a subgraph without a graph, a reference nothing resolves
  Spelled,      \* [Node \cup Inner -> Seq(STRING)]: how an id is spelled
  Tries,        \* [Node -> Nat]: the attempts retry allows (module NodeRun)
  Window,       \* the dedup window a connector asks about
  HardMaxItems, \* FOR_EACH_HARD_MAX_ITEMS
  MaxDepth,     \* DEFAULT_MAX_DEPTH
  Driver,       \* the driver's owner token
  MaxCrashes,   \* bound: crashes
  Outage        \* how long the process may be down

NodeKind == {"step", "gate", "for_each", "subgraph", "subflow"}
NodeId   == Node \cup Inner
IsGate(n) == Kind[n] = "gate"

ASSUME NestedAssumption ==
  /\ RowPort = Port /\ Driver \in Owner /\ NoNode \notin NodeId
  /\ GateId = {n \in NodeId : IsGate(n)}
  /\ Kind \in [NodeId -> NodeKind]
  /\ Outcomes \in [NodeId -> SUBSET SUBSET Port]
  /\ Fallible \subseteq NodeId
  /\ \A n \in NodeId :
       Kind[n] \in {"subgraph", "subflow"} /\ Child[n] # NoGraph =>
         Child[n].nodes \subseteq Inner
  /\ {"item", "done", "out"} \subseteq Port
  /\ Spelled \in [NodeId -> Seq(STRING)]
  /\ \A m, n \in NodeId : Spelled[m] = Spelled[n] => m = n
  /\ Tries \in [Node -> Nat]
  /\ None \notin Nat /\ Window \in Nat \cup {None}
  /\ MaxCrashes \in Nat /\ Outage \in Nat

VARIABLES
  rows,       \* the claim store
  job,        \* the node run_node is executing, or NoNode
  stack,      \* the walks under way, the bottom one first
  reason,     \* RunResult.error of the walk that has just stopped
  subs,       \* the Submissions
  now,        \* the injected clock
  crashes,    \* crashes so far
  log,        \* history: the executor calls with an effect, by step
  asked,      \* history: gates a pause named
  accepted    \* history: gates whose answer record accepted

vars == <<rows, job, stack, reason, subs, now, crashes, log, asked, accepted>>

-----------------------------------------------------------------------------
Empty == [i \in {} |-> 0]

(* Graphs: [nodes, edges]. *)
Whole == [nodes |-> Node, edges |-> Edges]

\* The edges that leave node n of the graph on a port (edges_from).
EdgesFrom(graph, n, port) ==
  {e \in graph.edges : e.source = n /\ e.port = port}

Targets(edges) == {e.target : e \in edges}

\* Every node reachable from the starts, the starts included: an edge leaves
\* each set that holds the starts and not the node.
Reachable(graph, starts) ==
  {n \in graph.nodes :
     \A S \in SUBSET (graph.nodes \ {n}) :
       starts \subseteq S =>
         \E e \in graph.edges : e.source \in S /\ e.target \notin S}

\* Mutant of Body: what follows the loop is part of it.
MutantBody(graph, n) ==
  Reachable(graph, Targets(EdgesFrom(graph, n, "item"))) \ {n}

\* The nodes of the loop's body: reachable from "item", not from "done".
Body(graph, n) ==
  (Reachable(graph, Targets(EdgesFrom(graph, n, "item")))
    \ Reachable(graph, Targets(EdgesFrom(graph, n, "done")))) \ {n}

Within(graph, body) ==
  [nodes |-> body,
   edges |-> {e \in graph.edges : e.source \in body /\ e.target \in body}]

\* Without an item edge, or in mode "collect", the collection is data.
RunsLane(graph, n) == EdgesFrom(graph, n, "item") # {} /\ n \notin Collects

-----------------------------------------------------------------------------
(* Walks.  durable says which executors the walk runs on: the host's, or   *)
(* the builtin ones, whose gates are pass-throughs.  holder, item and      *)
(* failed belong to the node that runs this graph: item is the index of    *)
(* the item this lane runs, failed the reason recorded for each index.     *)
Walk(graph, durable, identity, holder, item, failed) ==
  [graph |-> graph, todo |-> graph.nodes, ran |-> {},
   ports |-> Empty,
   durable |-> durable, identity |-> identity,
   holder |-> holder, item |-> item, failed |-> failed]


\* RunResult.error: none, a failure, or the pause of a gate (Pause::encode).
NoReason == [kind |-> "none", node |-> NoNode]
Failure  == [kind |-> "error", node |-> NoNode]
Pause(g) == [kind |-> "pause", node |-> g]

\* replay_up_to: completed nodes republish, every node but n is fenced.
ReplayOf(n, row) ==
  [Walk(Whole, TRUE, TopIdentity(row), NoNode, 0, Empty)
     EXCEPT !.todo = {n}, !.ports = [m \in Node |-> rows[m].ports]]

Top   == stack[Len(stack)]
Depth == Len(stack) - 1
SetTop(w) == stack' = [stack EXCEPT ![Len(stack)] = w]

\* n is the next node of the walk: its sources are behind it.
Due(w, n) ==
  /\ n \in w.todo
  /\ \A e \in w.graph.edges : e.target = n => e.source \notin w.todo

\* An incoming edge's source published the port it reads, or there is none.
LitIn(w, n) ==
  LET incoming == {e \in w.graph.edges : e.target = n}
  IN  incoming = {} \/ \E e \in incoming : /\ e.source \in DOMAIN w.ports
                                           /\ e.port \in w.ports[e.source]

Passed(w, n, ports, ran) ==
  [w EXCEPT !.todo = @ \ {n}, !.ran = @ \cup ran,
            !.ports = [m \in DOMAIN @ \cup {n} |-> IF m = n THEN ports ELSE @[m]]]

\* The executor of n comes home with an output that lights some ports.
Publish(n, ports) ==
  SetTop(Passed(Top, n, ports, {n})) /\ UNCHANGED reason

\* It aborts; the walk ends with the reason.
Abort(why) == reason' = why /\ UNCHANGED stack

\* History of an executor call with an effect: the step, and of its calls
\* the time of the first and what the latest was told.
Called(w, n) ==
  LET step == [path |-> w.identity.path, node |-> n]
      again == step \in DOMAIN log
  IN  [s \in DOMAIN log \cup {step} |->
         IF s # step THEN log[s]
         ELSE [since   |-> IF again THEN log[s].since ELSE now,
               again   |-> again,
               at      |-> now,
               attempt |-> w.identity.attempt,
               durable |-> w.durable,
               safe    |-> IsReplaySafe(w.identity, now, Window)]]

Logged(n) == log' = Called(Top, n)

Init ==
  /\ rows = [n \in Node |-> Absent]
  /\ job = NoNode /\ stack = <<>> /\ reason = NoReason
  /\ subs = NoSubmissions
  /\ now = 1 /\ crashes = 0
  /\ log = Empty /\ asked = {} /\ accepted = {}
-----------------------------------------------------------------------------
(* run_node: the claim, and the walk of the replay. *)
Start(n) ==
  LET row == Claimed(rows[n], Driver, now) IN
  /\ job' = n
  /\ rows' = [rows EXCEPT ![n] = row]
  /\ stack' = <<ReplayOf(n, row)>>
  /\ UNCHANGED <<reason, subs, now, crashes, log, asked, accepted>>

\* The driver takes up the first of the nodes advance() hands out.
Dispatch(n) ==
  /\ job = NoNode /\ n \in Ready(rows)
  /\ \A m \in Ready(rows) : Declared(n) <= Declared(m)
  /\ Start(n)

\* Mutant of Redispatch: a parked gate waits for its answer to be recorded.
MutantRedispatch(n) ==
  /\ job = NoNode /\ IsHeld(rows[n])
  /\ rows[n].status = "paused" => n \in subs.answers
  /\ Start(n)

\* Or goes on with one it holds: a retry, or a parked gate that was answered
\* or that nobody is asked about any more.
Redispatch(n) ==
  /\ job = NoNode /\ IsHeld(rows[n])
  /\ rows[n].status = "paused" => n \in subs.answers \/ subs.awaiting = NoNode
  /\ Start(n)

\* advance() settles the skips of the frontier, one by one.
SettleSkip(n) ==
  /\ job = NoNode /\ n \in Drops(rows, {})
  /\ rows' = [rows EXCEPT ![n] = Skipped(@)]
  /\ UNCHANGED <<job, stack, reason, subs, now, crashes, log, asked, accepted>>

-----------------------------------------------------------------------------
(* One visit of the topmost walk. *)
Visiting == stack # <<>> /\ reason = NoReason /\ Top.todo # {}

Runs(n) == Due(Top, n) /\ LitIn(Top, n) /\ n \notin Note \cup Lane

VisitDead(n) ==
  /\ Due(Top, n) /\ ~Runs(n)
  /\ SetTop(Passed(Top, n, {}, {}))
  /\ UNCHANGED <<rows, job, reason, subs, now, crashes, log, asked, accepted>>

RunStep(n) ==
  /\ Kind[n] = "step" /\ Runs(n)
  /\ \/ \E ports \in Outcomes[n] : Publish(n, ports)
     \/ n \in Fallible /\ Abort(Failure)
  /\ Logged(n)
  /\ UNCHANGED <<rows, job, subs, now, crashes, asked, accepted>>

PassGate(n) ==
  /\ Kind[n] = "gate" /\ Runs(n)
  /\ Top.durable => Answers(subs, n, n \in AutoAnswer, n \in Prefilled)
  /\ \E ports \in Outcomes[n] : Publish(n, ports)
  /\ Logged(n)
  /\ UNCHANGED <<rows, job, subs, now, crashes, asked, accepted>>

ParkGate(n) ==
  /\ Kind[n] = "gate" /\ Runs(n) /\ Top.durable
  /\ ~Answers(subs, n, n \in AutoAnswer, n \in Prefilled)
  /\ subs' = Parked(subs, n)
  /\ asked' = asked \cup {n}
  /\ Abort(Pause(n))
  /\ UNCHANGED <<rows, job, now, crashes, log, accepted>>

\* The lane of item i of the loop n of walk w.  It runs without the node-id
\* bindings of the replay, so none of its nodes is fenced.
LaneWalk(lane, w, n, i, failed) ==
  Walk(lane, w.durable, Descend(w.identity, Spelled[n], i), n, i, failed)

LaneRefused(lane, n) ==
  \/ lane.nodes = {}
  \/ MaxItems[n] \notin 1..HardMaxItems
  \/ Items[n] > MaxItems[n]

RunForEach(n) ==
  /\ Kind[n] = "for_each" /\ Runs(n)
  /\ IF ~RunsLane(Top.graph, n) THEN Publish(n, {"item", "done"})
     ELSE \E lane \in {Within(Top.graph, body) : body \in {Body(Top.graph, n)}} :
            IF LaneRefused(lane, n) THEN Abort(Failure)
            ELSE IF Items[n] = 0 THEN Publish(n, {"done"})
            ELSE /\ stack' = Append(stack, LaneWalk(lane, Top, n, 0, Empty))
                 /\ UNCHANGED reason
  /\ UNCHANGED <<rows, job, subs, now, crashes, log, asked, accepted>>

\* run_child: the child always runs on the builtin executors.
CallChild(n) ==
  /\ stack' = Append(stack, Walk(Child[n], FALSE,
                                 Descend(Top.identity, Spelled[n], None),
                                 n, 0, Empty))
  /\ UNCHANGED reason

RunSubgraph(n) ==
  /\ Kind[n] = "subgraph" /\ Runs(n)
  /\ IF Child[n] = NoGraph THEN Publish(n, {"out"})
     ELSE IF Depth >= MaxDepth THEN Abort(Failure)
     ELSE CallChild(n)
  /\ UNCHANGED <<rows, job, subs, now, crashes, log, asked, accepted>>

\* The builtin subflow has no resolver: it resolves nothing inside a child.
RunSubflow(n) ==
  /\ Kind[n] = "subflow" /\ Runs(n)
  /\ IF Depth >= MaxDepth \/ ~Top.durable \/ Child[n] = NoGraph THEN Abort(Failure)
     ELSE CallChild(n)
  /\ UNCHANGED <<rows, job, subs, now, crashes, log, asked, accepted>>

-----------------------------------------------------------------------------
(* The topmost walk has ended; its holder goes on below it. *)
Below == SubSeq(stack, 1, Len(stack) - 1)
Under == stack[Len(stack) - 1]
Ended == Len(stack) > 1 /\ (reason # NoReason \/ Top.todo = {})

\* The holder publishes in the walk below.
Return(ports) ==
  stack' = [Below EXCEPT ![Len(stack) - 1] = Passed(@, Top.holder, ports, {Top.holder})]

NextItem(failed) ==
  IF Top.item + 1 < Items[Top.holder]
  THEN stack' = Append(Below, LaneWalk(Top.graph, Under, Top.holder, Top.item + 1, failed))
  ELSE Return({"done"})

IsPause(why) == why.kind = "pause"

\* A lane that failed is recorded, and the loop carries on; one that paused
\* aborts the loop with the pause, verbatim.
EndLane ==
  /\ Ended /\ Kind[Top.holder] = "for_each"
  /\ IF IsPause(reason) THEN stack' = Below /\ UNCHANGED reason
     ELSE /\ NextItem(IF reason = NoReason THEN Top.failed
                      ELSE [i \in DOMAIN Top.failed \cup {Top.item} |->
                              IF i = Top.item THEN reason ELSE Top.failed[i]])
          /\ reason' = NoReason
  /\ UNCHANGED <<rows, job, subs, now, crashes, log, asked, accepted>>

\* A child's reason travels up verbatim.
EndChild ==
  /\ Ended /\ Kind[Top.holder] \in {"subgraph", "subflow"}
  /\ IF reason = NoReason THEN Return({"out"}) ELSE stack' = Below
  /\ UNCHANGED <<rows, job, reason, subs, now, crashes, log, asked, accepted>>

-----------------------------------------------------------------------------
(* The replay is over: run_node reads the job's node off it. *)
Finish(row) ==
  /\ rows' = [rows EXCEPT ![job] = row]
  /\ job' = NoNode /\ stack' = <<>> /\ reason' = NoReason
  /\ UNCHANGED <<subs, now, crashes, log, asked, accepted>>

Over == Len(stack) = 1 /\ (reason # NoReason \/ Top.todo = {})

FinishOutput ==
  /\ Over /\ job \in Top.ran
  /\ Finish(Completed(rows[job], Top.ports[job]))

FinishSkip ==
  /\ Over /\ job \notin Top.ran /\ reason = NoReason
  /\ Finish(Skipped(rows[job]))

\* A pause parks the job only when it names the job's own node.
FinishPause ==
  /\ Over /\ reason = Pause(job)
  /\ Finish(Paused(rows[job]))

\* Anything else is an error: retried, the row left claimed, or a failure.
FinishError ==
  /\ Over /\ reason \notin {NoReason, Pause(job)}
  /\ Finish(IF Top.identity.attempt < Tries[job] THEN rows[job]
            ELSE Failed(rows[job]))

-----------------------------------------------------------------------------
\* The host records an answer; for any other gate record refuses it.
Record(g) ==
  /\ job = NoNode /\ CanRecord(subs, g)
  /\ subs' = Recorded(subs, g)
  /\ accepted' = accepted \cup {g}
  /\ UNCHANGED <<rows, job, stack, reason, now, crashes, log, asked>>

\* The process dies, and the host starts over from the store, at once or later.
Crash ==
  /\ crashes < MaxCrashes
  /\ crashes' = crashes + 1
  /\ now' \in {now, now + Outage}
  /\ job' = NoNode /\ stack' = <<>> /\ reason' = NoReason
  /\ subs' = NoSubmissions
  /\ UNCHANGED <<rows, log, asked, accepted>>

Visit(n) ==
  \/ VisitDead(n) \/ RunStep(n) \/ PassGate(n) \/ ParkGate(n)
  \/ RunForEach(n) \/ RunSubgraph(n) \/ RunSubflow(n)

JobSteps ==
  \/ Visiting /\ \E n \in Top.todo : Visit(n)
  \/ EndLane \/ EndChild
  \/ FinishOutput \/ FinishSkip \/ FinishPause \/ FinishError

\* Between two jobs: advance() settles what it skips before it hands out.
Drive ==
  /\ job = NoNode
  /\ \/ \E n \in Drops(rows, {}) : SettleSkip(n)
     \/ Drops(rows, {}) = {} /\ \E n \in Ready(rows) : Dispatch(n)
     \/ \E n \in Held(rows) : Redispatch(n)

Next == JobSteps \/ Drive \/ (\E g \in GateId : Record(g)) \/ Crash

Spec == Init /\ [][Next]_vars

\* The driver goes on while it has something to do, and the person the run
\* is parked on answers if asked again and again.
Fairness ==
  /\ WF_vars(JobSteps \/ Drive)
  /\ \A g \in GateId : SF_vars(Record(g))

FairSpec == Spec /\ Fairness

=============================================================================

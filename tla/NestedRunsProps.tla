--------------------------- MODULE NestedRunsProps ---------------------------
(***************************************************************************)
(* What a durable run promises about the graphs its nodes run: who may     *)
(* pass a gate, what a retry may send again, and where a node may run.     *)
(***************************************************************************)
EXTENDS NestedRuns

Reason == {NoReason, Failure} \cup {Pause(g) : g \in GateId}

\* Every variable has its type; the walk at the bottom of a job's stack is
\* the replay of the job's own node, and every other one has a holder.
NestedTypeOK ==
  /\ rows \in [Node -> Row]
  /\ job \in Node \cup {NoNode}
  /\ subs \in Submission
  /\ reason \in Reason
  /\ (job = NoNode) = (stack = <<>>)
  /\ \A i \in DOMAIN stack :
       /\ stack[i].todo \subseteq stack[i].graph.nodes
       /\ (i = 1) = (stack[i].holder = NoNode)
       /\ stack[i].durable \in BOOLEAN
  /\ now \in Nat \ {0} /\ crashes \in 0..MaxCrashes
  /\ asked \subseteq GateId /\ accepted \subseteq GateId

\* No durable gate, of the run or of a lane at any depth, is walked past: one
\* that let the run through had an answer accepted for that very node, after
\* the run had parked on it, or says autoAnswerFromInput and has an input
\* (human.rs "Only an answer recorded for THAT node does").  Neither a crash
\* that loses the answers nor another gate taking the slot changes that.
OnlyAnswersPass ==
  \A s \in DOMAIN log :
    IsGate(s.node) /\ log[s].durable /\ s.node \notin AutoAnswer \cap Prefilled =>
      s.node \in accepted \cap asked

\* Two steps of a run never carry the same idempotency key, whatever their ids
\* spell and however deep they run (identity.rs: "so the composition is
\* injective").
KeysAreSteps ==
  Cardinality({StepKey(s.path, Spelled[s.node]) : s \in DOMAIN log})
    = Cardinality(DOMAIN log)

\* A node of the run itself that asks before it writes again is told yes only
\* while the provider still remembers its first call, however often the job
\* crashed, paused or was retried in between (is_replay_safe).
RetriesStayInWindow ==
  \A s \in DOMAIN log :
    s.path = <<>> /\ log[s].again /\ log[s].safe =>
      Window = None \/ log[s].at - log[s].since <= Window

\* A node runs in one place: what a lane of a loop runs is not run by the
\* graph around it, and the other way round, unless an edge from outside the
\* loop's body leads into the body (for_each_lane, Port::only("done")).
RunsInOnePlace ==
  \A s, t \in DOMAIN log :
    /\ s.node = t.node
    /\ s.path = <<>> /\ Len(t.path) = 1 /\ t.path[1].occ # None
    => \E l \in Node :
         /\ t.path[1].id = Spelled[l] /\ s.node \in Body(Whole, l)
         /\ \E m \in Body(Whole, l) : Sources(m) \ (Body(Whole, l) \cup {l}) # {}

\* Every node settles, crashes, parked gates sharing one slot and lanes that
\* pause included, given a driver that goes on and people who answer.
NestedRunSettles == <>[]IsComplete(rows)

\* Whatever runs inside its nodes, the run itself is a run of DurableRun.
Run == INSTANCE DurableRun WITH
  phase <- [n \in Node |-> IF rows[n].status = "absent" THEN "pending"
                           ELSE IF IsHeld(rows[n]) THEN "held"
                           ELSE rows[n].status],
  lit <- [n \in Node |-> rows[n].ports]

NestedImplementsDurableRun == Run!RunSpec

-----------------------------------------------------------------------------
\* "A pause is not a failure, and recording it as one would strand whoever
\* the run waits on" (logic.rs): a job whose last walk stopped at a gate
\* leaves its row parked on the gate.
PausedJobsPark ==
  [][IsPause(reason) /\ Len(stack) = 1 /\ job' = NoNode /\ crashes' = crashes
       => rows'[job].status = "paused"]_vars

=============================================================================

-------------------------- MODULE CoordinatorProps ---------------------------
(***************************************************************************)
(* What a queued durable run must do, whatever the interleaving of its     *)
(* workers, of concurrent advance() calls, of crashes and of answers.      *)
(***************************************************************************)
EXTENDS Coordinator

IsRanking(f) == DOMAIN f \subseteq Node /\ f \in [DOMAIN f -> Nat]

IsPlace(p) ==
  /\ p \in [pc      : {"idle", "execute", "checkpoint", "retry", "advance", "settle"},
            node    : Node \cup {NoNode},
            verdict : Verdict,
            attempt : Nat,
            ready   : {p.ready},
            skips   : {p.skips},
            won     : SUBSET Node]
  /\ IsRanking(p.ready) /\ IsRanking(p.skips)

\* Workers lost inside run_node for one node: before its executor was called
\* and after.
Deaths == [execute : Nat, checkpoint : Nat]

\* Every variable of the run has its type; a caller is always at a step of
\* run_node or of advance, working on a node of the graph.
TypeOK ==
  /\ rows \in [Node -> Row]
  /\ queue \in [Node -> 0..MaxQueued]
  /\ DOMAIN proc = Caller
  /\ \A c \in Caller : IsPlace(proc[c])
  /\ \A w \in Worker : proc[w].pc # "idle" => proc[w].node \in Node
  /\ answered \subseteq Node
  /\ now \in 1..MaxNow
  /\ crashes \in 0..MaxCrashes
  /\ runs \in [Node -> Nat]
  /\ died \in [Node -> Deaths]
  /\ told \in [Node -> Nat]
  /\ missed \subseteq Node

-----------------------------------------------------------------------------
\* A live input, read straight off the rows: no incoming edge at all, or one
\* whose source completed and published the port the edge reads.
HasLiveInput(n) ==
  (\E e \in Edges : e.target = n) =>
    \E e \in Edges : /\ e.target = n
                     /\ rows[e.source].status = "completed"
                     /\ e.port \in rows[e.source].ports

SourcesSettled(n) ==
  \A e \in Edges : e.target = n => IsSettled(rows[e.source])

\* Between the claim and the checkpoint the row is CLAIMED under the worker's
\* own token: two workers are never both inside run_node for one node, and
\* nothing -- a redelivery, a release, another caller's skip cascade --
\* takes the row away from the worker that will write it (run_node's "two
\* workers racing produce one execution and one no-op").
HolderOwnsRow ==
  \A w \in Worker :
    proc[w].pc \in {"execute", "checkpoint"} =>
      /\ rows[proc[w].node].status = "claimed"
      /\ rows[proc[w].node].owner = w

\* A settled row is final, although complete, fail and pause check neither
\* the owner nor the status of the row they write.
SettledIsFinal ==
  [][\A n \in Node : IsSettled(rows[n]) => rows'[n] = rows[n]]_vars

\* A node has a claim, a result or a parked gate only if the engine would
\* have reached it: its sources settled and an input of it live (the rule
\* Frontier restates from the engine).
OnlyReachedNodesRun ==
  \A n \in Node :
    IsHeld(rows[n]) \/ rows[n].status \in {"completed", "failed"} =>
      SourcesSettled(n) /\ HasLiveInput(n) /\ n \notin Note

\* A node is settled as skipped only if none of its inputs is live, or it is
\* visual.  As this holds at every later state too, a run never drops a
\* branch that is live or becomes live and then reports success.
OnlyDeadNodesSkipped ==
  \A n \in Node :
    rows[n].status = "skipped" => ~HasLiveInput(n) \/ n \in Note \cup Lane

\* The engine's replay never finds a node dead that the frontier handed out
\* (run_node: "the two can never disagree about a branch"): a snapshot taken
\* while siblings run or have failed gives the verdict "skip" only to a
\* visual node the frontier does not recognise.
EngineAgreesWithFrontier ==
  \A w \in Worker :
    At(w, "checkpoint") /\ proc[w].verdict.kind = "skip" => proc[w].node \in Lane

OwedByNone(n) == \A c \in Caller : n \notin proc[c].won
OwedByOne(n)  ==
  \E c \in Caller : \A d \in Caller : n \in proc[d].won <=> d = c

NeverRaised(n) == told[n] = 0 /\ OwedByNone(n) /\ n \notin missed

\* The warnings of a skipped node went out once, or one caller still has them
\* to deliver, or they died with the caller that had.
AccountedOnce(n) ==
  \/ told[n] = 1 /\ OwedByNone(n) /\ n \notin missed
  \/ told[n] = 0 /\ OwedByOne(n) /\ n \notin missed
  \/ told[n] = 0 /\ OwedByNone(n) /\ n \in missed

\* However many callers reach the same skip decision, its diagnostics are
\* delivered exactly once (NodeClaimStore::skip: "exactly once when two
\* callers reach the same skip decision"), with one exception: the caller
\* that settled the node died before it delivered them, and then they are
\* never delivered, as no later advance() finds the node undecided.  A live
\* lane is no decision of advance(): run_node skips it and forwards its
\* warnings itself.
SkipsDiagnosedOnce ==
  \A n \in Node :
    IF rows[n].status = "skipped"
    THEN AccountedOnce(n) \/ (n \in Lane /\ NeverRaised(n))
    ELSE NeverRaised(n)

\* An executor runs at most once per try of the policy, plus once for each
\* worker that died between its execution and its checkpoint, and once for
\* the answer that resumed it: neither duplicate jobs, nor a crash anywhere
\* else, nor a retry racing its own checkpoint run it again.
RetryBudget ==
  \A n \in Node :
    runs[n] <= TriesFor(n) + died[n].checkpoint
                 + (IF n \in answered THEN 1 ELSE 0)

\* A node fails only when its tries are used up, each by an execution or by a
\* worker that died before it came to execute: no other crash, no duplicate
\* and no lost race costs a node a try.
FailsAfterItsTries ==
  \A n \in Node :
    Acyclic /\ rows[n].status = "failed" =>
      runs[n] + died[n].execute >= TriesFor(n)

\* first_attempt_at never moves while the row stands ("it must never move",
\* NodeState): a retry, a crash and a resumed pause keep the first claim's.
RetryClockNeverMoves ==
  [][\A n \in Node : rows[n].first # 0 /\ rows'[n].first # 0 =>
                       rows'[n].first = rows[n].first]_vars

\* When nothing is queued and no caller is in the middle of anything, the
\* run is finished or parked on a person: no interleaving strands a node.
QuiescentMeansSettled ==
  (\A c \in Caller : At(c, "idle")) /\ (\A n \in Node : queue[n] = 0) =>
    IsComplete(rows) \/ \E n \in Node : rows[n].status = "paused"

-----------------------------------------------------------------------------
\* The run settles every node, given workers that go on, a queue that
\* delivers, and people who answer.
RunSettles == <>[]IsComplete(rows)

\* The rows of a queued run implement the run of module DurableRun: every
\* step of a worker, a caller of advance or the host starts, finishes, fails,
\* passes over or withdraws one node, at a time that node was due.
Run == INSTANCE DurableRun WITH
  phase <- [n \in Node |-> IF rows[n].status = "absent" THEN "pending"
                           ELSE IF IsHeld(rows[n]) THEN "held"
                           ELSE rows[n].status],
  lit <- [n \in Node |-> rows[n].ports]

ImplementsDurableRun == Run!RunSpec

-----------------------------------------------------------------------------
\* "A node declaring `sideEffects: unsafe-to-replay` is pinned to ONE attempt"
\* (retry.rs); "a durable driver must not replay it blindly" (builtin.rs).
\* A gate is asked again once it is answered, and is set aside.
UnsafeRunsOnce == \A n \in Unsafe \ Gate : runs[n] <= 1

\* "Up to N held at once" (the table in dispatch.rs).
HeldWithinCap ==
  MaxConcurrent > 0 => Cardinality(Held(rows)) <= MaxConcurrent

=============================================================================

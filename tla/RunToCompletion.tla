--------------------------- MODULE RunToCompletion ---------------------------
(***************************************************************************)
(* Coordinator::run_to_completion: one process that calls advance and      *)
(* run_node in turn, over a store that outlives it.  A call makes passes;  *)
(* a pass is advance() and then a run of every node it returned.  A crash  *)
(* between two store calls ends the process and, with it, the coordinator  *)
(* and its token counter; the host starts another and calls again.         *)
(*                                                                         *)
(* advance and run_node are the operations module Coordinator models, here *)
(* with one caller: settle_skips, the second read and the selection run to *)
(* the end unless the process dies, so the writes of the skips are steps   *)
(* and what follows them is one.  Claim, Execute and Checkpoint are as     *)
(* there.  The store is the in-memory one's, with release for a gate.      *)
(***************************************************************************)
EXTENDS NodeRun

CONSTANTS
  MaxConcurrent,  \* the dispatch cap; 0 is unlimited
  MaxPasses,      \* what the host passes; 0 is None
  MaxMinted,      \* bound: tokens one process mints
  MaxCrashes      \* bound: crashes

ASSUME DriverAssumption ==
  /\ RowPort = Port
  /\ Owner = Node \X (1..MaxMinted)
  /\ MaxConcurrent \in Nat /\ MaxPasses \in Nat
  /\ MaxMinted \in Nat \ {0} /\ MaxCrashes \in Nat

VARIABLES
  rows,       \* the claim store
  answered,   \* gates with a recorded answer
  pc,         \* "out" of a call, or the step of one
  passes,     \* passes left to this call
  batch,      \* the nodes this pass has still to run, each with its rank
  skips,      \* the nodes this pass has still to skip
  tried,      \* attempts of the node being run, in this call
  verdict,    \* what the engine said of it
  minted,     \* the coordinator's token counter
  result,     \* what the last call returned
  crashes,
  runs        \* history: executor calls per node

vars == <<rows, answered, pc, passes, batch, skips, tried, verdict, minted,
          result, crashes, runs>>

Empty == [n \in {} |-> 0]

\* The first of a ranked set of nodes.
First(ranked) == CHOOSE n \in DOMAIN ranked : \A m \in DOMAIN ranked : ranked[n] <= ranked[m]
Rest(ranked)  == [n \in DOMAIN ranked \ {First(ranked)} |-> ranked[n]]

\* Mutant of DefaultPasses: a flat limit, not raised to the graph's size.
MutantDefaultPasses == 1

\* default_passes with the floor left out, which only a graph of more nodes
\* than the floor is spared by.
DefaultPasses == Cardinality(Node) + 1

Init ==
  /\ rows = [n \in Node |-> Absent]
  /\ answered = {}
  /\ pc = "out" /\ passes = 0 /\ batch = Empty /\ skips = Empty
  /\ tried = 0 /\ verdict = NoVerdict /\ minted = 0
  /\ result = "none"
  /\ crashes = 0
  /\ runs = [n \in Node |-> 0]

\* The host calls, while there is something left to do.
Call ==
  /\ pc = "out" /\ result # "ok" /\ ~IsComplete(rows)
  /\ pc' = "pass" /\ result' = "none"
  /\ passes' = IF MaxPasses = 0 THEN DefaultPasses ELSE MaxPasses
  /\ UNCHANGED <<rows, answered, batch, skips, tried, verdict, minted, crashes, runs>>

-----------------------------------------------------------------------------
(* A pass: advance(). *)
Pass ==
  /\ pc = "pass" /\ passes > 0
  /\ passes' = passes - 1
  /\ skips' = Ranking(rows, Skips(rows))
  /\ batch' = Ranking(rows, Ready(rows))
  /\ pc' = "settle"
  /\ UNCHANGED <<rows, answered, tried, verdict, minted, result, crashes, runs>>

SetRow(n, row) == rows' = [rows EXCEPT ![n] = row]

SettleSkip ==
  /\ pc = "settle" /\ DOMAIN skips # {}
  /\ LET n == First(skips)
     IN  SetRow(n, IF SkipWins(rows[n]) THEN Skipped(rows[n]) ELSE rows[n])
  /\ skips' = Rest(skips)
  /\ UNCHANGED <<answered, pc, passes, batch, tried, verdict, minted, result, crashes, runs>>

\* advance returns; with nothing to run the loop breaks.
Selected ==
  /\ pc = "settle" /\ DOMAIN skips = {}
  /\ LET chosen == SelectDispatch(batch, rows, MaxConcurrent)
     IN  /\ batch' = [n \in chosen |-> batch[n]]
         /\ pc' = IF chosen = {} THEN "conclude" ELSE "mint"
  /\ UNCHANGED <<rows, answered, passes, skips, tried, verdict, minted, result, crashes, runs>>

-----------------------------------------------------------------------------
(* run_node_with_retries for the first node of the batch. *)
Mint ==
  /\ pc = "mint" /\ minted < MaxMinted
  /\ minted' = minted + 1 /\ tried' = 0 /\ pc' = "claim"
  /\ UNCHANGED <<rows, answered, passes, batch, skips, verdict, result, crashes, runs>>

Token == <<First(batch), minted>>

\* The node is done with: the next of the batch, or the next pass.
NextInBatch ==
  /\ batch' = Rest(batch)
  /\ pc' = IF DOMAIN Rest(batch) = {} THEN "pass" ELSE "mint"

Claim ==
  /\ pc = "claim"
  /\ LET n == First(batch) IN
     IF ClaimWins(rows[n], Token)
     THEN /\ SetRow(n, Claimed(rows[n], Token, 1))
          /\ tried' = tried + 1 /\ pc' = "execute"
          /\ UNCHANGED batch
     ELSE NextInBatch /\ UNCHANGED <<rows, tried>>
  /\ UNCHANGED <<answered, passes, skips, verdict, minted, result, crashes, runs>>

Execute ==
  /\ pc = "execute"
  /\ LET n == First(batch) IN
     /\ verdict' \in Replay(rows, n, answered)
     /\ runs' = IF ExecutorRuns(rows, n) THEN [runs EXCEPT ![n] = @ + 1] ELSE runs
  /\ pc' = "checkpoint"
  /\ UNCHANGED <<rows, answered, passes, batch, skips, tried, minted, result, crashes>>

\* The call returns.
Stop(with) == pc' = "out" /\ result' = with /\ batch' = Empty

CheckpointAndGoOn ==
  /\ pc = "checkpoint" /\ verdict.kind \in {"output", "skip"}
  /\ LET n == First(batch) IN
     SetRow(n, IF verdict.kind = "output" THEN Completed(rows[n], verdict.ports)
               ELSE IF SkipWins(rows[n]) THEN Skipped(rows[n]) ELSE rows[n])
  /\ NextInBatch
  /\ UNCHANGED <<answered, passes, skips, tried, verdict, minted, result, crashes, runs>>

\* A pause parks this driver, not just the node.
CheckpointPause ==
  /\ pc = "checkpoint" /\ verdict.kind = "pause"
  /\ SetRow(First(batch), Paused(rows[First(batch)]))
  /\ Stop("paused")
  /\ UNCHANGED <<answered, passes, skips, tried, verdict, minted, crashes, runs>>

\* The outcome is retryable.
TriesLeft(n) == rows[n].attempts < TriesFor(n)

Retry ==
  /\ pc = "checkpoint" /\ verdict.kind = "error"
  /\ TriesLeft(First(batch)) /\ tried < TriesFor(First(batch))
  /\ pc' = "claim"
  /\ UNCHANGED <<rows, answered, passes, batch, skips, tried, verdict, minted,
                 result, crashes, runs>>

\* Out of tries, by the row's count or by this call's; only the first
\* settles the row.
CheckpointFailure ==
  LET n == First(batch) IN
  /\ pc = "checkpoint" /\ verdict.kind = "error"
  /\ ~TriesLeft(n) \/ tried >= TriesFor(n)
  /\ SetRow(n, IF TriesLeft(n) THEN rows[n] ELSE Failed(rows[n]))
  /\ Stop("failed")
  /\ UNCHANGED <<answered, passes, skips, tried, verdict, minted, crashes, runs>>

-----------------------------------------------------------------------------
\* Mutant of Conclude: a complete run is reported as ok, whatever failed.
MutantConclude ==
  /\ pc = "conclude" \/ (pc = "pass" /\ passes = 0)
  /\ Stop(IF ~IsComplete(rows)
          THEN IF HasWorkInFlight(rows) THEN "waiting" ELSE "stuck"
          ELSE "ok")
  /\ UNCHANGED <<rows, answered, passes, skips, tried, verdict, minted, crashes, runs>>

\* After the loop: what the call reports of the rows.
Conclude ==
  /\ pc = "conclude" \/ (pc = "pass" /\ passes = 0)
  /\ Stop(IF ~IsComplete(rows)
          THEN IF HasWorkInFlight(rows) THEN "waiting" ELSE "stuck"
          ELSE IF \E n \in Node : rows[n].status = "failed" THEN "failed" ELSE "ok")
  /\ UNCHANGED <<rows, answered, passes, skips, tried, verdict, minted, crashes, runs>>

\* The process dies, and with it the counter.
Crash ==
  /\ pc # "out" /\ crashes < MaxCrashes
  /\ crashes' = crashes + 1 /\ minted' = 0
  /\ pc' = "out" /\ result' = "none" /\ passes' = 0
  /\ batch' = Empty /\ skips' = Empty /\ tried' = 0 /\ verdict' = NoVerdict
  /\ UNCHANGED <<rows, answered, runs>>

\* Between calls a person answers and the host releases the parked row.
AnswerAndRelease(n) ==
  /\ pc = "out" /\ rows[n].status = "paused" /\ n \notin answered
  /\ answered' = answered \cup {n}
  /\ SetRow(n, Released)
  /\ UNCHANGED <<pc, passes, batch, skips, tried, verdict, minted, result, crashes, runs>>

Driver ==
  \/ Pass \/ SettleSkip \/ Selected \/ Mint \/ Claim \/ Execute
  \/ CheckpointAndGoOn \/ CheckpointPause \/ Retry \/ CheckpointFailure
  \/ Conclude

Next == Call \/ Driver \/ Crash \/ \E n \in Node : AnswerAndRelease(n)

Spec == Init /\ [][Next]_vars

\* A call that has begun goes on, the host calls again, the person answers.
FairSpec ==
  /\ Spec
  /\ WF_vars(Driver) /\ WF_vars(Call)
  /\ \A n \in Gate : SF_vars(AnswerAndRelease(n))

=============================================================================

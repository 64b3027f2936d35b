----------------------------- MODULE Coordinator -----------------------------
(***************************************************************************)
(* A queued durable run: workers calling Coordinator::run_node for the     *)
(* jobs a queue delivers, and callers of Coordinator::advance, over one    *)
(* shared claim store.                                                     *)
(*                                                                         *)
(* The store's operations are atomic; everything between two of them may   *)
(* interleave.  run_node is three steps: Claim, Execute (the state         *)
(* snapshot and the fenced replay it feeds), Checkpoint.  advance is       *)
(* Advance (the snapshot and the frontier), one SettleSkip per skipped     *)
(* node and FinishAdvance (diagnostics, the second read, the selection);   *)
(* with nothing to skip it is one step, as the code then reads once.       *)
(*                                                                         *)
(* The queue adapter is the host's (external).  It does what the module    *)
(* docs ask of one: a job per id that advance returns, one owner token per *)
(* job, the same token when the job is retried or redelivered after a      *)
(* crash, and advance() when a job's node has settled -- also when it      *)
(* finds it settled, or it would lose the advance of a job that crashed    *)
(* after its checkpoint.  A worker slot stands for the job it runs, so the *)
(* slots are the owner tokens; a slot whose token still holds a row takes  *)
(* no fresh job.                                                           *)
(***************************************************************************)
EXTENDS NodeRun

CONSTANTS
  Host,           \* the host: first caller of advance, answers the gates
  NoNode,
  MaxConcurrent,  \* the dispatch cap; 0 is unlimited
  MaxCrashes,     \* bound: worker crashes in a run
  MaxQueued,      \* bound: jobs of one node waiting at once
  MaxNow          \* bound: the injected clock's last reading

Worker == Owner
Caller == Worker \cup {Host}

ASSUME CoordinatorAssumption ==
  /\ RowPort = Port
  /\ Host \notin Worker
  /\ NoNode \notin Node
  /\ MaxConcurrent \in Nat
  /\ MaxCrashes \in Nat /\ MaxQueued \in Nat \ {0} /\ MaxNow \in Nat \ {0}

VARIABLES
  rows,       \* the claim store: [Node -> Row]
  queue,      \* jobs dispatched and not yet taken, per node
  proc,       \* what each caller is in the middle of
  answered,   \* gates with a recorded answer
  now,        \* the injected clock
  crashes,    \* crashes so far
  runs,       \* history: executor calls per node
  died,       \* history: workers lost inside run_node, per node and step
  told,       \* history: deliveries of each skipped node's diagnostics
  missed      \* history: skipped nodes whose diagnostics died undelivered

vars == <<rows, queue, proc, answered, now, crashes, runs, died, told, missed>>

-----------------------------------------------------------------------------
Empty == [n \in {} |-> 0]

\* A caller at the start of a step, with nothing kept from the one before.
Fresh(pc, n) == [pc |-> pc, node |-> n, verdict |-> NoVerdict, attempt |-> 0,
                 ready |-> Empty, skips |-> Empty, won |-> {}]

Idle == Fresh("idle", NoNode)

At(c, pc) == proc[c].pc = pc

GoTo(c, p) == proc' = [proc EXCEPT ![c] = p]

\* The job's node has settled: the adapter calls advance.
Settle(w) == Fresh("advance", proc[w].node)

Init ==
  /\ rows = [n \in Node |-> Absent]
  /\ queue = [n \in Node |-> 0]
  /\ proc = [c \in Caller |-> IF c = Host THEN Fresh("advance", NoNode)
                                          ELSE Idle]
  /\ answered = {}
  /\ now = 1
  /\ crashes = 0
  /\ runs = [n \in Node |-> 0]
  /\ died = [n \in Node |-> [execute |-> 0, checkpoint |-> 0]]
  /\ told = [n \in Node |-> 0]
  /\ missed = {}

-----------------------------------------------------------------------------
(* run_node, first step: the claim.  A lost race changes nothing. *)
ClaimFor(w, n) ==
  IF ClaimWins(rows[n], w)
  THEN /\ rows' = [rows EXCEPT ![n] = Claimed(@, w, now)]
       /\ GoTo(w, Fresh("execute", n))
  ELSE /\ GoTo(w, Fresh("advance", n))
       /\ UNCHANGED rows

\* An idle slot whose token holds no row.
HasRoom(w) == At(w, "idle") /\ \A m \in Held(rows) : rows[m].owner # w

\* The queue delivers a fresh job, under a token that holds no row.
Deliver(w, n) ==
  /\ HasRoom(w) /\ queue[n] > 0
  /\ queue' = [queue EXCEPT ![n] = @ - 1]
  /\ ClaimFor(w, n)
  /\ UNCHANGED <<answered, now, crashes, runs, died, told, missed>>

\* The queue delivers a job again, under the token it had.
Redeliver(w) ==
  /\ At(w, "retry")
  /\ ClaimFor(w, proc[w].node)
  /\ UNCHANGED <<queue, answered, now, crashes, runs, died, told, missed>>

(* run_node, second step: snapshot, replay, forward. *)
Execute(w) ==
  LET n == proc[w].node IN
  /\ At(w, "execute")
  /\ \E v \in Replay(rows, n, answered) :
       GoTo(w, [proc[w] EXCEPT !.pc = "checkpoint", !.verdict = v,
                               !.attempt = rows[n].attempts])
  /\ runs' = IF ExecutorRuns(rows, n) THEN [runs EXCEPT ![n] = @ + 1] ELSE runs
  /\ UNCHANGED <<rows, queue, answered, now, crashes, died, told, missed>>

(* run_node, third step: the checkpoint, one action per kind of outcome. *)
Checkpoint(w, kind) == At(w, "checkpoint") /\ proc[w].verdict.kind = kind

SetRow(n, row) == rows' = [rows EXCEPT ![n] = row]

CheckpointOutput(w) ==
  LET n == proc[w].node IN
  /\ Checkpoint(w, "output")
  /\ SetRow(n, Completed(rows[n], proc[w].verdict.ports))
  /\ GoTo(w, Settle(w))
  /\ UNCHANGED <<queue, answered, now, crashes, runs, died, told, missed>>

CheckpointPause(w) ==
  LET n == proc[w].node IN
  /\ Checkpoint(w, "pause")
  /\ SetRow(n, Paused(rows[n]))
  /\ GoTo(w, Idle)
  /\ UNCHANGED <<queue, answered, now, crashes, runs, died, told, missed>>

CheckpointSkip(w) ==
  LET n == proc[w].node IN
  /\ Checkpoint(w, "skip")
  /\ SetRow(n, IF SkipWins(rows[n]) THEN Skipped(rows[n]) ELSE rows[n])
  /\ GoTo(w, Settle(w))
  /\ UNCHANGED <<queue, answered, now, crashes, runs, died, told, missed>>

\* An attempt is left: the row stays CLAIMED for the same owner to re-enter.
Retry(w) ==
  /\ Checkpoint(w, "error")
  /\ proc[w].attempt < TriesFor(proc[w].node)
  /\ GoTo(w, Fresh("retry", proc[w].node))
  /\ UNCHANGED <<rows, queue, answered, now, crashes, runs, died, told, missed>>

\* Mutant of CheckpointFailure: the last try is not made.
MutantFailEarly(w) ==
  LET n == proc[w].node IN
  /\ Checkpoint(w, "error")
  /\ proc[w].attempt + 1 >= TriesFor(n)
  /\ SetRow(n, Failed(rows[n]))
  /\ GoTo(w, Settle(w))
  /\ UNCHANGED <<queue, answered, now, crashes, runs, died, told, missed>>

CheckpointFailure(w) ==
  LET n == proc[w].node IN
  /\ Checkpoint(w, "error")
  /\ proc[w].attempt >= TriesFor(n)
  /\ SetRow(n, Failed(rows[n]))
  /\ GoTo(w, Settle(w))
  /\ UNCHANGED <<queue, answered, now, crashes, runs, died, told, missed>>

RunNode(w) ==
  \/ \E n \in Node : Deliver(w, n)
  \/ Redeliver(w)
  \/ Execute(w)
  \/ CheckpointOutput(w) \/ CheckpointPause(w) \/ CheckpointSkip(w)
  \/ Retry(w) \/ CheckpointFailure(w)

-----------------------------------------------------------------------------
\* One job per id handed out.
Enqueue(ids) ==
  queue' = [n \in Node |-> IF n \in ids /\ queue[n] < MaxQueued
                           THEN queue[n] + 1 ELSE queue[n]]

\* advance returned ids and the adapter queues them: all of them, or a worker
\* dies with some queued and its own job not acknowledged.
HandOut(c, ids) ==
  \/ Enqueue(ids) /\ GoTo(c, Idle) /\ UNCHANGED crashes
  \/ /\ c \in Worker /\ crashes < MaxCrashes
     /\ \E some \in (SUBSET ids) \ {{}} : Enqueue(some)
     /\ crashes' = crashes + 1
     /\ GoTo(c, Fresh("retry", proc[c].node))

(* advance: the snapshot and the frontier. *)
Advance(c) ==
  LET skips == Skips(rows)
      ready == Ranking(rows, Ready(rows))
  IN
  /\ At(c, "advance")
  /\ IF skips = {}
     THEN HandOut(c, SelectDispatch(ready, rows, MaxConcurrent))
     ELSE /\ GoTo(c, [proc[c] EXCEPT !.pc = "settle", !.ready = ready,
                                     !.skips = Ranking(rows, skips)])
          /\ UNCHANGED <<queue, crashes>>
  /\ UNCHANGED <<rows, answered, now, runs, died, told, missed>>

\* settle_skips: the next node of the cascade, kept if this call settled it.
SettleSkip(c) ==
  /\ At(c, "settle")
  /\ \E n \in DOMAIN proc[c].skips :
       /\ \A m \in DOMAIN proc[c].skips : proc[c].skips[n] <= proc[c].skips[m]
       /\ SetRow(n, IF SkipWins(rows[n]) THEN Skipped(rows[n]) ELSE rows[n])
       /\ GoTo(c, [proc[c] EXCEPT
                     !.skips = [m \in DOMAIN @ \ {n} |-> @[m]],
                     !.won = IF SkipWins(rows[n]) THEN @ \cup {n} ELSE @])
  /\ UNCHANGED <<queue, answered, now, crashes, runs, died, told, missed>>

\* deliver_skip_diagnostics for the nodes this call settled, then the held
\* rows are counted again and the ready nodes cut to the room left.
FinishAdvance(c) ==
  /\ At(c, "settle") /\ DOMAIN proc[c].skips = {}
  /\ told' = [n \in Node |-> IF n \in proc[c].won THEN told[n] + 1 ELSE told[n]]
  /\ HandOut(c, SelectDispatch(proc[c].ready, rows, MaxConcurrent))
  /\ UNCHANGED <<rows, answered, now, runs, died, missed>>

AdvanceSteps(c) == Advance(c) \/ SettleSkip(c) \/ FinishAdvance(c)

-----------------------------------------------------------------------------
\* A worker dies; the queue redelivers its job, under the same token.  A
\* crash while the job waits in the queue changes nothing.  What settle_skips
\* settled for it is on the rows; the diagnostics it owed are with nobody.
Crash(w) ==
  /\ proc[w].pc \notin {"idle", "retry"}
  /\ crashes < MaxCrashes
  /\ crashes' = crashes + 1
  /\ GoTo(w, Fresh("retry", proc[w].node))
  /\ died' = IF proc[w].pc \in {"execute", "checkpoint"}
             THEN [died EXCEPT ![proc[w].node][proc[w].pc] = @ + 1] ELSE died
  /\ missed' = missed \cup proc[w].won
  /\ UNCHANGED <<rows, queue, answered, now, runs, told>>

\* The person at gate n answers, and the gate's own job is dispatched again.
AnswerAndRedispatch(n) ==
  LET w == rows[n].owner IN
  /\ rows[n].status = "paused" /\ n \notin answered
  /\ At(w, "idle")
  /\ answered' = answered \cup {n}
  /\ GoTo(w, Fresh("retry", n))
  /\ UNCHANGED <<rows, queue, now, crashes, runs, died, told, missed>>

\* Or: the host releases the parked row and advances the run.
AnswerAndRelease(n) ==
  /\ rows[n].status = "paused" /\ n \notin answered
  /\ At(Host, "idle")
  /\ answered' = answered \cup {n}
  /\ SetRow(n, Released)
  /\ GoTo(Host, Fresh("advance", NoNode))
  /\ UNCHANGED <<queue, now, crashes, runs, died, told, missed>>

Tick ==
  /\ now < MaxNow
  /\ now' = now + 1
  /\ UNCHANGED <<rows, queue, proc, answered, crashes, runs, died, told, missed>>

Next ==
  \/ \E w \in Worker : RunNode(w) \/ Crash(w)
  \/ \E c \in Caller : AdvanceSteps(c)
  \/ \E n \in Node : AnswerAndRedispatch(n) \/ AnswerAndRelease(n)
  \/ Tick

Spec == Init /\ [][Next]_vars

(***************************************************************************)
(* The run goes on: as long as a caller is in the middle of something, a   *)
(* job waits for a worker with room for it, or a person has a gate to      *)
(* answer (Busy), some step that is neither a crash nor a tick of the      *)
(* clock is taken: weak fairness of those steps together, with the         *)
(* condition that one of them is enabled written out.                      *)
(***************************************************************************)
Busy ==
  \/ \E c \in Caller : ~At(c, "idle")
  \/ \E n \in Node : queue[n] > 0 /\ \E w \in Worker : HasRoom(w)
  \/ \E n \in Node : rows[n].status = "paused" /\ n \notin answered

Fairness ==
  \/ []<>~Busy
  \/ []<><<crashes' = crashes /\ now' = now>>_vars

FairSpec == Spec /\ Fairness

=============================================================================

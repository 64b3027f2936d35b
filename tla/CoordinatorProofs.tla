-------------------------- MODULE CoordinatorProofs --------------------------
(***************************************************************************)
(* The queued run is correct for every graph, every number of workers and  *)
(* crashes, every cap and every outcome of the executors.                  *)
(*                                                                         *)
(* The first part proves the types.  The second is the inductive invariant *)
(* IInv: every node with a job, a claim or a result is reached (Reached),  *)
(* and every node some advance() is about to skip lies in a set of nodes   *)
(* none of which can ever be reached (Doomed).  The two keep the writers   *)
(* of a row apart although the store does not.                             *)
(*                                                                         *)
(* The rest rests on it: the run implements DurableRun, no node runs more  *)
(* often than its retry budget allows, and no interleaving leaves work     *)
(* undone with nobody to go on.                                            *)
(***************************************************************************)
EXTENDS CoordinatorProps, FrontierFacts

-----------------------------------------------------------------------------
(* Rows. *)

\* A write to one row leaves the others alone.
LEMMA SetRowStep ==
  ASSUME rows \in [Node -> Row], NEW n \in Node, NEW row \in Row, SetRow(n, row)
  PROVE  /\ rows' \in [Node -> Row]
         /\ rows'[n] = row
         /\ \A m \in Node : m # n => rows'[m] = rows[m]
BY DEF SetRow

-----------------------------------------------------------------------------
(* The frontier. *)

LEMMA RankingType ==
  ASSUME NEW r, NEW S \in SUBSET Node
  PROVE  DOMAIN Ranking(r, S) = S /\ IsRanking(Ranking(r, S))
<1>1. IsFiniteSet(S)
  BY GraphAssumption, FS_Subset DEF GraphAssumption
<1>2. \A T \in SUBSET S : Cardinality(T) \in Nat
  BY <1>1, FS_Subset, FS_CardinalityType
<1>3. DOMAIN Ranking(r, S) = S /\ Ranking(r, S) \in [S -> Nat]
  BY <1>2 DEF Ranking
<1> QED BY <1>3 DEF IsRanking

-----------------------------------------------------------------------------
(* Types. *)

Pcs == {"idle", "execute", "checkpoint", "retry", "advance", "settle"}

\* Moving a caller changes nothing for the others.
LEMMA GoToStep ==
  ASSUME DOMAIN proc = Caller, NEW c, NEW p, GoTo(c, p)
  PROVE  \A d \in Caller : proc'[d] = IF d = c THEN p ELSE proc[d]
BY DEF GoTo

\* A caller at the start of a step carries nothing but its node.
Clear(p) == p.verdict = NoVerdict /\ DOMAIN p.ready = {} /\ DOMAIN p.skips = {}
            /\ p.won = {}

LEMMA FreshFields ==
  ASSUME NEW pc, NEW n
  PROVE  Fresh(pc, n).pc = pc /\ Fresh(pc, n).node = n /\ Clear(Fresh(pc, n))
BY DEF Fresh, Clear, Empty

\* The places a caller can be moved to.
Placed(c, p) == IsPlace(p) /\ (c \in Worker /\ p.pc # "idle" => p.node \in Node)

LEMMA PlacedFresh ==
  ASSUME NEW c, NEW pc \in Pcs, NEW n \in Node \cup {NoNode},
         c \in Worker /\ pc # "idle" => n \in Node
  PROVE  Placed(c, Fresh(pc, n))
<1>1. NoVerdict \in Verdict
  BY DEF NoVerdict, Said, Verdict
<1>2. IsRanking(Empty)
  BY DEF Empty, IsRanking
<1> QED BY <1>1, <1>2 DEF Placed, Fresh, IsPlace, Pcs

\* A step that moves one caller keeps the types when all it writes is typed.
LEMMA TypeStep ==
  ASSUME TypeOK, NEW c, NEW p, GoTo(c, p), Placed(c, p),
         rows' \in [Node -> Row], queue' \in [Node -> 0..MaxQueued],
         answered' \subseteq Node, now' \in 1..MaxNow,
         crashes' \in 0..MaxCrashes,
         runs' \in [Node -> Nat], told' \in [Node -> Nat],
         died' \in [Node -> Deaths], missed' \subseteq Node
  PROVE  TypeOK'
<1>1. DOMAIN proc' = Caller
  BY DEF TypeOK, GoTo
<1>2. \A d \in Caller : proc'[d] = IF d = c THEN p ELSE proc[d]
  BY GoToStep DEF TypeOK
<1>3. \A d \in Caller : IsPlace(proc'[d])
  BY <1>2 DEF TypeOK, Placed
<1>4. \A w \in Worker : proc'[w].pc # "idle" => proc'[w].node \in Node
  BY <1>2 DEF TypeOK, Placed, Caller
<1> QED BY <1>1, <1>3, <1>4 DEF TypeOK

LEMMA EnqueueType ==
  ASSUME queue \in [Node -> 0..MaxQueued], NEW ids, Enqueue(ids)
  PROVE  queue' \in [Node -> 0..MaxQueued]
<1>1. MaxQueued \in Nat
  BY CoordinatorAssumption DEF CoordinatorAssumption
<1>2. \A n \in Node : queue[n] \in 0..MaxQueued
  OBVIOUS
<1>3. \A n \in Node :
        (IF n \in ids /\ queue[n] < MaxQueued THEN queue[n] + 1 ELSE queue[n])
          \in 0..MaxQueued
  BY <1>1, <1>2
<1> QED BY <1>3 DEF Enqueue

\* Handing out leaves the caller idle, or back at its job after a crash.
LEMMA HandOutStep ==
  ASSUME TypeOK, NEW c \in Caller, NEW ids, HandOut(c, ids),
         c \in Worker => proc[c].node \in Node
  PROVE  /\ queue' \in [Node -> 0..MaxQueued]
         /\ crashes' \in 0..MaxCrashes
         /\ \E some \in SUBSET ids : Enqueue(some)
         /\ \E p : /\ GoTo(c, p) /\ Placed(c, p) /\ Clear(p)
                  /\ \/ p.pc = "idle"
                     \/ p.pc = "retry" /\ c \in Worker /\ p.node = proc[c].node
<1>1. queue \in [Node -> 0..MaxQueued] /\ crashes \in 0..MaxCrashes /\ MaxCrashes \in Nat
  BY CoordinatorAssumption DEF TypeOK, CoordinatorAssumption
<1>2. CASE Enqueue(ids) /\ GoTo(c, Idle) /\ UNCHANGED crashes
  <2>1. queue' \in [Node -> 0..MaxQueued] /\ crashes' \in 0..MaxCrashes
    BY <1>1, <1>2, EnqueueType
  <2>2. Placed(c, Idle) /\ Clear(Idle) /\ Idle.pc = "idle"
    BY PlacedFresh, FreshFields DEF Idle, Pcs
  <2> QED BY <1>2, <2>1, <2>2
<1>3. CASE /\ c \in Worker /\ crashes < MaxCrashes
           /\ \E some \in (SUBSET ids) \ {{}} : Enqueue(some)
           /\ crashes' = crashes + 1
           /\ GoTo(c, Fresh("retry", proc[c].node))
  <2> DEFINE p == Fresh("retry", proc[c].node)
  <2>1. Placed(c, p)
    BY <1>3, PlacedFresh DEF Pcs
  <2>2. Clear(p) /\ p.pc = "retry" /\ p.node = proc[c].node
    BY FreshFields
  <2>3. crashes' \in 0..MaxCrashes
    BY <1>1, <1>3
  <2>4. GoTo(c, p)
    BY <1>3
  <2>5. \E some \in SUBSET ids : Enqueue(some)
    BY <1>3
  <2>6. queue' \in [Node -> 0..MaxQueued]
    BY <1>1, <2>5, EnqueueType
  <2> HIDE DEF p
  <2> QED BY <1>3, <2>1, <2>2, <2>3, <2>4, <2>5, <2>6
<1> QED BY <1>2, <1>3 DEF HandOut

LEMMA InitTypes == Init => TypeOK
<1> SUFFICES ASSUME Init PROVE TypeOK
  OBVIOUS
<1>1. /\ Host \notin Worker /\ MaxQueued \in Nat /\ MaxCrashes \in Nat
      /\ MaxNow \in Nat \ {0}
  BY CoordinatorAssumption DEF CoordinatorAssumption
<1>2. \A c \in Caller : Placed(c, proc[c])
  <2> SUFFICES ASSUME NEW c \in Caller PROVE Placed(c, proc[c])
    OBVIOUS
  <2>1. CASE c = Host
    <3>1. proc[c] = Fresh("advance", NoNode)
      BY <2>1 DEF Init
    <3> QED BY <1>1, <2>1, <3>1, PlacedFresh DEF Pcs
  <2>2. CASE c # Host
    <3>1. proc[c] = Fresh("idle", NoNode)
      BY <2>2 DEF Init, Idle
    <3> QED BY <3>1, PlacedFresh DEF Pcs
  <2> QED BY <2>1, <2>2
<1>3. rows \in [Node -> Row]
  BY RowTypes DEF Init
<1>4. /\ queue \in [Node -> 0..MaxQueued] /\ answered \subseteq Node
      /\ now \in 1..MaxNow /\ crashes \in 0..MaxCrashes
      /\ runs \in [Node -> Nat] /\ told \in [Node -> Nat]
      /\ died \in [Node -> Deaths] /\ missed \subseteq Node
  BY <1>1 DEF Init, Deaths
<1>5. DOMAIN proc = Caller
  BY DEF Init
<1> QED BY <1>2, <1>3, <1>4, <1>5 DEF TypeOK, Placed, Caller

LEMMA ClaimForTypes ==
  ASSUME TypeOK, NEW w \in Worker, NEW n \in Node, ClaimFor(w, n)
  PROVE  /\ rows' \in [Node -> Row]
         /\ \E p : GoTo(w, p) /\ Placed(w, p)
<1>1. rows \in [Node -> Row] /\ now \in Nat /\ w \in Owner
  BY CoordinatorAssumption DEF TypeOK, CoordinatorAssumption, Worker
<1>2. Claimed(rows[n], w, now) \in Row
  BY <1>1, RowTypes
<1>3. rows' \in [Node -> Row]
  BY <1>1, <1>2 DEF ClaimFor
<1>4. \E pc \in {"execute", "advance"} : GoTo(w, Fresh(pc, n))
  BY DEF ClaimFor
<1>5. \A pc \in {"execute", "advance"} : Placed(w, Fresh(pc, n))
  BY PlacedFresh DEF Pcs
<1> QED BY <1>3, <1>4, <1>5

LEMMA DeliverTypes ==
  ASSUME TypeOK, NEW w \in Worker, NEW n \in Node, Deliver(w, n)
  PROVE  TypeOK'
<1>1. queue' \in [Node -> 0..MaxQueued]
  <2>1. queue[n] \in 0..MaxQueued /\ queue[n] > 0 /\ MaxQueued \in Nat
    BY CoordinatorAssumption DEF TypeOK, Deliver, CoordinatorAssumption
  <2>2. queue[n] - 1 \in 0..MaxQueued
    BY <2>1
  <2> QED BY <2>2 DEF TypeOK, Deliver
<1>2. PICK p : GoTo(w, p) /\ Placed(w, p)
  BY ClaimForTypes DEF Deliver
<1>3. rows' \in [Node -> Row]
  BY ClaimForTypes DEF Deliver
<1>4. /\ answered' \subseteq Node /\ now' \in 1..MaxNow /\ crashes' \in 0..MaxCrashes
      /\ runs' \in [Node -> Nat] /\ told' \in [Node -> Nat]
      /\ died' \in [Node -> Deaths] /\ missed' \subseteq Node
  BY DEF TypeOK, Deliver
<1> QED BY <1>1, <1>2, <1>3, <1>4, TypeStep

LEMMA RedeliverTypes ==
  ASSUME TypeOK, NEW w \in Worker, Redeliver(w)
  PROVE  TypeOK'
<1>1. proc[w].node \in Node
  BY DEF TypeOK, Redeliver, At
<1>2. PICK p : GoTo(w, p) /\ Placed(w, p)
  BY <1>1, ClaimForTypes DEF Redeliver
<1>3. rows' \in [Node -> Row]
  BY <1>1, ClaimForTypes DEF Redeliver
<1>4. /\ answered' \subseteq Node /\ now' \in 1..MaxNow /\ crashes' \in 0..MaxCrashes
      /\ runs' \in [Node -> Nat] /\ told' \in [Node -> Nat]
      /\ died' \in [Node -> Deaths] /\ missed' \subseteq Node
      /\ queue' \in [Node -> 0..MaxQueued]
  BY DEF TypeOK, Redeliver
<1> QED BY <1>2, <1>3, <1>4, TypeStep

\* What a replay can say of a node is a verdict.
LEMMA ReplayTypes ==
  ASSUME NEW r, NEW n \in Node
  PROVE  Replay(r, n, answered) \subseteq Verdict
<1>1. \A kind \in {"none", "output", "pause", "skip", "error"} : Said(kind) \in Verdict
  BY DEF Said, Verdict
<1>2. Outcomes[n] \subseteq SUBSET Port
  BY NodeRunAssumption DEF NodeRunAssumption
<1>3. [kind : {"output"}, ports : Outcomes[n]] \subseteq Verdict
  BY <1>2 DEF Verdict
<1>4. Executed(n, answered) \subseteq Verdict
  BY <1>1, <1>3 DEF Executed
<1> QED BY <1>1, <1>4 DEF Replay

LEMMA ExecuteTypes ==
  ASSUME TypeOK, NEW w \in Worker, Execute(w)
  PROVE  TypeOK'
<1> DEFINE n == proc[w].node
<1>1. n \in Node /\ IsPlace(proc[w]) /\ w \in Caller
  BY DEF TypeOK, Execute, At, Caller
<1>2. rows[n] \in Row
  BY <1>1 DEF TypeOK
<1>3. PICK v \in Replay(rows, n, answered) :
        GoTo(w, [proc[w] EXCEPT !.pc = "checkpoint", !.verdict = v,
                                !.attempt = rows[n].attempts])
  BY DEF Execute
<1> DEFINE p == [proc[w] EXCEPT !.pc = "checkpoint", !.verdict = v,
                                !.attempt = rows[n].attempts]
<1>4. v \in Verdict
  BY <1>1, ReplayTypes
<1>5. IsPlace(p) /\ p.node \in Node
  BY <1>1, <1>2, <1>4 DEF IsPlace, Row
<1>6. GoTo(w, p) /\ Placed(w, p)
  BY <1>3, <1>5 DEF Placed
<1>7. runs' \in [Node -> Nat]
  BY <1>1 DEF TypeOK, Execute
<1>8. /\ answered' \subseteq Node /\ now' \in 1..MaxNow /\ crashes' \in 0..MaxCrashes
      /\ told' \in [Node -> Nat] /\ queue' \in [Node -> 0..MaxQueued]
      /\ died' \in [Node -> Deaths] /\ missed' \subseteq Node
      /\ rows' \in [Node -> Row]
  BY DEF TypeOK, Execute
<1> HIDE DEF p
<1> QED BY <1>6, <1>7, <1>8, TypeStep

\* A step that writes one row and moves one caller.
LEMMA WriteTypes ==
  ASSUME TypeOK, NEW c, NEW p, GoTo(c, p), Placed(c, p),
         NEW n \in Node, NEW row \in Row, SetRow(n, row),
         UNCHANGED <<queue, now, crashes, runs, died, told, missed>>, answered' \subseteq Node
  PROVE  TypeOK'
<1>1. rows' \in [Node -> Row]
  BY SetRowStep DEF TypeOK
<1>2. /\ now' \in 1..MaxNow /\ crashes' \in 0..MaxCrashes
      /\ runs' \in [Node -> Nat] /\ told' \in [Node -> Nat]
      /\ died' \in [Node -> Deaths] /\ missed' \subseteq Node
      /\ queue' \in [Node -> 0..MaxQueued]
  BY DEF TypeOK
<1> QED BY <1>1, <1>2, TypeStep

\* The steps of run_node that write the row of the worker's node.
Settles(w) == CheckpointOutput(w) \/ CheckpointSkip(w) \/ CheckpointFailure(w)

LEMMA CheckpointWrites ==
  ASSUME TypeOK, NEW w \in Worker, Settles(w) \/ CheckpointPause(w)
  PROVE  /\ proc[w].node \in Node /\ At(w, "checkpoint")
         /\ UNCHANGED <<queue, answered, now, crashes, runs, died, told, missed>>
         /\ \E row \in Row : SetRow(proc[w].node, row)
         /\ \E pc \in {"idle", "advance"}, n \in Node \cup {NoNode} :
              /\ GoTo(w, Fresh(pc, n))
              /\ pc = "idle" \/ (n = proc[w].node /\ Settles(w))
<1> DEFINE n == proc[w].node
<1>1. At(w, "checkpoint")
  BY DEF Settles, CheckpointOutput, CheckpointSkip, CheckpointFailure,
         CheckpointPause, Checkpoint
<1>2. n \in Node /\ IsPlace(proc[w])
  BY <1>1 DEF TypeOK, At, Caller
<1>3. rows[n] \in Row /\ proc[w].verdict.ports \subseteq RowPort
  BY <1>2, CoordinatorAssumption DEF TypeOK, IsPlace, Verdict, CoordinatorAssumption
<1>4. \E row \in Row : SetRow(n, row)
  <2>1. CASE CheckpointOutput(w)
    BY <1>3, <2>1, RowTypes DEF CheckpointOutput
  <2>2. CASE CheckpointSkip(w)
    BY <1>3, <2>2, RowTypes DEF CheckpointSkip
  <2>3. CASE CheckpointFailure(w)
    BY <1>3, <2>3, RowTypes DEF CheckpointFailure
  <2>4. CASE CheckpointPause(w)
    BY <1>3, <2>4, RowTypes DEF CheckpointPause
  <2> QED BY <2>1, <2>2, <2>3, <2>4 DEF Settles
<1>5. CASE Settles(w)
  <2>1. GoTo(w, Fresh("advance", n))
    BY <1>5 DEF Settles, CheckpointOutput, CheckpointSkip, CheckpointFailure, Settle
  <2>2. UNCHANGED <<queue, answered, now, crashes, runs, died, told, missed>>
    BY <1>5 DEF Settles, CheckpointOutput, CheckpointSkip, CheckpointFailure
  <2>3. \E pc \in {"idle", "advance"}, k \in Node \cup {NoNode} :
          GoTo(w, Fresh(pc, k)) /\ (pc = "idle" \/ (k = n /\ Settles(w)))
    BY <1>2, <1>5, <2>1
  <2> QED BY <1>1, <1>2, <1>4, <2>2, <2>3
<1>6. CASE CheckpointPause(w)
  <2>1. GoTo(w, Fresh("idle", NoNode))
    BY <1>6 DEF CheckpointPause, Idle
  <2>2. UNCHANGED <<queue, answered, now, crashes, runs, died, told, missed>>
    BY <1>6 DEF CheckpointPause
  <2> QED BY <1>1, <1>2, <1>4, <2>1, <2>2
<1> QED BY <1>5, <1>6

LEMMA CheckpointTypes ==
  ASSUME TypeOK, NEW w \in Worker, Settles(w) \/ CheckpointPause(w)
  PROVE  TypeOK'
<1>1. PICK row \in Row : SetRow(proc[w].node, row)
  BY CheckpointWrites
<1>2. PICK pc \in {"idle", "advance"}, n \in Node \cup {NoNode} :
        GoTo(w, Fresh(pc, n)) /\ (pc = "idle" \/ n = proc[w].node)
  BY CheckpointWrites
<1>3. Placed(w, Fresh(pc, n))
  BY <1>2, CheckpointWrites, PlacedFresh DEF Pcs
<1>4. /\ proc[w].node \in Node /\ UNCHANGED <<queue, now, crashes, runs, died, told, missed>>
      /\ answered' \subseteq Node
  BY CheckpointWrites DEF TypeOK
<1> QED BY <1>1, <1>2, <1>3, <1>4, WriteTypes

LEMMA RetryTypes ==
  ASSUME TypeOK, NEW w \in Worker, Retry(w) \/ Crash(w)
  PROVE  TypeOK'
<1>1. proc[w].node \in Node
  BY DEF TypeOK, Retry, Crash, Checkpoint, At
<1>2. GoTo(w, Fresh("retry", proc[w].node))
  BY DEF Retry, Crash
<1>3. Placed(w, Fresh("retry", proc[w].node))
  BY <1>1, PlacedFresh DEF Pcs
<1>4. crashes' \in 0..MaxCrashes
  BY CoordinatorAssumption DEF TypeOK, Retry, Crash, CoordinatorAssumption
<1>5. /\ now' \in 1..MaxNow /\ runs' \in [Node -> Nat] /\ told' \in [Node -> Nat]
      /\ queue' \in [Node -> 0..MaxQueued] /\ rows' \in [Node -> Row]
      /\ answered' \subseteq Node
  BY DEF TypeOK, Retry, Crash
<1>6. died' \in [Node -> Deaths]
  <2>1. died \in [Node -> Deaths] /\ died[proc[w].node] \in Deaths
    BY <1>1 DEF TypeOK
  <2>2. \A s \in {"execute", "checkpoint"} :
          [died[proc[w].node] EXCEPT ![s] = @ + 1] \in Deaths
    BY <2>1 DEF Deaths
  <2> QED BY <1>1, <2>1, <2>2 DEF Retry, Crash
<1>7. missed' \subseteq Node
  <2>1. missed \subseteq Node /\ proc[w].won \subseteq Node
    BY DEF TypeOK, IsPlace, Caller
  <2> QED BY <2>1 DEF Retry, Crash
<1> QED BY <1>2, <1>3, <1>4, <1>5, <1>6, <1>7, TypeStep

\* Where the three steps of advance() leave the caller.
LEMMA AdvanceMoves ==
  ASSUME TypeOK, NEW c \in Caller, Advance(c), Skips(rows) # {}
  PROVE  \E p : /\ GoTo(c, p) /\ Placed(c, p)
               /\ p.pc = "settle" /\ p.node = proc[c].node
               /\ p.verdict = proc[c].verdict /\ p.won = proc[c].won
               /\ DOMAIN p.ready = Ready(rows) /\ DOMAIN p.skips = Skips(rows)
<1> DEFINE p == [proc[c] EXCEPT !.pc = "settle", !.ready = Ranking(rows, Ready(rows)),
                                !.skips = Ranking(rows, Skips(rows))]
<1>1. GoTo(c, p) /\ IsPlace(proc[c])
  BY DEF Advance, TypeOK
<1>2. Ready(rows) \subseteq Node /\ Skips(rows) \subseteq Node
  BY DEF Ready, Skips, Undecided
<1>3. /\ IsRanking(Ranking(rows, Ready(rows))) /\ IsRanking(Ranking(rows, Skips(rows)))
      /\ DOMAIN Ranking(rows, Ready(rows)) = Ready(rows)
      /\ DOMAIN Ranking(rows, Skips(rows)) = Skips(rows)
  BY <1>2, RankingType
<1>4. /\ p.pc = "settle" /\ p.node = proc[c].node
      /\ p.verdict = proc[c].verdict /\ p.won = proc[c].won
      /\ p.ready = Ranking(rows, Ready(rows)) /\ p.skips = Ranking(rows, Skips(rows))
  BY <1>1 DEF IsPlace
<1>5. IsPlace(p)
  BY <1>1, <1>3, <1>4 DEF IsPlace
<1>6. c \in Worker => p.node \in Node
  BY <1>4 DEF TypeOK, Advance, At
<1>7. Placed(c, p)
  BY <1>5, <1>6 DEF Placed
<1> HIDE DEF p
<1> QED BY <1>1, <1>3, <1>4, <1>7

LEMMA SettleSkipMoves ==
  ASSUME TypeOK, NEW c \in Caller, SettleSkip(c)
  PROVE  \E n \in DOMAIN proc[c].skips : \E p :
           /\ n \in Node /\ GoTo(c, p) /\ Placed(c, p)
           /\ SetRow(n, IF SkipWins(rows[n]) THEN Skipped(rows[n]) ELSE rows[n])
           /\ p.pc = "settle" /\ p.node = proc[c].node /\ p.verdict = proc[c].verdict
           /\ p.ready = proc[c].ready
           /\ DOMAIN p.skips = DOMAIN proc[c].skips \ {n}
           /\ p.won = IF SkipWins(rows[n]) THEN proc[c].won \cup {n} ELSE proc[c].won
<1>1. PICK n \in DOMAIN proc[c].skips :
        /\ SetRow(n, IF SkipWins(rows[n]) THEN Skipped(rows[n]) ELSE rows[n])
        /\ GoTo(c, [proc[c] EXCEPT
                     !.skips = [m \in DOMAIN @ \ {n} |-> @[m]],
                     !.won = IF SkipWins(rows[n]) THEN @ \cup {n} ELSE @])
  BY DEF SettleSkip
<1> DEFINE p == [proc[c] EXCEPT
                  !.skips = [m \in DOMAIN @ \ {n} |-> @[m]],
                  !.won = IF SkipWins(rows[n]) THEN @ \cup {n} ELSE @]
<1>2. IsPlace(proc[c]) /\ proc[c].pc = "settle"
  BY DEF TypeOK, SettleSkip, At
<1>3. n \in Node
  BY <1>1, <1>2 DEF IsPlace, IsRanking
<1>4. /\ p.pc = "settle" /\ p.node = proc[c].node /\ p.verdict = proc[c].verdict
      /\ p.ready = proc[c].ready
      /\ p.skips = [m \in DOMAIN proc[c].skips \ {n} |-> proc[c].skips[m]]
      /\ p.won = IF SkipWins(rows[n]) THEN proc[c].won \cup {n} ELSE proc[c].won
  BY <1>2 DEF IsPlace
<1>5. IsRanking(p.skips) /\ DOMAIN p.skips = DOMAIN proc[c].skips \ {n}
  <2>1. IsRanking(proc[c].skips)
    BY <1>2 DEF IsPlace
  <2> HIDE DEF p
  <2> QED BY <1>4, <2>1 DEF IsRanking
<1>6. IsPlace(p)
  BY <1>2, <1>3, <1>4, <1>5 DEF IsPlace
<1>7. c \in Worker => p.node \in Node
  BY <1>2, <1>4 DEF TypeOK
<1>8. GoTo(c, p) /\ Placed(c, p)
  BY <1>1, <1>6, <1>7 DEF Placed
<1> HIDE DEF p
<1> QED BY <1>1, <1>3, <1>4, <1>5, <1>8

LEMMA AdvanceTypes ==
  ASSUME TypeOK, NEW c \in Caller, Advance(c)
  PROVE  TypeOK'
<1>1. /\ now' \in 1..MaxNow /\ runs' \in [Node -> Nat] /\ told' \in [Node -> Nat]
      /\ died' \in [Node -> Deaths] /\ missed' \subseteq Node
      /\ rows' \in [Node -> Row] /\ answered' \subseteq Node
  BY DEF TypeOK, Advance
<1>2. c \in Worker => proc[c].node \in Node
  BY DEF TypeOK, Advance, At
<1>3. CASE Skips(rows) = {}
  <2>1. PICK ids : HandOut(c, ids)
    BY <1>3 DEF Advance
  <2>2. PICK p : GoTo(c, p) /\ Placed(c, p)
    BY <1>2, <2>1, HandOutStep
  <2>3. queue' \in [Node -> 0..MaxQueued] /\ crashes' \in 0..MaxCrashes
    BY <1>2, <2>1, HandOutStep
  <2> QED BY <1>1, <2>2, <2>3, TypeStep
<1>4. CASE Skips(rows) # {}
  <2>1. PICK p : GoTo(c, p) /\ Placed(c, p)
    BY <1>4, AdvanceMoves
  <2>2. queue' \in [Node -> 0..MaxQueued] /\ crashes' \in 0..MaxCrashes
    BY <1>4 DEF TypeOK, Advance
  <2> QED BY <1>1, <2>1, <2>2, TypeStep
<1> QED BY <1>3, <1>4

LEMMA SettleSkipTypes ==
  ASSUME TypeOK, NEW c \in Caller, SettleSkip(c)
  PROVE  TypeOK'
<1>1. PICK n \in Node : \E p :
        /\ GoTo(c, p) /\ Placed(c, p)
        /\ SetRow(n, IF SkipWins(rows[n]) THEN Skipped(rows[n]) ELSE rows[n])
  BY SettleSkipMoves
<1>2. (IF SkipWins(rows[n]) THEN Skipped(rows[n]) ELSE rows[n]) \in Row
  BY RowTypes DEF TypeOK
<1>3. UNCHANGED <<queue, now, crashes, runs, died, told, missed>> /\ answered' \subseteq Node
  BY DEF TypeOK, SettleSkip
<1> QED BY <1>1, <1>2, <1>3, WriteTypes

LEMMA FinishAdvanceTypes ==
  ASSUME TypeOK, NEW c \in Caller, FinishAdvance(c)
  PROVE  TypeOK'
<1>1. c \in Worker => proc[c].node \in Node
  BY DEF TypeOK, FinishAdvance, At
<1>2. PICK ids : HandOut(c, ids)
  BY DEF FinishAdvance
<1>3. PICK p : GoTo(c, p) /\ Placed(c, p)
  BY <1>1, <1>2, HandOutStep
<1>4. queue' \in [Node -> 0..MaxQueued] /\ crashes' \in 0..MaxCrashes
  BY <1>1, <1>2, HandOutStep
<1>5. told' \in [Node -> Nat] /\ died' \in [Node -> Deaths] /\ missed' \subseteq Node
  BY DEF TypeOK, FinishAdvance
<1>6. /\ now' \in 1..MaxNow /\ runs' \in [Node -> Nat]
      /\ rows' \in [Node -> Row] /\ answered' \subseteq Node
  BY DEF TypeOK, FinishAdvance
<1> QED BY <1>3, <1>4, <1>5, <1>6, TypeStep

LEMMA AnswerTypes ==
  ASSUME TypeOK, NEW n \in Node, AnswerAndRedispatch(n) \/ AnswerAndRelease(n)
  PROVE  TypeOK'
<1>1. answered' \subseteq Node
  BY DEF TypeOK, AnswerAndRedispatch, AnswerAndRelease
<1>2. CASE AnswerAndRedispatch(n)
  <2>1. GoTo(rows[n].owner, Fresh("retry", n))
    BY <1>2 DEF AnswerAndRedispatch
  <2>2. Placed(rows[n].owner, Fresh("retry", n))
    BY PlacedFresh DEF Pcs
  <2>3. /\ now' \in 1..MaxNow /\ runs' \in [Node -> Nat] /\ told' \in [Node -> Nat]
        /\ died' \in [Node -> Deaths] /\ missed' \subseteq Node
        /\ queue' \in [Node -> 0..MaxQueued] /\ rows' \in [Node -> Row]
        /\ crashes' \in 0..MaxCrashes
    BY <1>2 DEF TypeOK, AnswerAndRedispatch
  <2> QED BY <1>1, <2>1, <2>2, <2>3, TypeStep
<1>3. CASE AnswerAndRelease(n)
  <2>1. GoTo(Host, Fresh("advance", NoNode))
    BY <1>3 DEF AnswerAndRelease
  <2>2. Placed(Host, Fresh("advance", NoNode))
    BY PlacedFresh, CoordinatorAssumption DEF Pcs, CoordinatorAssumption
  <2>3. SetRow(n, Released) /\ UNCHANGED <<queue, now, crashes, runs, died, told, missed>>
    BY <1>3 DEF AnswerAndRelease
  <2> QED BY <1>1, <2>1, <2>2, <2>3, RowTypes, WriteTypes
<1> QED BY <1>2, <1>3

LEMMA TickTypes == TypeOK /\ Tick => TypeOK'
<1> SUFFICES ASSUME TypeOK, Tick PROVE TypeOK'
  OBVIOUS
<1>1. now' \in 1..MaxNow
  BY CoordinatorAssumption DEF TypeOK, Tick, CoordinatorAssumption
<1> QED BY <1>1 DEF TypeOK, Tick

LEMMA TypesPreserved == TypeOK /\ [Next]_vars => TypeOK'
<1> SUFFICES ASSUME TypeOK, [Next]_vars PROVE TypeOK'
  OBVIOUS
<1>1. ASSUME NEW w \in Worker, RunNode(w) PROVE TypeOK'
  <2>1. CASE \E n \in Node : Deliver(w, n)
    BY <2>1, DeliverTypes
  <2>2. CASE Redeliver(w)
    BY <2>2, RedeliverTypes
  <2>3. CASE Execute(w)
    BY <2>3, ExecuteTypes
  <2>4. CASE Settles(w) \/ CheckpointPause(w)
    BY <2>4, CheckpointTypes
  <2>5. CASE Retry(w)
    BY <2>5, RetryTypes
  <2> QED BY <1>1, <2>1, <2>2, <2>3, <2>4, <2>5 DEF RunNode, Settles
<1>2. ASSUME NEW c \in Caller, AdvanceSteps(c) PROVE TypeOK'
  BY <1>2, AdvanceTypes, SettleSkipTypes, FinishAdvanceTypes DEF AdvanceSteps
<1>3. CASE UNCHANGED vars
  BY <1>3 DEF vars, TypeOK
<1> QED BY <1>1, <1>2, <1>3, RetryTypes, AnswerTypes, TickTypes DEF Next

\* Type correctness, for every graph and every number of workers.
THEOREM TypeCorrect == Spec => []TypeOK
BY InitTypes, TypesPreserved, PTL DEF Spec

-----------------------------------------------------------------------------
(* The inductive invariant. *)

Begun == {"claimed", "paused", "completed", "failed"}

\* A node some job, claim or result exists for.
Touched(n) ==
  \/ queue[n] > 0
  \/ rows[n].status \in Begun
  \/ \E w \in Worker : proc[w].pc # "idle" /\ proc[w].node = n

Reached(n) == n \notin Note /\ Lit(rows, n)

ReachedInv ==
  /\ \A n \in Node : Touched(n) => Reached(n) /\ Sources(n) \subseteq Settled(rows)
  /\ \A c \in Caller : \A n \in DOMAIN proc[c].ready :
       Reached(n) /\ Sources(n) \subseteq Settled(rows) \cup DOMAIN proc[c].skips

\* Nothing in D can ever be reached, and every skip is decided within D.
Doomed(D) ==
  /\ \A n \in D : /\ ~Reached(n)
                 /\ rows[n].status \in {"absent", "skipped"}
                 /\ Sources(n) \subseteq Settled(rows) \cup D
  /\ \A c \in Caller : DOMAIN proc[c].skips \subseteq D
  /\ \A n \in Node : rows[n].status = "skipped" => n \in D \cup Lane

DoomInv == \E D \in SUBSET Node : Doomed(D)

AbsentInv == \A n \in Node : rows[n].status = "absent" => rows[n] = Absent

IInv == /\ TypeOK
        /\ HolderOwnsRow
        /\ EngineAgreesWithFrontier
        /\ ReachedInv
        /\ DoomInv
        /\ AbsentInv

LEMMA SourcesAreNodes ==
  /\ \A n : Sources(n) \subseteq Node
  /\ \A n, e : e \in Incoming(n) => e \in Edges /\ e.source \in Node /\ e.source \in Sources(n)
BY GraphAssumption DEF GraphAssumption, Sources, Incoming

\* What is settled stays settled, and what is lit stays lit.
LEMMA Stable ==
  ASSUME \A m \in Node : IsSettled(rows[m]) => rows'[m] = rows[m]
  PROVE  /\ Settled(rows) \subseteq Settled(rows')
         /\ \A n : Lit(rows, n) => Lit(rows', n)
<1>1. Settled(rows) \subseteq Settled(rows')
  BY DEF Settled
<1>2. ASSUME NEW n, Lit(rows, n) PROVE Lit(rows', n)
  <2>1. CASE Incoming(n) = {}
    BY <2>1 DEF Lit
  <2>2. CASE Incoming(n) # {}
    <3>1. PICK e \in Incoming(n) : Active(rows, e)
      BY <1>2, <2>2 DEF Lit
    <3>2. rows'[e.source] = rows[e.source]
      BY <3>1, SourcesAreNodes DEF Active, IsSettled
    <3> QED BY <3>1, <3>2 DEF Lit, Active
  <2> QED BY <2>1, <2>2
<1> QED BY <1>1, <1>2

\* What is dead stays dead, when its sources are settled or never complete.
LEMMA DeadStays ==
  ASSUME \A m \in Node : IsSettled(rows[m]) => rows'[m] = rows[m],
         NEW D, \A m \in D : rows'[m].status \in {"absent", "skipped"},
         NEW n, Sources(n) \subseteq Settled(rows) \cup D, ~Lit(rows, n)
  PROVE  ~Lit(rows', n)
<1> SUFFICES ASSUME NEW e \in Incoming(n), Active(rows', e) PROVE FALSE
  BY DEF Lit
<1>1. e.source \in Sources(n) /\ e.source \in Node
  BY SourcesAreNodes
<1>2. e.source \notin D
  BY DEF Active
<1>3. rows'[e.source] = rows[e.source]
  BY <1>1, <1>2 DEF Settled
<1> QED BY <1>3 DEF Active, Lit

\* One caller moves and rows change: what that asks for to keep IInv.
LEMMA IInvStep ==
  ASSUME IInv, TypeOK', NEW c, NEW p, GoTo(c, p),
         \A m \in Node : IsSettled(rows[m]) => rows'[m] = rows[m],
         \A m \in Node : rows'[m].status = "absent" => rows'[m] = Absent,
         c \in Worker /\ p.pc # "idle" => Touched(p.node),
         \A m \in Node : queue'[m] > 0 =>
           queue[m] > 0 \/ (Reached(m) /\ Sources(m) \subseteq Settled(rows)),
         \A m \in Node : rows'[m].status \in Begun => Touched(m),
         \A w \in Worker : w # c /\ proc[w].pc \in {"execute", "checkpoint"} =>
           rows'[proc[w].node] = rows[proc[w].node],
         c \in Worker /\ p.pc \in {"execute", "checkpoint"} =>
           rows'[p.node].status = "claimed" /\ rows'[p.node].owner = c,
         c \in Worker /\ p.pc = "checkpoint" /\ p.verdict.kind = "skip" => p.node \in Lane,
         \A m \in DOMAIN p.ready :
           Reached(m) /\ Sources(m) \subseteq Settled(rows') \cup DOMAIN p.skips,
         NEW D \in SUBSET Node, Doomed(D), DOMAIN p.skips \subseteq D,
         \A m \in D : rows'[m].status \in {"absent", "skipped"},
         \A m \in Node : rows'[m].status = "skipped" => m \in D \cup Lane
  PROVE  IInv'
<1>1. \A d \in Caller : proc'[d] = IF d = c THEN p ELSE proc[d]
  BY GoToStep DEF IInv, TypeOK
<1>2. Settled(rows) \subseteq Settled(rows') /\ \A n : Lit(rows, n) => Lit(rows', n)
  BY Stable
<1>3. HolderOwnsRow'
  BY <1>1 DEF IInv, HolderOwnsRow, Caller
<1>4. EngineAgreesWithFrontier'
  BY <1>1 DEF IInv, EngineAgreesWithFrontier, At, Caller
<1>5. ReachedInv'
  <2>1. ASSUME NEW n \in Node, Touched(n)'
        PROVE  (Reached(n) /\ Sources(n) \subseteq Settled(rows))'
    <3>1. Touched(n) \/ (Reached(n) /\ Sources(n) \subseteq Settled(rows))
      BY <1>1, <2>1 DEF Touched, Caller
    <3>2. Reached(n) /\ Sources(n) \subseteq Settled(rows)
      BY <3>1 DEF IInv, ReachedInv
    <3> QED BY <1>2, <3>2 DEF Reached
  <2>2. ASSUME NEW d \in Caller, NEW n \in DOMAIN proc'[d].ready
        PROVE  (Reached(n) /\ Sources(n) \subseteq Settled(rows) \cup DOMAIN proc[d].skips)'
    <3>1. CASE d = c
      <4>1. proc'[d] = p
        BY <1>1, <3>1
      <4>2. Reached(n) /\ Sources(n) \subseteq Settled(rows') \cup DOMAIN p.skips
        BY <2>2, <4>1
      <4> QED BY <1>2, <4>1, <4>2 DEF Reached
    <3>2. CASE d # c
      <4>1. proc'[d] = proc[d]
        BY <1>1, <3>2
      <4>2. Reached(n) /\ Sources(n) \subseteq Settled(rows) \cup DOMAIN proc[d].skips
        BY <2>2, <4>1 DEF IInv, ReachedInv
      <4> QED BY <1>2, <4>1, <4>2 DEF Reached
    <3> QED BY <3>1, <3>2
  <2> QED BY <2>1, <2>2 DEF ReachedInv
<1>6. DoomInv'
  <2>1. ASSUME NEW n \in D
        PROVE  (~Reached(n) /\ Sources(n) \subseteq Settled(rows) \cup D)'
    <3>1. ~Reached(n) /\ Sources(n) \subseteq Settled(rows) \cup D
      BY DEF Doomed
    <3>2. ~Lit(rows, n) => ~Lit(rows', n)
      BY <3>1, DeadStays
    <3> QED BY <1>2, <3>1, <3>2 DEF Reached
  <2>2. \A d \in Caller : DOMAIN proc'[d].skips \subseteq D
    BY <1>1 DEF Doomed
  <2>3. Doomed(D)'
    BY <2>1, <2>2 DEF Doomed
  <2> QED BY <2>3 DEF DoomInv
<1>7. AbsentInv'
  BY DEF AbsentInv
<1> QED BY <1>3, <1>4, <1>5, <1>6, <1>7 DEF IInv

\* The two action properties, as one relation between rows and rows'.
Steady ==
  \A n \in Node :
    /\ IsSettled(rows[n]) => rows'[n] = rows[n]
    /\ rows[n].first # 0 /\ rows'[n].first # 0 => rows'[n].first = rows[n].first

LEMMA TouchedNotDoomed ==
  ASSUME IInv, NEW D, Doomed(D), NEW n \in Node, Touched(n)
  PROVE  n \notin D
BY DEF IInv, ReachedInv, Doomed

\* A step that moves one caller to the start of a step and writes no row.
LEMMA MoveStep ==
  ASSUME IInv, TypeOK', NEW c, NEW p, GoTo(c, p), rows' = rows, Clear(p),
         p.pc \notin {"execute", "checkpoint"},
         c \in Worker /\ p.pc # "idle" => p.node \in Node /\ Touched(p.node),
         \A m \in Node : queue'[m] > 0 =>
           queue[m] > 0 \/ (Reached(m) /\ Sources(m) \subseteq Settled(rows))
  PROVE  IInv' /\ Steady
<1>1. PICK D \in SUBSET Node : Doomed(D)
  BY DEF IInv, DoomInv
<1>2. \A m \in D : rows'[m].status \in {"absent", "skipped"}
  BY <1>1 DEF Doomed
<1>3. \A m \in Node : rows'[m].status = "skipped" => m \in D \cup Lane
  BY <1>1 DEF Doomed
<1>4. \A m \in Node : rows'[m].status \in Begun => Touched(m)
  BY DEF Touched
<1>5. \A m \in Node : rows'[m].status = "absent" => rows'[m] = Absent
  BY DEF IInv, AbsentInv
<1>6. DOMAIN p.ready = {} /\ DOMAIN p.skips = {}
  BY DEF Clear
<1>7. IInv'
  BY <1>1, <1>2, <1>3, <1>4, <1>5, <1>6, IInvStep
<1> QED BY <1>7 DEF Steady

\* A step that writes the unsettled row of a touched node and moves one caller.
LEMMA WriteStep ==
  ASSUME IInv, TypeOK', NEW c, NEW p, GoTo(c, p), Clear(p),
         NEW n \in Node, NEW row \in Row, SetRow(n, row),
         Touched(n), ~IsSettled(rows[n]),
         \/ row.status \in Begun
         \/ row = Absent
         \/ row.status = "skipped" /\ n \in Lane,
         rows[n].first # 0 /\ row.first # 0 => row.first = rows[n].first,
         \A w \in Worker : w # c /\ proc[w].pc \in {"execute", "checkpoint"} =>
           proc[w].node # n,
         \A m \in Node : queue'[m] > 0 => queue[m] > 0,
         c \in Worker /\ p.pc # "idle" => p.node = n,
         c \in Worker /\ p.pc \in {"execute", "checkpoint"} =>
           row.status = "claimed" /\ row.owner = c,
         p.pc # "checkpoint"
  PROVE  IInv' /\ Steady
<1>1. PICK D \in SUBSET Node : Doomed(D)
  BY DEF IInv, DoomInv
<1>2. rows' \in [Node -> Row] /\ rows'[n] = row /\ \A m \in Node : m # n => rows'[m] = rows[m]
  BY SetRowStep DEF IInv, TypeOK
<1>3. Absent.status = "absent"
  BY DEF Absent
<1>4. n \notin D
  BY <1>1, TouchedNotDoomed
<1>5. \A m \in D : rows'[m].status \in {"absent", "skipped"}
  BY <1>1, <1>2, <1>4 DEF Doomed
<1>6. \A m \in Node : rows'[m].status = "skipped" => m \in D \cup Lane
  BY <1>1, <1>2, <1>3 DEF Doomed, Begun
<1>7. \A m \in Node : rows'[m].status \in Begun => Touched(m)
  BY <1>2 DEF Touched
<1>8. \A m \in Node : rows'[m].status = "absent" => rows'[m] = Absent
  BY <1>2 DEF IInv, AbsentInv, Begun
<1>9. \A m \in Node : IsSettled(rows[m]) => rows'[m] = rows[m]
  BY <1>2
<1>10. DOMAIN p.ready = {} /\ DOMAIN p.skips = {}
  BY DEF Clear
<1>11. \A w \in Worker : w # c /\ proc[w].pc \in {"execute", "checkpoint"} =>
         rows'[proc[w].node] = rows[proc[w].node]
  BY <1>2 DEF IInv, TypeOK
<1>12. c \in Worker /\ p.pc # "idle" => Touched(p.node)
  OBVIOUS
<1>13. c \in Worker /\ p.pc \in {"execute", "checkpoint"} =>
         rows'[p.node].status = "claimed" /\ rows'[p.node].owner = c
  BY <1>2
<1>14. IInv'
  BY <1>1, <1>5, <1>6, <1>7, <1>8, <1>9, <1>10, <1>11, <1>12, <1>13, IInvStep
<1>15. Steady
  BY <1>2, <1>9 DEF Steady
<1> QED BY <1>14, <1>15

LEMMA InitIInv == Init => IInv
<1> SUFFICES ASSUME Init PROVE IInv
  OBVIOUS
<1>1. TypeOK
  BY InitTypes
<1>2. \A n \in Node : rows[n] = Absent /\ queue[n] = 0
  BY DEF Init
<1>3. Absent.status = "absent"
  BY DEF Absent
<1>4. \A w \in Worker : proc[w].pc = "idle"
  BY CoordinatorAssumption, FreshFields DEF Init, Idle, Caller, CoordinatorAssumption
<1>5. \A c \in Caller : DOMAIN proc[c].ready = {} /\ DOMAIN proc[c].skips = {}
  BY FreshFields DEF Init, Idle, Clear
<1>6. HolderOwnsRow /\ EngineAgreesWithFrontier
  BY <1>4 DEF HolderOwnsRow, EngineAgreesWithFrontier, At
<1>7. ReachedInv
  BY <1>2, <1>3, <1>4, <1>5 DEF ReachedInv, Touched, Begun
<1>8. Doomed({})
  BY <1>2, <1>3, <1>5 DEF Doomed
<1> QED BY <1>1, <1>2, <1>6, <1>7, <1>8 DEF IInv, DoomInv, AbsentInv

\* A claim that is won leaves the row claimed by the worker that won it.
LEMMA ClaimedFields ==
  ASSUME NEW row \in Row, NEW w \in Owner, NEW t \in Nat, ClaimWins(row, w)
  PROVE  /\ Claimed(row, w, t).status = "claimed" /\ Claimed(row, w, t).owner = w
         /\ row.status # "absent" => Claimed(row, w, t).first = row.first
         /\ ~IsSettled(row)
<1>1. CASE row.status = "absent"
  BY <1>1 DEF Claimed, Absent, IsSettled
<1>2. CASE row.status # "absent"
  <2>1. IsHeld(row) /\ row.owner = w
    BY <1>2 DEF ClaimWins
  <2> QED BY <1>2, <2>1 DEF Claimed, Row, IsHeld, IsSettled
<1> QED BY <1>1, <1>2

LEMMA ClaimForKeeps ==
  ASSUME IInv, TypeOK', NEW w \in Worker, NEW n \in Node, ClaimFor(w, n), Touched(n),
         \A m \in Node : queue'[m] > 0 => queue[m] > 0
  PROVE  IInv' /\ Steady
<1>1. rows[n] \in Row /\ now \in Nat /\ w \in Owner
  BY CoordinatorAssumption DEF IInv, TypeOK, CoordinatorAssumption, Worker
<1>2. CASE ClaimWins(rows[n], w)
  <2> DEFINE row == Claimed(rows[n], w, now)
             p == Fresh("execute", n)
  <2>1. SetRow(n, row) /\ GoTo(w, p)
    BY <1>2 DEF ClaimFor, SetRow
  <2>2. row \in Row
    BY <1>1, RowTypes
  <2>3. row.status = "claimed" /\ row.owner = w /\ ~IsSettled(rows[n])
    BY <1>1, <1>2, ClaimedFields
  <2>4. rows[n].first # 0 /\ row.first # 0 => row.first = rows[n].first
    <3>1. CASE rows[n].status = "absent"
      BY <3>1 DEF IInv, AbsentInv, Absent
    <3> QED BY <1>1, <1>2, <3>1, ClaimedFields
  <2>5. Clear(p) /\ p.pc = "execute" /\ p.node = n
    BY FreshFields
  <2>6. ASSUME NEW v \in Worker, v # w, proc[v].pc \in {"execute", "checkpoint"},
               proc[v].node = n
        PROVE  FALSE
    <3>1. rows[n].status = "claimed" /\ rows[n].owner = v
      BY <2>6 DEF IInv, HolderOwnsRow
    <3> QED BY <1>2, <2>6, <3>1 DEF ClaimWins
  <2>7. row.status \in Begun
    BY <2>3 DEF Begun
  <2> HIDE DEF row, p
  <2> QED BY <2>1, <2>2, <2>3, <2>4, <2>5, <2>6, <2>7, WriteStep
<1>3. CASE ~ClaimWins(rows[n], w)
  <2> DEFINE p == Fresh("advance", n)
  <2>1. rows' = rows /\ GoTo(w, p)
    BY <1>3 DEF ClaimFor
  <2>2. Clear(p) /\ p.pc = "advance" /\ p.node = n
    BY FreshFields
  <2> HIDE DEF p
  <2> QED BY <2>1, <2>2, MoveStep
<1> QED BY <1>2, <1>3

LEMMA DeliverKeeps ==
  ASSUME IInv, TypeOK', NEW w \in Worker, NEW n \in Node, Deliver(w, n)
  PROVE  IInv' /\ Steady
<1>1. ClaimFor(w, n) /\ Touched(n)
  BY DEF Deliver, Touched
<1>2. \A m \in Node : queue'[m] > 0 => queue[m] > 0
  BY DEF IInv, TypeOK, Deliver
<1> QED BY <1>1, <1>2, ClaimForKeeps

LEMMA RedeliverKeeps ==
  ASSUME IInv, TypeOK', NEW w \in Worker, Redeliver(w)
  PROVE  IInv' /\ Steady
<1>1. proc[w].node \in Node
  BY DEF IInv, TypeOK, Redeliver, At
<1>2. ClaimFor(w, proc[w].node) /\ Touched(proc[w].node)
  BY <1>1 DEF Redeliver, Touched, At
<1>3. \A m \in Node : queue'[m] > 0 => queue[m] > 0
  BY DEF Redeliver
<1> QED BY <1>1, <1>2, <1>3, ClaimForKeeps

\* The engine's replay skips only what the catalogue alone knows as visual.
LEMMA ReplaySkips ==
  ASSUME NEW n \in Node, Reached(n), NEW v \in Replay(rows, n, answered), v.kind = "skip"
  PROVE  n \in Lane
<1>1. CASE ExecutorRuns(rows, n)
  BY <1>1 DEF Replay, Executed, Said
<1>2. CASE ~ExecutorRuns(rows, n)
  BY <1>2 DEF Replay, Said, ExecutorRuns, Reached
<1> QED BY <1>1, <1>2

LEMMA ExecuteKeeps ==
  ASSUME IInv, TypeOK', NEW w \in Worker, Execute(w)
  PROVE  IInv' /\ Steady
<1> DEFINE n == proc[w].node
<1>1. n \in Node /\ IsPlace(proc[w]) /\ w \in Caller /\ proc[w].pc = "execute"
  BY DEF IInv, TypeOK, Execute, At, Caller
<1>2. Touched(n) /\ Reached(n) /\ rows[n].status = "claimed" /\ rows[n].owner = w
  BY <1>1 DEF Touched, IInv, ReachedInv, HolderOwnsRow
<1>3. rows' = rows /\ queue' = queue
  BY DEF Execute
<1>4. PICK v \in Replay(rows, n, answered) :
        GoTo(w, [proc[w] EXCEPT !.pc = "checkpoint", !.verdict = v,
                                !.attempt = rows[n].attempts])
  BY DEF Execute
<1> DEFINE p == [proc[w] EXCEPT !.pc = "checkpoint", !.verdict = v,
                                !.attempt = rows[n].attempts]
<1>5. /\ p.pc = "checkpoint" /\ p.node = n /\ p.verdict = v
      /\ p.ready = proc[w].ready /\ p.skips = proc[w].skips
  BY <1>1 DEF IsPlace
<1>6. GoTo(w, p)
  BY <1>4
<1> HIDE DEF p
<1>7. p.verdict.kind = "skip" => p.node \in Lane
  BY <1>1, <1>2, <1>5, ReplaySkips
<1>8. PICK D \in SUBSET Node : Doomed(D)
  BY DEF IInv, DoomInv
<1>9. /\ DOMAIN p.skips \subseteq D
      /\ \A m \in D : rows'[m].status \in {"absent", "skipped"}
      /\ \A m \in Node : rows'[m].status = "skipped" => m \in D \cup Lane
  BY <1>1, <1>3, <1>5, <1>8 DEF Doomed
<1>10. \A m \in DOMAIN p.ready :
         Reached(m) /\ Sources(m) \subseteq Settled(rows') \cup DOMAIN p.skips
  BY <1>1, <1>3, <1>5 DEF IInv, ReachedInv
<1>11. \A m \in Node : rows'[m].status = "absent" => rows'[m] = Absent
  BY <1>3 DEF IInv, AbsentInv
<1>12. \A m \in Node : rows'[m].status \in Begun => Touched(m)
  BY <1>3 DEF Touched
<1>13. Touched(p.node) /\ rows'[p.node].status = "claimed" /\ rows'[p.node].owner = w
  BY <1>2, <1>3, <1>5
<1>14. IInv'
  BY <1>3, <1>6, <1>7, <1>8, <1>9, <1>10, <1>11, <1>12, <1>13, IInvStep
<1> QED BY <1>3, <1>14 DEF Steady

\* The four rows a checkpoint can write, over the row its worker holds.
LEMMA CheckpointRow ==
  ASSUME IInv, NEW w \in Worker, Settles(w) \/ CheckpointPause(w)
  PROVE  LET n == proc[w].node IN
         /\ rows[n].status = "claimed" /\ rows[n].owner = w
         /\ \E row \in Row :
              /\ SetRow(n, row)
              /\ row.status \in Begun \/ (row.status = "skipped" /\ n \in Lane)
              /\ row.first = rows[n].first
<1> DEFINE n == proc[w].node
<1>1. At(w, "checkpoint") /\ n \in Node
  BY CheckpointWrites DEF IInv
<1>2. rows[n].status = "claimed" /\ rows[n].owner = w
  BY <1>1 DEF IInv, HolderOwnsRow, At
<1>3. rows[n] \in Row /\ proc[w].verdict.ports \subseteq RowPort
  <2>1. IsPlace(proc[w])
    BY DEF IInv, TypeOK, Caller
  <2> QED BY <1>1, <2>1, CoordinatorAssumption
          DEF IInv, TypeOK, IsPlace, Verdict, CoordinatorAssumption
<1>4. CASE CheckpointOutput(w)
  <2> DEFINE row == Completed(rows[n], proc[w].verdict.ports)
  <2>1. SetRow(n, row) /\ row \in Row
    BY <1>3, <1>4, RowTypes DEF CheckpointOutput
  <2>2. row.status = "completed" /\ row.first = rows[n].first
    BY <1>3 DEF Completed, Row
  <2> HIDE DEF row
  <2> QED BY <1>2, <2>1, <2>2 DEF Begun
<1>5. CASE CheckpointSkip(w)
  <2> DEFINE row == Skipped(rows[n])
  <2>1. SkipWins(rows[n])
    BY <1>2 DEF SkipWins, IsSettled
  <2>2. SetRow(n, row) /\ row \in Row
    BY <1>3, <1>5, <2>1, RowTypes DEF CheckpointSkip
  <2>3. row.status = "skipped" /\ row.first = rows[n].first
    BY <1>3 DEF Skipped, Row
  <2>4. n \in Lane
    BY <1>1, <1>5 DEF IInv, EngineAgreesWithFrontier, CheckpointSkip, Checkpoint
  <2> HIDE DEF row
  <2> QED BY <1>2, <2>2, <2>3, <2>4
<1>6. CASE CheckpointFailure(w)
  <2> DEFINE row == Failed(rows[n])
  <2>1. SetRow(n, row) /\ row \in Row
    BY <1>3, <1>6, RowTypes DEF CheckpointFailure
  <2>2. row.status = "failed" /\ row.first = rows[n].first
    BY <1>3 DEF Failed, Row
  <2> HIDE DEF row
  <2> QED BY <1>2, <2>1, <2>2 DEF Begun
<1>7. CASE CheckpointPause(w)
  <2> DEFINE row == Paused(rows[n])
  <2>1. SetRow(n, row) /\ row \in Row
    BY <1>3, <1>7, RowTypes DEF CheckpointPause
  <2>2. row.status = "paused" /\ row.first = rows[n].first
    BY <1>3 DEF Paused, Row
  <2> HIDE DEF row
  <2> QED BY <1>2, <2>1, <2>2 DEF Begun
<1> QED BY <1>4, <1>5, <1>6, <1>7 DEF Settles

LEMMA CheckpointKeeps ==
  ASSUME IInv, TypeOK', NEW w \in Worker, Settles(w) \/ CheckpointPause(w)
  PROVE  IInv' /\ Steady
<1> DEFINE n == proc[w].node
<1>1. n \in Node /\ At(w, "checkpoint") /\ queue' = queue
  BY CheckpointWrites DEF IInv
<1>2. Touched(n)
  BY <1>1 DEF Touched, At
<1>3. rows[n].status = "claimed" /\ rows[n].owner = w
  BY CheckpointRow
<1>4. PICK row \in Row :
        /\ SetRow(n, row)
        /\ row.status \in Begun \/ (row.status = "skipped" /\ n \in Lane)
        /\ row.first = rows[n].first
  BY CheckpointRow
<1>5. PICK pc \in {"idle", "advance"}, k \in Node \cup {NoNode} :
        GoTo(w, Fresh(pc, k)) /\ (pc = "idle" \/ k = n)
  BY CheckpointWrites DEF IInv
<1> DEFINE p == Fresh(pc, k)
<1>6. Clear(p) /\ p.pc = pc /\ p.node = k /\ GoTo(w, p)
  BY <1>5, FreshFields
<1>7. ASSUME NEW v \in Worker, v # w, proc[v].pc \in {"execute", "checkpoint"}
      PROVE  proc[v].node # n
  BY <1>3, <1>7 DEF IInv, HolderOwnsRow
<1>8. ~IsSettled(rows[n])
  BY <1>3 DEF IsSettled
<1> HIDE DEF p
<1> QED BY <1>1, <1>2, <1>4, <1>5, <1>6, <1>7, <1>8, WriteStep

LEMMA RetryKeeps ==
  ASSUME IInv, TypeOK', NEW w \in Worker, Retry(w) \/ Crash(w)
  PROVE  IInv' /\ Steady
<1>1. proc[w].node \in Node /\ proc[w].pc # "idle"
  BY DEF IInv, TypeOK, Retry, Crash, Checkpoint, At
<1>2. GoTo(w, Fresh("retry", proc[w].node)) /\ rows' = rows /\ queue' = queue
  BY DEF Retry, Crash
<1> DEFINE p == Fresh("retry", proc[w].node)
<1>3. Clear(p) /\ p.pc = "retry" /\ p.node = proc[w].node /\ GoTo(w, p)
  BY <1>2, FreshFields
<1>4. Touched(p.node)
  BY <1>1, <1>3 DEF Touched
<1> HIDE DEF p
<1> QED BY <1>1, <1>2, <1>3, <1>4, MoveStep

\* Handing out only what is due, or dying while doing so, keeps IInv.
LEMMA HandOutKeeps ==
  ASSUME IInv, TypeOK', NEW c \in Caller, NEW ids, HandOut(c, ids), rows' = rows,
         proc[c].pc # "idle",
         \A m \in ids : m \in Node => Reached(m) /\ Sources(m) \subseteq Settled(rows)
  PROVE  IInv' /\ Steady
<1>1. TypeOK /\ (c \in Worker => proc[c].node \in Node)
  BY DEF IInv, TypeOK
<1>2. PICK p : /\ GoTo(c, p) /\ Placed(c, p) /\ Clear(p)
               /\ \/ p.pc = "idle"
                  \/ p.pc = "retry" /\ c \in Worker /\ p.node = proc[c].node
  BY <1>1, HandOutStep
<1>3. PICK some \in SUBSET ids : Enqueue(some)
  BY <1>1, HandOutStep
<1>4. \A m \in Node : queue'[m] > 0 =>
        queue[m] > 0 \/ (Reached(m) /\ Sources(m) \subseteq Settled(rows))
  BY <1>3 DEF Enqueue
<1>5. c \in Worker /\ p.pc # "idle" => p.node \in Node /\ Touched(p.node)
  BY <1>1, <1>2 DEF Touched
<1> QED BY <1>2, <1>4, <1>5, MoveStep

\* The frontier's skips are doomed, together with those decided before.
LEMMA SkipsAreDoomed ==
  ASSUME NEW D \in SUBSET Node, Doomed(D)
  PROVE  D \cup Skips(rows) \in SUBSET Node /\ Doomed(D \cup Skips(rows))
<1> DEFINE K == Skips(rows)
<1>1. ASSUME NEW n \in K
      PROVE  /\ n \in Node /\ ~Reached(n) /\ rows[n].status = "absent"
             /\ Sources(n) \subseteq Settled(rows) \cup K
  <2>1. n \in Drops(rows, K)
    BY SkipsAreDropped
  <2> QED BY <2>1 DEF Drops, Unblocked, Undecided, Reached
<1> HIDE DEF K
<1>2. Doomed(D \cup K)
  BY <1>1 DEF Doomed
<1> QED BY <1>1, <1>2 DEF K

LEMMA AdvanceKeeps ==
  ASSUME IInv, TypeOK', NEW c \in Caller, Advance(c)
  PROVE  IInv' /\ Steady
<1>1. rows' = rows /\ proc[c].pc = "advance"
  BY DEF Advance, At
<1>2. CASE Skips(rows) = {}
  <2> DEFINE ids == SelectDispatch(Ranking(rows, Ready(rows)), rows, MaxConcurrent)
  <2>1. HandOut(c, ids)
    BY <1>2 DEF Advance
  <2>2. ids \subseteq Ready(rows)
    <3>1. Ready(rows) \subseteq Node
      BY DEF Ready
    <3> QED BY <3>1, RankingType DEF SelectDispatch
  <2>3. \A m \in ids : Reached(m) /\ Sources(m) \subseteq Settled(rows)
    BY <1>2, <2>2, ReadyIsReached DEF Reached
  <2> HIDE DEF ids
  <2> QED BY <1>1, <2>1, <2>3, HandOutKeeps
<1>3. CASE Skips(rows) # {}
  <2>1. PICK p : /\ GoTo(c, p) /\ p.pc = "settle" /\ p.node = proc[c].node
                 /\ DOMAIN p.ready = Ready(rows) /\ DOMAIN p.skips = Skips(rows)
    BY <1>3, AdvanceMoves DEF IInv
  <2>2. PICK D0 \in SUBSET Node : Doomed(D0)
    BY DEF IInv, DoomInv
  <2> DEFINE D == D0 \cup Skips(rows)
  <2>3. D \in SUBSET Node /\ Doomed(D) /\ DOMAIN p.skips \subseteq D
    BY <2>1, <2>2, SkipsAreDoomed
  <2> HIDE DEF D
  <2>4. /\ \A m \in D : rows'[m].status \in {"absent", "skipped"}
        /\ \A m \in Node : rows'[m].status = "skipped" => m \in D \cup Lane
    BY <1>1, <2>3 DEF Doomed
  <2>5. \A m \in DOMAIN p.ready :
          Reached(m) /\ Sources(m) \subseteq Settled(rows') \cup DOMAIN p.skips
    BY <1>1, <2>1, ReadyIsReached DEF Reached
  <2>6. c \in Worker => Touched(p.node)
    BY <1>1, <2>1 DEF IInv, TypeOK, Touched
  <2>7. queue' = queue
    BY <1>3 DEF Advance
  <2>8. \A m \in Node : rows'[m].status = "absent" => rows'[m] = Absent
    BY <1>1 DEF IInv, AbsentInv
  <2>9. \A m \in Node : rows'[m].status \in Begun => Touched(m)
    BY <1>1 DEF Touched
  <2>10. IInv'
    BY <1>1, <2>1, <2>3, <2>4, <2>5, <2>6, <2>7, <2>8, <2>9, IInvStep
  <2> QED BY <1>1, <2>10 DEF Steady
<1> QED BY <1>2, <1>3

LEMMA SettleSkipKeeps ==
  ASSUME IInv, TypeOK', NEW c \in Caller, SettleSkip(c)
  PROVE  IInv' /\ Steady
<1>1. TypeOK /\ proc[c].pc = "settle" /\ queue' = queue
  BY DEF IInv, SettleSkip, At
<1>2. PICK n \in DOMAIN proc[c].skips : \E p :
        /\ n \in Node /\ GoTo(c, p)
        /\ SetRow(n, IF SkipWins(rows[n]) THEN Skipped(rows[n]) ELSE rows[n])
        /\ p.pc = "settle" /\ p.node = proc[c].node /\ p.ready = proc[c].ready
        /\ DOMAIN p.skips = DOMAIN proc[c].skips \ {n}
  BY <1>1, SettleSkipMoves
<1>3. PICK p : /\ n \in Node /\ GoTo(c, p)
               /\ p.pc = "settle" /\ p.node = proc[c].node /\ p.ready = proc[c].ready
               /\ DOMAIN p.skips = DOMAIN proc[c].skips \ {n}
  BY <1>2
<1> DEFINE row == IF SkipWins(rows[n]) THEN Skipped(rows[n]) ELSE rows[n]
<1>4. rows[n] \in Row /\ row \in Row
  BY <1>1, <1>2, RowTypes DEF TypeOK
<1>5. PICK D \in SUBSET Node : Doomed(D)
  BY DEF IInv, DoomInv
<1>6. n \in D /\ ~Touched(n) /\ rows[n].status \in {"absent", "skipped"}
  BY <1>2, <1>5, TouchedNotDoomed DEF Doomed
<1>7. row.status = "skipped" /\ row.first = rows[n].first
  BY <1>4, <1>6 DEF SkipWins, IsSettled, Skipped, Row
<1>8. IsSettled(rows[n]) => row = rows[n]
  BY DEF SkipWins
<1>9. SetRow(n, row)
  BY <1>2
<1> HIDE DEF row
<1>10. rows' \in [Node -> Row] /\ rows'[n] = row /\ \A m \in Node : m # n => rows'[m] = rows[m]
  BY <1>1, <1>2, <1>4, <1>9, SetRowStep DEF TypeOK
<1>11. \A m \in Node : IsSettled(rows[m]) => rows'[m] = rows[m]
  BY <1>8, <1>10
<1>12. Settled(rows) \cup {n} \subseteq Settled(rows')
  <2>1. IsSettled(rows'[n])
    BY <1>7, <1>10 DEF IsSettled
  <2> QED BY <1>2, <1>11, <2>1 DEF Settled
<1>13. \A m \in DOMAIN p.ready :
         Reached(m) /\ Sources(m) \subseteq Settled(rows') \cup DOMAIN p.skips
  <2>1. \A m \in DOMAIN p.ready :
          Reached(m) /\ Sources(m) \subseteq Settled(rows) \cup DOMAIN proc[c].skips
    BY <1>3 DEF IInv, ReachedInv
  <2> QED BY <1>3, <1>12, <2>1
<1>14. /\ DOMAIN p.skips \subseteq D
       /\ \A m \in D : rows'[m].status \in {"absent", "skipped"}
       /\ \A m \in Node : rows'[m].status = "skipped" => m \in D \cup Lane
  BY <1>3, <1>5, <1>6, <1>7, <1>10 DEF Doomed
<1>15. c \in Worker => Touched(p.node)
  BY <1>1, <1>3 DEF TypeOK, Touched
<1>16. \A m \in Node : rows'[m].status = "absent" => rows'[m] = Absent
  BY <1>7, <1>10 DEF IInv, AbsentInv
<1>17. \A m \in Node : rows'[m].status \in Begun => Touched(m)
  BY <1>7, <1>10 DEF Touched, Begun
<1>18. \A w \in Worker : w # c /\ proc[w].pc \in {"execute", "checkpoint"} =>
         rows'[proc[w].node] = rows[proc[w].node]
  BY <1>1, <1>6, <1>10 DEF TypeOK, Touched
<1>19. IInv'
  BY <1>1, <1>3, <1>5, <1>11, <1>13, <1>14, <1>15, <1>16, <1>17, <1>18, IInvStep
<1>20. Steady
  BY <1>7, <1>10, <1>11 DEF Steady
<1> QED BY <1>19, <1>20

LEMMA FinishAdvanceKeeps ==
  ASSUME IInv, TypeOK', NEW c \in Caller, FinishAdvance(c)
  PROVE  IInv' /\ Steady
<1> DEFINE ids == SelectDispatch(proc[c].ready, rows, MaxConcurrent)
<1>1. /\ HandOut(c, ids) /\ rows' = rows
      /\ proc[c].pc = "settle" /\ DOMAIN proc[c].skips = {}
  BY DEF FinishAdvance, At
<1>2. ids \subseteq DOMAIN proc[c].ready
  BY DEF SelectDispatch
<1>3. \A m \in ids : Reached(m) /\ Sources(m) \subseteq Settled(rows)
  BY <1>1, <1>2 DEF IInv, ReachedInv
<1> HIDE DEF ids
<1> QED BY <1>1, <1>3, HandOutKeeps

LEMMA AnswerKeeps ==
  ASSUME IInv, TypeOK', NEW n \in Node, AnswerAndRedispatch(n) \/ AnswerAndRelease(n)
  PROVE  IInv' /\ Steady
<1>1. rows[n].status = "paused" /\ rows[n] \in Row /\ queue' = queue
  BY DEF IInv, TypeOK, AnswerAndRedispatch, AnswerAndRelease
<1>2. Touched(n)
  BY <1>1 DEF Touched, Begun
<1>3. CASE AnswerAndRedispatch(n)
  <2> DEFINE c == rows[n].owner
             p == Fresh("retry", n)
  <2>1. GoTo(c, p) /\ rows' = rows
    BY <1>3 DEF AnswerAndRedispatch
  <2>2. Clear(p) /\ p.pc = "retry" /\ p.node = n
    BY FreshFields
  <2> HIDE DEF c, p
  <2> QED BY <1>1, <1>2, <2>1, <2>2, MoveStep
<1>4. CASE AnswerAndRelease(n)
  <2> DEFINE p == Fresh("advance", NoNode)
  <2>1. GoTo(Host, p) /\ SetRow(n, Absent) /\ Absent \in Row
    BY <1>4, RowTypes DEF AnswerAndRelease, Released
  <2>2. Clear(p) /\ p.pc = "advance"
    BY FreshFields
  <2>3. Absent.first = 0 /\ Host \notin Worker
    BY CoordinatorAssumption DEF Absent, CoordinatorAssumption
  <2>4. \A w \in Worker : proc[w].pc \in {"execute", "checkpoint"} => proc[w].node # n
    BY <1>1 DEF IInv, HolderOwnsRow
  <2>5. ~IsSettled(rows[n])
    BY <1>1 DEF IsSettled
  <2> HIDE DEF p
  <2> QED BY <1>1, <1>2, <2>1, <2>2, <2>3, <2>4, <2>5, WriteStep
<1> QED BY <1>3, <1>4

\* Steps that leave the rows, the queue and every caller alone.
LEMMA StutterKeeps ==
  ASSUME IInv, TypeOK', UNCHANGED <<rows, queue, proc>>
  PROVE  IInv' /\ Steady
<1>1. HolderOwnsRow' /\ EngineAgreesWithFrontier' /\ AbsentInv'
  BY DEF IInv, HolderOwnsRow, EngineAgreesWithFrontier, At, AbsentInv
<1>2. ReachedInv'
  BY DEF IInv, ReachedInv, Touched, Reached
<1>3. DoomInv'
  BY DEF IInv, DoomInv, Doomed, Reached
<1> QED BY <1>1, <1>2, <1>3 DEF IInv, Steady

LEMMA IInvPreserved == IInv /\ [Next]_vars => IInv' /\ Steady
<1> SUFFICES ASSUME IInv, [Next]_vars PROVE IInv' /\ Steady
  OBVIOUS
<1>1. TypeOK'
  BY TypesPreserved DEF IInv
<1>2. ASSUME NEW w \in Worker, RunNode(w) PROVE IInv' /\ Steady
  <2>1. CASE \E n \in Node : Deliver(w, n)
    BY <1>1, <2>1, DeliverKeeps
  <2>2. CASE Redeliver(w)
    BY <1>1, <2>2, RedeliverKeeps
  <2>3. CASE Execute(w)
    BY <1>1, <2>3, ExecuteKeeps
  <2>4. CASE Settles(w) \/ CheckpointPause(w)
    BY <1>1, <2>4, CheckpointKeeps
  <2>5. CASE Retry(w)
    BY <1>1, <2>5, RetryKeeps
  <2> QED BY <1>2, <2>1, <2>2, <2>3, <2>4, <2>5 DEF RunNode, Settles
<1>3. ASSUME NEW c \in Caller, AdvanceSteps(c) PROVE IInv' /\ Steady
  BY <1>1, <1>3, AdvanceKeeps, SettleSkipKeeps, FinishAdvanceKeeps DEF AdvanceSteps
<1>4. CASE Tick
  BY <1>1, <1>4, StutterKeeps DEF Tick
<1>5. CASE UNCHANGED vars
  BY <1>1, <1>5, StutterKeeps DEF vars
<1> QED BY <1>1, <1>2, <1>3, <1>4, <1>5, RetryKeeps, AnswerKeeps DEF Next

\* IInv holds throughout every queued run; the properties below follow from it.
THEOREM Inductive == Spec => []IInv
BY InitIInv, IInvPreserved, PTL DEF Spec

-----------------------------------------------------------------------------
(* The properties. *)

\* Two workers are never inside run_node for one node: the row a worker is
\* going to write is claimed under its own token until it has written it.
THEOREM ClaimExclusive == Spec => []HolderOwnsRow
<1>1. IInv => HolderOwnsRow
  BY DEF IInv
<1> QED BY <1>1, Inductive, PTL

\* The engine's replay and the frontier never disagree about a branch.
THEOREM EngineAgrees == Spec => []EngineAgreesWithFrontier
<1>1. IInv => EngineAgreesWithFrontier
  BY DEF IInv
<1> QED BY <1>1, Inductive, PTL

\* Nothing is claimed, run or parked that the engine would not have reached.
THEOREM ReachedOnly == Spec => []OnlyReachedNodesRun
<1>1. ASSUME IInv PROVE OnlyReachedNodesRun
  <2> SUFFICES ASSUME NEW n \in Node,
                      IsHeld(rows[n]) \/ rows[n].status \in {"completed", "failed"}
               PROVE  SourcesSettled(n) /\ HasLiveInput(n) /\ n \notin Note
    BY DEF OnlyReachedNodesRun
  <2>1. Touched(n)
    BY DEF Touched, Begun, IsHeld
  <2>2. n \notin Note /\ Lit(rows, n) /\ Sources(n) \subseteq Settled(rows)
    BY <1>1, <2>1 DEF IInv, ReachedInv, Reached
  <2>3. SourcesSettled(n)
    BY <2>2 DEF SourcesSettled, Sources, Incoming, Settled
  <2>4. HasLiveInput(n)
    BY <2>2 DEF HasLiveInput, Lit, Incoming, Active
  <2> QED BY <2>2, <2>3, <2>4
<1> QED BY <1>1, Inductive, PTL

\* No interleaving settles as skipped a node that has, or ever gets, a live
\* input.
THEOREM SkipsDeadOnly == Spec => []OnlyDeadNodesSkipped
<1>1. ASSUME IInv PROVE OnlyDeadNodesSkipped
  <2>1. PICK D \in SUBSET Node : Doomed(D)
    BY <1>1 DEF IInv, DoomInv
  <2> SUFFICES ASSUME NEW n \in Node, rows[n].status = "skipped",
                      n \notin Note \cup Lane
               PROVE  ~HasLiveInput(n)
    BY DEF OnlyDeadNodesSkipped
  <2>2. ~Lit(rows, n)
    BY <2>1 DEF Doomed, Reached
  <2> QED BY <2>2 DEF HasLiveInput, Lit, Incoming, Active
<1> QED BY <1>1, Inductive, PTL

\* A settled row is never written again, by anyone.
THEOREM SettledFinal == Spec => SettledIsFinal
<1>1. IInv /\ [Next]_vars =>
        [\A n \in Node : IsSettled(rows[n]) => rows'[n] = rows[n]]_vars
  BY IInvPreserved DEF Steady
<1> QED BY <1>1, Inductive, PTL DEF Spec, SettledIsFinal

\* A retry, a crash or a resumed pause never restarts the clock of a claim.
THEOREM ClockNeverMoves == Spec => RetryClockNeverMoves
<1>1. IInv /\ [Next]_vars =>
        [\A n \in Node : rows[n].first # 0 /\ rows'[n].first # 0 =>
                           rows'[n].first = rows[n].first]_vars
  BY IInvPreserved DEF Steady
<1> QED BY <1>1, Inductive, PTL DEF Spec, RetryClockNeverMoves

-----------------------------------------------------------------------------
(* Diagnostics.  Only a caller in the middle of settle_skips owes any, and *)
(* a node changes hands in three steps: the caller that settles it owes    *)
(* its warnings, delivers them, or dies with them.                         *)

ToldInv ==
  /\ \A c \in Caller : At(c, "settle") \/ proc[c].won = {}
  /\ SkipsDiagnosedOnce

\* No caller wins a skip, delivers or loses one.
Quiet ==
  /\ told' = told /\ missed' = missed
  /\ \A c \in Caller : /\ proc'[c].won = proc[c].won
                       /\ proc'[c].pc = "settle" \/ proc'[c].won = {}
  /\ \A n \in Node \ Lane : rows'[n].status = "skipped" => rows[n].status = "skipped"

LEMMA QuietKeeps ==
  ASSUME ToldInv, Steady, Quiet
  PROVE  ToldInv'
<1>1. \A n \in Node : rows[n].status = "skipped" => rows'[n].status = "skipped"
  BY DEF Steady, IsSettled
<1>2. \A n \in Node : AccountedOnce(n)' = AccountedOnce(n)
  BY DEF Quiet, AccountedOnce, OwedByOne, OwedByNone
<1>3. \A n \in Node : NeverRaised(n)' = NeverRaised(n)
  BY DEF Quiet, NeverRaised, OwedByNone
<1>4. \A n \in Node \ Lane : rows'[n].status = "skipped" => rows[n].status = "skipped"
  BY DEF Quiet
<1>5. SkipsDiagnosedOnce'
  BY <1>1, <1>2, <1>3, <1>4 DEF ToldInv, SkipsDiagnosedOnce
<1> QED BY <1>5 DEF ToldInv, Quiet, At

\* A step that moves one caller, with nothing owed before it or after it.
LEMMA ClearIsQuiet ==
  ASSUME TypeOK, ToldInv, NEW c \in Caller, NEW p, GoTo(c, p), p.won = {},
         ~At(c, "settle"), told' = told, missed' = missed,
         \A n \in Node \ Lane : rows'[n].status = "skipped" => rows[n].status = "skipped"
  PROVE  Quiet
<1>1. proc[c].won = {}
  BY DEF ToldInv
<1>2. \A d \in Caller : proc'[d] = IF d = c THEN p ELSE proc[d]
  BY GoToStep DEF TypeOK
<1>3. \A d \in Caller : proc'[d].won = proc[d].won
  BY <1>1, <1>2
<1>4. \A d \in Caller : proc'[d].pc = "settle" \/ proc'[d].won = {}
  BY <1>2 DEF ToldInv, At
<1> QED BY <1>3, <1>4 DEF Quiet

\* A caller wins the skip of n: nothing was owed of n, and now c owes it.
LEMMA SettleSkipTold ==
  ASSUME IInv, ToldInv, Steady, NEW c \in Caller, SettleSkip(c)
  PROVE  ToldInv'
<1>1. TypeOK /\ told' = told /\ missed' = missed /\ At(c, "settle")
  BY DEF IInv, SettleSkip
<1>2. PICK n \in DOMAIN proc[c].skips : \E p :
        /\ n \in Node /\ GoTo(c, p) /\ p.pc = "settle"
        /\ SetRow(n, IF SkipWins(rows[n]) THEN Skipped(rows[n]) ELSE rows[n])
        /\ p.won = IF SkipWins(rows[n]) THEN proc[c].won \cup {n} ELSE proc[c].won
  BY <1>1, SettleSkipMoves
<1>3. \A d \in Caller :
        /\ proc'[d].won = IF d = c /\ SkipWins(rows[n])
                          THEN proc[c].won \cup {n} ELSE proc[d].won
        /\ proc'[d].pc = IF d = c THEN "settle" ELSE proc[d].pc
  BY <1>1, <1>2, GoToStep DEF TypeOK
<1>4. \A d \in Caller : proc'[d].pc = "settle" \/ proc'[d].won = {}
  BY <1>3 DEF ToldInv, At
<1>5. CASE SkipWins(rows[n])
  <2>1. rows' = [rows EXCEPT ![n] = Skipped(rows[n])] /\ n \in Node
    BY <1>2, <1>5 DEF SetRow
  <2>2. rows'[n].status = "skipped" /\ \A m \in Node : m # n => rows'[m] = rows[m]
    BY <1>1, <2>1 DEF TypeOK, Skipped, Row
  <2>3. NeverRaised(n)
    BY <1>5, <2>1 DEF SkipWins, IsSettled, ToldInv, SkipsDiagnosedOnce
  <2>4. AccountedOnce(n)'
    BY <1>1, <1>3, <1>5, <2>3 DEF NeverRaised, AccountedOnce, OwedByOne, OwedByNone
  <2>5. ASSUME NEW m \in Node, m # n
        PROVE  AccountedOnce(m)' = AccountedOnce(m) /\ NeverRaised(m)' = NeverRaised(m)
    <3>1. \A d \in Caller : m \in proc'[d].won <=> m \in proc[d].won
      BY <1>3, <2>5
    <3> QED BY <1>1, <3>1 DEF NeverRaised, AccountedOnce, OwedByOne, OwedByNone
  <2>6. SkipsDiagnosedOnce'
    BY <2>2, <2>4, <2>5 DEF ToldInv, SkipsDiagnosedOnce
  <2> QED BY <1>4, <2>6 DEF ToldInv, At
<1>6. CASE ~SkipWins(rows[n])
  <2>1. rows' = [rows EXCEPT ![n] = rows[n]]
    BY <1>2, <1>6 DEF SetRow
  <2>2. rows' = rows
    BY <1>1, <2>1 DEF TypeOK
  <2>3. Quiet
    BY <1>1, <1>3, <1>4, <1>6, <2>2 DEF Quiet
  <2> QED BY <2>3, QuietKeeps
<1> QED BY <1>5, <1>6

\* Caller c is done with what it owed: delivered if heard, and lost if not.
LEMMA NothingOwedAfter ==
  ASSUME TypeOK, ToldInv, NEW c \in Caller, NEW p, GoTo(c, p), p.won = {},
         rows' = rows, NEW heard \in BOOLEAN,
         told' = [n \in Node |-> IF heard /\ n \in proc[c].won THEN told[n] + 1 ELSE told[n]],
         missed' = IF heard THEN missed ELSE missed \cup proc[c].won
  PROVE  ToldInv'
<1>1. \A d \in Caller : proc'[d] = IF d = c THEN p ELSE proc[d]
  BY GoToStep DEF TypeOK
<1>2. \A d \in Caller : proc'[d].won = IF d = c THEN {} ELSE proc[d].won
  BY <1>1
<1>3. \A d \in Caller : proc'[d].pc = "settle" \/ proc'[d].won = {}
  BY <1>1 DEF ToldInv, At
<1>4. ASSUME NEW n \in Node
      PROVE  IF rows'[n].status = "skipped"
             THEN AccountedOnce(n)' \/ (n \in Lane /\ NeverRaised(n)')
             ELSE NeverRaised(n)'
  <2>1. IF rows[n].status = "skipped"
        THEN AccountedOnce(n) \/ (n \in Lane /\ NeverRaised(n)) ELSE NeverRaised(n)
    BY DEF ToldInv, SkipsDiagnosedOnce
  <2>2. CASE n \in proc[c].won
    <3>1. ~OwedByNone(n)
      BY <2>2 DEF OwedByNone
    <3>2. rows[n].status = "skipped" /\ told[n] = 0 /\ n \notin missed /\ OwedByOne(n)
      BY <2>1, <3>1 DEF AccountedOnce, NeverRaised
    <3>3. OwedByNone(n)'
      BY <1>2, <2>2, <3>2 DEF OwedByOne, OwedByNone
    <3>4. CASE heard
      <4>1. told'[n] = 1 /\ n \notin missed'
        BY <2>2, <3>2, <3>4
      <4> QED BY <3>2, <3>3, <4>1 DEF AccountedOnce
    <3>5. CASE ~heard
      <4>1. told'[n] = 0 /\ n \in missed'
        BY <2>2, <3>2, <3>5
      <4> QED BY <3>2, <3>3, <4>1 DEF AccountedOnce
    <3> QED BY <3>4, <3>5
  <2>3. CASE n \notin proc[c].won
    <3>1. told'[n] = told[n] /\ (n \in missed' <=> n \in missed)
      BY <2>3
    <3>2. \A d \in Caller : n \in proc'[d].won <=> n \in proc[d].won
      BY <1>2, <2>3
    <3>3. AccountedOnce(n)' = AccountedOnce(n) /\ NeverRaised(n)' = NeverRaised(n)
      BY <3>1, <3>2 DEF NeverRaised, AccountedOnce, OwedByOne, OwedByNone
    <3> QED BY <2>1, <3>3
  <2> QED BY <2>2, <2>3
<1>5. SkipsDiagnosedOnce'
  BY <1>4 DEF SkipsDiagnosedOnce
<1> QED BY <1>3, <1>5 DEF ToldInv, At

LEMMA FinishAdvanceTold ==
  ASSUME IInv, ToldInv, NEW c \in Caller, FinishAdvance(c)
  PROVE  ToldInv'
<1>1. TypeOK /\ rows' = rows /\ missed' = missed
  BY DEF IInv, FinishAdvance
<1>2. told' = [n \in Node |-> IF TRUE /\ n \in proc[c].won THEN told[n] + 1 ELSE told[n]]
  BY DEF FinishAdvance
<1>3. c \in Worker => proc[c].node \in Node
  BY DEF IInv, TypeOK, FinishAdvance, At
<1>4. PICK ids : HandOut(c, ids)
  BY DEF FinishAdvance
<1>5. PICK p : GoTo(c, p) /\ p.won = {}
  BY <1>1, <1>3, <1>4, HandOutStep DEF Clear
<1> QED BY <1>1, <1>2, <1>5, NothingOwedAfter

LEMMA CrashTold ==
  ASSUME IInv, ToldInv, NEW w \in Worker, Crash(w)
  PROVE  ToldInv'
<1>1. TypeOK /\ rows' = rows /\ w \in Caller
  BY DEF IInv, Crash, Caller
<1>2. told' = [n \in Node |-> IF FALSE /\ n \in proc[w].won THEN told[n] + 1 ELSE told[n]]
  BY <1>1 DEF Crash, TypeOK
<1>3. missed' = missed \cup proc[w].won
  BY DEF Crash
<1>4. GoTo(w, Fresh("retry", proc[w].node)) /\ Fresh("retry", proc[w].node).won = {}
  BY FreshFields DEF Crash, Clear
<1> QED BY <1>1, <1>2, <1>3, <1>4, NothingOwedAfter

\* The steps of run_node skip a lane and nothing else.
LEMMA RunNodeSkips ==
  ASSUME IInv, NEW w \in Worker, RunNode(w), NEW n \in Node \ Lane,
         rows'[n].status = "skipped"
  PROVE  rows[n].status = "skipped"
<1>1. TypeOK /\ EngineAgreesWithFrontier /\ rows \in [Node -> Row]
  BY DEF IInv, TypeOK
<1>2. CASE (\E m \in Node : Deliver(w, m)) \/ Redeliver(w)
  <2>1. PICK m \in Node : ClaimFor(w, m)
    BY <1>1, <1>2 DEF Deliver, Redeliver, TypeOK, At
  <2>2. Claimed(rows[m], w, now).status = "claimed"
    BY <1>1 DEF Claimed, Row, Absent
  <2>3. rows' = rows \/ rows' = [rows EXCEPT ![m] = Claimed(rows[m], w, now)]
    BY <2>1 DEF ClaimFor
  <2> QED BY <1>1, <2>2, <2>3
<1>3. CASE Execute(w) \/ Retry(w)
  BY <1>3 DEF Execute, Retry
<1>4. CASE Settles(w) \/ CheckpointPause(w)
  <2> DEFINE k == proc[w].node
  <2>1. k \in Node /\ rows[k] \in Row
    BY <1>1, <1>4, CheckpointWrites
  <2>2. CheckpointSkip(w) => k \in Lane
    BY <1>1 DEF CheckpointSkip, Checkpoint, EngineAgreesWithFrontier
  <2>3. /\ Completed(rows[k], proc[w].verdict.ports).status = "completed"
        /\ Failed(rows[k]).status = "failed" /\ Paused(rows[k]).status = "paused"
    BY <2>1 DEF Completed, Failed, Paused, Row
  <2>4. \E row : /\ rows' = [rows EXCEPT ![k] = row]
                 /\ row.status # "skipped" \/ k \in Lane
    BY <1>4, <2>2, <2>3 DEF Settles, CheckpointOutput, CheckpointFailure, CheckpointPause,
                            CheckpointSkip, SetRow
  <2> HIDE DEF k
  <2> QED BY <1>1, <2>1, <2>4
<1> QED BY <1>2, <1>3, <1>4 DEF RunNode, Settles

LEMMA ToldPreserved == IInv /\ ToldInv /\ [Next]_vars => ToldInv'
<1> SUFFICES ASSUME IInv, ToldInv, [Next]_vars PROVE ToldInv'
  OBVIOUS
<1>1. TypeOK /\ Steady
  BY IInvPreserved DEF IInv
<1>2. \A pc, n : Fresh(pc, n).won = {}
  BY FreshFields DEF Clear
<1>3. ASSUME NEW w \in Worker, RunNode(w) PROVE Quiet
  <2>1. told' = told /\ missed' = missed /\ w \in Caller
    BY <1>3 DEF RunNode, Deliver, Redeliver, Execute, CheckpointOutput, CheckpointPause,
                CheckpointSkip, CheckpointFailure, Retry, Caller
  <2>2. \A n \in Node \ Lane : rows'[n].status = "skipped" => rows[n].status = "skipped"
    BY <1>3, RunNodeSkips
  <2>3. ~At(w, "settle")
    BY <1>3 DEF RunNode, Deliver, HasRoom, Redeliver, Execute, CheckpointOutput,
                CheckpointPause, CheckpointSkip, CheckpointFailure, Retry, Checkpoint, At
  <2>4. CASE (\E n \in Node : Deliver(w, n)) \/ Redeliver(w)
    <3>1. \E pc, n : GoTo(w, Fresh(pc, n))
      BY <2>4 DEF Deliver, Redeliver, ClaimFor
    <3> QED BY <1>1, <1>2, <2>1, <2>2, <2>3, <3>1, ClearIsQuiet
  <2>5. CASE Execute(w)
    <3>1. PICK v, a : GoTo(w, [proc[w] EXCEPT !.pc = "checkpoint", !.verdict = v,
                                              !.attempt = a])
      BY <2>5 DEF Execute
    <3> DEFINE p == [proc[w] EXCEPT !.pc = "checkpoint", !.verdict = v, !.attempt = a]
    <3>2. GoTo(w, p) /\ p.won = proc[w].won
      BY <1>1, <2>1, <3>1 DEF TypeOK, IsPlace
    <3>3. proc[w].won = {}
      BY <2>1, <2>3 DEF ToldInv
    <3> HIDE DEF p
    <3> QED BY <1>1, <2>1, <2>2, <2>3, <3>2, <3>3, ClearIsQuiet
  <2>6. CASE Settles(w) \/ CheckpointPause(w)
    <3>1. \E pc, n : GoTo(w, Fresh(pc, n))
      BY <1>1, <2>6, CheckpointWrites
    <3> QED BY <1>1, <1>2, <2>1, <2>2, <2>3, <3>1, ClearIsQuiet
  <2>7. CASE Retry(w)
    <3>1. \E pc, n : GoTo(w, Fresh(pc, n))
      BY <2>7 DEF Retry
    <3> QED BY <1>1, <1>2, <2>1, <2>2, <2>3, <3>1, ClearIsQuiet
  <2> QED BY <1>3, <2>4, <2>5, <2>6, <2>7 DEF RunNode, Settles
<1>4. ASSUME NEW c \in Caller, Advance(c) PROVE Quiet
  <2>1. /\ told' = told /\ missed' = missed /\ rows' = rows /\ ~At(c, "settle")
        /\ c \in Worker => proc[c].node \in Node
    BY <1>1, <1>4 DEF Advance, TypeOK, At
  <2>2. CASE Skips(rows) = {}
    <3>1. PICK ids : HandOut(c, ids)
      BY <1>4, <2>2 DEF Advance
    <3>2. PICK p : GoTo(c, p) /\ Clear(p)
      BY <1>1, <2>1, <3>1, HandOutStep
    <3> QED BY <1>1, <2>1, <3>2, ClearIsQuiet DEF Clear
  <2>3. CASE Skips(rows) # {}
    <3>1. PICK p : GoTo(c, p) /\ p.won = proc[c].won
      BY <1>1, <1>4, <2>3, AdvanceMoves
    <3>2. proc[c].won = {}
      BY <2>1 DEF ToldInv
    <3> QED BY <1>1, <2>1, <3>1, <3>2, ClearIsQuiet
  <2> QED BY <2>2, <2>3
<1>5. ASSUME NEW n \in Node, AnswerAndRedispatch(n) \/ AnswerAndRelease(n) PROVE Quiet
  <2>1. told' = told /\ missed' = missed
    BY <1>5 DEF AnswerAndRedispatch, AnswerAndRelease
  <2>2. rows' = rows \/ rows' = [rows EXCEPT ![n] = Released]
    BY <1>5 DEF AnswerAndRedispatch, AnswerAndRelease, SetRow
  <2>3. \A m \in Node \ Lane : rows'[m].status = "skipped" => rows[m].status = "skipped"
    BY <1>1, <2>2 DEF TypeOK, Released, Absent
  <2>4. PICK c, pc, k : GoTo(c, Fresh(pc, k)) /\ At(c, "idle")
    BY <1>5 DEF AnswerAndRedispatch, AnswerAndRelease
  <2>5. CASE c \in Caller
    <3>1. ~At(c, "settle")
      BY <2>4 DEF At
    <3> QED BY <1>1, <1>2, <2>1, <2>3, <2>4, <2>5, <3>1, ClearIsQuiet
  <2>6. CASE c \notin Caller
    <3>1. \A d \in Caller : proc'[d] = proc[d]
      BY <1>1, <2>4, <2>6, GoToStep DEF TypeOK
    <3> QED BY <2>1, <2>3, <3>1 DEF Quiet, ToldInv, At
  <2> QED BY <2>5, <2>6
<1>6. CASE Tick \/ UNCHANGED vars
  <2>1. Quiet
    BY <1>6 DEF Tick, vars, Quiet, ToldInv, At
  <2> QED BY <1>1, <2>1, QuietKeeps
<1> QED BY <1>1, <1>3, <1>4, <1>5, <1>6, QuietKeeps, SettleSkipTold, FinishAdvanceTold,
           CrashTold
        DEF Next, AdvanceSteps

\* However many callers reach one skip decision, its diagnostics are delivered
\* once, or owed by one caller, or died with the one that owed them.
THEOREM DiagnosedOnce == Spec => []SkipsDiagnosedOnce
<1>1. Init => ToldInv
  <2> SUFFICES ASSUME Init PROVE ToldInv
    OBVIOUS
  <2>1. \A c \in Caller : proc[c].won = {}
    BY FreshFields DEF Init, Idle, Clear
  <2>2. SkipsDiagnosedOnce
    BY <2>1 DEF Init, SkipsDiagnosedOnce, NeverRaised, OwedByNone, Absent
  <2> QED BY <2>1, <2>2 DEF ToldInv
<1>2. ToldInv => SkipsDiagnosedOnce
  BY DEF ToldInv
<1> QED BY <1>1, <1>2, Inductive, ToldPreserved, PTL DEF Spec

-----------------------------------------------------------------------------
(* The refinement of DurableRun.  IInv says that what a caller is about to   *)
(* skip can never be reached; the abstract run asks more of a skip, that its *)
(* sources have settled when it is written.  OrderInv says why they have: in *)
(* the list of skips a caller still has to write, a source comes before its  *)
(* targets (the order of the cascade, SourceBefore), and the caller takes    *)
(* the first.                                                                *)

\* Only a completed row has ports.
PortsInv == \A n \in Node : rows[n].status # "completed" => rows[n].ports = {}

\* The sources of a skip still to be written are settled or come before it.
OrderedSkips(p, r) ==
  \A n \in DOMAIN p.skips : \A s \in Sources(n) :
    \/ s \in Settled(r)
    \/ s \in DOMAIN p.skips /\ p.skips[s] < p.skips[n]

OrderInv == \A c \in Caller : OrderedSkips(proc[c], rows)

RunInv == IInv /\ PortsInv /\ OrderInv

-----------------------------------------------------------------------------
(* The cascade's order. *)

LEMMA SteadyStep == IInv /\ [Next]_vars => Steady /\ Settled(rows) \subseteq Settled(rows')
<1>1. IInv /\ [Next]_vars => Steady
  BY IInvPreserved
<1> QED BY <1>1 DEF Steady, Settled

LEMMA OrderStep ==
  ASSUME TypeOK, OrderInv, Settled(rows) \subseteq Settled(rows'),
         NEW c, NEW p, GoTo(c, p), OrderedSkips(p, rows')
  PROVE  OrderInv'
<1>1. \A d \in Caller : proc'[d] = IF d = c THEN p ELSE proc[d]
  BY GoToStep DEF TypeOK
<1>2. \A d \in Caller : OrderedSkips(proc[d], rows')
  BY DEF OrderInv, OrderedSkips
<1>3. \A d \in Caller : OrderedSkips(proc'[d], rows')
  BY <1>1, <1>2
<1> QED BY <1>3 DEF OrderInv, OrderedSkips, Settled

\* A caller at the start of a step has no skips to order.
LEMMA ClearIsOrdered ==
  ASSUME TypeOK, OrderInv, Settled(rows) \subseteq Settled(rows'),
         NEW c, NEW p, GoTo(c, p), Clear(p)
  PROVE  OrderInv'
<1>1. OrderedSkips(p, rows')
  BY DEF Clear, OrderedSkips
<1> QED BY <1>1, OrderStep

LEMMA AdvanceOrdered ==
  ASSUME TypeOK, OrderInv, Settled(rows) \subseteq Settled(rows'),
         NEW c \in Caller, Advance(c), Skips(rows) # {}
  PROVE  OrderInv'
<1> DEFINE K == Skips(rows)
           p == [proc[c] EXCEPT !.pc = "settle", !.ready = Ranking(rows, Ready(rows)),
                                !.skips = Ranking(rows, K)]
<1>1. GoTo(c, p) /\ rows' = rows
  BY DEF Advance
<1>2. p.skips = Ranking(rows, K)
  BY DEF TypeOK, IsPlace
<1>3. K \subseteq Drops(rows, K) /\ K \subseteq Node
  BY SkipsAreDropped DEF Undecided
<1>4. DOMAIN p.skips = K
  BY <1>2, <1>3, RankingCounts
<1>5. ASSUME NEW n \in K, NEW s \in Sources(n)
      PROVE  s \in Settled(rows) \/ (s \in K /\ Ranking(rows, K)[s] < Ranking(rows, K)[n])
  <2>1. s \in Settled(rows) \cup K
    BY <1>3 DEF Drops, Unblocked
  <2> QED BY <2>1, SourceBefore
<1> HIDE DEF K, p
<1>6. OrderedSkips(p, rows')
  BY <1>1, <1>2, <1>4, <1>5 DEF OrderedSkips
<1> QED BY <1>1, <1>6, OrderStep

\* What SettleSkip takes is a first one, and the rest keep their places.
LEMMA SettleSkipTakes ==
  ASSUME TypeOK, NEW c \in Caller, SettleSkip(c)
  PROVE  \E n \in DOMAIN proc[c].skips : \E p :
           /\ n \in Node /\ GoTo(c, p)
           /\ \A m \in DOMAIN proc[c].skips : proc[c].skips[n] <= proc[c].skips[m]
           /\ SetRow(n, IF SkipWins(rows[n]) THEN Skipped(rows[n]) ELSE rows[n])
           /\ p.skips = [m \in DOMAIN proc[c].skips \ {n} |-> proc[c].skips[m]]
<1>1. PICK n \in DOMAIN proc[c].skips :
        /\ \A m \in DOMAIN proc[c].skips : proc[c].skips[n] <= proc[c].skips[m]
        /\ SetRow(n, IF SkipWins(rows[n]) THEN Skipped(rows[n]) ELSE rows[n])
        /\ GoTo(c, [proc[c] EXCEPT
                     !.skips = [m \in DOMAIN @ \ {n} |-> @[m]],
                     !.won = IF SkipWins(rows[n]) THEN @ \cup {n} ELSE @])
  BY DEF SettleSkip
<1> DEFINE p == [proc[c] EXCEPT
                  !.skips = [m \in DOMAIN @ \ {n} |-> @[m]],
                  !.won = IF SkipWins(rows[n]) THEN @ \cup {n} ELSE @]
<1>2. IsPlace(proc[c])
  BY DEF TypeOK
<1>3. n \in Node
  BY <1>1, <1>2 DEF IsPlace, IsRanking
<1>4. p.skips = [m \in DOMAIN proc[c].skips \ {n} |-> proc[c].skips[m]]
  BY <1>2 DEF IsPlace
<1>5. GoTo(c, p)
  BY <1>1
<1> HIDE DEF p
<1> QED BY <1>1, <1>3, <1>4, <1>5

\* The sources of a first one are settled.
LEMMA FirstSkipIsDue ==
  ASSUME TypeOK, OrderInv, NEW c \in Caller, NEW n \in DOMAIN proc[c].skips,
         \A m \in DOMAIN proc[c].skips : proc[c].skips[n] <= proc[c].skips[m]
  PROVE  Sources(n) \subseteq Settled(rows)
<1>1. IsRanking(proc[c].skips)
  BY DEF TypeOK, IsPlace
<1>2. \A m \in DOMAIN proc[c].skips : proc[c].skips[m] \in Nat
  BY <1>1 DEF IsRanking
<1> SUFFICES ASSUME NEW s \in Sources(n), s \notin Settled(rows) PROVE FALSE
  OBVIOUS
<1>3. s \in DOMAIN proc[c].skips /\ proc[c].skips[s] < proc[c].skips[n]
  BY DEF OrderInv, OrderedSkips
<1> QED BY <1>2, <1>3

LEMMA SettleSkipOrdered ==
  ASSUME IInv, OrderInv, Settled(rows) \subseteq Settled(rows'),
         NEW c \in Caller, SettleSkip(c)
  PROVE  OrderInv'
<1>1. TypeOK
  BY DEF IInv
<1>0. PICK n \in DOMAIN proc[c].skips : \E p :
           /\ n \in Node /\ GoTo(c, p)
           /\ SetRow(n, IF SkipWins(rows[n]) THEN Skipped(rows[n]) ELSE rows[n])
           /\ p.skips = [m \in DOMAIN proc[c].skips \ {n} |-> proc[c].skips[m]]
  BY <1>1, SettleSkipTakes
<1>2. PICK p :
           /\ n \in Node /\ GoTo(c, p)
           /\ SetRow(n, IF SkipWins(rows[n]) THEN Skipped(rows[n]) ELSE rows[n])
           /\ p.skips = [m \in DOMAIN proc[c].skips \ {n} |-> proc[c].skips[m]]
  BY <1>0
<1>3. n \in Settled(rows')
  <2>1. rows[n] \in Row /\ rows' = [rows EXCEPT
          ![n] = IF SkipWins(rows[n]) THEN Skipped(rows[n]) ELSE rows[n]]
    BY <1>1, <1>2 DEF TypeOK, SetRow
  <2>2. rows'[n] = IF SkipWins(rows[n]) THEN Skipped(rows[n]) ELSE rows[n]
    BY <1>1, <1>2, <2>1 DEF TypeOK
  <2>3. Skipped(rows[n]).status = "skipped"
    BY <2>1 DEF Skipped, Row
  <2>4. IsSettled(rows'[n])
    BY <2>2, <2>3 DEF SkipWins, IsSettled
  <2> QED BY <1>2, <2>4 DEF Settled
<1>4. OrderedSkips(p, rows')
  <2> SUFFICES ASSUME NEW m \in DOMAIN p.skips, NEW s \in Sources(m), s \notin Settled(rows')
               PROVE  s \in DOMAIN p.skips /\ p.skips[s] < p.skips[m]
    BY DEF OrderedSkips
  <2>1. m \in DOMAIN proc[c].skips /\ s \notin Settled(rows) /\ s # n
    BY <1>2, <1>3
  <2>2. s \in DOMAIN proc[c].skips /\ proc[c].skips[s] < proc[c].skips[m]
    BY <2>1 DEF OrderInv, OrderedSkips
  <2> QED BY <1>2, <2>1, <2>2
<1> QED BY <1>1, <1>2, <1>4, OrderStep

-----------------------------------------------------------------------------
(* What a step can do to a row. *)

\* The moves a node's row can make, read as moves of the abstract run.
RowMove(n, row) ==
  \/ /\ rows[n].status = "absent" /\ row.status = "claimed"
     /\ Reached(n) /\ Sources(n) \subseteq Settled(rows)
  \/ /\ IsHeld(rows[n])
     /\ \/ row.status \in {"claimed", "paused", "completed", "failed", "absent"}
        \/ row.status = "skipped" /\ n \in Lane
  \/ /\ rows[n].status = "absent" /\ row.status = "skipped"
     /\ ~Reached(n) /\ Sources(n) \subseteq Settled(rows)
  \/ row = rows[n]

RowMoves ==
  \/ rows' = rows
  \/ \E n \in Node, row \in Row :
       /\ SetRow(n, row) /\ RowMove(n, row)
       /\ row.status # "completed" => row.ports = {}

LEMMA ClaimForRow ==
  ASSUME IInv, PortsInv, NEW w \in Worker, NEW n \in Node, ClaimFor(w, n), Touched(n)
  PROVE  RowMoves
<1>1. rows[n] \in Row /\ now \in Nat /\ w \in Owner
  BY CoordinatorAssumption DEF IInv, TypeOK, CoordinatorAssumption, Worker
<1>2. CASE ClaimWins(rows[n], w)
  <2> DEFINE row == Claimed(rows[n], w, now)
  <2>1. SetRow(n, row) /\ row \in Row
    BY <1>1, <1>2, RowTypes DEF ClaimFor, SetRow
  <2>2. row.status = "claimed" /\ row.ports = {}
    <3>1. CASE rows[n].status = "absent"
      <4>1. row = [status |-> "claimed", owner |-> w, attempts |-> 1,
                   first |-> now, ports |-> {}]
        BY <3>1 DEF Claimed, Absent
      <4> QED BY <4>1
    <3>2. CASE rows[n].status # "absent"
      <4>1. row = [rows[n] EXCEPT !.status = "claimed", !.attempts = @ + 1]
        BY <1>1, <3>2, ClaimedMakes
      <4>2. rows[n].ports = {}
        BY <1>2, <3>2 DEF PortsInv, ClaimWins, IsHeld
      <4> QED BY <1>1, <4>1, <4>2 DEF Row
    <3> QED BY <3>1, <3>2
  <2>3. rows[n].status = "absent" \/ IsHeld(rows[n])
    BY <1>2 DEF ClaimWins
  <2> HIDE DEF row
  <2>4. RowMove(n, row)
    BY <2>2, <2>3 DEF RowMove, IInv, ReachedInv
  <2> QED BY <2>1, <2>2, <2>4 DEF RowMoves
<1>3. CASE ~ClaimWins(rows[n], w)
  BY <1>3 DEF ClaimFor, RowMoves
<1> QED BY <1>2, <1>3

LEMMA CheckpointMove ==
  ASSUME IInv, PortsInv, NEW w \in Worker, Settles(w) \/ CheckpointPause(w)
  PROVE  RowMoves
<1> DEFINE n == proc[w].node
<1>1. n \in Node /\ IsHeld(rows[n]) /\ rows[n].status = "claimed" /\ At(w, "checkpoint")
  BY CheckpointWrites, CheckpointRow DEF IInv, IsHeld
<1>2. rows[n] \in Row /\ rows[n].ports = {} /\ proc[w].verdict.ports \subseteq RowPort
  <2>1. IsPlace(proc[w])
    BY DEF IInv, TypeOK, Caller
  <2> QED BY <1>1, <2>1, CoordinatorAssumption
          DEF PortsInv, IInv, TypeOK, IsPlace, Verdict, CoordinatorAssumption
<1>3. \E row \in Row :
        /\ SetRow(n, row)
        /\ \/ row.status \in {"paused", "completed", "failed"}
           \/ row.status = "skipped" /\ n \in Lane
        /\ row.status # "completed" => row.ports = {}
  <2>1. CASE CheckpointOutput(w)
    <3> DEFINE row == Completed(rows[n], proc[w].verdict.ports)
    <3>1. SetRow(n, row) /\ row \in Row /\ row.status = "completed"
      BY <1>2, <2>1, RowTypes DEF CheckpointOutput, Completed, Row
    <3> HIDE DEF row
    <3> QED BY <3>1
  <2>2. CASE CheckpointSkip(w)
    <3> DEFINE row == Skipped(rows[n])
    <3>1. SkipWins(rows[n])
      BY <1>1 DEF SkipWins, IsSettled
    <3>2. SetRow(n, row) /\ row \in Row /\ row.status = "skipped" /\ row.ports = {}
      BY <1>2, <2>2, <3>1, RowTypes DEF CheckpointSkip, Skipped, Row
    <3>3. n \in Lane
      BY <1>1, <2>2 DEF IInv, EngineAgreesWithFrontier, CheckpointSkip, Checkpoint
    <3> HIDE DEF row
    <3> QED BY <3>2, <3>3
  <2>3. CASE CheckpointFailure(w)
    <3> DEFINE row == Failed(rows[n])
    <3>1. SetRow(n, row) /\ row \in Row /\ row.status = "failed" /\ row.ports = {}
      BY <1>2, <2>3, RowTypes DEF CheckpointFailure, Failed, Row
    <3> HIDE DEF row
    <3> QED BY <3>1
  <2>4. CASE CheckpointPause(w)
    <3> DEFINE row == Paused(rows[n])
    <3>1. SetRow(n, row) /\ row \in Row /\ row.status = "paused" /\ row.ports = {}
      BY <1>2, <2>4, RowTypes DEF CheckpointPause, Paused, Row
    <3> HIDE DEF row
    <3> QED BY <3>1
  <2> QED BY <2>1, <2>2, <2>3, <2>4 DEF Settles
<1> HIDE DEF n
<1> QED BY <1>1, <1>3 DEF RowMoves, RowMove

LEMMA SettleSkipRow ==
  ASSUME RunInv, NEW c \in Caller, SettleSkip(c)
  PROVE  RowMoves
<1>1. PICK n \in DOMAIN proc[c].skips :
           /\ n \in Node
           /\ \A m \in DOMAIN proc[c].skips : proc[c].skips[n] <= proc[c].skips[m]
           /\ SetRow(n, IF SkipWins(rows[n]) THEN Skipped(rows[n]) ELSE rows[n])
  BY SettleSkipTakes DEF RunInv, IInv
<1>2. Sources(n) \subseteq Settled(rows)
  BY <1>1, FirstSkipIsDue DEF RunInv, IInv
<1>3. rows[n] \in Row /\ (rows[n].status # "completed" => rows[n].ports = {})
  BY <1>1 DEF RunInv, IInv, TypeOK, PortsInv
<1>4. ~Reached(n) /\ rows[n].status \in {"absent", "skipped"}
  BY <1>1 DEF RunInv, IInv, DoomInv, Doomed
<1>5. CASE SkipWins(rows[n])
  <2> DEFINE row == Skipped(rows[n])
  <2>1. SetRow(n, row) /\ row \in Row /\ row.status = "skipped" /\ row.ports = {}
    BY <1>1, <1>3, <1>5, RowTypes DEF Skipped, Row
  <2>2. rows[n].status = "absent"
    BY <1>4, <1>5 DEF SkipWins, IsSettled
  <2> HIDE DEF row
  <2> QED BY <1>1, <1>2, <1>4, <2>1, <2>2 DEF RowMoves, RowMove
<1>6. CASE ~SkipWins(rows[n])
  BY <1>1, <1>3, <1>6 DEF RowMoves, RowMove
<1> QED BY <1>5, <1>6

LEMMA ReleaseRow ==
  ASSUME IInv, NEW n \in Node, AnswerAndRelease(n)
  PROVE  RowMoves
<1>1. SetRow(n, Absent) /\ Absent \in Row /\ IsHeld(rows[n])
  BY RowTypes DEF AnswerAndRelease, Released, IsHeld
<1>2. Absent.status = "absent" /\ Absent.ports = {}
  BY DEF Absent
<1> QED BY <1>1, <1>2 DEF RowMoves, RowMove

LEMMA StepMoves == RunInv /\ [Next]_vars => RowMoves /\ OrderInv'
<1> SUFFICES ASSUME RunInv, [Next]_vars PROVE RowMoves /\ OrderInv'
  OBVIOUS
<1>1. IInv /\ TypeOK /\ PortsInv /\ OrderInv /\ Settled(rows) \subseteq Settled(rows')
  BY SteadyStep DEF RunInv, IInv
<1>2. \A pc, n : Clear(Fresh(pc, n))
  BY FreshFields
<1>3. ASSUME rows' = rows PROVE RowMoves
  BY <1>3 DEF RowMoves
<1>4. ASSUME NEW w \in Worker, RunNode(w) \/ Crash(w) PROVE RowMoves /\ OrderInv'
  <2>1. ASSUME NEW n \in Node, Deliver(w, n) PROVE RowMoves /\ OrderInv'
    <3>1. ClaimFor(w, n) /\ Touched(n)
      BY <2>1 DEF Deliver, Touched
    <3>2. \E pc, m : GoTo(w, Fresh(pc, m))
      BY <3>1 DEF ClaimFor
    <3> QED BY <1>1, <1>2, <3>1, <3>2, ClaimForRow, ClearIsOrdered
  <2>2. CASE Redeliver(w)
    <3>1. proc[w].node \in Node
      BY <1>1, <2>2 DEF TypeOK, Redeliver, At
    <3>2. ClaimFor(w, proc[w].node) /\ Touched(proc[w].node)
      BY <2>2, <3>1 DEF Redeliver, Touched, At
    <3>3. \E pc, m : GoTo(w, Fresh(pc, m))
      BY <3>2 DEF ClaimFor
    <3> QED BY <1>1, <1>2, <3>1, <3>2, <3>3, ClaimForRow, ClearIsOrdered
  <2>3. CASE Execute(w)
    <3>1. PICK v, a : GoTo(w, [proc[w] EXCEPT !.pc = "checkpoint", !.verdict = v,
                                              !.attempt = a])
      BY <2>3 DEF Execute
    <3> DEFINE p == [proc[w] EXCEPT !.pc = "checkpoint", !.verdict = v, !.attempt = a]
    <3>2. GoTo(w, p) /\ p.skips = proc[w].skips /\ rows' = rows
      BY <1>1, <2>3, <3>1 DEF TypeOK, IsPlace, Caller, Execute
    <3> HIDE DEF p
    <3>3. OrderedSkips(p, rows')
      BY <1>1, <3>2 DEF OrderInv, OrderedSkips, Caller
    <3> QED BY <1>1, <1>3, <3>2, <3>3, OrderStep
  <2>4. CASE Settles(w) \/ CheckpointPause(w)
    <3>1. \E pc, n : GoTo(w, Fresh(pc, n))
      BY <1>1, <2>4, CheckpointWrites
    <3> QED BY <1>1, <1>2, <2>4, <3>1, CheckpointMove, ClearIsOrdered
  <2>5. CASE Retry(w) \/ Crash(w)
    <3>1. (\E pc, n : GoTo(w, Fresh(pc, n))) /\ rows' = rows
      BY <2>5 DEF Retry, Crash
    <3> QED BY <1>1, <1>2, <1>3, <3>1, ClearIsOrdered
  <2> QED BY <1>4, <2>1, <2>2, <2>3, <2>4, <2>5 DEF RunNode, Settles
<1>5. ASSUME NEW c \in Caller, NEW ids, HandOut(c, ids), rows' = rows,
             c \in Worker => proc[c].node \in Node
      PROVE  RowMoves /\ OrderInv'
  <2>1. \E p : GoTo(c, p) /\ Clear(p)
    BY <1>1, <1>5, HandOutStep
  <2> QED BY <1>1, <1>3, <1>5, <2>1, ClearIsOrdered
<1>6. ASSUME NEW c \in Caller, AdvanceSteps(c) PROVE RowMoves /\ OrderInv'
  <2>1. CASE Advance(c)
    <3>1. rows' = rows /\ (c \in Worker => proc[c].node \in Node)
      BY <1>1, <2>1 DEF Advance, TypeOK, At
    <3>2. CASE Skips(rows) = {}
      BY <1>5, <2>1, <3>1, <3>2 DEF Advance
    <3>3. CASE Skips(rows) # {}
      BY <1>1, <1>3, <2>1, <3>1, <3>3, AdvanceOrdered
    <3> QED BY <3>2, <3>3
  <2>2. CASE SettleSkip(c)
    BY <1>1, <2>2, SettleSkipRow, SettleSkipOrdered
  <2>3. CASE FinishAdvance(c)
    <3>1. rows' = rows /\ (c \in Worker => proc[c].node \in Node)
      BY <1>1, <2>3 DEF FinishAdvance, TypeOK, At
    <3> QED BY <1>5, <2>3, <3>1 DEF FinishAdvance
  <2> QED BY <1>6, <2>1, <2>2, <2>3 DEF AdvanceSteps
<1>7. ASSUME NEW n \in Node, AnswerAndRedispatch(n) \/ AnswerAndRelease(n)
      PROVE  RowMoves /\ OrderInv'
  <2>1. \E c, pc, k : GoTo(c, Fresh(pc, k))
    BY <1>7 DEF AnswerAndRedispatch, AnswerAndRelease
  <2>2. OrderInv'
    BY <1>1, <1>2, <2>1, ClearIsOrdered
  <2>3. RowMoves
    BY <1>1, <1>3, <1>7, ReleaseRow DEF AnswerAndRedispatch
  <2> QED BY <2>2, <2>3
<1>8. CASE Tick \/ UNCHANGED vars
  <2>1. rows' = rows /\ proc' = proc
    BY <1>8 DEF Tick, vars
  <2> QED BY <1>1, <1>3, <2>1 DEF OrderInv, OrderedSkips, Settled
<1> QED BY <1>4, <1>5, <1>6, <1>7, <1>8 DEF Next, RunInv

-----------------------------------------------------------------------------
(* The run is a run of DurableRun. *)

PhaseOf(row) ==
  IF row.status = "absent" THEN "pending"
  ELSE IF IsHeld(row) THEN "held" ELSE row.status

Phase(r) == [n \in Node |-> PhaseOf(r[n])]
Ports(r) == [n \in Node |-> r[n].ports]

\* A node is due, and live, in the abstract run as it is in the rows.
LEMMA AbstractReach ==
  ASSUME TypeOK, NEW n \in Node
  PROVE  /\ rows[n].status = "absent" /\ Sources(n) \subseteq Settled(rows) => Run!Due(n)
         /\ Run!Live(n) = Lit(rows, n)
<1>1. \A m \in Node : /\ IsSettled(rows[m]) => PhaseOf(rows[m]) \in Run!Over
                      /\ (PhaseOf(rows[m]) = "completed") = (rows[m].status = "completed")
  BY DEF TypeOK, Row, RunStatus, IsSettled, IsHeld, PhaseOf, Run!Over
<1>2. Run!Incoming(n) = Incoming(n) /\ Run!Sources(n) = Sources(n)
  BY DEF Run!Incoming, Run!Sources, Incoming, Sources
<1>3. \A e \in Incoming(n) : e.source \in Node
  BY GraphAssumption DEF GraphAssumption, Incoming
<1>4. Run!Live(n) = Lit(rows, n)
  BY <1>1, <1>2, <1>3 DEF Run!Live, Lit, Active, PhaseOf
<1>5. ASSUME rows[n].status = "absent", Sources(n) \subseteq Settled(rows)
      PROVE  Run!Due(n)
  <2>1. \A m \in Sources(n) : m \in Node /\ PhaseOf(rows[m]) \in Run!Over
    BY <1>1, <1>5 DEF Settled
  <2> QED BY <1>2, <1>5, <2>1 DEF Run!Due, PhaseOf
<1> QED BY <1>4, <1>5

RunStepOrStutter == Run!RunNext \/ (Phase(rows') = Phase(rows) /\ Ports(rows') = Ports(rows))

LEMMA WriteIsAbstract ==
  ASSUME TypeOK, PortsInv, NEW n \in Node, NEW row \in Row, SetRow(n, row),
         RowMove(n, row), row.status # "completed" => row.ports = {}
  PROVE  RunStepOrStutter
<1>1. \A m \in Node : rows'[m] = IF m = n THEN row ELSE rows[m]
  BY SetRowStep DEF TypeOK
<1>2. /\ Phase(rows') = [Phase(rows) EXCEPT ![n] = PhaseOf(row)]
      /\ Ports(rows') = [Ports(rows) EXCEPT ![n] = row.ports]
      /\ row.ports = rows[n].ports => Ports(rows') = Ports(rows)
      /\ PhaseOf(row) = PhaseOf(rows[n]) => Phase(rows') = Phase(rows)
      /\ Phase(rows)[n] = PhaseOf(rows[n])
  BY <1>1 DEF Phase, Ports
<1>3. row.ports \in SUBSET Port
  BY CoordinatorAssumption DEF CoordinatorAssumption, Row
<1>4. CASE rows[n].status = "absent" /\ row.status = "claimed"
           /\ Reached(n) /\ Sources(n) \subseteq Settled(rows)
  <2>1. PhaseOf(row) = "held" /\ row.ports = rows[n].ports
    BY <1>4 DEF PhaseOf, IsHeld, PortsInv
  <2>2. Run!Due(n) /\ Run!Live(n) /\ n \notin Note
    BY <1>4, AbstractReach DEF Reached
  <2>3. Run!Start(n)
    BY <1>2, <2>1, <2>2 DEF Run!Start, Run!Move, Phase, Ports, PhaseOf
  <2> QED BY <2>3 DEF RunStepOrStutter, Run!RunNext
<1>5. CASE /\ IsHeld(rows[n])
           /\ \/ row.status \in {"claimed", "paused", "completed", "failed", "absent"}
              \/ row.status = "skipped" /\ n \in Lane
  <2>1. Phase(rows)[n] = "held" /\ rows[n].ports = {}
    BY <1>2, <1>5 DEF PhaseOf, IsHeld, PortsInv
  <2>2. CASE row.status = "completed"
    <3>1. PhaseOf(row) = "completed"
      BY <2>2 DEF PhaseOf, IsHeld
    <3>2. Run!Finish(n)
      BY <1>2, <1>3, <2>1, <3>1, Zenon DEF Run!Finish, Run!Move, Phase, Ports, PhaseOf
    <3> QED BY <3>2 DEF RunStepOrStutter, Run!RunNext
  <2>3. CASE row.status = "failed"
    <3>1. PhaseOf(row) = "failed" /\ Ports(rows') = Ports(rows)
      BY <1>2, <2>1, <2>3 DEF PhaseOf, IsHeld
    <3>2. Run!Fail(n)
      BY <1>2, <2>1, <3>1, Zenon DEF Run!Fail, Run!Move, Phase, Ports, PhaseOf
    <3> QED BY <3>2 DEF RunStepOrStutter, Run!RunNext
  <2>4. CASE row.status = "skipped" /\ n \in Lane
    <3>1. PhaseOf(row) = "skipped" /\ Ports(rows') = Ports(rows)
      BY <1>2, <2>1, <2>4 DEF PhaseOf, IsHeld
    <3>2. Run!PassOver(n)
      BY <1>2, <2>1, <2>4, <3>1, Zenon DEF Run!PassOver, Run!Move, Phase, Ports, PhaseOf
    <3> QED BY <3>2 DEF RunStepOrStutter, Run!RunNext
  <2>5. CASE row.status = "absent"
    <3>1. PhaseOf(row) = "pending" /\ Ports(rows') = Ports(rows)
      BY <1>2, <2>1, <2>5 DEF PhaseOf
    <3>2. Run!Withdraw(n)
      BY <1>2, <2>1, <3>1, Zenon DEF Run!Withdraw, Run!Move, Phase, Ports, PhaseOf
    <3> QED BY <3>2 DEF RunStepOrStutter, Run!RunNext
  <2>6. CASE row.status \in {"claimed", "paused"}
    <3>1. PhaseOf(row) = "held" /\ PhaseOf(rows[n]) = "held" /\ row.ports = rows[n].ports
      BY <1>2, <2>1, <2>6 DEF PhaseOf, IsHeld
    <3> QED BY <1>2, <3>1 DEF RunStepOrStutter
  <2> QED BY <1>5, <2>2, <2>3, <2>4, <2>5, <2>6
<1>6. CASE rows[n].status = "absent" /\ row.status = "skipped"
           /\ ~Reached(n) /\ Sources(n) \subseteq Settled(rows)
  <2>1. PhaseOf(row) = "skipped" /\ row.ports = rows[n].ports
    BY <1>6 DEF PhaseOf, IsHeld, PortsInv
  <2>2. Run!Due(n) /\ (~Run!Live(n) \/ n \in Note)
    BY <1>6, AbstractReach DEF Reached
  <2>3. Run!PassOver(n)
    BY <1>2, <2>1, <2>2 DEF Run!PassOver, Run!Move, Phase, Ports, PhaseOf
  <2> QED BY <2>3 DEF RunStepOrStutter, Run!RunNext
<1>7. CASE row = rows[n]
  BY <1>2, <1>7 DEF RunStepOrStutter
<1> QED BY <1>4, <1>5, <1>6, <1>7 DEF RowMove

LEMMA RunInvPreserved == RunInv /\ [Next]_vars => RunInv' /\ RunStepOrStutter
<1> SUFFICES ASSUME RunInv, [Next]_vars PROVE RunInv' /\ RunStepOrStutter
  OBVIOUS
<1>1. IInv' /\ OrderInv' /\ RowMoves
  BY IInvPreserved, StepMoves DEF RunInv
<1>2. CASE rows' = rows
  BY <1>1, <1>2 DEF RunInv, PortsInv, RunStepOrStutter, Phase, Ports
<1>3. CASE rows' # rows
  <2>1. PICK n \in Node, row \in Row :
          /\ SetRow(n, row) /\ RowMove(n, row)
          /\ row.status # "completed" => row.ports = {}
    BY <1>1, <1>3 DEF RowMoves
  <2>2. \A m \in Node : rows'[m] = IF m = n THEN row ELSE rows[m]
    BY <2>1, SetRowStep DEF RunInv, IInv, TypeOK
  <2>3. PortsInv'
    BY <2>1, <2>2 DEF RunInv, PortsInv
  <2>4. RunStepOrStutter
    BY <2>1, WriteIsAbstract DEF RunInv, IInv
  <2> QED BY <1>1, <2>3, <2>4 DEF RunInv
<1> QED BY <1>2, <1>3

LEMMA InitRunInv == Init => RunInv /\ Run!RunInit
<1> SUFFICES ASSUME Init PROVE RunInv /\ Run!RunInit
  OBVIOUS
<1>1. \A n \in Node : rows[n] = Absent
  BY DEF Init
<1>2. Absent.status = "absent" /\ Absent.ports = {}
  BY DEF Absent
<1>3. \A c \in Caller : DOMAIN proc[c].skips = {}
  BY FreshFields DEF Init, Idle, Clear
<1>4. PortsInv /\ OrderInv
  BY <1>1, <1>2, <1>3 DEF PortsInv, OrderInv, OrderedSkips
<1>5. Run!RunInit
  BY <1>1, <1>2 DEF Run!RunInit
<1> QED BY <1>4, <1>5, InitIInv DEF RunInv

\* Every step of a worker, a caller of advance or the host starts, finishes,
\* fails, passes over or withdraws one node at a time that node was due,
\* whatever the interleaving, the crashes and the answers.
THEOREM QueuedRunRefines == Spec => ImplementsDurableRun
<1>1. RunInv /\ [Next]_vars => [Run!RunNext]_Run!runVars
  BY RunInvPreserved DEF RunStepOrStutter, Run!runVars, Phase, Ports, PhaseOf
<1> QED BY <1>1, InitRunInv, RunInvPreserved, PTL
        DEF Spec, ImplementsDurableRun, Run!RunSpec

-----------------------------------------------------------------------------
(* How often an executor runs.  A claim is counted when it is taken and a  *)
(* run when it ends, a lost run and an answer at once: between the two,    *)
(* the worker that holds the row has the run still to come, and there must *)
(* be room for it.  A worker that no longer holds its row has none to come *)
(* back to, wherever it dies.                                              *)

\* Runs whose worker died before it wrote what came of them.
Lost(n) == died[n].checkpoint

\* What those and the answer add to the tries of the policy.
Spare(n) == Lost(n) + (IF n \in answered THEN 1 ELSE 0)

NodeBudget(n) ==
  /\ runs[n] <= TriesFor(n) + Spare(n)
  /\ runs[n] <= rows[n].attempts + Spare(n)
  /\ n \in Gate \ answered =>
       /\ runs[n] <= Lost(n) + 1
       /\ rows[n].status = "absent" => runs[n] <= Lost(n)
  /\ ~Acyclic => runs[n] = 0
  /\ rows[n].status = "paused" => n \in Gate

\* The executor may run once more; an unanswered gate only if its run was lost.
OnceMore(n) ==
  /\ runs[n] < TriesFor(n) + Spare(n)
  /\ n \in Gate \ answered => runs[n] <= Lost(n)

\* A job to be redelivered whose row is still claimed, or parked, for it.
Reenters(w) ==
  At(w, "retry") /\ IsHeld(rows[proc[w].node]) /\ rows[proc[w].node].owner = w

HoldsRow(w) == IsHeld(rows[proc[w].node]) /\ rows[proc[w].node].owner = w

WorkerBudget(w) ==
  LET n == proc[w].node IN
  /\ At(w, "execute") => OnceMore(n) /\ runs[n] < rows[n].attempts + Spare(n)
  /\ Reenters(w) => OnceMore(n)
  /\ At(w, "advance") \/ At(w, "settle") => ~HoldsRow(w)
  /\ At(w, "checkpoint") =>
       /\ proc[w].attempt = rows[n].attempts
       /\ proc[w].verdict.kind = "pause" => n \in Gate
       /\ proc[w].verdict.kind = "error" /\ n \in Gate \ answered => ~Acyclic

BudgetInv == (\A n \in Node : NodeBudget(n)) /\ (\A w \in Worker : WorkerBudget(w))

LEMMA TriesType == \A n \in Node : TriesFor(n) \in Nat /\ TriesFor(n) >= 1
BY NodeRunAssumption DEF NodeRunAssumption, TriesFor

LEMMA CountTypes ==
  ASSUME TypeOK, NEW n \in Node
  PROVE  /\ Lost(n) \in Nat /\ Spare(n) \in Nat /\ Spare(n) >= Lost(n)
         /\ rows[n] \in Row /\ rows[n].attempts \in Nat /\ runs[n] \in Nat
         /\ TriesFor(n) \in Nat /\ TriesFor(n) >= 1
<1>1. Lost(n) \in Nat
  BY DEF TypeOK, Deaths, Lost
<1>2. Spare(n) \in Nat /\ Spare(n) >= Lost(n)
  BY <1>1 DEF Spare
<1>3. rows[n] \in Row /\ rows[n].attempts \in Nat /\ runs[n] \in Nat
  BY DEF TypeOK, Row
<1> QED BY <1>1, <1>2, <1>3, TriesType

\* Lost runs and answers are never taken back.
Onward == (\A n \in Node : Lost(n) <= Lost(n)') /\ answered \subseteq answered'

LEMMA SpareGrows ==
  ASSUME TypeOK, TypeOK', Onward, NEW n \in Node
  PROVE  /\ Spare(n)' \in Nat /\ Lost(n)' \in Nat
         /\ Spare(n) <= Spare(n)' /\ Lost(n) <= Lost(n)'
<1>1. Lost(n) \in Nat /\ Lost(n)' \in Nat /\ Lost(n) <= Lost(n)'
  BY DEF TypeOK, Deaths, Lost, Onward
<1>2. n \in answered => n \in answered'
  BY DEF Onward
<1> DEFINE k == IF n \in answered THEN 1 ELSE 0
           j == IF n \in answered' THEN 1 ELSE 0
<1>3. Spare(n) = Lost(n) + k /\ Spare(n)' = Lost(n)' + j
  BY DEF Spare
<1>4. k \in Nat /\ j \in Nat /\ k <= j
  BY <1>2
<1>5. \A a, b, x, y \in Nat : a <= b /\ x <= y => b + y \in Nat /\ a + x <= b + y
  OBVIOUS
<1>6. Lost(n)' + j \in Nat /\ Lost(n) + k <= Lost(n)' + j
  <2> HIDE DEF k, j
  <2> QED BY <1>1, <1>4, <1>5
<1> QED BY <1>1, <1>3, <1>6

LEMMA NodeKept ==
  ASSUME TypeOK, TypeOK', Onward, NEW n \in Node, NodeBudget(n),
         runs'[n] = runs[n], rows'[n].attempts = rows[n].attempts,
         rows'[n].status = "absent" => rows[n].status = "absent",
         rows'[n].status = "paused" => n \in Gate
  PROVE  NodeBudget(n)'
<1>1. /\ Spare(n)' \in Nat /\ Lost(n)' \in Nat
      /\ Spare(n) <= Spare(n)' /\ Lost(n) <= Lost(n)'
  BY SpareGrows
<1>2. /\ runs'[n] <= TriesFor(n) + Spare(n)'
      /\ runs'[n] <= rows'[n].attempts + Spare(n)'
  BY <1>1, CountTypes DEF NodeBudget
<1>3. n \in Gate \ answered' =>
        /\ runs'[n] <= Lost(n)' + 1
        /\ rows'[n].status = "absent" => runs'[n] <= Lost(n)'
  <2>1. n \notin answered' => n \notin answered
    BY DEF Onward
  <2> QED BY <1>1, <2>1, CountTypes DEF NodeBudget
<1>4. ~Acyclic => runs'[n] = 0
  BY DEF NodeBudget
<1> QED BY <1>2, <1>3, <1>4 DEF NodeBudget

LEMMA OnceMoreKept ==
  ASSUME TypeOK, TypeOK', Onward, NEW n \in Node, runs'[n] = runs[n], OnceMore(n)
  PROVE  OnceMore(n)'
<1>1. /\ Spare(n)' \in Nat /\ Lost(n)' \in Nat
      /\ Spare(n) <= Spare(n)' /\ Lost(n) <= Lost(n)'
  BY SpareGrows
<1>2. n \notin answered' => n \notin answered
  BY DEF Onward
<1>3. runs'[n] < TriesFor(n) + Spare(n)'
  BY <1>1, CountTypes DEF OnceMore
<1>4. n \in Gate \ answered' => runs'[n] <= Lost(n)'
  BY <1>1, <1>2, CountTypes DEF OnceMore
<1> QED BY <1>3, <1>4 DEF OnceMore

\* A caller moves; the others keep the room they had if the rows they work on
\* stand still.
LEMMA BudgetStep ==
  ASSUME TypeOK, TypeOK', BudgetInv, Onward, NEW c, NEW p, GoTo(c, p),
         \A w \in Worker :
           w # c /\ (proc[w].pc \in {"execute", "checkpoint"} \/ Reenters(w)') =>
             rows'[proc[w].node] = rows[proc[w].node] /\ runs'[proc[w].node] = runs[proc[w].node],
         \A w \in Worker :
           w # c /\ proc[w].pc \in {"advance", "settle"} /\ HoldsRow(w)' => HoldsRow(w),
         \A n \in Node : NodeBudget(n)',
         c \in Worker => WorkerBudget(c)'
  PROVE  BudgetInv'
<1> SUFFICES ASSUME NEW w \in Worker, w # c PROVE WorkerBudget(w)'
  BY DEF BudgetInv
<1>0. PICK n : n = proc[w].node
  OBVIOUS
<1>1. proc'[w] = proc[w]
  BY GoToStep DEF TypeOK, Caller
<1>2. WorkerBudget(w)
  BY DEF BudgetInv
<1>3. ASSUME proc[w].pc \in {"execute", "checkpoint"} \/ Reenters(w)'
      PROVE  /\ n \in Node /\ rows'[n] = rows[n] /\ runs'[n] = runs[n]
             /\ Spare(n)' \in Nat /\ Spare(n) <= Spare(n)'
  <2>1. proc[w].pc # "idle"
    BY <1>1, <1>3 DEF Reenters, At
  <2>2. n \in Node
    BY <1>0, <2>1 DEF TypeOK
  <2> QED BY <1>0, <1>3, <2>2, SpareGrows
<1>4. ASSUME At(w, "execute")'
      PROVE  OnceMore(n)' /\ runs'[n] < rows'[n].attempts + Spare(n)'
  <2>1. At(w, "execute")
    BY <1>1, <1>4 DEF At
  <2>2. OnceMore(n) /\ runs[n] < rows[n].attempts + Spare(n)
    BY <1>0, <1>2, <2>1 DEF WorkerBudget
  <2>3. /\ n \in Node /\ rows'[n] = rows[n] /\ runs'[n] = runs[n]
        /\ Spare(n)' \in Nat /\ Spare(n) <= Spare(n)'
    BY <1>3, <2>1 DEF At
  <2>4. runs'[n] < rows'[n].attempts + Spare(n)'
    BY <2>2, <2>3, CountTypes
  <2> QED BY <2>2, <2>3, <2>4, OnceMoreKept
<1>5. ASSUME Reenters(w)'
      PROVE  OnceMore(n)'
  <2>1. /\ n \in Node /\ rows'[n] = rows[n] /\ runs'[n] = runs[n]
        /\ Spare(n)' \in Nat /\ Spare(n) <= Spare(n)'
    BY <1>3, <1>5
  <2>2. Reenters(w)
    BY <1>0, <1>1, <1>5, <2>1 DEF Reenters, At
  <2>3. OnceMore(n)
    BY <1>0, <1>2, <2>2 DEF WorkerBudget
  <2> QED BY <2>1, <2>3, OnceMoreKept
<1>6. ASSUME At(w, "checkpoint")'
      PROVE  /\ proc'[w].attempt = rows'[n].attempts
             /\ proc'[w].verdict.kind = "pause" => n \in Gate
             /\ proc'[w].verdict.kind = "error" /\ n \in Gate \ answered' => ~Acyclic
  <2>1. At(w, "checkpoint")
    BY <1>1, <1>6 DEF At
  <2>2. rows'[n] = rows[n]
    BY <1>3, <2>1 DEF At
  <2> QED BY <1>0, <1>1, <1>2, <2>1, <2>2 DEF WorkerBudget, Onward
<1>7. At(w, "advance")' \/ At(w, "settle")' => ~HoldsRow(w)'
  BY <1>1, <1>2 DEF WorkerBudget, At
<1> QED BY <1>0, <1>1, <1>4, <1>5, <1>6, <1>7 DEF WorkerBudget

\* A worker that dies inside run_node has its run to come, or lost it now.
LEMMA CrashMakesRoom ==
  ASSUME IInv, TypeOK', BudgetInv, NEW w \in Worker, Crash(w),
         proc[w].pc \in {"execute", "checkpoint"}, NEW n, n = proc[w].node
  PROVE  OnceMore(n)' /\ Onward
<1>1. n = proc[w].node
  OBVIOUS
<1>2. TypeOK /\ n \in Node /\ answered' = answered /\ runs' = runs
  BY <1>1 DEF IInv, TypeOK, Crash
<1>3. died' = [died EXCEPT ![n][proc[w].pc] = @ + 1] /\ died \in [Node -> Deaths]
  BY <1>1, <1>2 DEF Crash, TypeOK
<1>4. Lost(n) \in Nat /\ \A m \in Node : m # n => Lost(m)' = Lost(m)
  BY <1>2, <1>3, CountTypes DEF Lost
<1>5. NodeBudget(n) /\ WorkerBudget(w)
  BY <1>2 DEF BudgetInv
<1>6. CASE proc[w].pc = "execute"
  <2>1. Lost(n)' = Lost(n)
    BY <1>2, <1>3, <1>6 DEF Lost, Deaths
  <2>2. Spare(n)' = Spare(n)
    BY <1>2, <2>1 DEF Spare
  <2>3. OnceMore(n)
    BY <1>1, <1>5, <1>6 DEF WorkerBudget, At
  <2>4. ASSUME NEW m \in Node PROVE Lost(m) <= Lost(m)'
    <3>1. Lost(m)' = Lost(m) /\ Lost(m) \in Nat
      BY <1>2, <1>4, <2>1, CountTypes
    <3> QED BY <3>1
  <2>5. Onward
    BY <1>2, <2>4 DEF Onward
  <2> QED BY <1>1, <1>2, <2>1, <2>2, <2>3, <2>5 DEF OnceMore
<1>7. CASE proc[w].pc = "checkpoint"
  <2>1. Lost(n)' = Lost(n) + 1
    BY <1>2, <1>3, <1>7 DEF Lost, Deaths
  <2>2. Spare(n)' = Spare(n) + 1
    BY <1>2, <2>1, CountTypes DEF Spare
  <2>3. runs'[n] < TriesFor(n) + Spare(n)'
    BY <1>2, <1>5, <2>2, CountTypes DEF NodeBudget
  <2>4. n \in Gate \ answered' => runs'[n] <= Lost(n)'
    BY <1>2, <1>5, <2>1 DEF NodeBudget
  <2>5. ASSUME NEW m \in Node PROVE Lost(m) <= Lost(m)'
    <3>1. Lost(m) \in Nat
      BY <1>2, CountTypes
    <3>2. Lost(m)' = Lost(m) \/ Lost(m)' = Lost(m) + 1
      BY <1>4, <2>1
    <3> QED BY <3>1, <3>2
  <2>6. Onward
    BY <1>2, <2>5 DEF Onward
  <2> QED BY <1>1, <2>3, <2>4, <2>6 DEF OnceMore
<1> QED BY <1>6, <1>7

\* A caller moves to the start of a step; no row is written and nothing runs.
LEMMA MoveBudget ==
  ASSUME TypeOK, TypeOK', BudgetInv, Onward, NEW c, NEW p, GoTo(c, p),
         rows' = rows, runs' = runs, p.pc \notin {"execute", "checkpoint"},
         c \in Worker /\ IsHeld(rows[p.node]) /\ rows[p.node].owner = c =>
           \/ p.pc = "retry" /\ OnceMore(p.node)'
           \/ p.pc = "idle"
  PROVE  BudgetInv'
<1>1. \A n \in Node : NodeBudget(n)'
  BY NodeKept DEF BudgetInv, NodeBudget
<1>2. ASSUME c \in Worker PROVE WorkerBudget(c)'
  <2>1. proc'[c] = p
    BY <1>2, GoToStep DEF TypeOK, Caller
  <2> QED BY <1>2, <2>1 DEF WorkerBudget, Reenters, HoldsRow, At
<1>3. \A w \in Worker : w # c /\ HoldsRow(w)' => HoldsRow(w)
  <2>1. \A w \in Worker : w # c => proc'[w] = proc[w]
    BY GoToStep DEF TypeOK, Caller
  <2> QED BY <2>1 DEF HoldsRow
<1> QED BY <1>1, <1>2, <1>3, BudgetStep

\* A row is written that caller c holds afterwards, if anyone does.
LEMMA OthersHoldAsBefore ==
  ASSUME rows \in [Node -> Row], NEW c, NEW n \in Node, NEW row \in Row, SetRow(n, row),
         IsHeld(row) => row.owner = c, NEW w \in Worker, w # c, proc'[w] = proc[w],
         proc[w].node \in Node, HoldsRow(w)'
  PROVE  HoldsRow(w)
<1>1. rows'[n] = row /\ \A m \in Node : m # n => rows'[m] = rows[m]
  BY SetRowStep
<1> QED BY <1>1 DEF HoldsRow

\* The worker that writes a row is the only one at work on it.
LEMMA OthersElsewhere ==
  ASSUME IInv, NEW w, NEW n \in Node, NEW row \in Row, SetRow(n, row),
         IsHeld(rows[n]) => rows[n].status = "paused" \/ rows[n].owner = w,
         IsHeld(row) => row.owner = w,
         rows[n].status \in {"absent", "skipped"} \/ IsHeld(rows[n])
  PROVE  \A v \in Worker :
           v # w /\ (proc[v].pc \in {"execute", "checkpoint"}
                     \/ (proc'[v] = proc[v] /\ Reenters(v)')) =>
             proc[v].node \in Node /\ proc[v].node # n
<1> SUFFICES ASSUME NEW v \in Worker, v # w,
                    \/ proc[v].pc \in {"execute", "checkpoint"}
                    \/ proc'[v] = proc[v] /\ Reenters(v)'
             PROVE  proc[v].node \in Node /\ proc[v].node # n
  OBVIOUS
<1>1. rows'[n] = row
  BY SetRowStep DEF IInv, TypeOK
<1>2. proc[v].pc # "idle"
  BY DEF Reenters, At
<1>3. proc[v].node \in Node
  BY <1>2 DEF IInv, TypeOK
<1>4. CASE proc[v].pc \in {"execute", "checkpoint"}
  BY <1>3, <1>4 DEF IInv, HolderOwnsRow, IsHeld
<1>5. CASE proc'[v] = proc[v] /\ Reenters(v)'
  BY <1>1, <1>3, <1>5 DEF Reenters
<1> QED BY <1>4, <1>5

\* A claim that is won starts the first attempt, or is one more.
LEMMA ClaimedCounts ==
  ASSUME NEW row \in Row, NEW w \in Owner, NEW t \in Nat, ClaimWins(row, w)
  PROVE  Claimed(row, w, t).attempts = IF row.status = "absent" THEN 1 ELSE row.attempts + 1
<1>1. CASE row.status = "absent"
  BY <1>1 DEF Claimed, Absent
<1>2. CASE row.status # "absent"
  BY <1>2 DEF Claimed, Row
<1> QED BY <1>1, <1>2

LEMMA ClaimBudget ==
  ASSUME IInv, TypeOK', BudgetInv, NEW w \in Worker, NEW n \in Node, ClaimFor(w, n),
         UNCHANGED <<answered, died, runs>>,
         \/ \A m \in Held(rows) : rows[m].owner # w
         \/ At(w, "retry") /\ proc[w].node = n
  PROVE  BudgetInv'
<1>1. /\ TypeOK /\ Onward /\ rows[n] \in Row /\ now \in Nat /\ w \in Owner
      /\ Spare(n)' = Spare(n) /\ Lost(n)' = Lost(n)
  BY CoordinatorAssumption, CountTypes
     DEF IInv, TypeOK, CoordinatorAssumption, Worker, Onward, Spare, Lost
<1>2. CASE ClaimWins(rows[n], w)
  <2> DEFINE row == Claimed(rows[n], w, now)
             p == Fresh("execute", n)
  <2>1. SetRow(n, row) /\ GoTo(w, p) /\ row \in Row
    BY <1>1, <1>2, RowTypes DEF ClaimFor, SetRow
  <2>2. row.status = "claimed" /\ row.owner = w
    BY <1>1, <1>2, ClaimedFields
  <2>3. row.attempts = IF rows[n].status = "absent" THEN 1 ELSE rows[n].attempts + 1
    BY <1>1, <1>2, ClaimedCounts
  <2>4. p.pc = "execute" /\ p.node = n
    BY FreshFields
  <2> HIDE DEF row, p
  <2>5. rows'[n] = row /\ \A m \in Node : m # n => rows'[m] = rows[m]
    BY <1>1, <2>1, SetRowStep DEF TypeOK
  <2>6. NodeBudget(n) /\ WorkerBudget(w)
    BY DEF BudgetInv
  <2>7. ASSUME rows[n].status # "absent" PROVE Reenters(w)
    <3>1. IsHeld(rows[n]) /\ rows[n].owner = w
      BY <1>2, <2>7 DEF ClaimWins
    <3> QED BY <3>1 DEF Reenters, Held
  <2>8. OnceMore(n) /\ runs[n] < row.attempts + Spare(n)
    <3>1. CASE rows[n].status = "absent"
      <4>1. rows[n].attempts = 0
        BY <3>1 DEF IInv, AbsentInv, Absent
      <4>2. runs[n] <= Spare(n)
        BY <1>1, <2>6, <4>1, CountTypes DEF NodeBudget
      <4>3. n \in Gate \ answered => runs[n] <= Lost(n)
        BY <2>6, <3>1 DEF NodeBudget
      <4>4. runs[n] < TriesFor(n) + Spare(n)
        BY <1>1, <4>2, CountTypes
      <4>5. runs[n] < row.attempts + Spare(n)
        BY <1>1, <2>3, <3>1, <4>2, CountTypes
      <4> QED BY <4>3, <4>4, <4>5 DEF OnceMore
    <3>2. CASE rows[n].status # "absent"
      <4>1. proc[w].node = n
        BY <1>2, <2>7, <3>2 DEF ClaimWins, Held, Reenters
      <4>2. OnceMore(n)
        BY <2>6, <2>7, <3>2, <4>1 DEF WorkerBudget
      <4>3. runs[n] <= rows[n].attempts + Spare(n)
        BY <2>6 DEF NodeBudget
      <4> QED BY <1>1, <2>3, <3>2, <4>2, <4>3, CountTypes
    <3> QED BY <3>1, <3>2
  <2>9. ASSUME NEW m \in Node PROVE NodeBudget(m)'
    <3>1. CASE m # n
      <4>1. NodeBudget(m) /\ rows'[m] = rows[m]
        BY <2>5, <3>1 DEF BudgetInv
      <4> QED BY <1>1, <4>1, NodeKept DEF NodeBudget
    <3>2. CASE m = n
      <4>1. runs[n] <= TriesFor(n) + Spare(n) /\ runs[n] <= row.attempts + Spare(n)
        BY <1>1, <2>1, <2>6, <2>8, CountTypes DEF NodeBudget, Row
      <4>2. (n \in Gate \ answered => runs[n] <= Lost(n) + 1) /\ (~Acyclic => runs[n] = 0)
        BY <2>6 DEF NodeBudget
      <4> QED BY <1>1, <2>2, <2>5, <2>8, <3>2, <4>1, <4>2 DEF NodeBudget
    <3> QED BY <3>1, <3>2
  <2>10. WorkerBudget(w)'
    <3>1. proc'[w] = p
      BY <1>1, <2>1, GoToStep DEF TypeOK, Caller
    <3>2. OnceMore(n)'
      BY <1>1, <2>8 DEF OnceMore
    <3> QED BY <1>1, <2>4, <2>5, <2>8, <3>1, <3>2 DEF WorkerBudget, Reenters, At
  <2>11. \A v \in Worker : v # w => proc'[v] = proc[v]
    BY <1>1, <2>1, GoToStep DEF TypeOK, Caller
  <2>12. ASSUME NEW v \in Worker, v # w,
                proc[v].pc \in {"execute", "checkpoint"} \/ Reenters(v)'
         PROVE  rows'[proc[v].node] = rows[proc[v].node] /\ runs'[proc[v].node] = runs[proc[v].node]
    <3>1. IsHeld(rows[n]) => rows[n].owner = w
      BY <1>2 DEF ClaimWins, IsHeld
    <3>2. proc[v].node \in Node /\ proc[v].node # n
      BY <1>2, <2>1, <2>2, <2>11, <2>12, <3>1, OthersElsewhere DEF ClaimWins
    <3> QED BY <2>5, <3>2
  <2>13. ASSUME NEW v \in Worker, v # w, proc[v].pc \in {"advance", "settle"}, HoldsRow(v)'
         PROVE  HoldsRow(v)
    <3>1. proc[v].node \in Node /\ rows \in [Node -> Row]
      BY <1>1, <2>13 DEF TypeOK
    <3> QED BY <2>1, <2>2, <2>11, <2>13, <3>1, OthersHoldAsBefore
  <2> QED BY <1>1, <2>1, <2>9, <2>10, <2>12, <2>13, BudgetStep
<1>3. CASE ~ClaimWins(rows[n], w)
  <2> DEFINE p == Fresh("advance", n)
  <2>1. /\ rows' = rows /\ runs' = runs /\ GoTo(w, p) /\ p.pc = "advance" /\ p.node = n
        /\ ~(IsHeld(rows[n]) /\ rows[n].owner = w)
    BY <1>3, FreshFields DEF ClaimFor, ClaimWins
  <2> HIDE DEF p
  <2> QED BY <1>1, <2>1, MoveBudget
<1> QED BY <1>2, <1>3

\* What a replay says of a gate and of a fallible node.
LEMMA ReplaySays ==
  ASSUME NEW n \in Node, NEW v \in Replay(rows, n, answered)
  PROVE  /\ v.kind = "pause" => n \in Gate
         /\ v.kind = "error" /\ n \in Gate \ answered => ~Acyclic
<1>1. CASE ExecutorRuns(rows, n)
  BY <1>1 DEF Replay, Executed, Said
<1>2. CASE ~ExecutorRuns(rows, n)
  BY <1>2 DEF Replay, Said
<1> QED BY <1>1, <1>2

LEMMA ExecuteBudget ==
  ASSUME IInv, TypeOK', BudgetInv, NEW w \in Worker, Execute(w)
  PROVE  BudgetInv'
<1>1. PICK n : n = proc[w].node
  OBVIOUS
<1>2. /\ TypeOK /\ Onward /\ n \in Node /\ IsPlace(proc[w]) /\ At(w, "execute")
      /\ rows' = rows /\ answered' = answered /\ died' = died
  BY <1>1, CountTypes DEF IInv, TypeOK, Execute, At, Caller, Onward, Lost
<1>3. Spare(n)' = Spare(n) /\ Lost(n)' = Lost(n)
  BY <1>2 DEF Spare, Lost
<1>4. PICK v \in Replay(rows, n, answered) :
        GoTo(w, [proc[w] EXCEPT !.pc = "checkpoint", !.verdict = v,
                                !.attempt = rows[n].attempts])
  BY <1>1 DEF Execute
<1> DEFINE p == [proc[w] EXCEPT !.pc = "checkpoint", !.verdict = v,
                                !.attempt = rows[n].attempts]
<1>5. /\ p.pc = "checkpoint" /\ p.node = n /\ p.verdict = v /\ p.attempt = rows[n].attempts
      /\ GoTo(w, p)
  BY <1>1, <1>2, <1>4 DEF IsPlace
<1> HIDE DEF p
<1>6. /\ runs'[n] = IF ExecutorRuns(rows, n) THEN runs[n] + 1 ELSE runs[n]
      /\ \A m \in Node : m # n => runs'[m] = runs[m]
  BY <1>1, <1>2 DEF TypeOK, Execute
<1>7. /\ rows[n].status = "claimed" /\ rows[n].owner = w /\ NodeBudget(n)
      /\ OnceMore(n) /\ runs[n] < rows[n].attempts + Spare(n)
  BY <1>1, <1>2 DEF IInv, HolderOwnsRow, At, BudgetInv, WorkerBudget
<1>8. ASSUME NEW m \in Node PROVE NodeBudget(m)'
  <2>1. CASE m # n
    <3>1. NodeBudget(m) /\ runs'[m] = runs[m]
      BY <1>6, <2>1 DEF BudgetInv
    <3> QED BY <1>2, <3>1, NodeKept DEF NodeBudget
  <2>2. CASE m = n
    <3>1. ASSUME ExecutorRuns(rows, n) PROVE NodeBudget(n)'
      <4>1. runs'[n] = runs[n] + 1 /\ Acyclic
        BY <1>6, <3>1 DEF ExecutorRuns
      <4>2. /\ runs'[n] <= TriesFor(n) + Spare(n)
            /\ runs'[n] <= rows[n].attempts + Spare(n)
        BY <1>2, <1>7, <4>1, CountTypes DEF OnceMore
      <4>3. n \in Gate \ answered => runs'[n] <= Lost(n) + 1
        BY <1>2, <1>7, <4>1, CountTypes DEF OnceMore
      <4> QED BY <1>2, <1>3, <1>7, <4>1, <4>2, <4>3 DEF NodeBudget
    <3>2. ASSUME ~ExecutorRuns(rows, n) PROVE NodeBudget(n)'
      <4>1. runs'[n] = runs[n]
        BY <1>6, <3>2
      <4> QED BY <1>2, <1>7, <4>1, NodeKept DEF NodeBudget
    <3> QED BY <2>2, <3>1, <3>2
  <2> QED BY <2>1, <2>2
<1>9. WorkerBudget(w)'
  <2>1. proc'[w] = p
    BY <1>2, <1>5, GoToStep DEF TypeOK, Caller
  <2>2. /\ v.kind = "pause" => n \in Gate
        /\ v.kind = "error" /\ n \in Gate \ answered => ~Acyclic
    BY <1>2, ReplaySays
  <2> QED BY <1>2, <1>5, <2>1, <2>2 DEF WorkerBudget, Reenters, At
<1>10. ASSUME NEW u \in Worker, u # w,
              proc[u].pc \in {"execute", "checkpoint"} \/ Reenters(u)'
       PROVE  rows'[proc[u].node] = rows[proc[u].node] /\ runs'[proc[u].node] = runs[proc[u].node]
  <2>1. proc'[u] = proc[u]
    BY <1>2, <1>5, <1>10, GoToStep DEF TypeOK, Caller
  <2>2. proc[u].pc # "idle"
    BY <1>10, <2>1 DEF Reenters, At
  <2>3. proc[u].node \in Node
    BY <1>2, <2>2 DEF TypeOK
  <2>4. proc[u].node # n
    BY <1>2, <1>7, <1>10, <2>1 DEF IInv, HolderOwnsRow, Reenters
  <2> QED BY <1>2, <1>6, <2>3, <2>4
<1>11. ASSUME NEW u \in Worker, u # w, HoldsRow(u)' PROVE HoldsRow(u)
  <2>1. proc'[u] = proc[u]
    BY <1>2, <1>5, <1>11, GoToStep DEF TypeOK, Caller
  <2> QED BY <1>2, <1>11, <2>1 DEF HoldsRow
<1> QED BY <1>2, <1>5, <1>8, <1>9, <1>10, <1>11, BudgetStep

\* A row is written, with the attempts it had, by a caller that then neither
\* works on it nor re-enters it.
LEMMA WriteBudget ==
  ASSUME IInv, TypeOK', BudgetInv, Onward, NEW c, NEW p, GoTo(c, p),
         p.pc \notin {"execute", "checkpoint", "retry"}, runs' = runs,
         c \in Worker /\ p.pc # "idle" =>
           ~(IsHeld(rows'[p.node]) /\ rows'[p.node].owner = c),
         NEW n \in Node, NEW row \in Row, SetRow(n, row), NodeBudget(n)',
         IsHeld(rows[n]) => rows[n].status = "paused" \/ rows[n].owner = c,
         IsHeld(row) => row.owner = c,
         rows[n].status \in {"absent", "skipped"} \/ IsHeld(rows[n])
  PROVE  BudgetInv'
<1>1. TypeOK
  BY DEF IInv
<1>2. rows'[n] = row /\ \A m \in Node : m # n => rows'[m] = rows[m]
  BY <1>1, SetRowStep DEF TypeOK
<1>3. \A m \in Node : NodeBudget(m)'
  <2> SUFFICES ASSUME NEW m \in Node, m # n PROVE NodeBudget(m)'
    OBVIOUS
  <2>1. NodeBudget(m) /\ rows'[m] = rows[m] /\ runs'[m] = runs[m]
    BY <1>2 DEF BudgetInv
  <2> QED BY <1>1, <2>1, NodeKept DEF NodeBudget
<1>4. ASSUME c \in Worker PROVE WorkerBudget(c)'
  <2>1. proc'[c] = p
    BY <1>1, <1>4, GoToStep DEF TypeOK, Caller
  <2> QED BY <1>4, <2>1 DEF WorkerBudget, Reenters, HoldsRow, At
<1>5. ASSUME NEW v \in Worker, v # c,
             proc[v].pc \in {"execute", "checkpoint"} \/ Reenters(v)'
      PROVE  rows'[proc[v].node] = rows[proc[v].node] /\ runs'[proc[v].node] = runs[proc[v].node]
  <2>1. proc'[v] = proc[v]
    BY <1>1, <1>5, GoToStep DEF TypeOK, Caller
  <2>2. proc[v].node \in Node /\ proc[v].node # n
    BY <1>5, <2>1, OthersElsewhere
  <2> QED BY <1>2, <2>2
<1>6. ASSUME NEW v \in Worker, v # c, proc[v].pc \in {"advance", "settle"}, HoldsRow(v)'
      PROVE  HoldsRow(v)
  <2>1. proc'[v] = proc[v]
    BY <1>1, <1>6, GoToStep DEF TypeOK, Caller
  <2>2. proc[v].node \in Node /\ rows \in [Node -> Row]
    BY <1>1, <1>6 DEF TypeOK
  <2> QED BY <1>6, <2>1, <2>2, OthersHoldAsBefore
<1> QED BY <1>1, <1>3, <1>4, <1>5, <1>6, BudgetStep

LEMMA CheckpointBudget ==
  ASSUME IInv, TypeOK', BudgetInv, NEW w \in Worker, Settles(w) \/ CheckpointPause(w)
  PROVE  BudgetInv'
<1>1. PICK n : n = proc[w].node
  OBVIOUS
<1>2. /\ TypeOK /\ n \in Node /\ At(w, "checkpoint") /\ rows[n].status = "claimed"
      /\ rows[n].owner = w /\ UNCHANGED <<answered, died, runs>>
  BY <1>1, CheckpointWrites, CheckpointRow DEF IInv
<1>3. rows[n] \in Row /\ proc[w].verdict.ports \subseteq RowPort
  <2>1. IsPlace(proc[w])
    BY <1>2 DEF TypeOK, Caller
  <2> QED BY <1>2, <2>1, CoordinatorAssumption
          DEF TypeOK, IsPlace, Verdict, CoordinatorAssumption
<1>4. \E row \in Row :
        /\ SetRow(n, row) /\ row.attempts = rows[n].attempts /\ row.owner = rows[n].owner
        /\ row.status # "absent" /\ (row.status = "paused" => n \in Gate)
        /\ Settles(w) => ~IsHeld(row)
  <2>1. CASE CheckpointOutput(w)
    <3> DEFINE row == Completed(rows[n], proc[w].verdict.ports)
    <3>1. /\ SetRow(n, row) /\ row \in Row /\ row.attempts = rows[n].attempts
          /\ row.owner = rows[n].owner /\ row.status = "completed"
      BY <1>1, <1>3, <2>1, RowTypes DEF CheckpointOutput, Completed, Row
    <3> HIDE DEF row
    <3> QED BY <3>1 DEF IsHeld
  <2>2. CASE CheckpointSkip(w)
    <3> DEFINE row == Skipped(rows[n])
    <3>1. SkipWins(rows[n])
      BY <1>2 DEF SkipWins, IsSettled
    <3>2. /\ SetRow(n, row) /\ row \in Row /\ row.attempts = rows[n].attempts
          /\ row.owner = rows[n].owner /\ row.status = "skipped"
      BY <1>1, <1>3, <2>2, <3>1, RowTypes DEF CheckpointSkip, Skipped, Row
    <3> HIDE DEF row
    <3> QED BY <3>2 DEF IsHeld
  <2>3. CASE CheckpointFailure(w)
    <3> DEFINE row == Failed(rows[n])
    <3>1. /\ SetRow(n, row) /\ row \in Row /\ row.attempts = rows[n].attempts
          /\ row.owner = rows[n].owner /\ row.status = "failed"
      BY <1>1, <1>3, <2>3, RowTypes DEF CheckpointFailure, Failed, Row
    <3> HIDE DEF row
    <3> QED BY <3>1 DEF IsHeld
  <2>4. CASE CheckpointPause(w)
    <3> DEFINE row == Paused(rows[n])
    <3>1. /\ SetRow(n, row) /\ row \in Row /\ row.attempts = rows[n].attempts
          /\ row.owner = rows[n].owner /\ row.status = "paused"
      BY <1>1, <1>3, <2>4, RowTypes DEF CheckpointPause, Paused, Row
    <3>2. n \in Gate
      BY <1>1, <1>2, <2>4 DEF BudgetInv, WorkerBudget, CheckpointPause, Checkpoint
    <3>3. ~Settles(w)
      BY <2>4 DEF Settles, CheckpointPause, CheckpointOutput, CheckpointSkip,
                  CheckpointFailure, Checkpoint
    <3> HIDE DEF row
    <3> QED BY <3>1, <3>2, <3>3
  <2> QED BY <2>1, <2>2, <2>3, <2>4 DEF Settles
<1>5. PICK row \in Row :
        /\ SetRow(n, row) /\ row.attempts = rows[n].attempts /\ row.owner = rows[n].owner
        /\ row.status # "absent" /\ (row.status = "paused" => n \in Gate)
        /\ Settles(w) => ~IsHeld(row)
  BY <1>4
<1>6. PICK pc \in {"idle", "advance"}, k \in Node \cup {NoNode} :
        GoTo(w, Fresh(pc, k)) /\ (pc = "idle" \/ (k = n /\ Settles(w)))
  BY <1>1, <1>2, CheckpointWrites
<1> DEFINE p == Fresh(pc, k)
<1>7. /\ GoTo(w, p) /\ p.pc \in {"idle", "advance"}
      /\ p.pc = "idle" \/ (p.node = n /\ Settles(w))
  BY <1>6, FreshFields
<1> HIDE DEF p
<1>8. rows'[n] = row
  BY <1>2, <1>5, SetRowStep DEF TypeOK
<1>9. Onward
  BY <1>2, CountTypes DEF Onward, Lost
<1>10. NodeBudget(n)'
  <2>1. NodeBudget(n)
    BY <1>2 DEF BudgetInv
  <2> QED BY <1>2, <1>5, <1>8, <1>9, <2>1, NodeKept
<1>11. IsHeld(rows[n]) /\ (IsHeld(row) => row.owner = w)
  BY <1>2, <1>5 DEF IsHeld
<1>12. p.pc # "idle" => ~(IsHeld(rows'[p.node]) /\ rows'[p.node].owner = w)
  BY <1>5, <1>7, <1>8
<1> QED BY <1>2, <1>5, <1>7, <1>9, <1>10, <1>11, <1>12, WriteBudget

LEMMA SettleSkipBudget ==
  ASSUME IInv, TypeOK', BudgetInv, NEW c \in Caller, SettleSkip(c)
  PROVE  BudgetInv'
<1>1. TypeOK /\ UNCHANGED <<answered, died, runs>> /\ At(c, "settle")
  BY DEF IInv, SettleSkip
<1>2. PICK n \in DOMAIN proc[c].skips : \E p :
        /\ n \in Node /\ GoTo(c, p) /\ p.pc = "settle" /\ p.node = proc[c].node
        /\ SetRow(n, IF SkipWins(rows[n]) THEN Skipped(rows[n]) ELSE rows[n])
  BY <1>1, SettleSkipMoves
<1>3. PICK p : n \in Node /\ GoTo(c, p) /\ p.pc = "settle" /\ p.node = proc[c].node
  BY <1>2
<1> DEFINE row == IF SkipWins(rows[n]) THEN Skipped(rows[n]) ELSE rows[n]
<1>4. rows[n].status \in {"absent", "skipped"}
  BY <1>2 DEF IInv, DoomInv, Doomed
<1>5. rows[n] \in Row /\ row \in Row /\ SetRow(n, row)
  BY <1>1, <1>2, RowTypes DEF TypeOK
<1>6. row.status = "skipped" /\ row.attempts = rows[n].attempts
  BY <1>4, <1>5 DEF SkipWins, IsSettled, Skipped, Row
<1> HIDE DEF row
<1>7. rows'[n] = row
  BY <1>1, <1>2, <1>5, SetRowStep DEF TypeOK
<1>8. Onward
  BY <1>1, CountTypes DEF Onward, Lost
<1>9. NodeBudget(n)'
  <2>1. NodeBudget(n)
    BY <1>2 DEF BudgetInv
  <2> QED BY <1>1, <1>2, <1>6, <1>7, <1>8, <2>1, NodeKept
<1>10. ~IsHeld(rows[n]) /\ ~IsHeld(row)
  BY <1>4, <1>6 DEF IsHeld
<1>11. c \in Worker => ~(IsHeld(rows'[p.node]) /\ rows'[p.node].owner = c)
  <2> SUFFICES ASSUME c \in Worker, IsHeld(rows'[p.node]) PROVE rows'[p.node].owner # c
    OBVIOUS
  <2>1. p.node \in Node /\ ~HoldsRow(c)
    BY <1>1, <1>3 DEF TypeOK, At, BudgetInv, WorkerBudget
  <2>2. p.node # n
    BY <1>7, <1>10
  <2>3. rows'[p.node] = rows[p.node]
    BY <1>1, <1>2, <1>5, <2>1, <2>2, SetRowStep DEF TypeOK
  <2> QED BY <1>3, <2>1, <2>3 DEF HoldsRow
<1> QED BY <1>1, <1>3, <1>4, <1>5, <1>8, <1>9, <1>10, <1>11, WriteBudget

\* A released gate loses the count of its attempts; the answer pays for them.
LEMMA ReleaseBudget ==
  ASSUME IInv, TypeOK', BudgetInv, NEW n \in Node, AnswerAndRelease(n)
  PROVE  BudgetInv'
<1>1. /\ TypeOK /\ died' = died /\ runs' = runs /\ answered' = answered \cup {n}
      /\ n \notin answered /\ rows[n].status = "paused" /\ Host \notin Worker
  BY CoordinatorAssumption DEF IInv, AnswerAndRelease, CoordinatorAssumption
<1>2. SetRow(n, Absent) /\ Absent \in Row /\ Absent.attempts = 0 /\ Absent.status = "absent"
  BY RowTypes DEF AnswerAndRelease, Released, Absent
<1>3. rows'[n] = Absent
  BY <1>1, <1>2, SetRowStep DEF TypeOK
<1> DEFINE p == Fresh("advance", NoNode)
<1>4. GoTo(Host, p) /\ p.pc = "advance" /\ Onward
  BY <1>1, FreshFields, CountTypes DEF AnswerAndRelease, Onward, Lost
<1> HIDE DEF p
<1>5. Lost(n)' = Lost(n) /\ Spare(n)' = Spare(n) + 1 /\ Spare(n) = Lost(n)
  BY <1>1, CountTypes DEF Spare, Lost
<1>6. NodeBudget(n)'
  <2>1. NodeBudget(n)
    BY DEF BudgetInv
  <2>2. runs[n] <= Lost(n) + 1
    BY <1>1, <2>1 DEF NodeBudget
  <2>3. runs[n] \in Nat /\ TriesFor(n) \in Nat /\ Spare(n) \in Nat
    BY <1>1, CountTypes
  <2>4. runs'[n] <= TriesFor(n) + Spare(n)' /\ runs'[n] <= 0 + Spare(n)'
    BY <1>1, <1>5, <2>2, <2>3
  <2> QED BY <1>1, <1>2, <1>3, <2>1, <2>4 DEF NodeBudget
<1>7. ~IsHeld(Absent) /\ IsHeld(rows[n])
  BY <1>1, <1>2 DEF IsHeld
<1> QED BY <1>1, <1>2, <1>4, <1>6, <1>7, WriteBudget

LEMMA RedispatchBudget ==
  ASSUME IInv, TypeOK', BudgetInv, NEW n \in Node, AnswerAndRedispatch(n)
  PROVE  BudgetInv'
<1>1. /\ TypeOK /\ died' = died /\ runs' = runs /\ answered' = answered \cup {n}
      /\ n \notin answered /\ rows' = rows
  BY DEF IInv, AnswerAndRedispatch
<1>2. Spare(n)' = Spare(n) + 1
  BY <1>1, CountTypes DEF Spare, Lost
<1>3. OnceMore(n)'
  <2>1. NodeBudget(n)
    BY DEF BudgetInv
  <2>2. runs[n] < TriesFor(n) + Spare(n)'
    BY <1>1, <1>2, <2>1, CountTypes DEF NodeBudget
  <2> QED BY <1>1, <2>2 DEF OnceMore
<1>4. PICK w : w = rows[n].owner
  OBVIOUS
<1> DEFINE p == Fresh("retry", n)
<1>5. GoTo(w, p) /\ p.pc = "retry" /\ p.node = n /\ Onward
  BY <1>1, <1>4, FreshFields, CountTypes DEF AnswerAndRedispatch, Onward, Lost
<1> HIDE DEF p
<1> QED BY <1>1, <1>3, <1>5, MoveBudget

LEMMA RetryBudgetKept ==
  ASSUME IInv, TypeOK', BudgetInv, NEW w \in Worker, Retry(w)
  PROVE  BudgetInv'
<1>1. PICK n : n = proc[w].node
  OBVIOUS
<1>2. /\ TypeOK /\ n \in Node /\ UNCHANGED <<rows, answered, died, runs>>
      /\ At(w, "checkpoint") /\ proc[w].verdict.kind = "error"
      /\ proc[w].attempt < TriesFor(n)
  BY <1>1 DEF IInv, TypeOK, Retry, Checkpoint, At
<1>3. /\ NodeBudget(n) /\ proc[w].attempt = rows[n].attempts
      /\ Spare(n)' = Spare(n) /\ Lost(n)' = Lost(n)
  BY <1>1, <1>2 DEF BudgetInv, WorkerBudget, Spare, Lost
<1>4. OnceMore(n)'
  <2>1. runs[n] < TriesFor(n) + Spare(n)
    BY <1>2, <1>3, CountTypes DEF NodeBudget
  <2>2. n \in Gate \ answered => runs[n] <= Lost(n)
    <3>1. n \in Gate \ answered => runs[n] = 0
      BY <1>1, <1>2, <1>3 DEF BudgetInv, WorkerBudget, NodeBudget
    <3> QED BY <1>2, <3>1, CountTypes
  <2> QED BY <1>2, <1>3, <2>1, <2>2 DEF OnceMore
<1> DEFINE p == Fresh("retry", n)
<1>5. GoTo(w, p) /\ p.pc = "retry" /\ p.node = n /\ Onward
  BY <1>1, <1>2, FreshFields, CountTypes DEF Retry, Onward, Lost
<1> HIDE DEF p
<1> QED BY <1>2, <1>4, <1>5, MoveBudget

LEMMA CrashBudget ==
  ASSUME IInv, TypeOK', BudgetInv, NEW w \in Worker, Crash(w)
  PROVE  BudgetInv'
<1>1. PICK n : n = proc[w].node
  OBVIOUS
<1>2. /\ TypeOK /\ n \in Node /\ rows' = rows /\ runs' = runs /\ answered' = answered
      /\ proc[w].pc \in {"execute", "checkpoint", "advance", "settle"}
  BY <1>1 DEF IInv, TypeOK, Crash, IsPlace, Caller
<1> DEFINE p == Fresh("retry", n)
<1>3. GoTo(w, p) /\ p.pc = "retry" /\ p.node = n
  BY <1>1, FreshFields DEF Crash
<1> HIDE DEF p
<1>4. CASE proc[w].pc \in {"execute", "checkpoint"}
  <2>1. OnceMore(n)' /\ Onward
    BY <1>1, <1>4, CrashMakesRoom
  <2> QED BY <1>2, <1>3, <2>1, MoveBudget
<1>5. CASE proc[w].pc \in {"advance", "settle"}
  <2>1. ~HoldsRow(w)
    BY <1>5 DEF BudgetInv, WorkerBudget, At
  <2>2. died' = died
    BY <1>5 DEF Crash
  <2>3. Onward
    BY <1>2, <2>2, CountTypes DEF Onward, Lost
  <2> QED BY <1>1, <1>2, <1>3, <2>1, <2>3, MoveBudget DEF HoldsRow
<1> QED BY <1>2, <1>4, <1>5

LEMMA HandOutBudget ==
  ASSUME TypeOK, TypeOK', BudgetInv, NEW c \in Caller, NEW ids, HandOut(c, ids),
         c \in Worker => proc[c].node \in Node,
         At(c, "advance") \/ At(c, "settle"),
         UNCHANGED <<rows, runs, died, answered>>
  PROVE  BudgetInv'
<1>1. Onward
  BY CountTypes DEF Onward, Lost
<1>2. CASE GoTo(c, Idle)
  <2>1. Idle.pc = "idle"
    BY FreshFields DEF Idle
  <2> QED BY <1>1, <1>2, <2>1, MoveBudget
<1>3. CASE c \in Worker /\ GoTo(c, Fresh("retry", proc[c].node))
  <2> DEFINE p == Fresh("retry", proc[c].node)
  <2>1. GoTo(c, p) /\ p.pc = "retry" /\ p.node = proc[c].node
    BY <1>3, FreshFields
  <2>2. ~HoldsRow(c)
    BY <1>3 DEF BudgetInv, WorkerBudget
  <2> HIDE DEF p
  <2> QED BY <1>1, <2>1, <2>2, MoveBudget DEF HoldsRow
<1> QED BY <1>2, <1>3 DEF HandOut

LEMMA BudgetPreserved == IInv /\ BudgetInv /\ [Next]_vars => BudgetInv'
<1> SUFFICES ASSUME IInv, BudgetInv, [Next]_vars PROVE BudgetInv'
  OBVIOUS
<1>1. TypeOK /\ TypeOK'
  BY TypesPreserved DEF IInv
<1>2. ASSUME NEW w \in Worker, RunNode(w) PROVE BudgetInv'
  <2>1. ASSUME NEW n \in Node, Deliver(w, n) PROVE BudgetInv'
    BY <1>1, <2>1, ClaimBudget DEF Deliver, HasRoom
  <2>2. CASE Redeliver(w)
    <3>1. proc[w].node \in Node
      BY <1>1, <2>2 DEF TypeOK, Redeliver, At
    <3> QED BY <1>1, <2>2, <3>1, ClaimBudget DEF Redeliver
  <2>3. CASE Execute(w)
    BY <1>1, <2>3, ExecuteBudget
  <2>4. CASE Settles(w) \/ CheckpointPause(w)
    BY <1>1, <2>4, CheckpointBudget
  <2>5. CASE Retry(w)
    BY <1>1, <2>5, RetryBudgetKept
  <2> QED BY <1>2, <2>1, <2>2, <2>3, <2>4, <2>5 DEF RunNode, Settles
<1>3. ASSUME NEW w \in Worker, Crash(w) PROVE BudgetInv'
  BY <1>1, <1>3, CrashBudget
<1>4. ASSUME NEW c \in Caller, Advance(c) PROVE BudgetInv'
  <2>1. /\ UNCHANGED <<rows, runs, died, answered>> /\ At(c, "advance")
        /\ c \in Worker => proc[c].node \in Node
    BY <1>1, <1>4 DEF Advance, TypeOK, At
  <2>2. CASE Skips(rows) = {}
    BY <1>1, <1>4, <2>1, <2>2, HandOutBudget DEF Advance
  <2>3. CASE Skips(rows) # {}
    <3>1. PICK p : GoTo(c, p) /\ p.pc = "settle" /\ p.node = proc[c].node
      BY <1>1, <1>4, <2>3, AdvanceMoves
    <3>2. c \in Worker => ~HoldsRow(c)
      BY <2>1 DEF BudgetInv, WorkerBudget
    <3>3. Onward
      BY <1>1, <2>1, CountTypes DEF Onward, Lost
    <3> QED BY <1>1, <2>1, <3>1, <3>2, <3>3, MoveBudget DEF HoldsRow
  <2> QED BY <2>2, <2>3
<1>5. ASSUME NEW c \in Caller, FinishAdvance(c) PROVE BudgetInv'
  <2>1. /\ UNCHANGED <<rows, runs, died, answered>> /\ At(c, "settle")
        /\ c \in Worker => proc[c].node \in Node
    BY <1>1, <1>5 DEF FinishAdvance, TypeOK, At
  <2> QED BY <1>1, <1>5, <2>1, HandOutBudget DEF FinishAdvance
<1>6. CASE Tick \/ UNCHANGED vars
  <2>1. UNCHANGED <<rows, proc, answered, died, runs>>
    BY <1>6 DEF Tick, vars
  <2>2. \A n \in Node : NodeBudget(n)'
    BY <2>1 DEF BudgetInv, NodeBudget, Spare, Lost
  <2>3. \A w \in Worker : WorkerBudget(w)'
    BY <2>1 DEF BudgetInv, WorkerBudget, OnceMore, Reenters, HoldsRow, At, Spare, Lost
  <2> QED BY <2>2, <2>3 DEF BudgetInv
<1> QED BY <1>1, <1>2, <1>3, <1>4, <1>5, <1>6,
           SettleSkipBudget, ReleaseBudget, RedispatchBudget DEF Next, AdvanceSteps

LEMMA InitBudget == Init => BudgetInv
<1> SUFFICES ASSUME Init PROVE BudgetInv
  OBVIOUS
<1>1. \A n \in Node : /\ rows[n] = Absent /\ runs[n] = 0 /\ Spare(n) = 0
                      /\ TriesFor(n) \in Nat /\ Lost(n) = 0
  BY TriesType DEF Init, Spare, Lost
<1>2. Absent.status = "absent" /\ Absent.attempts = 0
  BY DEF Absent
<1>3. \A n \in Node : NodeBudget(n)
  BY <1>1, <1>2 DEF NodeBudget
<1>4. \A w \in Worker : proc[w].pc = "idle"
  BY CoordinatorAssumption, FreshFields DEF Init, Idle, Caller, CoordinatorAssumption
<1>5. \A w \in Worker : WorkerBudget(w)
  BY <1>4 DEF WorkerBudget, Reenters, At
<1> QED BY <1>3, <1>5 DEF BudgetInv

\* However jobs are duplicated, redelivered and answered, an executor runs at
\* most once per try of the policy, plus once for each worker that died between
\* its execution and its checkpoint, and once for the answer.
THEOREM RetriesBounded == Spec => []RetryBudget
<1>1. ASSUME IInv, BudgetInv PROVE RetryBudget
  <2> SUFFICES ASSUME NEW n \in Node
               PROVE  runs[n] <= TriesFor(n) + died[n].checkpoint
                                   + (IF n \in answered THEN 1 ELSE 0)
    BY DEF RetryBudget
  <2>1. runs[n] <= TriesFor(n) + Spare(n)
    BY <1>1 DEF BudgetInv, NodeBudget
  <2>2. Lost(n) \in Nat /\ TriesFor(n) \in Nat
    BY <1>1, CountTypes DEF IInv
  <2>3. TriesFor(n) + Spare(n) = TriesFor(n) + Lost(n) + (IF n \in answered THEN 1 ELSE 0)
    BY <2>2 DEF Spare
  <2> QED BY <2>1, <2>3 DEF Lost
<1> QED BY <1>1, InitBudget, BudgetPreserved, Inductive, PTL DEF Spec

-----------------------------------------------------------------------------
(* Nothing is stranded. *)

\* A claim has a worker that will write it or claim it again.
HandInv ==
  \A n \in Node : rows[n].status = "claimed" =>
    /\ rows[n].owner \in Worker /\ proc[rows[n].owner].node = n
    /\ proc[rows[n].owner].pc \in {"execute", "checkpoint", "retry"}

\* The ready nodes a caller keeps begin with a first one.
FirstInv ==
  \A c \in Caller : DOMAIN proc[c].ready # {} =>
    \E n \in DOMAIN proc[c].ready : proc[c].ready[n] = 0

\* An advance() is under way or will come: some caller is at it or on its way,
\* some job is queued, or somebody is asked.
Rolling ==
  \/ \E c \in Caller : proc[c].pc \in {"advance", "execute", "checkpoint", "retry"}
  \/ \E n \in Node : rows[n].status = "paused" \/ queue[n] > 0

\* Or a caller that is settling skips has all there is to do in its hands.
Covered(n) ==
  \E c \in Caller : /\ At(c, "settle")
                    /\ n \in DOMAIN proc[c].ready \cup DOMAIN proc[c].skips

CoverInv == Rolling \/ \A n \in Skips(rows) \cup Ready(rows) : Covered(n)

StrandInv == HandInv /\ FirstInv /\ CoverInv

\* A caller moves and at most one row is written, which is not claimed
\* afterwards or is the caller's own.
LEMMA HandStep ==
  ASSUME TypeOK, HandInv, NEW c, NEW p, GoTo(c, p),
         \A m \in Node : rows'[m].status = "claimed" =>
           \/ /\ rows'[m] = rows[m]
              /\ rows[m].owner = c =>
                   p.node = m /\ p.pc \in {"execute", "checkpoint", "retry"}
           \/ /\ c \in Worker /\ rows'[m].owner = c
              /\ p.node = m /\ p.pc \in {"execute", "checkpoint", "retry"}
  PROVE  HandInv'
<1>1. \A d \in Caller : proc'[d] = IF d = c THEN p ELSE proc[d]
  BY GoToStep DEF TypeOK
<1> SUFFICES ASSUME NEW m \in Node, rows'[m].status = "claimed"
             PROVE  /\ rows'[m].owner \in Worker /\ proc'[rows'[m].owner].node = m
                    /\ proc'[rows'[m].owner].pc \in {"execute", "checkpoint", "retry"}
  BY DEF HandInv
<1>2. CASE /\ rows'[m] = rows[m]
           /\ rows[m].owner = c =>
                p.node = m /\ p.pc \in {"execute", "checkpoint", "retry"}
  BY <1>1, <1>2 DEF HandInv, Caller
<1>3. CASE /\ c \in Worker /\ rows'[m].owner = c
           /\ p.node = m /\ p.pc \in {"execute", "checkpoint", "retry"}
  BY <1>1, <1>3 DEF Caller
<1> QED BY <1>2, <1>3

\* Whoever holds no claim may go anywhere while the rows stand still.
LEMMA EmptyHanded ==
  ASSUME TypeOK, HandInv, NEW c, NEW p, GoTo(c, p), rows' = rows,
         c \in Caller => proc[c].pc \notin {"execute", "checkpoint", "retry"}
  PROVE  HandInv'
<1>1. \A m \in Node : rows[m].status = "claimed" => rows[m].owner # c
  BY DEF HandInv, Caller
<1> QED BY <1>1, HandStep

LEMMA FirstStep ==
  ASSUME TypeOK, FirstInv, NEW c, NEW p, GoTo(c, p),
         DOMAIN p.ready # {} => \E n \in DOMAIN p.ready : p.ready[n] = 0
  PROVE  FirstInv'
<1>1. \A d \in Caller : proc'[d] = IF d = c THEN p ELSE proc[d]
  BY GoToStep DEF TypeOK
<1> QED BY <1>1 DEF FirstInv

LEMMA Rolls ==
  ASSUME TypeOK, NEW c \in Caller, NEW p, GoTo(c, p),
         p.pc \in {"advance", "execute", "checkpoint", "retry"}
  PROVE  Rolling'
<1>1. proc'[c] = p
  BY GoToStep DEF TypeOK
<1> QED BY <1>1 DEF Rolling

\* A step that begins with nothing kept and rolls on.
LEMMA FreshStrand ==
  ASSUME TypeOK, StrandInv, HandInv', NEW c \in Caller, NEW pc, NEW n,
         GoTo(c, Fresh(pc, n)), pc \in {"advance", "execute", "checkpoint", "retry"}
  PROVE  StrandInv'
<1> DEFINE p == Fresh(pc, n)
<1>1. GoTo(c, p) /\ p.pc = pc /\ DOMAIN p.ready = {}
  BY FreshFields DEF Clear
<1> HIDE DEF p
<1>2. FirstInv' /\ Rolling'
  BY <1>1, FirstStep, Rolls DEF StrandInv
<1> QED BY <1>2 DEF StrandInv, CoverInv

LEMMA ClaimStrand ==
  ASSUME TypeOK, StrandInv, NEW w \in Worker, NEW n \in Node, ClaimFor(w, n),
         At(w, "idle") \/ (At(w, "retry") /\ proc[w].node = n)
  PROVE  StrandInv'
<1>1. w \in Caller /\ w \in Owner /\ rows[n] \in Row /\ now \in Nat
  BY CoordinatorAssumption DEF TypeOK, Caller, Worker, CoordinatorAssumption
<1>2. \A m \in Node : rows[m].status = "claimed" /\ rows[m].owner = w => m = n
  BY DEF StrandInv, HandInv, At
<1>3. CASE ClaimWins(rows[n], w)
  <2> DEFINE row == Claimed(rows[n], w, now)
             p == Fresh("execute", n)
  <2>1. row.status = "claimed" /\ row.owner = w
    BY <1>1, <1>3, ClaimedFields
  <2>2. rows' = [rows EXCEPT ![n] = row] /\ GoTo(w, p)
    BY <1>3 DEF ClaimFor
  <2>3. p.pc = "execute" /\ p.node = n
    BY FreshFields
  <2> HIDE DEF row, p
  <2>4. rows'[n] = row /\ \A m \in Node : m # n => rows'[m] = rows[m]
    BY <2>2 DEF TypeOK
  <2>5. HandInv'
    BY <1>2, <2>1, <2>2, <2>3, <2>4, HandStep DEF StrandInv
  <2> QED BY <1>1, <2>2, <2>5, FreshStrand DEF p
<1>4. CASE ~ClaimWins(rows[n], w)
  <2>1. rows' = rows /\ GoTo(w, Fresh("advance", n))
    BY <1>4 DEF ClaimFor
  <2>2. ~(rows[n].status = "claimed" /\ rows[n].owner = w)
    BY <1>4 DEF ClaimWins, IsHeld
  <2>3. \A m \in Node : rows[m].status = "claimed" => rows[m].owner # w
    BY <1>2, <2>2
  <2>4. HandInv'
    BY <2>1, <2>3, HandStep DEF StrandInv
  <2> QED BY <1>1, <2>1, <2>4, FreshStrand
<1> QED BY <1>3, <1>4

LEMMA ExecuteStrand ==
  ASSUME TypeOK, StrandInv, NEW w \in Worker, Execute(w)
  PROVE  StrandInv'
<1>1. w \in Caller /\ IsPlace(proc[w]) /\ rows' = rows /\ At(w, "execute")
  BY DEF TypeOK, Caller, Execute
<1>2. PICK v : GoTo(w, [proc[w] EXCEPT !.pc = "checkpoint", !.verdict = v,
                                       !.attempt = rows[proc[w].node].attempts])
  BY DEF Execute
<1> DEFINE p == [proc[w] EXCEPT !.pc = "checkpoint", !.verdict = v,
                                !.attempt = rows[proc[w].node].attempts]
<1>3. GoTo(w, p) /\ p.pc = "checkpoint" /\ p.node = proc[w].node /\ p.ready = proc[w].ready
  BY <1>1, <1>2 DEF IsPlace
<1> HIDE DEF p
<1>4. \A m \in Node : rows[m].status = "claimed" /\ rows[m].owner = w => m = p.node
  BY <1>3 DEF StrandInv, HandInv
<1>5. HandInv'
  BY <1>1, <1>3, <1>4, HandStep DEF StrandInv
<1>6. FirstInv' /\ Rolling'
  BY <1>1, <1>3, FirstStep, Rolls DEF StrandInv, FirstInv
<1> QED BY <1>5, <1>6 DEF StrandInv, CoverInv

LEMMA CheckpointStrand ==
  ASSUME IInv, StrandInv, NEW w \in Worker, Settles(w) \/ CheckpointPause(w)
  PROVE  StrandInv'
<1>1. PICK n : n = proc[w].node
  OBVIOUS
<1>2. TypeOK /\ w \in Caller /\ n \in Node /\ At(w, "checkpoint")
  BY <1>1, CheckpointWrites DEF IInv, Caller
<1>3. rows[n] \in Row /\ rows[n].status = "claimed" /\ proc[w].verdict.ports \subseteq RowPort
  <2>1. rows[n] \in Row /\ rows[n].status = "claimed"
    BY <1>1, <1>2, CheckpointRow DEF TypeOK
  <2>2. IsPlace(proc[w])
    BY <1>2 DEF TypeOK
  <2> QED BY <2>1, <2>2, CoordinatorAssumption DEF IsPlace, Verdict, CoordinatorAssumption
<1>4. \E row \in Row : /\ SetRow(n, row) /\ row.status # "claimed"
                       /\ CheckpointPause(w) => row.status = "paused"
  <2>1. CASE CheckpointOutput(w)
    <3> DEFINE row == Completed(rows[n], proc[w].verdict.ports)
    <3>1. SetRow(n, row) /\ row \in Row /\ row.status = "completed"
      BY <1>1, <1>3, <2>1, RowTypes DEF CheckpointOutput, Completed, Row
    <3>2. ~CheckpointPause(w)
      BY <2>1 DEF CheckpointOutput, CheckpointPause, Checkpoint
    <3> HIDE DEF row
    <3> QED BY <3>1, <3>2
  <2>2. CASE CheckpointSkip(w)
    <3> DEFINE row == Skipped(rows[n])
    <3>1. SkipWins(rows[n]) /\ ~CheckpointPause(w)
      BY <1>3, <2>2 DEF SkipWins, IsSettled, CheckpointSkip, CheckpointPause, Checkpoint
    <3>2. SetRow(n, row) /\ row \in Row /\ row.status = "skipped"
      BY <1>1, <1>3, <2>2, <3>1, RowTypes DEF CheckpointSkip, Skipped, Row
    <3> HIDE DEF row
    <3> QED BY <3>1, <3>2
  <2>3. CASE CheckpointFailure(w)
    <3> DEFINE row == Failed(rows[n])
    <3>1. SetRow(n, row) /\ row \in Row /\ row.status = "failed"
      BY <1>1, <1>3, <2>3, RowTypes DEF CheckpointFailure, Failed, Row
    <3>2. ~CheckpointPause(w)
      BY <2>3 DEF CheckpointFailure, CheckpointPause, Checkpoint
    <3> HIDE DEF row
    <3> QED BY <3>1, <3>2
  <2>4. CASE CheckpointPause(w)
    <3> DEFINE row == Paused(rows[n])
    <3>1. SetRow(n, row) /\ row \in Row /\ row.status = "paused"
      BY <1>1, <1>3, <2>4, RowTypes DEF CheckpointPause, Paused, Row
    <3> HIDE DEF row
    <3> QED BY <3>1
  <2> QED BY <2>1, <2>2, <2>3, <2>4 DEF Settles
<1>5. PICK row \in Row : /\ SetRow(n, row) /\ row.status # "claimed"
                         /\ CheckpointPause(w) => row.status = "paused"
  BY <1>4
<1>6. rows'[n] = row /\ \A m \in Node : m # n => rows'[m] = rows[m]
  BY <1>2, <1>5, SetRowStep DEF TypeOK
<1>7. ASSUME NEW pc, NEW k, GoTo(w, Fresh(pc, k)) PROVE HandInv'
  <2> DEFINE p == Fresh(pc, k)
  <2>1. GoTo(w, p)
    BY <1>7
  <2> HIDE DEF p
  <2>2. \A m \in Node : rows[m].status = "claimed" /\ rows[m].owner = w => m = n
    BY <1>1 DEF StrandInv, HandInv
  <2>3. \A m \in Node : rows'[m].status = "claimed" =>
          rows'[m] = rows[m] /\ rows[m].owner # w
    BY <1>5, <1>6, <2>2
  <2> QED BY <1>2, <2>1, <2>3, HandStep DEF StrandInv
<1>8. CASE Settles(w)
  <2>1. GoTo(w, Fresh("advance", n))
    BY <1>1, <1>8 DEF Settles, CheckpointOutput, CheckpointSkip, CheckpointFailure, Settle
  <2> QED BY <1>2, <1>7, <2>1, FreshStrand
<1>9. CASE CheckpointPause(w)
  <2>1. GoTo(w, Idle) /\ HandInv'
    BY <1>7, <1>9 DEF CheckpointPause, Idle
  <2>2. DOMAIN Idle.ready = {}
    BY FreshFields DEF Idle, Clear
  <2>3. FirstInv'
    BY <1>2, <2>1, <2>2, FirstStep DEF StrandInv
  <2>4. Rolling'
    BY <1>2, <1>5, <1>6, <1>9 DEF Rolling
  <2> QED BY <2>1, <2>3, <2>4 DEF StrandInv, CoverInv
<1> QED BY <1>8, <1>9

\* A job that is to be delivered again keeps its claim.
LEMMA RetryStrand ==
  ASSUME TypeOK, StrandInv, NEW w \in Worker, rows' = rows,
         GoTo(w, Fresh("retry", proc[w].node))
  PROVE  StrandInv'
<1> DEFINE p == Fresh("retry", proc[w].node)
<1>1. GoTo(w, p) /\ p.pc = "retry" /\ p.node = proc[w].node
  BY FreshFields
<1> HIDE DEF p
<1>2. \A m \in Node : rows[m].status = "claimed" /\ rows[m].owner = w => m = p.node
  BY <1>1 DEF StrandInv, HandInv
<1>3. HandInv'
  BY <1>1, <1>2, HandStep DEF StrandInv
<1> QED BY <1>3, FreshStrand DEF Caller

\* Handing out queues a job if there is one, or the cap is taken by claims
\* whose workers go on and by gates somebody is asked about.
LEMMA HandOutRolls ==
  ASSUME TypeOK, HandInv, NEW c \in Caller, proc[c].pc \in {"advance", "settle"},
         NEW f, IsRanking(f), NEW n \in DOMAIN f, f[n] = 0,
         HandOut(c, SelectDispatch(f, rows, MaxConcurrent)), rows' = rows
  PROVE  Rolling'
<1> DEFINE ids == SelectDispatch(f, rows, MaxConcurrent)
<1>1. CASE c \in Worker /\ GoTo(c, Fresh("retry", proc[c].node))
  <2> DEFINE p == Fresh("retry", proc[c].node)
  <2>1. GoTo(c, p) /\ p.pc = "retry"
    BY <1>1, FreshFields
  <2> HIDE DEF p
  <2> QED BY <2>1, Rolls
<1>2. CASE Enqueue(ids) /\ GoTo(c, Idle)
  <2>1. n \in Node
    BY DEF IsRanking
  <2>2. CASE n \in ids
    <3>1. queue[n] \in Nat /\ MaxQueued \in Nat \ {0}
      BY <2>1, CoordinatorAssumption DEF TypeOK, CoordinatorAssumption
    <3> HIDE DEF ids
    <3>2. queue'[n] = IF queue[n] < MaxQueued THEN queue[n] + 1 ELSE queue[n]
      BY <1>2, <2>1, <2>2 DEF Enqueue
    <3>3. queue'[n] > 0
      BY <3>1, <3>2
    <3> QED BY <2>1, <3>3 DEF Rolling
  <2>3. CASE n \notin ids
    <3>1. MaxConcurrent # 0 /\ ~(0 < MaxConcurrent - Cardinality(Held(rows)))
      BY <2>3 DEF SelectDispatch
    <3>2. Held(rows) # {}
      <4>1. MaxConcurrent \in Nat
        BY CoordinatorAssumption DEF CoordinatorAssumption
      <4>2. ASSUME Held(rows) = {} PROVE FALSE
        <5>1. Cardinality(Held(rows)) = 0
          BY <4>2, FS_EmptySet
        <5> QED BY <3>1, <4>1, <5>1
      <4> QED BY <4>2
    <3>3. PICK m \in Node : IsHeld(rows[m])
      BY <3>2 DEF Held
    <3>4. CASE rows[m].status = "paused"
      BY <3>4 DEF Rolling
    <3>5. CASE rows[m].status = "claimed"
      <4>1. PICK w \in Worker : proc[w].pc \in {"execute", "checkpoint", "retry"}
        BY <3>5 DEF HandInv
      <4>2. w \in Caller /\ w # c
        BY <4>1 DEF Caller
      <4>3. proc'[w] = proc[w]
        BY <1>2, <4>2, GoToStep DEF TypeOK
      <4> QED BY <4>1, <4>2, <4>3 DEF Rolling
    <3> QED BY <3>3, <3>4, <3>5 DEF IsHeld
  <2> QED BY <2>2, <2>3
<1> QED BY <1>1, <1>2 DEF HandOut

LEMMA HandOutRest ==
  ASSUME TypeOK, StrandInv, NEW c \in Caller, proc[c].pc \in {"advance", "settle"},
         NEW ids, HandOut(c, ids), rows' = rows
  PROVE  HandInv' /\ FirstInv'
<1>1. PICK p : GoTo(c, p) /\ DOMAIN p.ready = {}
  <2>1. \A pc, n : DOMAIN Fresh(pc, n).ready = {}
    BY FreshFields DEF Clear
  <2> QED BY <2>1 DEF HandOut, Idle
<1>2. HandInv'
  BY <1>1, EmptyHanded DEF StrandInv
<1>3. FirstInv'
  BY <1>1, FirstStep DEF StrandInv
<1> QED BY <1>2, <1>3

LEMMA AdvanceStrand ==
  ASSUME TypeOK, StrandInv, NEW c \in Caller, Advance(c)
  PROVE  StrandInv'
<1>1. rows' = rows /\ At(c, "advance") /\ proc[c].pc = "advance" /\ IsPlace(proc[c])
  BY DEF Advance, At, TypeOK
<1>2. Ready(rows) \in SUBSET Node /\ Skips(rows) \in SUBSET Node
  BY DEF Ready, Skips, Undecided
<1> DEFINE f == Ranking(rows, Ready(rows))
<1>3. /\ IsRanking(f) /\ DOMAIN f = Ready(rows)
      /\ Ready(rows) # {} => \E n \in Ready(rows) : f[n] = 0
  BY <1>2, RankingType, FirstRank
<1>4. CASE Skips(rows) = {}
  <2>1. HandOut(c, SelectDispatch(f, rows, MaxConcurrent))
    BY <1>4 DEF Advance
  <2> HIDE DEF f
  <2>2. HandInv' /\ FirstInv'
    BY <1>1, <2>1, HandOutRest
  <2>3. CASE Ready(rows) = {}
    <3>1. Skips(rows') \cup Ready(rows') = {}
      BY <1>1, <1>4, <2>3
    <3> QED BY <2>2, <3>1 DEF StrandInv, CoverInv
  <2>4. CASE Ready(rows) # {}
    <3>1. PICK n \in DOMAIN f : f[n] = 0
      BY <1>3, <2>4
    <3>2. Rolling'
      BY <1>1, <1>3, <2>1, <3>1, HandOutRolls DEF StrandInv
    <3> QED BY <2>2, <3>2 DEF StrandInv, CoverInv
  <2> QED BY <2>3, <2>4
<1>5. CASE Skips(rows) # {}
  <2> DEFINE g == Ranking(rows, Skips(rows))
             p == [proc[c] EXCEPT !.pc = "settle", !.ready = f, !.skips = g]
  <2>1. GoTo(c, p)
    BY <1>5 DEF Advance
  <2>2. p.pc = "settle" /\ p.ready = f /\ p.skips = g
    BY <1>1 DEF IsPlace
  <2>3. DOMAIN g = Skips(rows)
    BY <1>2, RankingType
  <2> HIDE DEF f, g, p
  <2>4. HandInv'
    BY <1>1, <2>1, EmptyHanded DEF StrandInv
  <2>5. FirstInv'
    BY <1>3, <2>1, <2>2, FirstStep DEF StrandInv
  <2>6. proc'[c] = p
    BY <2>1, GoToStep DEF TypeOK
  <2>7. ASSUME NEW n \in Skips(rows') \cup Ready(rows') PROVE Covered(n)'
    BY <1>1, <1>3, <2>2, <2>3, <2>6, <2>7 DEF Covered, At
  <2> QED BY <2>4, <2>5, <2>7 DEF StrandInv, CoverInv
<1> QED BY <1>4, <1>5

LEMMA FinishAdvanceStrand ==
  ASSUME TypeOK, TypeOK', StrandInv, NEW c \in Caller, FinishAdvance(c)
  PROVE  StrandInv'
<1> DEFINE f == proc[c].ready
<1>1. /\ rows' = rows /\ proc[c].pc = "settle" /\ DOMAIN proc[c].skips = {}
      /\ HandOut(c, SelectDispatch(f, rows, MaxConcurrent)) /\ IsRanking(f)
  BY DEF FinishAdvance, At, TypeOK, IsPlace
<1>2. DOMAIN f # {} => \E n \in DOMAIN f : f[n] = 0
  BY DEF StrandInv, FirstInv
<1>3. HandInv' /\ FirstInv'
  <2> HIDE DEF f
  <2> QED BY <1>1, HandOutRest
<1>4. CASE DOMAIN f # {}
  <2>1. PICK n \in DOMAIN f : f[n] = 0
    BY <1>2, <1>4
  <2>2. Rolling'
    <3> HIDE DEF f
    <3> QED BY <1>1, <2>1, HandOutRolls DEF StrandInv
  <2> QED BY <1>3, <2>2 DEF StrandInv, CoverInv
<1>5. CASE DOMAIN f = {}
  <2>1. \A d \in Caller : d # c => proc'[d] = proc[d]
    BY <1>1, GoToStep DEF HandOut, TypeOK
  <2>2. \A n \in Node : queue[n] > 0 => queue'[n] > 0
    <3>1. PICK ids : Enqueue(ids)
      BY <1>1 DEF HandOut
    <3>2. \A n \in Node : queue[n] \in Nat
      BY DEF TypeOK
    <3>3. \A n \in Node : queue'[n] \in {queue[n], queue[n] + 1}
      BY <3>1 DEF Enqueue
    <3> QED BY <3>2, <3>3
  <2>3. Rolling => Rolling'
    BY <1>1, <2>1, <2>2 DEF Rolling
  <2>4. ASSUME NEW n, Covered(n) PROVE Covered(n)'
    <3>1. PICK d \in Caller : /\ At(d, "settle")
                              /\ n \in DOMAIN proc[d].ready \cup DOMAIN proc[d].skips
      BY <2>4 DEF Covered
    <3>2. d # c
      BY <1>1, <1>5, <3>1
    <3> QED BY <2>1, <3>1, <3>2 DEF Covered, At
  <2>5. CoverInv'
    BY <1>1, <2>3, <2>4 DEF StrandInv, CoverInv
  <2> QED BY <1>3, <2>5 DEF StrandInv
<1> QED BY <1>4, <1>5

\* Settling a skip that is due leaves the rest of the frontier as it was.
LEMMA SkipShrinks ==
  ASSUME NEW r \in [Node -> Row], NEW n \in Drops(r, {}),
         NEW t \in [Node -> Row], IsSettled(t[n]), t[n].status # "completed",
         \A m \in Node : m # n => t[m] = r[m]
  PROVE  Skips(t) \subseteq Skips(r) \ {n} /\ Ready(t) \subseteq Ready(r) \ {n}
<1> DEFINE K == Skips(r) \ {n}
<1>1. n \in Node /\ r[n].status = "absent"
  BY DEF Drops, Unblocked, Undecided
<1>2. Undecided(t) = Undecided(r) \ {n} /\ Settled(t) = Settled(r) \cup {n}
  BY <1>1 DEF Undecided, Settled, IsSettled
<1>3. ASSUME NEW m \in Node PROVE Lit(t, m) <=> Lit(r, m)
  <2>1. \A e \in Incoming(m) : e.source \in Node
    BY SourcesAreNodes
  <2>2. \A e \in Incoming(m) : Active(t, e) <=> Active(r, e)
    BY <1>1, <2>1 DEF Active
  <2> QED BY <2>2 DEF Lit
<1>4. n \in Skips(r)
  <2>1. Drops(r, {}) \subseteq Drops(r, Skips(r))
    BY DEF Drops, Unblocked
  <2> QED BY <2>1, SkipsAreClosed
<1>5. ASSUME NEW m \in Undecided(t), Sources(m) \subseteq Settled(t) \cup K
      PROVE  Unblocked(r, Skips(r), m) /\ m # n
  BY <1>2, <1>4, <1>5 DEF Unblocked
<1>6. Drops(t, K) \subseteq K
  <2> SUFFICES ASSUME NEW m \in Drops(t, K) PROVE m \in K
    OBVIOUS
  <2>1. /\ m \in Node /\ m \in Undecided(t) /\ Sources(m) \subseteq Settled(t) \cup K
        /\ ~Lit(t, m) \/ m \in Note
    BY DEF Drops, Unblocked
  <2> HIDE DEF K
  <2>2. Unblocked(r, Skips(r), m) /\ m # n
    BY <1>5, <2>1
  <2>3. m \in Drops(r, Skips(r))
    BY <1>3, <2>1, <2>2 DEF Drops
  <2> QED BY <2>2, <2>3, SkipsAreClosed DEF K
<1>7. K \in SUBSET Undecided(t)
  BY <1>2 DEF Skips
<1>8. Skips(t) \subseteq K
  <2> HIDE DEF K
  <2> QED BY <1>6, <1>7 DEF Skips
<1>9. Ready(t) \subseteq Ready(r) \ {n}
  <2> SUFFICES ASSUME NEW m \in Ready(t) PROVE m \in Ready(r) \ {n}
    OBVIOUS
  <2>1. /\ m \in Node /\ m \in Undecided(t) /\ Sources(m) \subseteq Settled(t) \cup Skips(t)
        /\ Lit(t, m) /\ m \notin Note
    BY DEF Ready, Unblocked
  <2> HIDE DEF K
  <2>2. Sources(m) \subseteq Settled(t) \cup K
    BY <1>8, <2>1
  <2>3. Unblocked(r, Skips(r), m) /\ m # n
    BY <1>5, <2>1, <2>2
  <2> QED BY <1>3, <2>1, <2>3 DEF Ready
<1> QED BY <1>8, <1>9

LEMMA SettleSkipStrand ==
  ASSUME RunInv, StrandInv, TypeOK', NEW c \in Caller, SettleSkip(c)
  PROVE  StrandInv'
<1>1. TypeOK /\ At(c, "settle") /\ proc[c].pc = "settle" /\ UNCHANGED queue
  BY DEF RunInv, IInv, SettleSkip, At
<1>2. PICK n \in DOMAIN proc[c].skips :
        /\ \A m \in DOMAIN proc[c].skips : proc[c].skips[n] <= proc[c].skips[m]
        /\ SetRow(n, IF SkipWins(rows[n]) THEN Skipped(rows[n]) ELSE rows[n])
        /\ GoTo(c, [proc[c] EXCEPT
                     !.skips = [m \in DOMAIN @ \ {n} |-> @[m]],
                     !.won = IF SkipWins(rows[n]) THEN @ \cup {n} ELSE @])
  BY DEF SettleSkip
<1> DEFINE p == [proc[c] EXCEPT
                  !.skips = [m \in DOMAIN @ \ {n} |-> @[m]],
                  !.won = IF SkipWins(rows[n]) THEN @ \cup {n} ELSE @]
           row == IF SkipWins(rows[n]) THEN Skipped(rows[n]) ELSE rows[n]
<1>3. IsPlace(proc[c])
  BY <1>1 DEF TypeOK
<1>4. GoTo(c, p) /\ SetRow(n, row)
  BY <1>2
<1>5. /\ p.pc = "settle" /\ p.ready = proc[c].ready
      /\ p.skips = [m \in DOMAIN proc[c].skips \ {n} |-> proc[c].skips[m]]
  BY <1>1, <1>3 DEF IsPlace
<1>6. DOMAIN p.skips = DOMAIN proc[c].skips \ {n}
  BY <1>5
<1>7. n \in Node
  BY <1>2, <1>3 DEF IsPlace, IsRanking
<1>8. rows[n].status \in {"absent", "skipped"} /\ ~Reached(n) /\ rows[n] \in Row
  BY <1>1, <1>2, <1>7 DEF RunInv, IInv, DoomInv, Doomed, TypeOK
<1>9. row \in Row /\ row.status = "skipped" /\ (rows[n].status = "skipped" => row = rows[n])
  BY <1>8, RowTypes DEF SkipWins, IsSettled, Skipped, Row
<1> HIDE DEF p, row
<1>10. /\ rows' \in [Node -> Row] /\ rows'[n] = row
       /\ \A m \in Node : m # n => rows'[m] = rows[m]
  BY <1>1, <1>4, <1>7, <1>9, SetRowStep DEF TypeOK
<1>11. HandInv'
  <2>1. \A m \in Node : rows[m].status = "claimed" => rows[m].owner # c
    BY <1>1 DEF StrandInv, HandInv
  <2> QED BY <1>1, <1>4, <1>9, <1>10, <2>1, HandStep DEF StrandInv
<1>12. FirstInv'
  BY <1>1, <1>4, <1>5, FirstStep DEF StrandInv, FirstInv
<1>13. \A d \in Caller : proc'[d] = IF d = c THEN p ELSE proc[d]
  BY <1>1, <1>4, GoToStep DEF TypeOK
<1>14. Rolling => Rolling'
  BY <1>1, <1>8, <1>10, <1>13 DEF Rolling
<1>15. ASSUME NEW m, m # n, Covered(m) PROVE Covered(m)'
  BY <1>5, <1>6, <1>13, <1>15 DEF Covered, At
<1>16. Skips(rows') \subseteq Skips(rows) \ {n} /\ Ready(rows') \subseteq Ready(rows) \ {n}
  <2>1. CASE rows[n].status = "skipped"
    <3>1. rows' = rows
      BY <1>1, <1>9, <1>10, <2>1 DEF TypeOK
    <3>2. n \notin Skips(rows) /\ n \notin Ready(rows)
      BY <2>1 DEF Skips, Ready, Unblocked, Undecided
    <3> QED BY <3>1, <3>2
  <2>2. CASE rows[n].status = "absent"
    <3>1. Sources(n) \subseteq Settled(rows)
      BY <1>1, <1>2, FirstSkipIsDue DEF RunInv
    <3>2. n \in Drops(rows, {})
      BY <1>7, <1>8, <2>2, <3>1 DEF Drops, Unblocked, Undecided, Reached
    <3>3. rows \in [Node -> Row] /\ IsSettled(rows'[n]) /\ rows'[n].status # "completed"
      BY <1>1, <1>9, <1>10 DEF TypeOK, IsSettled
    <3> QED BY <1>10, <3>2, <3>3, SkipShrinks
  <2> QED BY <1>8, <2>1, <2>2
<1>17. CoverInv'
  <2>1. CASE Rolling
    BY <1>14, <2>1 DEF CoverInv
  <2>2. CASE ~Rolling
    <3>1. \A m \in Skips(rows) \cup Ready(rows) : Covered(m)
      BY <2>2 DEF StrandInv, CoverInv
    <3>2. \A m \in Skips(rows') \cup Ready(rows') : Covered(m)'
      BY <1>15, <1>16, <3>1
    <3> QED BY <3>2 DEF CoverInv
  <2> QED BY <2>1, <2>2
<1> QED BY <1>11, <1>12, <1>17 DEF StrandInv

LEMMA AnswerStrand ==
  ASSUME TypeOK, StrandInv, NEW n \in Node,
         AnswerAndRedispatch(n) \/ AnswerAndRelease(n)
  PROVE  StrandInv'
<1>1. CASE AnswerAndRedispatch(n)
  <2>1. PICK w : w = rows[n].owner
    OBVIOUS
  <2>2. At(w, "idle") /\ GoTo(w, Fresh("retry", n)) /\ rows' = rows
    BY <1>1, <2>1 DEF AnswerAndRedispatch
  <2>3. HandInv'
    BY <2>2, EmptyHanded DEF StrandInv, At
  <2>4. CASE w \in Caller
    BY <2>2, <2>3, <2>4, FreshStrand
  <2>5. CASE w \notin Caller
    <3>1. \A d \in Caller : proc'[d] = proc[d]
      BY <2>2, <2>5, GoToStep DEF TypeOK
    <3>2. UNCHANGED <<rows, queue>>
      BY <1>1 DEF AnswerAndRedispatch
    <3> QED BY <2>3, <3>1, <3>2 DEF StrandInv, FirstInv, CoverInv, Rolling, Covered, At
  <2> QED BY <2>4, <2>5
<1>2. CASE AnswerAndRelease(n)
  <2> DEFINE p == Fresh("advance", NoNode)
  <2>1. GoTo(Host, p) /\ SetRow(n, Absent) /\ Absent \in Row /\ Absent.status = "absent"
    BY <1>2, RowTypes DEF AnswerAndRelease, Released, Absent
  <2>2. rows'[n] = Absent /\ \A m \in Node : m # n => rows'[m] = rows[m]
    BY <2>1, SetRowStep DEF TypeOK
  <2>3. \A m \in Node : rows[m].status = "claimed" => rows[m].owner # Host
    BY CoordinatorAssumption DEF StrandInv, HandInv, CoordinatorAssumption
  <2> HIDE DEF p
  <2>4. HandInv'
    BY <2>1, <2>2, <2>3, HandStep DEF StrandInv
  <2> QED BY <2>1, <2>4, FreshStrand DEF Caller, p
<1> QED BY <1>1, <1>2

LEMMA StrandPreserved == RunInv /\ StrandInv /\ [Next]_vars => StrandInv'
<1> SUFFICES ASSUME RunInv, StrandInv, [Next]_vars PROVE StrandInv'
  OBVIOUS
<1>1. IInv /\ TypeOK /\ TypeOK'
  BY TypesPreserved DEF RunInv, IInv
<1>2. ASSUME NEW w \in Worker, RunNode(w) PROVE StrandInv'
  <2>1. ASSUME NEW n \in Node, Deliver(w, n) PROVE StrandInv'
    BY <1>1, <2>1, ClaimStrand DEF Deliver, HasRoom
  <2>2. CASE Redeliver(w)
    <3>1. proc[w].node \in Node
      BY <1>1, <2>2 DEF TypeOK, Redeliver, At
    <3> QED BY <1>1, <2>2, <3>1, ClaimStrand DEF Redeliver
  <2>3. CASE Execute(w)
    BY <1>1, <2>3, ExecuteStrand
  <2>4. CASE Settles(w) \/ CheckpointPause(w)
    BY <1>1, <2>4, CheckpointStrand
  <2>5. CASE Retry(w)
    BY <1>1, <2>5, RetryStrand DEF Retry
  <2> QED BY <1>2, <2>1, <2>2, <2>3, <2>4, <2>5 DEF RunNode, Settles
<1>3. ASSUME NEW w \in Worker, Crash(w) PROVE StrandInv'
  BY <1>1, <1>3, RetryStrand DEF Crash
<1>4. ASSUME NEW c \in Caller, AdvanceSteps(c) PROVE StrandInv'
  BY <1>1, <1>4, AdvanceStrand, SettleSkipStrand, FinishAdvanceStrand DEF AdvanceSteps
<1>5. ASSUME NEW n \in Node, AnswerAndRedispatch(n) \/ AnswerAndRelease(n) PROVE StrandInv'
  BY <1>1, <1>5, AnswerStrand
<1>6. CASE Tick \/ UNCHANGED vars
  <2>1. UNCHANGED <<rows, queue, proc>>
    BY <1>6 DEF Tick, vars
  <2> QED BY <2>1 DEF StrandInv, HandInv, FirstInv, CoverInv, Rolling, Covered, At
<1> QED BY <1>2, <1>3, <1>4, <1>5, <1>6 DEF Next

LEMMA InitStrand == Init => StrandInv
<1> SUFFICES ASSUME Init PROVE StrandInv
  OBVIOUS
<1>1. \A n \in Node : rows[n].status = "absent"
  BY DEF Init, Absent
<1>2. \A c \in Caller : DOMAIN proc[c].ready = {}
  BY FreshFields DEF Init, Idle, Clear
<1>3. Host \in Caller /\ proc[Host].pc = "advance"
  BY FreshFields DEF Init, Caller
<1> QED BY <1>1, <1>2, <1>3 DEF StrandInv, HandInv, FirstInv, CoverInv, Rolling

\* Without a cycle, what is undecided while nothing is held leaves the frontier
\* something to decide.
LEMMA FrontierGoesOn ==
  ASSUME Acyclic, NEW r \in [Node -> Row], Undecided(r) # {}, Held(r) = {}
  PROVE  Skips(r) \cup Ready(r) # {}
<1>1. PICK n \in Undecided(r) : Sources(n) \cap Undecided(r) = {}
  <2>1. Undecided(r) \in SUBSET Node
    BY DEF Undecided
  <2> QED BY <2>1 DEF Acyclic
<1>2. Sources(n) \subseteq Settled(r)
  <2> SUFFICES ASSUME NEW s \in Sources(n) PROVE s \in Settled(r)
    OBVIOUS
  <2>1. s \in Node /\ r[s] \in Row /\ r[s].status # "absent" /\ ~IsHeld(r[s])
    BY <1>1, SourcesAreNodes DEF Undecided, Held
  <2> QED BY <2>1 DEF Settled, IsSettled, IsHeld, Row, RunStatus
<1>3. n \in Node /\ Unblocked(r, Skips(r), n)
  BY <1>1, <1>2 DEF Unblocked, Undecided
<1>4. CASE Lit(r, n) /\ n \notin Note
  <2>1. n \in Ready(r)
    BY <1>3, <1>4 DEF Ready
  <2> QED BY <2>1
<1>5. CASE ~Lit(r, n) \/ n \in Note
  <2>1. n \in Drops(r, Skips(r))
    BY <1>3, <1>5 DEF Drops
  <2> QED BY <2>1, SkipsAreClosed
<1> QED BY <1>4, <1>5

\* No interleaving of workers, advance() calls, crashes and answers strands a
\* node of a graph without a cycle, whatever the cap on concurrency.
THEOREM NoneStranded == Acyclic => (Spec => []QuiescentMeansSettled)
<1>1. ASSUME Acyclic, IInv, StrandInv PROVE QuiescentMeansSettled
  <2> SUFFICES ASSUME \A c \in Caller : At(c, "idle"), \A n \in Node : queue[n] = 0,
                      \A n \in Node : rows[n].status # "paused"
               PROVE  IsComplete(rows)
    BY DEF QuiescentMeansSettled
  <2>1. ~Rolling
    BY DEF Rolling, At
  <2>2. \A n : ~Covered(n)
    BY DEF Covered, At
  <2>3. Skips(rows) \cup Ready(rows) = {}
    BY <1>1, <2>1, <2>2 DEF StrandInv, CoverInv
  <2>4. Held(rows) = {}
    BY <1>1 DEF StrandInv, HandInv, Held, IsHeld, At, Caller
  <2>5. rows \in [Node -> Row]
    BY <1>1 DEF IInv, TypeOK
  <2>6. Undecided(rows) = {}
    BY <1>1, <2>3, <2>4, <2>5, FrontierGoesOn
  <2>7. ASSUME NEW n \in Node PROVE IsSettled(rows[n])
    <3>1. rows[n] \in Row /\ rows[n].status # "absent" /\ ~IsHeld(rows[n])
      BY <2>4, <2>5, <2>6 DEF Undecided, Held
    <3> QED BY <3>1 DEF IsSettled, IsHeld, Row, RunStatus
  <2> QED BY <2>7 DEF IsComplete
<1>2. RunInv => IInv
  BY DEF RunInv
<1>3. RunInv /\ [Next]_vars => RunInv'
  BY RunInvPreserved
<1>4. Init => RunInv
  BY InitRunInv
<1>5. SUFFICES ASSUME Acyclic PROVE Spec => []QuiescentMeansSettled
  OBVIOUS
<1>6. RunInv /\ StrandInv => QuiescentMeansSettled
  BY <1>1, <1>2, <1>5
<1> QED BY <1>3, <1>4, <1>6, InitStrand, StrandPreserved, PTL DEF Spec
=============================================================================

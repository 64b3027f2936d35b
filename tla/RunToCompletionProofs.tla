------------------------ MODULE RunToCompletionProofs ------------------------
(***************************************************************************)
(* The in-process driver keeps within its tries and reports the truth, on  *)
(* every graph and through any number of crashes, calls and gates.         *)
(*                                                                         *)
(* The argument is that a node of the batch has no row until its turn, so  *)
(* that the loop of run_node_with_retries is the only place its attempts   *)
(* are counted, by the row and by the call alike (TurnInv).                *)
(***************************************************************************)
EXTENDS RunToCompletionProps, FrontierFacts

Ranked(f) == f \in [DOMAIN f -> Nat] /\ DOMAIN f \subseteq Node

LEMMA RankingRanks ==
  ASSUME NEW r, NEW S \in SUBSET Node
  PROVE  DOMAIN Ranking(r, S) = S /\ Ranked(Ranking(r, S))
<1>1. \A T \in SUBSET S : Cardinality(T) \in Nat
  BY FS_CardinalityType, FS_Subset, GraphAssumption DEF GraphAssumption
<1>2. Ranking(r, S) = [n \in S |-> Ranking(r, S)[n]] /\ \A n \in S : Ranking(r, S)[n] \in Nat
  BY <1>1 DEF Ranking
<1> QED BY <1>2 DEF Ranked

LEMMA FirstIsOne ==
  ASSUME NEW f, Ranked(f), DOMAIN f # {}
  PROVE  First(f) \in DOMAIN f /\ \A m \in DOMAIN f : f[First(f)] <= f[m]
<1> DEFINE T == {f[n] : n \in DOMAIN f}
<1>1. T \in SUBSET Nat /\ T # {}
  BY DEF Ranked
<1>2. PICK x \in T : \A y \in T : x <= y
  <2> HIDE DEF T
  <2> QED BY <1>1, LeastNatural
<1>3. PICK n \in DOMAIN f : f[n] = x
  OBVIOUS
<1>4. \A m \in DOMAIN f : f[n] <= f[m]
  BY <1>2, <1>3
<1> QED BY <1>4 DEF First

LEMMA RestRanks ==
  ASSUME NEW f, Ranked(f)
  PROVE  /\ Ranked(Rest(f)) /\ DOMAIN Rest(f) = DOMAIN f \ {First(f)}
         /\ \A n \in DOMAIN Rest(f) : Rest(f)[n] = f[n]
BY DEF Ranked, Rest

\* What the frontier skips it does not hand out, and neither has a row.
LEMMA SkipOrRun ==
  ASSUME NEW r
  PROVE  /\ Skips(r) \subseteq Node /\ Ready(r) \subseteq Node
         /\ Skips(r) \cap Ready(r) = {}
         /\ \A n \in Ready(r) : r[n].status = "absent"
<1>1. Skips(r) \subseteq Drops(r, Skips(r)) /\ Skips(r) \subseteq Undecided(r)
  BY SkipsAreDropped
<1> QED BY <1>1 DEF Drops, Ready, Unblocked, Undecided

-----------------------------------------------------------------------------
Current == First(batch)

DriverTypeOK ==
  /\ rows \in [Node -> Row]
  /\ answered \subseteq Node
  /\ pc \in {"out", "pass", "settle", "mint", "claim", "execute", "checkpoint", "conclude"}
  /\ result \in {"none", "ok", "failed", "paused", "waiting", "stuck"}
  /\ Ranked(batch) /\ Ranked(skips)
  /\ verdict \in Verdict
  /\ passes \in Nat /\ tried \in Nat /\ minted \in 0..MaxMinted /\ crashes \in Nat
  /\ runs \in [Node -> Nat]

\* The node at the head of the batch has its row.
Running == pc \in {"execute", "checkpoint"} \/ (pc = "claim" /\ tried > 0)

\* A node of the batch has no row before its turn; in its turn the row counts
\* as many attempts as the call does.
TurnInv ==
  /\ result # "none" => pc = "out"
  /\ pc \in {"mint", "claim", "execute", "checkpoint"} => DOMAIN batch # {}
  /\ pc \in {"claim", "execute", "checkpoint"} => minted >= 1
  /\ pc \in {"settle", "mint", "claim", "execute", "checkpoint"} =>
       \A n \in DOMAIN batch : ~(Running /\ n = Current) => rows[n].status = "absent"
  /\ pc = "settle" => DOMAIN skips \cap DOMAIN batch = {}
  /\ Running => /\ rows[Current].status = "claimed" /\ rows[Current].owner = Token
                /\ rows[Current].attempts = tried
                /\ tried \in 1..TriesFor(Current)
  /\ pc = "claim" => tried < TriesFor(Current)
  /\ pc = "checkpoint" /\ verdict.kind = "pause" => Current \in Gate \ answered

\* An answered gate has been run once before.
Extra(n) == IF n \in answered THEN 1 ELSE 0

Counted == IF pc = "execute" THEN tried - 1 ELSE tried

BudgetInv ==
  \A n \in Node :
    /\ rows[n].status = "absent" => runs[n] <= Extra(n)
    /\ runs[n] <= TriesFor(n) + Extra(n)
    /\ Running /\ n = Current => runs[n] <= Counted + Extra(n)
    /\ rows[n].status = "paused" => n \in Gate
    /\ n \in Gate \ answered =>
         /\ runs[n] <= 1
         /\ Running /\ n = Current /\ ~(pc = "checkpoint" /\ verdict.kind = "pause") =>
              runs[n] = 0

DriverInv == DriverTypeOK /\ TurnInv /\ BudgetInv

LEMMA Tries == \A n \in Node : TriesFor(n) \in Nat \ {0}
BY NodeRunAssumption DEF NodeRunAssumption, TriesFor

LEMMA CurrentIsOne ==
  ASSUME DriverTypeOK, DOMAIN batch # {}
  PROVE  Current \in DOMAIN batch /\ Current \in Node
BY FirstIsOne DEF DriverTypeOK, Current, Ranked

LEMMA InitDriver == Init => DriverInv
<1> SUFFICES ASSUME Init PROVE DriverInv
  OBVIOUS
<1>1. Ranked(Empty) /\ DOMAIN Empty = {}
  BY DEF Ranked, Empty
<1>2. NoVerdict \in Verdict
  BY DEF NoVerdict, Said, Verdict
<1>3. DriverTypeOK
  BY <1>1, <1>2, RowTypes, DriverAssumption DEF Init, DriverTypeOK, DriverAssumption
<1>4. ~Running
  BY DEF Init, Running
<1>5. TurnInv
  BY <1>4 DEF Init, TurnInv
<1>6. BudgetInv
  BY <1>4, Tries DEF Init, BudgetInv, Absent, Extra
<1> QED BY <1>3, <1>5, <1>6 DEF DriverInv

LEMMA SkippedMakes ==
  ASSUME NEW row \in Row
  PROVE  /\ Skipped(row) \in Row /\ Skipped(row).status = "skipped"
         /\ Failed(row) \in Row /\ Failed(row).status = "failed"
         /\ Paused(row) \in Row /\ Paused(row).status = "paused"
         /\ \A P \in SUBSET RowPort :
              Completed(row, P) \in Row /\ Completed(row, P).status = "completed"
BY RowTypes DEF Skipped, Failed, Paused, Completed, Row

\* A move of the call that writes no row and starts no executor.
LEMMA QuietKeeps ==
  ASSUME BudgetInv, ~Running', UNCHANGED <<rows, answered, runs>>
  PROVE  BudgetInv'
BY DEF BudgetInv, Extra

LEMMA CallKeeps == ASSUME DriverInv, Call PROVE DriverInv'
<1>1. ~Running'
  BY DEF Call, Running
<1>2. DriverTypeOK'
  BY FS_CardinalityType, GraphAssumption, DriverAssumption
     DEF Call, DriverInv, DriverTypeOK, DefaultPasses, GraphAssumption, DriverAssumption
<1>3. TurnInv'
  BY <1>1 DEF Call, DriverInv, TurnInv
<1> QED BY <1>1, <1>2, <1>3, QuietKeeps DEF DriverInv, Call

LEMMA PassKeeps == ASSUME DriverInv, Pass PROVE DriverInv'
<1>1. ~Running'
  BY DEF Pass, Running
<1>2. /\ Ranked(skips') /\ DOMAIN skips' = Skips(rows)
      /\ Ranked(batch') /\ DOMAIN batch' = Ready(rows)
  BY SkipOrRun, RankingRanks DEF Pass
<1>3. DriverTypeOK'
  BY <1>2 DEF Pass, DriverInv, DriverTypeOK
<1>4. TurnInv'
  BY <1>1, <1>2, SkipOrRun DEF Pass, DriverInv, TurnInv
<1> QED BY <1>1, <1>3, <1>4, QuietKeeps DEF DriverInv, Pass

LEMMA SettleSkipKeeps == ASSUME DriverInv, SettleSkip PROVE DriverInv'
<1> DEFINE n == First(skips)
<1>1. n \in DOMAIN skips /\ n \in Node /\ n \notin DOMAIN batch
  BY FirstIsOne DEF SettleSkip, DriverInv, DriverTypeOK, TurnInv, Ranked
<1>2. PICK row \in Row : /\ rows' = [rows EXCEPT ![n] = row]
                         /\ row = rows[n] \/ row.status = "skipped"
  BY <1>1, SkippedMakes DEF SettleSkip, SetRow, DriverInv, DriverTypeOK
<1>3. Ranked(skips') /\ DOMAIN skips' \subseteq DOMAIN skips
  BY RestRanks DEF SettleSkip, DriverInv, DriverTypeOK
<1>4. ~Running /\ ~Running'
  BY DEF SettleSkip, Running
<1>5. DriverTypeOK'
  BY <1>1, <1>2, <1>3 DEF SettleSkip, DriverInv, DriverTypeOK
<1>6. TurnInv'
  BY <1>1, <1>2, <1>3, <1>4 DEF SettleSkip, DriverInv, DriverTypeOK, TurnInv, Ranked
<1>7. BudgetInv'
  BY <1>1, <1>2, <1>4 DEF SettleSkip, DriverInv, DriverTypeOK, BudgetInv, Extra
<1> QED BY <1>5, <1>6, <1>7 DEF DriverInv

LEMMA SelectedKeeps == ASSUME DriverInv, Selected PROVE DriverInv'
<1>1. ~Running /\ ~Running'
  BY DEF Selected, Running
<1>2. PICK chosen \in SUBSET DOMAIN batch :
           /\ batch' = [n \in chosen |-> batch[n]]
           /\ pc' = IF chosen = {} THEN "conclude" ELSE "mint"
  BY DEF Selected, SelectDispatch
<1>3. Ranked(batch')
  BY <1>2 DEF DriverInv, DriverTypeOK, Ranked
<1>4. DriverTypeOK'
  BY <1>2, <1>3 DEF Selected, DriverInv, DriverTypeOK
<1>5. TurnInv'
  BY <1>1, <1>2 DEF Selected, DriverInv, TurnInv
<1> QED BY <1>1, <1>4, <1>5, QuietKeeps DEF DriverInv, Selected

LEMMA MintKeeps == ASSUME DriverInv, Mint PROVE DriverInv'
<1>1. ~Running /\ ~Running'
  BY DEF Mint, Running
<1>2. DriverTypeOK'
  BY DriverAssumption DEF Mint, DriverInv, DriverTypeOK, DriverAssumption
<1>3. Current' = Current /\ Current \in Node
  BY CurrentIsOne DEF Mint, Current, DriverInv, TurnInv
<1>4. TurnInv'
  BY <1>1, <1>3, Tries DEF Mint, DriverInv, DriverTypeOK, TurnInv
<1> QED BY <1>1, <1>2, <1>4, QuietKeeps DEF DriverInv, Mint

LEMMA ClaimCounts ==
  \A row \in Row, w \in Owner :
    /\ Claimed(row, w, 1) \in Row /\ Claimed(row, w, 1).status = "claimed"
    /\ row.status = "absent" =>
         Claimed(row, w, 1).owner = w /\ Claimed(row, w, 1).attempts = 1
    /\ row.status # "absent" =>
         /\ Claimed(row, w, 1).owner = row.owner
         /\ Claimed(row, w, 1).attempts = row.attempts + 1
<1> SUFFICES ASSUME NEW row \in Row, NEW w \in Owner
    PROVE  /\ Claimed(row, w, 1) \in Row /\ Claimed(row, w, 1).status = "claimed"
           /\ row.status = "absent" =>
                Claimed(row, w, 1).owner = w /\ Claimed(row, w, 1).attempts = 1
           /\ row.status # "absent" =>
                /\ Claimed(row, w, 1).owner = row.owner
                /\ Claimed(row, w, 1).attempts = row.attempts + 1
  OBVIOUS
<1>1. Claimed(row, w, 1) \in Row
  BY RowTypes
<1>2. CASE row.status = "absent"
  <2>1. Claimed(row, w, 1) = [Absent EXCEPT !.status = "claimed", !.owner = w,
                                            !.attempts = 1, !.first = 1]
    BY <1>2 DEF Claimed
  <2> QED BY <1>1, <1>2, <2>1 DEF Absent
<1>3. CASE row.status # "absent"
  <2>1. Claimed(row, w, 1) = [row EXCEPT !.status = "claimed", !.attempts = @ + 1]
    BY <1>3, ClaimedMakes
  <2> QED BY <1>1, <1>3, <2>1 DEF Row
<1> QED BY <1>2, <1>3

\* A claim in the node's turn is won.
LEMMA ClaimIsWon ==
  ASSUME DriverInv, Claim
  PROVE  /\ Current \in DOMAIN batch /\ Current \in Node /\ rows[Current] \in Row
         /\ rows[Current].status = "absent" \/ IsHeld(rows[Current])
         /\ pc' = "execute" /\ tried' = tried + 1
         /\ UNCHANGED <<batch, answered, passes, skips, verdict, minted, result, crashes, runs>>
         /\ Current' = Current /\ Token' = Token /\ Running' /\ pc = "claim" /\ tried \in Nat
         /\ \E row \in Row :
              /\ rows' = [rows EXCEPT ![Current] = row]
              /\ row = Claimed(rows[Current], Token, 1)
              /\ row.status = "claimed" /\ row.owner = Token /\ row.attempts = tried + 1
<1> DEFINE row == Claimed(rows[Current], Token, 1)
<1>1. /\ Current \in DOMAIN batch /\ Current \in Node /\ rows[Current] \in Row
      /\ Token \in Owner
  BY CurrentIsOne, DriverAssumption
     DEF Claim, DriverInv, TurnInv, DriverTypeOK, DriverAssumption, Token, Current
<1>2. ClaimWins(rows[Current], Token)
  <2>1. CASE tried > 0
    BY <2>1 DEF Claim, DriverInv, TurnInv, Running, ClaimWins, IsHeld
  <2>2. CASE ~(tried > 0)
    BY <1>1, <2>2 DEF Claim, DriverInv, TurnInv, Running, ClaimWins
  <2> QED BY <2>1, <2>2
<1>3. /\ rows' = [rows EXCEPT ![Current] = row]
      /\ tried' = tried + 1 /\ pc' = "execute"
      /\ UNCHANGED <<batch, answered, passes, skips, verdict, minted, result, crashes, runs>>
  BY <1>2 DEF Claim, SetRow, Current
<1>4. Current' = Current /\ Token' = Token /\ Running' /\ pc = "claim" /\ tried \in Nat
  BY <1>3 DEF Current, Token, Running, Claim, DriverInv, DriverTypeOK
<1>5. /\ row \in Row /\ row.status = "claimed" /\ row.owner = Token
      /\ row.attempts = tried + 1
  <2>1. /\ row \in Row /\ row.status = "claimed"
        /\ rows[Current].status = "absent" => row.owner = Token /\ row.attempts = 1
        /\ rows[Current].status # "absent" =>
             /\ row.owner = rows[Current].owner
             /\ row.attempts = rows[Current].attempts + 1
    BY <1>1, ClaimCounts
  <2>2. CASE tried > 0
    <3>1. /\ rows[Current].status = "claimed" /\ rows[Current].owner = Token
          /\ rows[Current].attempts = tried
      BY <1>4, <2>2 DEF DriverInv, TurnInv, Running
    <3> QED BY <2>1, <3>1
  <2>3. CASE ~(tried > 0)
    <3>1. rows[Current].status = "absent" /\ tried = 0
      BY <1>1, <1>4, <2>3 DEF DriverInv, TurnInv, Running
    <3> QED BY <2>1, <3>1
  <2> QED BY <2>2, <2>3
<1>6. rows[Current].status = "absent" \/ IsHeld(rows[Current])
  BY <1>2 DEF ClaimWins
<1> HIDE DEF row
<1> QED BY <1>1, <1>3, <1>4, <1>5, <1>6 DEF row

LEMMA ClaimKeeps == ASSUME DriverInv, Claim PROVE DriverInv'
<1>1. Current \in DOMAIN batch /\ Current \in Node
  BY ClaimIsWon
<1>2. PICK row \in Row :
        /\ rows' = [rows EXCEPT ![Current] = row]
        /\ row.status = "claimed" /\ row.owner = Token /\ row.attempts = tried + 1
  BY ClaimIsWon
<1>3. /\ rows' = [rows EXCEPT ![Current] = row]
      /\ tried' = tried + 1 /\ pc' = "execute"
      /\ UNCHANGED <<batch, answered, passes, skips, verdict, minted, result, crashes, runs>>
  BY <1>2, ClaimIsWon
<1>4. Current' = Current /\ Token' = Token /\ Running' /\ pc = "claim" /\ tried \in Nat
  BY ClaimIsWon
<1>5. /\ row \in Row /\ row.status = "claimed" /\ row.owner = Token
      /\ row.attempts = tried + 1
  BY <1>2
<1>6. DriverTypeOK'
  BY <1>1, <1>3, <1>4, <1>5 DEF DriverInv, DriverTypeOK
<1>7. TurnInv'
  <2>1. tried < TriesFor(Current) /\ TriesFor(Current) \in Nat
    BY <1>1, <1>4, Tries DEF DriverInv, TurnInv
  <2>2. rows'[Current] = row
    BY <1>1, <1>3 DEF DriverInv, DriverTypeOK
  <2>3. \A n \in DOMAIN batch : n # Current => rows'[n].status = "absent"
    BY <1>3, <1>4 DEF DriverInv, DriverTypeOK, TurnInv, Ranked
  <2> QED BY <1>1, <1>3, <1>4, <1>5, <2>1, <2>2, <2>3
          DEF DriverInv, DriverTypeOK, TurnInv, Running
<1>8. BudgetInv'
  <2>1. runs[Current] <= tried + Extra(Current)
    BY <1>1, <1>4 DEF DriverInv, DriverTypeOK, TurnInv, BudgetInv, Running, Counted, Extra
  <2>2. Current \in Gate \ answered => runs[Current] = 0
    BY <1>1, <1>4 DEF DriverInv, DriverTypeOK, TurnInv, BudgetInv, Running, Extra
  <2>3. \A n \in Node : rows'[n] = IF n = Current THEN row ELSE rows[n]
    BY <1>3 DEF DriverInv, DriverTypeOK
  <2>4. Counted' = tried
    BY <1>3, <1>4 DEF Counted
  <2> QED BY <1>1, <1>3, <1>4, <1>5, <2>1, <2>2, <2>3, <2>4
          DEF DriverInv, DriverTypeOK, BudgetInv, Extra
<1> QED BY <1>6, <1>7, <1>8 DEF DriverInv

\* What the executor of the node at the head can come to.
LEMMA ReplayTypes ==
  ASSUME NEW n \in Node, NEW v \in Replay(rows, n, answered)
  PROVE  /\ v \in Verdict
         /\ v.kind = "pause" => n \in Gate \ answered /\ ExecutorRuns(rows, n)
         /\ n \in Gate \ answered /\ ExecutorRuns(rows, n) => v.kind = "pause"
<1>1. CASE ExecutorRuns(rows, n)
  <2>1. v \in Executed(n, answered)
    BY <1>1 DEF Replay
  <2>2. CASE n \in Gate \ answered
    <3>1. v = [kind |-> "pause", ports |-> {}]
      BY <2>1, <2>2 DEF Executed, Said
    <3> QED BY <1>1, <2>2, <3>1 DEF Verdict
  <2>3. CASE n \notin Gate \ answered
    <3>1. v \in [kind : {"output"}, ports : Outcomes[n]] \/ v = [kind |-> "error", ports |-> {}]
      BY <2>1, <2>3 DEF Executed, Said
    <3>2. Outcomes[n] \subseteq SUBSET Port
      BY NodeRunAssumption DEF NodeRunAssumption
    <3> QED BY <2>3, <3>1, <3>2 DEF Verdict
  <2> QED BY <2>2, <2>3
<1>2. CASE ~ExecutorRuns(rows, n)
  <2>1. v = [kind |-> "skip", ports |-> {}] \/ v = [kind |-> "error", ports |-> {}]
    BY <1>2 DEF Replay, Said
  <2> QED BY <1>2, <2>1 DEF Verdict
<1> QED BY <1>1, <1>2

\* The node at the head of the batch, in its turn.
LEMMA AtTheHead ==
  ASSUME DriverInv, pc \in {"execute", "checkpoint"}
  PROVE  /\ Running
         /\ Current \in DOMAIN batch /\ Current \in Node /\ rows[Current] \in Row
         /\ rows[Current].status = "claimed" /\ rows[Current].attempts = tried
         /\ tried \in 1..TriesFor(Current) /\ TriesFor(Current) \in Nat
<1>0. Running
  BY DEF Running
<1>1. DOMAIN batch # {}
  BY DEF DriverInv, TurnInv
<1>2. Current \in DOMAIN batch /\ Current \in Node
  BY <1>1, CurrentIsOne DEF DriverInv
<1> QED BY <1>0, <1>2, Tries DEF DriverInv, DriverTypeOK, TurnInv

LEMMA ExecuteKeeps == ASSUME DriverInv, Execute PROVE DriverInv'
<1>1. Current \in Node /\ Running /\ pc = "execute" /\ pc' = "checkpoint"
  BY AtTheHead DEF Execute
<1>2. /\ verdict' \in Replay(rows, Current, answered)
      /\ runs' = IF ExecutorRuns(rows, Current) THEN [runs EXCEPT ![Current] = @ + 1] ELSE runs
      /\ UNCHANGED <<rows, answered, passes, batch, skips, tried, minted, result, crashes>>
  BY DEF Execute, Current
<1>3. /\ verdict' \in Verdict
      /\ verdict'.kind = "pause" => Current \in Gate \ answered /\ ExecutorRuns(rows, Current)
      /\ Current \in Gate \ answered /\ ExecutorRuns(rows, Current) => verdict'.kind = "pause"
  BY <1>1, <1>2, ReplayTypes
<1>4. Current' = Current /\ Token' = Token /\ Running'
  BY <1>1, <1>2 DEF Current, Token, Running
<1>5. DriverTypeOK'
  BY <1>1, <1>2, <1>3 DEF DriverInv, DriverTypeOK
<1>6. TurnInv'
  BY <1>1, <1>2, <1>3, <1>4 DEF DriverInv, TurnInv
<1>7. BudgetInv'
  <2>1. /\ runs[Current] \in Nat /\ tried \in Nat /\ TriesFor(Current) \in Nat
        /\ tried <= TriesFor(Current)
        /\ rows[Current].status = "claimed"
        /\ runs[Current] <= tried - 1 + Extra(Current)
        /\ Current \in Gate \ answered => runs[Current] = 0
    BY <1>1, AtTheHead DEF DriverInv, DriverTypeOK, BudgetInv, Counted
  <2>2. /\ runs'[Current] \in {runs[Current], runs[Current] + 1}
        /\ ~ExecutorRuns(rows, Current) => runs'[Current] = runs[Current]
        /\ \A n \in Node : n # Current => runs'[n] = runs[n]
    BY <1>1, <1>2 DEF DriverInv, DriverTypeOK
  <2>3. Counted' = tried /\ \A n \in Node : Extra(n)' = Extra(n) /\ Extra(n) \in {0, 1}
    BY <1>1, <1>2 DEF Counted, Extra
  <2>4. ASSUME NEW n \in Node, n # Current
        PROVE  /\ rows[n].status = "absent" => runs'[n] <= Extra(n)
               /\ runs'[n] <= TriesFor(n) + Extra(n)
               /\ rows[n].status = "paused" => n \in Gate
               /\ n \in Gate \ answered => runs'[n] <= 1
    BY <2>2, <2>4 DEF DriverInv, BudgetInv
  <2>5. /\ runs'[Current] <= TriesFor(Current) + Extra(Current)
        /\ runs'[Current] <= tried + Extra(Current)
        /\ Current \in Gate \ answered =>
             /\ runs'[Current] <= 1
             /\ verdict'.kind # "pause" => runs'[Current] = 0
    <3>1. Extra(Current) \in {0, 1}
      BY <1>1, <2>3
    <3>2. Current \in Gate \ answered /\ verdict'.kind # "pause" => runs'[Current] = 0
      BY <1>3, <2>1, <2>2
    <3> QED BY <2>1, <2>2, <3>1, <3>2
  <2> QED BY <1>1, <1>2, <1>4, <2>1, <2>3, <2>4, <2>5 DEF BudgetInv
<1> QED BY <1>5, <1>6, <1>7 DEF DriverInv

\* The verdict is written, and the head of the batch is done with.
LEMMA WrittenKeeps ==
  ASSUME DriverInv, pc = "checkpoint", ~Running',
         NEW row \in Row, row.status # "absent", row.status = "paused" => Current \in Gate,
         rows' = [rows EXCEPT ![Current] = row],
         UNCHANGED <<answered, runs>>
  PROVE  BudgetInv' /\ rows' \in [Node -> Row] /\ rows'[Current] = row
<1>1. Current \in Node
  BY CurrentIsOne DEF DriverInv, TurnInv
<1>2. \A n \in Node : rows'[n] = IF n = Current THEN row ELSE rows[n]
  BY <1>1 DEF DriverInv, DriverTypeOK
<1> QED BY <1>1, <1>2 DEF DriverInv, DriverTypeOK, BudgetInv, Extra

LEMMA GoOnKeeps == ASSUME DriverInv, CheckpointAndGoOn PROVE DriverInv'
<1>1. /\ Current \in DOMAIN batch /\ Current \in Node /\ rows[Current] \in Row
      /\ Running /\ rows[Current].status = "claimed"
  BY AtTheHead DEF CheckpointAndGoOn
<1>2. PICK row \in Row : /\ rows' = [rows EXCEPT ![Current] = row]
                         /\ row.status \in {"completed", "skipped"}
  <2>1. verdict.ports \in SUBSET RowPort
    BY DriverAssumption DEF DriverInv, DriverTypeOK, Verdict, DriverAssumption
  <2>2. SkipWins(rows[Current])
    BY <1>1 DEF SkipWins, IsSettled
  <2> QED BY <1>1, <2>1, <2>2, SkippedMakes DEF CheckpointAndGoOn, SetRow, Current
<1>3. /\ batch' = Rest(batch)
      /\ pc' = IF DOMAIN Rest(batch) = {} THEN "pass" ELSE "mint"
      /\ UNCHANGED <<answered, passes, skips, tried, verdict, minted, result, crashes, runs>>
  BY DEF CheckpointAndGoOn, NextInBatch
<1>4. /\ Ranked(batch') /\ DOMAIN batch' = DOMAIN batch \ {Current}
      /\ DOMAIN batch \subseteq Node
  BY <1>3, RestRanks DEF DriverInv, DriverTypeOK, Current, Ranked
<1>5. ~Running'
  BY <1>3 DEF Running
<1>6. BudgetInv' /\ rows' \in [Node -> Row]
  BY <1>2, <1>3, <1>5, WrittenKeeps DEF CheckpointAndGoOn
<1>7. DriverTypeOK'
  BY <1>3, <1>4, <1>6 DEF DriverInv, DriverTypeOK
<1>8. \A n \in DOMAIN batch' : rows'[n].status = "absent"
  BY <1>1, <1>2, <1>4 DEF CheckpointAndGoOn, DriverInv, DriverTypeOK, TurnInv
<1>9. TurnInv'
  BY <1>3, <1>5, <1>8 DEF CheckpointAndGoOn, DriverInv, TurnInv
<1> QED BY <1>6, <1>7, <1>9 DEF DriverInv

LEMMA StopKeeps ==
  ASSUME DriverInv, NEW r \in {"ok", "failed", "paused", "waiting", "stuck"}, Stop(r),
         rows' \in [Node -> Row],
         UNCHANGED <<answered, passes, skips, tried, verdict, minted, crashes, runs>>
  PROVE  DriverTypeOK' /\ TurnInv' /\ ~Running'
<1>1. pc' = "out" /\ result' = r /\ Ranked(batch')
  BY DEF Stop, Ranked, Empty
<1> QED BY <1>1 DEF DriverInv, DriverTypeOK, TurnInv, Running

LEMMA PauseKeeps == ASSUME DriverInv, CheckpointPause PROVE DriverInv'
<1>1. /\ Current \in Node /\ rows[Current] \in Row /\ Current \in Gate
      /\ pc = "checkpoint" /\ ~Running' /\ Stop("paused")
      /\ UNCHANGED <<answered, passes, skips, tried, verdict, minted, crashes, runs>>
  BY AtTheHead DEF CheckpointPause, DriverInv, TurnInv, Running, Stop
<1>2. /\ Paused(rows[Current]) \in Row /\ Paused(rows[Current]).status = "paused"
      /\ rows' = [rows EXCEPT ![Current] = Paused(rows[Current])]
  BY <1>1, SkippedMakes DEF CheckpointPause, SetRow, Current
<1>3. BudgetInv' /\ rows' \in [Node -> Row]
  BY <1>1, <1>2, WrittenKeeps
<1> QED BY <1>1, <1>3, StopKeeps DEF DriverInv

\* The call and the row agree on when the tries are used up.
LEMMA FailureKeeps ==
  ASSUME DriverInv, CheckpointFailure
  PROVE  DriverInv' /\ Current \in Node /\ rows'[Current].status = "failed"
<1>1. /\ Current \in Node /\ rows[Current] \in Row
      /\ pc = "checkpoint" /\ ~Running' /\ Stop("failed")
      /\ rows[Current].attempts = tried
      /\ UNCHANGED <<answered, passes, skips, tried, verdict, minted, crashes, runs>>
  BY AtTheHead DEF CheckpointFailure, Running, Stop
<1>2. ~TriesLeft(Current)
  <2>1. ~TriesLeft(Current) \/ tried >= TriesFor(Current)
    BY DEF CheckpointFailure, Current
  <2>2. tried \in Nat /\ TriesFor(Current) \in Nat
    BY <1>1, Tries DEF DriverInv, DriverTypeOK
  <2> QED BY <1>1, <2>1, <2>2 DEF TriesLeft
<1>3. rows' = [rows EXCEPT ![Current] = Failed(rows[Current])]
  BY <1>2 DEF CheckpointFailure, SetRow, Current
<1>4. Failed(rows[Current]) \in Row /\ Failed(rows[Current]).status = "failed"
  BY <1>1, SkippedMakes
<1>5. BudgetInv' /\ rows' \in [Node -> Row] /\ rows'[Current].status = "failed"
  BY <1>1, <1>3, <1>4, WrittenKeeps
<1> QED BY <1>1, <1>5, StopKeeps DEF DriverInv

LEMMA RetryKeeps == ASSUME DriverInv, Retry PROVE DriverInv'
<1>1. /\ pc = "checkpoint" /\ pc' = "claim" /\ verdict.kind = "error"
      /\ tried < TriesFor(Current)
      /\ UNCHANGED <<rows, answered, passes, batch, skips, tried, verdict, minted,
                     result, crashes, runs>>
  BY DEF Retry, Current
<1>2. Current' = Current /\ Token' = Token /\ Running
  BY <1>1, AtTheHead DEF Current, Token
<1>3. tried \in 1..TriesFor(Current) /\ Running' /\ Counted' = tried /\ Counted = tried
  BY <1>1, <1>2 DEF DriverInv, TurnInv, Running, Counted
<1>4. DriverTypeOK'
  BY <1>1 DEF DriverInv, DriverTypeOK
<1>5. TurnInv'
  BY <1>1, <1>2, <1>3 DEF DriverInv, TurnInv
<1>6. BudgetInv'
  BY <1>1, <1>2, <1>3 DEF DriverInv, BudgetInv, Extra
<1> QED BY <1>4, <1>5, <1>6 DEF DriverInv

LEMMA CrashKeeps == ASSUME DriverInv, Crash PROVE DriverInv'
<1>1. Ranked(Empty)
  BY DEF Ranked, Empty
<1>2. NoVerdict \in Verdict
  BY DEF NoVerdict, Said, Verdict
<1>3. ~Running'
  BY DEF Crash, Running
<1>4. DriverTypeOK'
  BY <1>1, <1>2, DriverAssumption DEF Crash, DriverInv, DriverTypeOK, DriverAssumption
<1>5. TurnInv'
  BY <1>3 DEF Crash, TurnInv
<1> QED BY <1>3, <1>4, <1>5, QuietKeeps DEF Crash, DriverInv

LEMMA ReleaseKeeps == ASSUME DriverInv, NEW n \in Node, AnswerAndRelease(n) PROVE DriverInv'
<1>1. /\ rows' = [rows EXCEPT ![n] = Released] /\ answered' = answered \cup {n}
      /\ pc = "out" /\ rows[n].status = "paused" /\ n \notin answered
      /\ UNCHANGED <<pc, passes, batch, skips, tried, verdict, minted, result, crashes, runs>>
  BY DEF AnswerAndRelease, SetRow
<1>2. ~Running /\ ~Running'
  BY <1>1 DEF Running
<1>3. DriverTypeOK'
  BY <1>1, RowTypes DEF DriverInv, DriverTypeOK
<1>4. TurnInv'
  BY <1>1, <1>2 DEF DriverInv, TurnInv
<1>5. BudgetInv'
  <2>1. n \in Gate /\ runs[n] <= 1 /\ runs[n] \in Nat /\ TriesFor(n) \in Nat \ {0}
    BY <1>1, Tries DEF DriverInv, DriverTypeOK, BudgetInv
  <2>2. /\ rows'[n].status = "absent" /\ \A m \in Node : m # n => rows'[m] = rows[m]
        /\ Extra(n)' = 1 /\ \A m \in Node : m # n => Extra(m)' = Extra(m)
    BY <1>1 DEF DriverInv, DriverTypeOK, Released, Absent, Extra
  <2>3. ASSUME NEW m \in Node, m # n
        PROVE  /\ rows'[m].status = "absent" => runs[m] <= Extra(m)'
               /\ runs[m] <= TriesFor(m) + Extra(m)'
               /\ rows'[m].status = "paused" => m \in Gate
               /\ m \in Gate \ answered' => runs[m] <= 1
    BY <1>1, <2>2, <2>3 DEF DriverInv, BudgetInv
  <2> QED BY <1>1, <1>2, <2>1, <2>2, <2>3 DEF BudgetInv
<1> QED BY <1>3, <1>4, <1>5 DEF DriverInv

LEMMA ConcludeKeeps == ASSUME DriverInv, Conclude PROVE DriverInv'
<1>1. /\ UNCHANGED <<rows, answered, passes, skips, tried, verdict, minted, crashes, runs>>
      /\ \E r \in {"ok", "failed", "waiting", "stuck"} : Stop(r)
  BY DEF Conclude
<1>2. DriverTypeOK' /\ TurnInv' /\ ~Running'
  BY <1>1, StopKeeps DEF DriverInv, DriverTypeOK
<1> QED BY <1>1, <1>2, QuietKeeps DEF DriverInv

LEMMA DriverKept == DriverInv /\ [Next]_vars => DriverInv'
<1> SUFFICES ASSUME DriverInv, [Next]_vars PROVE DriverInv'
  OBVIOUS
<1>1. CASE UNCHANGED vars
  BY <1>1 DEF vars, DriverInv, DriverTypeOK, TurnInv, BudgetInv, Running, Current, Token,
              Counted, Extra
<1> QED BY <1>1, CallKeeps, PassKeeps, SettleSkipKeeps, SelectedKeeps, MintKeeps, ClaimKeeps,
           ExecuteKeeps, GoOnKeeps, PauseKeeps, RetryKeeps, FailureKeeps, ConcludeKeeps,
           CrashKeeps, ReleaseKeeps DEF Next, Driver

\* Across calls and crashes no node runs more often than its policy allows,
\* a gate once more when it is answered.
THEOREM DriverTries == Spec => []DriverRetryBudget
<1>1. DriverInv => DriverRetryBudget
  BY DEF DriverInv, BudgetInv, DriverRetryBudget, TriesFor, Extra
<1> QED BY <1>1, InitDriver, DriverKept, PTL DEF Spec

\* What the call last returned is still so.
ReportInv ==
  /\ result = "ok" => \A n \in Node : rows[n].status \in {"completed", "skipped"}
  /\ result = "failed" => \E n \in Node : rows[n].status = "failed"
  /\ pc = "out" /\ result \in {"paused", "waiting"} => HasWorkInFlight(rows) \/ answered # {}

LEMMA ReportKept == DriverInv /\ DriverInv' /\ ReportInv /\ [Next]_vars => ReportInv'
<1> SUFFICES ASSUME DriverInv, DriverInv', ReportInv, [Next]_vars PROVE ReportInv'
  OBVIOUS
<1>1. CASE UNCHANGED vars
  BY <1>1 DEF vars, ReportInv, HasWorkInFlight
<1>2. CASE Call \/ Crash
  BY <1>2 DEF Call, Crash, ReportInv
<1>3. CASE \/ Pass \/ SettleSkip \/ Selected \/ Mint \/ Claim \/ Execute
           \/ CheckpointAndGoOn \/ Retry
  <2>1. pc # "out" /\ result' = result
    BY <1>3 DEF Pass, SettleSkip, Selected, Mint, Claim, Execute, CheckpointAndGoOn, Retry
  <2>2. result' = "none"
    BY <2>1 DEF DriverInv, TurnInv
  <2> QED BY <2>2 DEF ReportInv
<1>4. CASE CheckpointPause
  <2>1. /\ Current \in Node /\ rows[Current] \in Row /\ result' = "paused"
        /\ rows' = [rows EXCEPT ![Current] = Paused(rows[Current])]
    BY <1>4, CurrentIsOne
       DEF CheckpointPause, Stop, SetRow, Current, DriverInv, DriverTypeOK, TurnInv
  <2>2. rows'[Current].status = "paused"
    BY <2>1, SkippedMakes DEF DriverInv, DriverTypeOK
  <2> QED BY <2>1, <2>2 DEF ReportInv, HasWorkInFlight, IsHeld
<1>5. CASE CheckpointFailure
  <2>1. Current \in Node /\ rows'[Current].status = "failed"
    BY <1>5, FailureKeeps
  <2>2. result' = "failed"
    BY <1>5 DEF CheckpointFailure, Stop
  <2> QED BY <2>1, <2>2 DEF ReportInv
<1>6. CASE Conclude
  <2>1. rows' = rows /\ answered' = answered
    BY <1>6 DEF Conclude
  <2>2. result' = IF ~IsComplete(rows)
                  THEN IF HasWorkInFlight(rows) THEN "waiting" ELSE "stuck"
                  ELSE IF \E n \in Node : rows[n].status = "failed" THEN "failed" ELSE "ok"
    BY <1>6 DEF Conclude, Stop
  <2> QED BY <2>1, <2>2 DEF ReportInv, IsComplete, IsSettled, HasWorkInFlight
<1>7. ASSUME NEW n \in Node, AnswerAndRelease(n) PROVE ReportInv'
  <2>1. /\ rows' = [rows EXCEPT ![n] = Released] /\ answered' = answered \cup {n}
        /\ rows[n].status = "paused" /\ UNCHANGED <<pc, result>>
    BY <1>7 DEF AnswerAndRelease, SetRow
  <2>2. \A m \in Node : m # n => rows'[m] = rows[m]
    BY <2>1 DEF DriverInv, DriverTypeOK
  <2> QED BY <2>1, <2>2 DEF ReportInv
<1> QED BY <1>1, <1>2, <1>3, <1>4, <1>5, <1>6, <1>7 DEF Next, Driver

\* What a call reports is true of the rows it leaves, and stays true until
\* somebody calls again.
THEOREM DriverReports == Spec => []ReportsTheRows
<1>1. Init => ReportInv
  BY DEF Init, ReportInv
<1>2. ReportInv => ReportsTheRows
  BY DEF ReportInv, ReportsTheRows
<1> QED BY <1>1, <1>2, InitDriver, DriverKept, ReportKept, PTL DEF Spec

-----------------------------------------------------------------------------
(* The cascade and the batch.  What a pass is about to skip is unreached    *)
(* and in order, what it is about to run is reached, and together they are  *)
(* all that was due: a pass with nothing to run leaves nothing due.         *)

Reached(n) == n \notin Note /\ Lit(rows, n)
DueNow(n)  == rows[n].status = "absent" /\ Sources(n) \subseteq Settled(rows)

InBatch == pc \in {"mint", "claim", "execute", "checkpoint"}

PortsInv == \A n \in Node : rows[n].status # "completed" => rows[n].ports = {}

SkipsInv ==
  \A n \in DOMAIN skips :
    /\ rows[n].status = "absent" /\ ~Reached(n)
    /\ \A s \in Sources(n) :
         \/ s \in Settled(rows)
         \/ s \in DOMAIN skips /\ skips[s] < skips[n]

ReadyInv ==
  /\ \A n \in DOMAIN batch :
       Reached(n) /\ Sources(n) \subseteq Settled(rows) \cup DOMAIN skips
  /\ \A n \in Node :
       rows[n].status = "absent" /\ Sources(n) \subseteq Settled(rows) \cup DOMAIN skips
         => n \in DOMAIN skips \cup DOMAIN batch
  /\ \A m, n \in DOMAIN batch : batch[m] = batch[n] => m = n
  /\ DOMAIN batch # {} => \E n \in DOMAIN batch : batch[n] = 0

BatchInv == \A n \in DOMAIN batch : Reached(n) /\ Sources(n) \subseteq Settled(rows)

CascadeInv ==
  /\ PortsInv
  /\ pc = "settle" => SkipsInv /\ ReadyInv
  /\ InBatch => BatchInv
  /\ pc = "checkpoint" /\ verdict.kind = "skip" => Current \in Lane
  /\ pc = "conclude" => HasWorkInFlight(rows) \/ \A n \in Node : ~DueNow(n)

\* The moves a row can make, read as moves of the abstract run.
RowMove(n, row) ==
  \/ /\ rows[n].status = "absent" /\ row.status = "claimed"
     /\ Reached(n) /\ Sources(n) \subseteq Settled(rows)
  \/ /\ IsHeld(rows[n])
     /\ \/ row.status \in {"claimed", "paused", "completed", "failed", "absent"}
        \/ row.status = "skipped" /\ n \in Lane
  \/ /\ rows[n].status = "absent" /\ row.status = "skipped"
     /\ ~Reached(n) /\ Sources(n) \subseteq Settled(rows)

RowMoves(n, row) ==
  /\ rows' = [rows EXCEPT ![n] = row] /\ RowMove(n, row)
  /\ row.status # "completed" => row.ports = {}

\* A move touches one row, and no settled one.
LEMMA MoveStays ==
  ASSUME DriverTypeOK, PortsInv, NEW n \in Node, NEW row \in Row, RowMoves(n, row)
  PROVE  /\ \A m \in Node : rows'[m] = IF m = n THEN row ELSE rows[m]
         /\ Settled(rows) \subseteq Settled(rows')
         /\ \A m : Lit(rows, m) => Lit(rows', m)
         /\ PortsInv'
<1>1. \A m \in Node : rows'[m] = IF m = n THEN row ELSE rows[m]
  BY DEF DriverTypeOK, RowMoves
<1>2. ~IsSettled(rows[n])
  BY DEF RowMoves, RowMove, IsHeld, IsSettled
<1>3. \A m \in Node : IsSettled(rows[m]) => rows'[m] = rows[m]
  BY <1>1, <1>2
<1>4. \A e \in Edges : e.source \in Node
  BY GraphAssumption DEF GraphAssumption
<1>5. \A m : Lit(rows, m) => Lit(rows', m)
  BY <1>3, <1>4 DEF Lit, Active, Incoming, IsSettled
<1>6. PortsInv'
  BY <1>1 DEF PortsInv, RowMoves
<1> QED BY <1>1, <1>3, <1>5, <1>6 DEF Settled

LEMMA SettleSkipRow ==
  ASSUME DriverInv, CascadeInv, SettleSkip
  PROVE  LET n == First(skips) IN
         /\ n \in DOMAIN skips /\ n \in Node
         /\ Skipped(rows[n]) \in Row /\ Skipped(rows[n]).status = "skipped"
         /\ RowMoves(n, Skipped(rows[n])) /\ rows[n].status = "absent"
         /\ DOMAIN skips' = DOMAIN skips \ {n} /\ \A m \in DOMAIN skips' : skips'[m] = skips[m]
         /\ batch' = batch /\ pc' = pc /\ pc = "settle"
<1> DEFINE n == First(skips)
<1>1. /\ n \in DOMAIN skips /\ n \in Node /\ \A m \in DOMAIN skips : skips[n] <= skips[m]
      /\ \A m \in DOMAIN skips : skips[m] \in Nat
  BY FirstIsOne DEF SettleSkip, DriverInv, DriverTypeOK, Ranked
<1>2. rows[n].status = "absent" /\ ~Reached(n) /\ rows[n] \in Row
  BY <1>1 DEF DriverInv, DriverTypeOK, CascadeInv, SkipsInv, SettleSkip
<1>3. Sources(n) \subseteq Settled(rows)
  <2> SUFFICES ASSUME NEW s \in Sources(n), s \notin Settled(rows) PROVE FALSE
    OBVIOUS
  <2>1. s \in DOMAIN skips /\ skips[s] < skips[n]
    BY <1>1 DEF CascadeInv, SkipsInv, SettleSkip
  <2> QED BY <1>1, <2>1
<1>4. rows' = [rows EXCEPT ![n] = Skipped(rows[n])]
  BY <1>2 DEF SettleSkip, SetRow, SkipWins, IsSettled
<1>5. Skipped(rows[n]) \in Row /\ Skipped(rows[n]).status = "skipped" /\ Skipped(rows[n]).ports = {}
  BY <1>2, SkippedMakes DEF Skipped, Row
<1>6. RowMoves(n, Skipped(rows[n]))
  BY <1>2, <1>3, <1>4, <1>5 DEF RowMoves, RowMove
<1>7. /\ DOMAIN skips' = DOMAIN skips \ {n} /\ \A m \in DOMAIN skips' : skips'[m] = skips[m]
      /\ batch' = batch /\ pc' = pc /\ pc = "settle"
  BY RestRanks DEF SettleSkip, DriverInv, DriverTypeOK
<1> HIDE DEF n
<1> QED BY <1>1, <1>2, <1>5, <1>6, <1>7 DEF n

LEMMA ClaimRow ==
  ASSUME DriverInv, CascadeInv, Claim
  PROVE  \E row \in Row : RowMoves(Current, row) /\ row.status = "claimed"
<1>1. PICK row \in Row :
        /\ rows' = [rows EXCEPT ![Current] = row]
        /\ row = Claimed(rows[Current], Token, 1) /\ row.status = "claimed"
  BY ClaimIsWon
<1>2. /\ Current \in DOMAIN batch /\ Current \in Node /\ rows[Current] \in Row
      /\ rows[Current].status = "absent" \/ IsHeld(rows[Current])
  BY ClaimIsWon
<1>3. row.ports = {}
  <2>1. CASE rows[Current].status = "absent"
    <3>1. Claimed(rows[Current], Token, 1).ports = {}
      BY <2>1 DEF Claimed, Absent
    <3> QED BY <1>1, <3>1
  <2>2. CASE IsHeld(rows[Current])
    <3>1. Claimed(rows[Current], Token, 1).ports = rows[Current].ports
      BY <1>2, <2>2 DEF Claimed, IsHeld, Row
    <3>2. rows[Current].ports = {}
      BY <1>2, <2>2 DEF IsHeld, CascadeInv, PortsInv
    <3> QED BY <1>1, <3>1, <3>2
  <2> QED BY <1>2, <2>1, <2>2
<1>4. Reached(Current) /\ Sources(Current) \subseteq Settled(rows)
  BY <1>2 DEF CascadeInv, BatchInv, InBatch, Claim
<1> QED BY <1>1, <1>2, <1>3, <1>4 DEF RowMoves, RowMove

LEMMA CheckpointRow ==
  ASSUME DriverInv, CascadeInv, CheckpointAndGoOn \/ CheckpointPause \/ CheckpointFailure
  PROVE  /\ pc = "checkpoint" /\ Current \in DOMAIN batch /\ Current \in Node
         /\ IsHeld(rows[Current])
         /\ \E row \in Row : /\ RowMoves(Current, row)
                             /\ CheckpointAndGoOn => IsSettled(row)
<1>1. /\ pc = "checkpoint" /\ Current \in DOMAIN batch /\ Current \in Node
      /\ rows[Current] \in Row /\ rows[Current].status = "claimed" /\ IsHeld(rows[Current])
      /\ ~IsSettled(rows[Current]) /\ tried = rows[Current].attempts
  BY AtTheHead DEF CheckpointAndGoOn, CheckpointPause, CheckpointFailure, IsHeld, IsSettled
<1>2. /\ Skipped(rows[Current]).ports = {} /\ Failed(rows[Current]).ports = {}
      /\ Paused(rows[Current]).ports = {}
  BY <1>1 DEF Skipped, Failed, Paused, Row
<1>3. CASE CheckpointAndGoOn
  <2>1. verdict.ports \in SUBSET RowPort
    BY DriverAssumption DEF DriverInv, DriverTypeOK, Verdict, DriverAssumption
  <2>2. CASE verdict.kind = "output"
    <3> DEFINE row == Completed(rows[Current], verdict.ports)
    <3>1. rows' = [rows EXCEPT ![Current] = row] /\ row \in Row /\ row.status = "completed"
      BY <1>1, <1>3, <2>1, <2>2, SkippedMakes DEF CheckpointAndGoOn, SetRow, Current
    <3> HIDE DEF row
    <3> QED BY <1>1, <3>1 DEF RowMoves, RowMove, IsSettled
  <2>3. CASE verdict.kind = "skip"
    <3> DEFINE row == Skipped(rows[Current])
    <3>1. /\ rows' = [rows EXCEPT ![Current] = row] /\ row \in Row
          /\ row.status = "skipped" /\ row.ports = {}
      BY <1>1, <1>2, <1>3, <2>3, SkippedMakes
         DEF CheckpointAndGoOn, SetRow, Current, SkipWins
    <3>2. Current \in Lane
      BY <1>1, <2>3 DEF CascadeInv
    <3> HIDE DEF row
    <3> QED BY <1>1, <3>1, <3>2 DEF RowMoves, RowMove, IsSettled
  <2> QED BY <1>3, <2>2, <2>3 DEF CheckpointAndGoOn
<1>4. CASE CheckpointPause
  <2> DEFINE row == Paused(rows[Current])
  <2>1. /\ rows' = [rows EXCEPT ![Current] = row] /\ row \in Row
        /\ row.status = "paused" /\ row.ports = {} /\ verdict.kind = "pause"
    BY <1>1, <1>2, <1>4, SkippedMakes DEF CheckpointPause, SetRow, Current
  <2>2. ~CheckpointAndGoOn
    BY <2>1 DEF CheckpointAndGoOn
  <2> HIDE DEF row
  <2> QED BY <1>1, <2>1, <2>2 DEF RowMoves, RowMove
<1>5. CASE CheckpointFailure
  <2> DEFINE row == Failed(rows[Current])
  <2>1. /\ row \in Row /\ row.status = "failed" /\ row.ports = {}
        /\ verdict.kind = "error"
    BY <1>1, <1>2, <1>5, SkippedMakes DEF CheckpointFailure
  <2>2. rows' = [rows EXCEPT ![Current] = row]
    <3>1. tried \in Nat /\ TriesFor(Current) \in Nat
      BY <1>1, Tries DEF DriverInv, DriverTypeOK
    <3>2. ~TriesLeft(Current)
      BY <1>1, <1>5, <3>1 DEF CheckpointFailure, TriesLeft, Current
    <3> QED BY <1>5, <3>2 DEF CheckpointFailure, SetRow, Current
  <2>3. ~CheckpointAndGoOn
    BY <2>1 DEF CheckpointAndGoOn
  <2> HIDE DEF row
  <2> QED BY <1>1, <2>1, <2>2, <2>3 DEF RowMoves, RowMove
<1> QED BY <1>1, <1>3, <1>4, <1>5

LEMMA ReleaseRow ==
  ASSUME NEW n \in Node, AnswerAndRelease(n)
  PROVE  RowMoves(n, Absent) /\ Absent \in Row /\ IsHeld(rows[n])
<1>1. rows' = [rows EXCEPT ![n] = Absent] /\ IsHeld(rows[n])
  BY DEF AnswerAndRelease, SetRow, Released, IsHeld
<1>2. Absent.status = "absent" /\ Absent.ports = {}
  BY DEF Absent
<1> QED BY <1>1, <1>2, RowTypes DEF RowMoves, RowMove

-----------------------------------------------------------------------------
LEMMA InitCascade == Init => CascadeInv
<1> SUFFICES ASSUME Init PROVE CascadeInv
  OBVIOUS
<1>1. PortsInv
  BY DEF Init, PortsInv, Absent
<1> QED BY <1>1 DEF Init, CascadeInv, InBatch

LEMMA PassCascade == ASSUME DriverInv, CascadeInv, Pass PROVE CascadeInv'
<1> DEFINE K == Skips(rows)
           R == Ready(rows)
<1>1. /\ skips' = Ranking(rows, K) /\ batch' = Ranking(rows, R) /\ rows' = rows
      /\ pc' = "settle"
  BY DEF Pass
<1>2. K \in SUBSET Node /\ R \in SUBSET Node
  BY SkipOrRun
<1>3. DOMAIN skips' = K /\ DOMAIN batch' = R
  BY <1>1, <1>2, RankingCounts
<1>4. K \subseteq Drops(rows, K)
  BY SkipsAreDropped
<1>5. SkipsInv'
  <2> SUFFICES ASSUME NEW n \in K
               PROVE  /\ rows[n].status = "absent" /\ ~Reached(n)
                      /\ \A s \in Sources(n) : \/ s \in Settled(rows)
                                               \/ s \in K /\ skips'[s] < skips'[n]
    BY <1>1, <1>3 DEF SkipsInv, Reached
  <2>1. /\ rows[n].status = "absent" /\ ~Reached(n)
        /\ Sources(n) \subseteq Settled(rows) \cup K
    BY <1>4 DEF Drops, Unblocked, Undecided, Reached
  <2>2. \A s \in Sources(n) \cap K : skips'[s] < skips'[n]
    BY <1>1, SourceBefore
  <2> HIDE DEF K
  <2> QED BY <2>1, <2>2
<1>6. ReadyInv'
  <2>1. \A n \in R : Reached(n) /\ Sources(n) \subseteq Settled(rows) \cup K
    BY ReadyIsReached DEF Reached
  <2>2. ASSUME NEW n \in Node, rows[n].status = "absent",
               Sources(n) \subseteq Settled(rows) \cup K
        PROVE  n \in K \cup R
    <3>1. Unblocked(rows, K, n)
      BY <2>2 DEF Unblocked, Undecided
    <3>2. CASE Reached(n)
      BY <3>1, <3>2 DEF Reached, Ready
    <3>3. CASE ~Reached(n)
      <4>1. n \in Drops(rows, K)
        BY <3>1, <3>3 DEF Reached, Drops
      <4> QED BY <4>1, SkipsAreClosed
    <3> QED BY <3>2, <3>3
  <2>3. \A m, n \in R : batch'[m] = batch'[n] => m = n
    BY <1>1, <1>2, RanksDiffer
  <2>4. R # {} => \E n \in R : batch'[n] = 0
    BY <1>1, <1>2, FirstRank
  <2> HIDE DEF K, R
  <2> QED BY <1>1, <1>3, <2>1, <2>2, <2>3, <2>4 DEF ReadyInv, Reached
<1> QED BY <1>1, <1>5, <1>6 DEF CascadeInv, PortsInv, InBatch

LEMMA SettleSkipCascade == ASSUME DriverInv, CascadeInv, SettleSkip PROVE CascadeInv'
<1> DEFINE n == First(skips)
<1>1. /\ n \in DOMAIN skips /\ n \in Node /\ rows[n].status = "absent"
      /\ DOMAIN skips' = DOMAIN skips \ {n} /\ \A m \in DOMAIN skips' : skips'[m] = skips[m]
      /\ batch' = batch /\ pc' = pc /\ pc = "settle"
  BY SettleSkipRow
<1>2. PICK row \in Row : RowMoves(n, row) /\ row.status = "skipped"
  BY SettleSkipRow
<1> HIDE DEF n
<1>3. /\ \A m \in Node : rows'[m] = IF m = n THEN row ELSE rows[m]
      /\ Settled(rows) \subseteq Settled(rows') /\ PortsInv'
      /\ \A m : Lit(rows, m) => Lit(rows', m)
  BY <1>1, <1>2, MoveStays DEF DriverInv, CascadeInv
<1>4. Settled(rows') = Settled(rows) \cup {n}
  BY <1>1, <1>2, <1>3 DEF Settled, IsSettled
<1>5. \A m : Lit(rows', m) => Lit(rows, m)
  <2>1. \A e \in Edges : e.source \in Node
    BY GraphAssumption DEF GraphAssumption
  <2>2. \A e \in Edges : Active(rows', e) => Active(rows, e)
    BY <1>2, <1>3, <2>1 DEF Active
  <2> QED BY <2>2 DEF Lit, Incoming
<1>6. SkipsInv'
  <2> SUFFICES ASSUME NEW m \in DOMAIN skips'
               PROVE  /\ rows'[m].status = "absent" /\ ~Reached(m)'
                      /\ \A s \in Sources(m) : \/ s \in Settled(rows')
                                               \/ s \in DOMAIN skips' /\ skips'[s] < skips'[m]
    BY DEF SkipsInv
  <2>1. m \in DOMAIN skips /\ m # n /\ skips'[m] = skips[m] /\ m \in Node
    BY <1>1 DEF DriverInv, DriverTypeOK, Ranked
  <2>2. /\ rows[m].status = "absent" /\ ~Reached(m)
        /\ \A s \in Sources(m) : \/ s \in Settled(rows)
                                 \/ s \in DOMAIN skips /\ skips[s] < skips[m]
    BY <1>1, <2>1 DEF CascadeInv, SkipsInv
  <2>3. ~Reached(m)'
    BY <1>5, <2>2 DEF Reached
  <2> QED BY <1>1, <1>3, <1>4, <2>1, <2>2, <2>3
<1>7. ReadyInv'
  <2>1. Settled(rows') \cup DOMAIN skips' = Settled(rows) \cup DOMAIN skips
    BY <1>1, <1>4
  <2>2. ReadyInv
    BY <1>1 DEF CascadeInv
  <2>3. \A m \in Node : rows'[m].status = "absent" => rows[m].status = "absent" /\ m # n
    BY <1>2, <1>3
  <2>4. \A m \in DOMAIN batch : Reached(m)'
    BY <1>3, <2>2 DEF ReadyInv, Reached
  <2> QED BY <1>1, <2>1, <2>2, <2>3, <2>4 DEF ReadyInv
<1> QED BY <1>1, <1>3, <1>6, <1>7 DEF CascadeInv, InBatch

LEMMA SelectedCascade == ASSUME DriverInv, CascadeInv, Selected PROVE CascadeInv'
<1> DEFINE chosen == SelectDispatch(batch, rows, MaxConcurrent)
<1>1. /\ rows' = rows /\ batch' = [n \in chosen |-> batch[n]] /\ DOMAIN skips = {}
      /\ pc' = IF chosen = {} THEN "conclude" ELSE "mint"
  BY DEF Selected
<1>2. ReadyInv /\ chosen \subseteq DOMAIN batch
  BY DEF Selected, CascadeInv, SelectDispatch
<1>3. BatchInv'
  BY <1>1, <1>2 DEF ReadyInv, BatchInv, Reached
<1>4. ASSUME chosen = {}, ~HasWorkInFlight(rows), NEW n \in Node, DueNow(n) PROVE FALSE
  <2>1. n \in DOMAIN batch
    BY <1>1, <1>2, <1>4 DEF ReadyInv, DueNow
  <2>2. PICK m \in DOMAIN batch : batch[m] = 0
    BY <1>2, <2>1 DEF ReadyInv
  <2>3. Held(rows) = {}
    BY <1>4 DEF HasWorkInFlight, Held
  <2>4. Cardinality(Held(rows)) = 0 /\ MaxConcurrent \in Nat
    BY <2>3, FS_EmptySet, DriverAssumption DEF DriverAssumption
  <2>5. m \in chosen
    BY <2>2, <2>4 DEF SelectDispatch
  <2> QED BY <1>4, <2>5
<1> HIDE DEF chosen
<1>5. pc' = "conclude" => HasWorkInFlight(rows') \/ \A n \in Node : ~DueNow(n)'
  BY <1>1, <1>4 DEF DueNow
<1>6. PortsInv' /\ pc' # "settle" /\ pc' # "checkpoint"
  BY <1>1 DEF CascadeInv, PortsInv
<1> QED BY <1>3, <1>5, <1>6 DEF CascadeInv

\* A step of the batch leaves its nodes reached.
LEMMA BatchStays ==
  ASSUME BatchInv, Settled(rows) \subseteq Settled(rows'), \A m : Lit(rows, m) => Lit(rows', m),
         DOMAIN batch' \subseteq DOMAIN batch
  PROVE  BatchInv'
BY DEF BatchInv, Reached

LEMMA QuietCascade ==
  ASSUME DriverInv, CascadeInv, Mint \/ Execute \/ Retry PROVE CascadeInv'
<1>1. rows' = rows /\ batch' = batch /\ InBatch /\ pc' \in {"claim", "checkpoint"}
  BY DEF Mint, Execute, Retry, InBatch
<1>2. BatchInv'
  BY <1>1 DEF CascadeInv, BatchInv, Reached
<1>3. ASSUME pc' = "checkpoint", verdict'.kind = "skip" PROVE Current' \in Lane
  <2>1. Execute
    BY <1>3 DEF Mint, Execute, Retry
  <2>2. /\ Current \in DOMAIN batch /\ Current' = Current
        /\ verdict' \in Replay(rows, Current, answered)
    BY <1>1, <2>1, AtTheHead DEF Execute, Current
  <2>3. Reached(Current)
    BY <1>1, <2>2 DEF CascadeInv, BatchInv
  <2>4. ~ExecutorRuns(rows, Current)
    BY <1>3, <2>2 DEF Replay, Executed, Said
  <2>5. Acyclic
    BY <1>3, <2>2, <2>4 DEF Replay, Said
  <2> QED BY <2>2, <2>3, <2>4, <2>5 DEF ExecutorRuns, Reached
<1>4. PortsInv'
  BY <1>1 DEF CascadeInv, PortsInv
<1> QED BY <1>1, <1>2, <1>3, <1>4 DEF CascadeInv

LEMMA WriteCascade ==
  ASSUME DriverInv, CascadeInv,
         Claim \/ CheckpointAndGoOn \/ CheckpointPause \/ CheckpointFailure
  PROVE  CascadeInv'
<1>1. PICK row \in Row : RowMoves(Current, row)
  BY ClaimRow, CheckpointRow
<1>2. Current \in Node
  BY ClaimIsWon, CheckpointRow
<1>3. /\ Settled(rows) \subseteq Settled(rows') /\ PortsInv'
      /\ \A m : Lit(rows, m) => Lit(rows', m)
  BY <1>1, <1>2, MoveStays DEF DriverInv, CascadeInv
<1>4. /\ DOMAIN batch' \subseteq DOMAIN batch /\ pc' \in {"execute", "mint", "pass", "out"}
      /\ InBatch
  <2>1. CASE Claim
    BY <2>1, ClaimIsWon DEF InBatch
  <2>2. CASE CheckpointAndGoOn
    BY <2>2, RestRanks DEF CheckpointAndGoOn, NextInBatch, InBatch, DriverInv, DriverTypeOK
  <2>3. CASE CheckpointPause \/ CheckpointFailure
    BY <2>3 DEF CheckpointPause, CheckpointFailure, Stop, Empty, InBatch
  <2> QED BY <2>1, <2>2, <2>3
<1>5. BatchInv'
  BY <1>3, <1>4, BatchStays DEF CascadeInv
<1> QED BY <1>3, <1>4, <1>5 DEF CascadeInv

LEMMA IdleCascade ==
  ASSUME DriverInv, CascadeInv,
         Call \/ Conclude \/ Crash \/ \E n \in Node : AnswerAndRelease(n)
  PROVE  CascadeInv'
<1>1. pc' \in {"out", "pass"}
  BY DEF Call, Conclude, Stop, Crash, AnswerAndRelease
<1>2. CASE rows' = rows
  BY <1>1, <1>2 DEF CascadeInv, PortsInv, InBatch
<1>3. CASE rows' # rows
  <2>1. PICK n \in Node : AnswerAndRelease(n)
    BY <1>3 DEF Call, Conclude, Crash
  <2>2. PortsInv'
    BY <2>1, ReleaseRow, MoveStays DEF DriverInv, CascadeInv
  <2> QED BY <1>1, <2>2 DEF CascadeInv, InBatch
<1> QED BY <1>2, <1>3

LEMMA CascadeKept == DriverInv /\ CascadeInv /\ [Next]_vars => CascadeInv'
<1> SUFFICES ASSUME DriverInv, CascadeInv, [Next]_vars PROVE CascadeInv'
  OBVIOUS
<1>1. CASE UNCHANGED vars
  BY <1>1 DEF vars, CascadeInv, PortsInv, SkipsInv, ReadyInv, BatchInv, InBatch, Current,
              Reached, DueNow
<1> QED BY <1>1, PassCascade, SettleSkipCascade, SelectedCascade, QuietCascade, WriteCascade,
           IdleCascade DEF Next, Driver

LEMMA StepMoves ==
  DriverInv /\ CascadeInv /\ [Next]_vars =>
    rows' = rows \/ \E n \in Node, row \in Row : RowMoves(n, row)
<1> SUFFICES ASSUME DriverInv, CascadeInv, [Next]_vars, rows' # rows
             PROVE  \E n \in Node, row \in Row : RowMoves(n, row)
  OBVIOUS
<1>1. CASE SettleSkip
  BY <1>1, SettleSkipRow
<1>2. CASE Claim
  BY <1>2, ClaimIsWon, ClaimRow
<1>3. CASE CheckpointAndGoOn \/ CheckpointPause \/ CheckpointFailure
  BY <1>3, CheckpointRow
<1>4. CASE \E n \in Node : AnswerAndRelease(n)
  BY <1>4, ReleaseRow
<1>5. CASE Call \/ Crash \/ Pass \/ Selected \/ Mint \/ Execute \/ Retry \/ Conclude
           \/ UNCHANGED vars
  BY <1>5 DEF Call, Crash, Pass, Selected, Mint, Execute, Retry, Conclude, vars
<1> QED BY <1>1, <1>2, <1>3, <1>4, <1>5 DEF Next, Driver

-----------------------------------------------------------------------------
(* The run is a run of DurableRun. *)

PhaseOf(row) ==
  IF row.status = "absent" THEN "pending"
  ELSE IF IsHeld(row) THEN "held" ELSE row.status

Phase(r) == [n \in Node |-> PhaseOf(r[n])]
Ports(r) == [n \in Node |-> r[n].ports]

\* A node is due, and live, in the abstract run as it is in the rows.
LEMMA AbstractReach ==
  ASSUME DriverTypeOK, NEW n \in Node
  PROVE  /\ DueNow(n) => Run!Due(n)
         /\ Run!Live(n) = Lit(rows, n)
<1>1. \A m \in Node : /\ IsSettled(rows[m]) => PhaseOf(rows[m]) \in Run!Over
                      /\ (PhaseOf(rows[m]) = "completed") = (rows[m].status = "completed")
  BY DEF DriverTypeOK, Row, RunStatus, IsSettled, IsHeld, PhaseOf, Run!Over
<1>2. Run!Incoming(n) = Incoming(n) /\ Run!Sources(n) = Sources(n)
  BY DEF Run!Incoming, Run!Sources, Incoming, Sources
<1>3. \A e \in Incoming(n) : e.source \in Node
  BY GraphAssumption DEF GraphAssumption, Incoming
<1>4. Run!Live(n) = Lit(rows, n)
  BY <1>1, <1>2, <1>3 DEF Run!Live, Lit, Active, PhaseOf
<1>5. ASSUME DueNow(n) PROVE Run!Due(n)
  <2>1. \A m \in Sources(n) : m \in Node /\ PhaseOf(rows[m]) \in Run!Over
    BY <1>1, <1>5 DEF DueNow, Settled
  <2> QED BY <1>2, <1>5, <2>1 DEF DueNow, Run!Due, PhaseOf
<1> QED BY <1>4, <1>5

RunStepOrStutter == Run!RunNext \/ (Phase(rows') = Phase(rows) /\ Ports(rows') = Ports(rows))

LEMMA MoveIsAbstract ==
  ASSUME DriverTypeOK, PortsInv, NEW n \in Node, NEW row \in Row, RowMoves(n, row)
  PROVE  RunStepOrStutter
<1>1. /\ \A m \in Node : rows'[m] = IF m = n THEN row ELSE rows[m]
      /\ row.status # "completed" => row.ports = {}
  BY MoveStays DEF RowMoves
<1>2. /\ Phase(rows') = [Phase(rows) EXCEPT ![n] = PhaseOf(row)]
      /\ Ports(rows') = [Ports(rows) EXCEPT ![n] = row.ports]
      /\ row.ports = rows[n].ports => Ports(rows') = Ports(rows)
      /\ PhaseOf(row) = PhaseOf(rows[n]) => Phase(rows') = Phase(rows)
      /\ Phase(rows)[n] = PhaseOf(rows[n])
  BY <1>1 DEF Phase, Ports
<1>3. row.ports \in SUBSET Port
  BY DriverAssumption DEF DriverAssumption, Row
<1>4. CASE rows[n].status = "absent" /\ row.status = "claimed"
           /\ Reached(n) /\ Sources(n) \subseteq Settled(rows)
  <2>1. PhaseOf(row) = "held" /\ row.ports = rows[n].ports
    BY <1>1, <1>4 DEF PhaseOf, IsHeld, PortsInv
  <2>2. Run!Due(n) /\ Run!Live(n) /\ n \notin Note
    BY <1>4, AbstractReach DEF Reached, DueNow
  <2>3. Run!Start(n)
    BY <1>2, <2>1, <2>2 DEF Run!Start, Run!Move, Phase, Ports, PhaseOf
  <2> QED BY <2>3 DEF RunStepOrStutter, Run!RunNext
<1>5. CASE /\ IsHeld(rows[n])
           /\ \/ row.status \in {"claimed", "paused", "completed", "failed", "absent"}
              \/ row.status = "skipped" /\ n \in Lane
  <2>1. Phase(rows)[n] = "held" /\ rows[n].ports = {}
    BY <1>2, <1>5 DEF PhaseOf, IsHeld, PortsInv
  <2>2. CASE row.status = "completed"
    <3>1. PhaseOf(row) = "completed"
      BY <2>2 DEF PhaseOf, IsHeld
    <3>2. Run!Finish(n)
      BY <1>2, <1>3, <2>1, <3>1, Zenon DEF Run!Finish, Run!Move, Phase, Ports, PhaseOf
    <3> QED BY <3>2 DEF RunStepOrStutter, Run!RunNext
  <2>3. CASE row.status = "failed"
    <3>1. PhaseOf(row) = "failed" /\ Ports(rows') = Ports(rows)
      BY <1>1, <1>2, <2>1, <2>3 DEF PhaseOf, IsHeld
    <3>2. Run!Fail(n)
      BY <1>2, <2>1, <3>1, Zenon DEF Run!Fail, Run!Move, Phase, Ports, PhaseOf
    <3> QED BY <3>2 DEF RunStepOrStutter, Run!RunNext
  <2>4. CASE row.status = "skipped" /\ n \in Lane
    <3>1. PhaseOf(row) = "skipped" /\ Ports(rows') = Ports(rows)
      BY <1>1, <1>2, <2>1, <2>4 DEF PhaseOf, IsHeld
    <3>2. Run!PassOver(n)
      BY <1>2, <2>1, <2>4, <3>1, Zenon DEF Run!PassOver, Run!Move, Phase, Ports, PhaseOf
    <3> QED BY <3>2 DEF RunStepOrStutter, Run!RunNext
  <2>5. CASE row.status = "absent"
    <3>1. PhaseOf(row) = "pending" /\ Ports(rows') = Ports(rows)
      BY <1>1, <1>2, <2>1, <2>5 DEF PhaseOf
    <3>2. Run!Withdraw(n)
      BY <1>2, <2>1, <3>1, Zenon DEF Run!Withdraw, Run!Move, Phase, Ports, PhaseOf
    <3> QED BY <3>2 DEF RunStepOrStutter, Run!RunNext
  <2>6. CASE row.status \in {"claimed", "paused"}
    <3>1. PhaseOf(row) = "held" /\ PhaseOf(rows[n]) = "held" /\ row.ports = rows[n].ports
      BY <1>1, <1>2, <2>1, <2>6 DEF PhaseOf, IsHeld
    <3> QED BY <1>2, <3>1 DEF RunStepOrStutter
  <2> QED BY <1>5, <2>2, <2>3, <2>4, <2>5, <2>6
<1>6. CASE rows[n].status = "absent" /\ row.status = "skipped"
           /\ ~Reached(n) /\ Sources(n) \subseteq Settled(rows)
  <2>1. PhaseOf(row) = "skipped" /\ row.ports = rows[n].ports
    BY <1>1, <1>6 DEF PhaseOf, IsHeld, PortsInv
  <2>2. Run!Due(n) /\ (~Run!Live(n) \/ n \in Note)
    BY <1>6, AbstractReach DEF Reached, DueNow
  <2>3. Run!PassOver(n)
    BY <1>2, <2>1, <2>2 DEF Run!PassOver, Run!Move, Phase, Ports, PhaseOf
  <2> QED BY <2>3 DEF RunStepOrStutter, Run!RunNext
<1> QED BY <1>4, <1>5, <1>6 DEF RowMoves, RowMove

\* Through crashes, gates and repeated calls the driver's rows start, finish,
\* fail, pass over and withdraw one node at a time, when it is due.
THEOREM DriverRefines == Spec => ImplementsDurableRun
<1>1. Init => Run!RunInit
  BY DEF Init, Absent, Run!RunInit
<1>2. DriverInv /\ CascadeInv /\ [Next]_vars => RunStepOrStutter
  <2> SUFFICES ASSUME DriverInv, CascadeInv, [Next]_vars PROVE RunStepOrStutter
    OBVIOUS
  <2>1. CASE rows' = rows
    BY <2>1 DEF RunStepOrStutter, Phase, Ports
  <2>2. CASE \E n \in Node, row \in Row : RowMoves(n, row)
    BY <2>2, MoveIsAbstract DEF DriverInv, CascadeInv
  <2> QED BY <2>1, <2>2, StepMoves
<1>3. DriverInv /\ CascadeInv /\ [Next]_vars => [Run!RunNext]_Run!runVars
  BY <1>2 DEF RunStepOrStutter, Run!runVars, Phase, Ports, PhaseOf
<1> QED BY <1>1, <1>3, InitDriver, DriverKept, InitCascade, CascadeKept, PTL
        DEF Spec, ImplementsDurableRun, Run!RunSpec

-----------------------------------------------------------------------------
(* The cap.  What is held and what the batch has still to claim were        *)
(* counted together when the batch was cut.                                 *)

Committed == Held(rows) \cup (IF InBatch THEN DOMAIN batch ELSE {})

CapInv == MaxConcurrent > 0 => Cardinality(Committed) <= MaxConcurrent

LEMMA CommittedFinite ==
  ASSUME DriverTypeOK
  PROVE  /\ Committed \in SUBSET Node /\ IsFiniteSet(Committed)
         /\ \A S \in SUBSET Committed : IsFiniteSet(S) /\ Cardinality(S) \in Nat
                                        /\ Cardinality(S) <= Cardinality(Committed)
<1>1. Committed \in SUBSET Node
  BY DEF Committed, Held, DriverTypeOK, Ranked
<1>2. IsFiniteSet(Committed)
  BY <1>1, FS_Subset, GraphAssumption DEF GraphAssumption
<1> QED BY <1>1, <1>2, FS_Subset, FS_CardinalityType

LEMMA CapKept == DriverInv /\ CascadeInv /\ CapInv /\ [Next]_vars => CapInv'
<1> SUFFICES ASSUME DriverInv, CascadeInv, CapInv, [Next]_vars PROVE CapInv'
  OBVIOUS
<1>1. MaxConcurrent \in Nat
  BY DriverAssumption DEF DriverAssumption
<1>2. ASSUME Committed' \subseteq Committed PROVE CapInv'
  <2>1. /\ Cardinality(Committed) \in Nat /\ Cardinality(Committed') \in Nat
        /\ Cardinality(Committed') <= Cardinality(Committed)
    BY <1>2, CommittedFinite DEF DriverInv
  <2> QED BY <1>1, <2>1 DEF CapInv
<1>3. CASE Selected
  <2> DEFINE chosen == SelectDispatch(batch, rows, MaxConcurrent)
             H == Held(rows)
             k == MaxConcurrent - Cardinality(H)
  <2> SUFFICES ASSUME MaxConcurrent > 0 PROVE Cardinality(Committed') <= MaxConcurrent
    BY DEF CapInv
  <2>1. /\ rows' = rows /\ DOMAIN batch' = chosen /\ pc = "settle"
        /\ pc' = IF chosen = {} THEN "conclude" ELSE "mint"
    BY <1>3 DEF Selected
  <2>2. H = Committed
    BY <2>1 DEF Committed, InBatch
  <2>3. IsFiniteSet(H) /\ Cardinality(H) \in Nat /\ Cardinality(H) <= MaxConcurrent
    BY <2>2, CommittedFinite DEF DriverInv, CapInv
  <2>4. k \in Nat
    BY <1>1, <2>3
  <2>5. \A n \in chosen : n \in DOMAIN batch /\ batch[n] \in Nat /\ batch[n] < k
    BY DEF SelectDispatch, DriverInv, DriverTypeOK, Ranked
  <2>6. \A m, n \in chosen : batch[m] = batch[n] => m = n
    BY <2>1, <2>5 DEF CascadeInv, ReadyInv
  <2> HIDE DEF chosen, k
  <2>7. IsFiniteSet(chosen) /\ Cardinality(chosen) <= k
    BY <2>4, <2>5, <2>6, FewBelow
  <2>8. Committed' = H \cup chosen
    BY <2>1 DEF Committed, InBatch, Held
  <2> HIDE DEF H
  <2>9. /\ IsFiniteSet(H \cap chosen) /\ Cardinality(H \cap chosen) \in Nat
        /\ Cardinality(chosen) \in Nat
        /\ Cardinality(H \cup chosen) = Cardinality(H) + Cardinality(chosen)
                                        - Cardinality(H \cap chosen)
    BY <2>3, <2>7, FS_Union, FS_Intersection, FS_CardinalityType
  <2> QED BY <1>1, <2>3, <2>7, <2>8, <2>9 DEF k
<1>4. CASE rows' = rows /\ ~Selected
  <2>1. ~InBatch' \/ (InBatch /\ batch' = batch)
    <3>1. CASE Call \/ Pass \/ Conclude \/ Crash
      BY <3>1 DEF Call, Pass, Conclude, Stop, Crash, InBatch
    <3>2. CASE Mint \/ Execute \/ Retry
      BY <3>2 DEF Mint, Execute, Retry, InBatch
    <3>3. CASE SettleSkip \/ \E n \in Node : AnswerAndRelease(n)
      BY <3>3 DEF SettleSkip, AnswerAndRelease, InBatch
    <3>4. CASE CheckpointPause \/ CheckpointFailure
      BY <3>4 DEF CheckpointPause, CheckpointFailure, Stop, InBatch
    <3>5. CASE Claim
      BY <3>5, ClaimIsWon DEF InBatch
    <3>6. CASE CheckpointAndGoOn
      <4>1. PICK row \in Row : RowMoves(Current, row) /\ IsSettled(row)
        BY <3>6, CheckpointRow
      <4>2. Current \in Node /\ IsHeld(rows[Current])
        BY <3>6, CheckpointRow
      <4>3. rows'[Current] = row
        BY <4>1, <4>2, MoveStays DEF DriverInv, CascadeInv
      <4> QED BY <1>4, <4>1, <4>2, <4>3 DEF IsHeld, IsSettled
    <3>7. CASE UNCHANGED vars
      BY <3>7 DEF vars, InBatch
    <3> QED BY <1>4, <3>1, <3>2, <3>3, <3>4, <3>5, <3>6, <3>7 DEF Next, Driver
  <2>2. Committed' \subseteq Committed
    BY <1>4, <2>1 DEF Committed, Held
  <2> QED BY <1>2, <2>2
<1>5. CASE rows' # rows /\ ~Selected
  <2>1. PICK n \in Node, row \in Row : RowMoves(n, row)
    BY <1>5, StepMoves
  <2>2. \A m \in Node : rows'[m] = IF m = n THEN row ELSE rows[m]
    BY <2>1, MoveStays DEF DriverInv, CascadeInv
  <2>3. /\ ~InBatch' \/ (InBatch /\ DOMAIN batch' \subseteq DOMAIN batch)
        /\ IsHeld(row) /\ rows[n].status = "absent" => InBatch /\ n \in DOMAIN batch
    <3>1. CASE Claim
      <4>1. InBatch /\ InBatch' /\ batch' = batch /\ Current \in DOMAIN batch /\ Current \in Node
        BY <3>1, ClaimIsWon DEF InBatch
      <4>2. PICK r \in Row : RowMoves(Current, r)
        BY <3>1, ClaimRow
      <4>3. \A m \in Node : m # Current => rows'[m] = rows[m]
        BY <4>1, <4>2, MoveStays DEF DriverInv, CascadeInv
      <4>4. IsHeld(row) /\ rows[n].status = "absent" => n = Current
        BY <2>2, <4>3 DEF IsHeld
      <4> QED BY <4>1, <4>4
    <3>2. CASE SettleSkip
      <4>1. /\ pc' = "settle" /\ First(skips) \in Node /\ Skipped(rows[First(skips)]) \in Row
            /\ RowMoves(First(skips), Skipped(rows[First(skips)]))
            /\ Skipped(rows[First(skips)]).status = "skipped"
        BY <3>2, SettleSkipRow
      <4>2. \A m \in Node : IsHeld(rows'[m]) => rows'[m] = rows[m]
        BY <4>1, MoveStays DEF DriverInv, CascadeInv, IsHeld
      <4> QED BY <2>2, <4>1, <4>2 DEF InBatch, IsHeld
    <3>3. CASE CheckpointAndGoOn \/ CheckpointPause \/ CheckpointFailure
      <4>1. /\ pc = "checkpoint" /\ Current \in Node /\ IsHeld(rows[Current])
            /\ \E r \in Row : RowMoves(Current, r)
        BY <3>3, CheckpointRow
      <4>2. \A m \in Node : m # Current => rows'[m] = rows[m]
        BY <4>1, MoveStays DEF DriverInv, CascadeInv
      <4>3. ~InBatch' \/ (InBatch /\ DOMAIN batch' \subseteq DOMAIN batch)
        BY <3>3, <4>1, RestRanks
           DEF CheckpointAndGoOn, NextInBatch, CheckpointPause, CheckpointFailure, Stop,
               InBatch, DriverInv, DriverTypeOK
      <4>4. ~(IsHeld(row) /\ rows[n].status = "absent")
        BY <2>2, <4>1, <4>2 DEF IsHeld
      <4> QED BY <4>3, <4>4
    <3>4. ASSUME NEW m \in Node, AnswerAndRelease(m)
          PROVE  ~InBatch' /\ ~(IsHeld(row) /\ rows[n].status = "absent")
      <4>1. RowMoves(m, Absent) /\ Absent \in Row /\ pc' = "out" /\ Absent.status = "absent"
        BY <3>4, ReleaseRow DEF AnswerAndRelease, Absent
      <4>2. \A k \in Node : rows'[k] = IF k = m THEN Absent ELSE rows[k]
        BY <4>1, MoveStays DEF DriverInv, CascadeInv
      <4> QED BY <2>2, <4>1, <4>2 DEF InBatch, IsHeld
    <3>5. CASE Call \/ Crash \/ Pass \/ Mint \/ Execute \/ Retry \/ Conclude \/ UNCHANGED vars
      BY <1>5, <3>5 DEF Call, Crash, Pass, Mint, Execute, Retry, Conclude, vars
    <3> QED BY <1>5, <3>1, <3>2, <3>3, <3>4, <3>5 DEF Next, Driver
  <2>4. \A m \in Held(rows') : m \in Committed
    <3> SUFFICES ASSUME NEW m \in Held(rows') PROVE m \in Committed
      OBVIOUS
    <3>1. m \in Node /\ IsHeld(rows'[m])
      BY DEF Held
    <3>2. CASE m # n
      BY <2>2, <3>1, <3>2 DEF Held, Committed
    <3>3. CASE m = n
      <4>1. IsHeld(row) /\ (rows[n].status = "absent" \/ IsHeld(rows[n]))
        BY <2>1, <2>2, <3>1, <3>3 DEF RowMoves, RowMove
      <4> QED BY <2>3, <3>3, <4>1 DEF Held, Committed
    <3> QED BY <3>2, <3>3
  <2>5. Committed' \subseteq Committed
    BY <2>3, <2>4 DEF Committed
  <2> QED BY <1>2, <2>5
<1> QED BY <1>3, <1>4, <1>5

\* With one caller of advance the cap holds of the run, whatever earlier
\* processes left claimed.
THEOREM DriverWithinCap == Spec => []HeldWithinCap
<1>1. Init => CapInv
  <2> SUFFICES ASSUME Init PROVE CapInv
    OBVIOUS
  <2>1. Committed = {}
    BY DEF Init, Committed, InBatch, Held, IsHeld, Absent
  <2> QED BY <2>1, FS_EmptySet, DriverAssumption DEF CapInv, DriverAssumption
<1>2. DriverInv /\ CapInv => HeldWithinCap
  <2> SUFFICES ASSUME DriverInv, CapInv, MaxConcurrent > 0
               PROVE  Cardinality(Held(rows)) <= MaxConcurrent
    BY DEF HeldWithinCap
  <2>1. Held(rows) \in SUBSET Committed
    BY DEF Committed
  <2>2. /\ Cardinality(Held(rows)) <= Cardinality(Committed)
        /\ Cardinality(Held(rows)) \in Nat /\ Cardinality(Committed) \in Nat
    BY <2>1, CommittedFinite DEF DriverInv
  <2> QED BY <2>2, DriverAssumption DEF CapInv, DriverAssumption
<1> QED BY <1>1, <1>2, InitDriver, DriverKept, InitCascade, CascadeKept, CapKept, PTL DEF Spec

-----------------------------------------------------------------------------
(* The passes.  Every pass that comes back to the loop has settled a node,  *)
(* so the default limit is never what ends a call.                          *)

Unsettled == Node \ Settled(rows)

EnoughInv ==
  MaxPasses = 0 =>
    /\ pc = "pass" => passes > Cardinality(Unsettled)
    /\ pc = "settle" \/ InBatch => passes >= Cardinality(Unsettled)

LEMMA UnsettledFinite ==
  /\ IsFiniteSet(Unsettled) /\ Cardinality(Unsettled) \in Nat
  /\ Cardinality(Node) \in Nat /\ Cardinality(Unsettled) <= Cardinality(Node)
  /\ \A S \in SUBSET Unsettled : Cardinality(S) \in Nat /\ Cardinality(S) <= Cardinality(Unsettled)
<1>1. Unsettled \in SUBSET Node
  BY DEF Unsettled
<1> QED BY <1>1, FS_Subset, FS_CardinalityType, GraphAssumption DEF GraphAssumption

LEMMA EnoughKept == DriverInv /\ CascadeInv /\ EnoughInv /\ [Next]_vars => EnoughInv'
<1> SUFFICES ASSUME DriverInv, CascadeInv, EnoughInv, [Next]_vars, MaxPasses = 0
             PROVE  /\ pc' = "pass" => passes' > Cardinality(Unsettled')
                    /\ pc' = "settle" \/ InBatch' => passes' >= Cardinality(Unsettled')
  BY DEF EnoughInv
<1>1. passes \in Nat
  BY DEF DriverInv, DriverTypeOK
<1>2. ASSUME rows' = rows PROVE Unsettled' = Unsettled
  BY <1>2 DEF Unsettled, Settled
<1>3. /\ Cardinality(Unsettled) \in Nat /\ Cardinality(Unsettled) <= Cardinality(Node)
      /\ Cardinality(Node) \in Nat
  BY UnsettledFinite
<1>4. CASE Call
  <2>1. pc' = "pass" /\ rows' = rows /\ passes' = Cardinality(Node) + 1
    BY <1>4 DEF Call, DefaultPasses
  <2> QED BY <1>2, <1>3, <2>1 DEF InBatch
<1>5. CASE Pass
  <2>1. pc = "pass" /\ pc' = "settle" /\ rows' = rows /\ passes' = passes - 1
    BY <1>5 DEF Pass
  <2> QED BY <1>1, <1>2, <1>3, <2>1 DEF EnoughInv, InBatch
<1>6. CASE Selected \/ Mint \/ Execute \/ Retry
  <2>1. /\ rows' = rows /\ passes' = passes /\ pc' \notin {"pass", "settle"}
        /\ pc = "settle" \/ InBatch
    BY <1>6 DEF Selected, Mint, Execute, Retry, InBatch
  <2> QED BY <1>2, <2>1 DEF EnoughInv
<1>7. CASE SettleSkip \/ Claim
  <2>1. \E n \in Node, row \in Row : RowMoves(n, row)
    BY <1>7, SettleSkipRow, ClaimRow, ClaimIsWon
  <2>2. Unsettled' \in SUBSET Unsettled
    BY <2>1, MoveStays DEF DriverInv, CascadeInv, Unsettled
  <2>3. passes' = passes /\ pc' # "pass" /\ (pc = "settle" \/ InBatch)
    BY <1>7, ClaimIsWon DEF SettleSkip, InBatch
  <2> QED BY <1>1, <1>3, <2>2, <2>3, UnsettledFinite DEF EnoughInv
<1>8. CASE CheckpointAndGoOn
  <2>1. PICK row \in Row : RowMoves(Current, row) /\ IsSettled(row)
    BY <1>8, CheckpointRow
  <2>2. Current \in Node /\ IsHeld(rows[Current]) /\ InBatch
    BY <1>8, CheckpointRow DEF InBatch
  <2>3. Unsettled' \in SUBSET (Unsettled \ {Current}) /\ Current \in Unsettled
    <3>1. rows'[Current] = row /\ Settled(rows) \subseteq Settled(rows')
      BY <2>1, <2>2, MoveStays DEF DriverInv, CascadeInv
    <3> QED BY <2>1, <2>2, <3>1 DEF Unsettled, Settled, IsHeld, IsSettled
  <2>4. /\ IsFiniteSet(Unsettled \ {Current})
        /\ Cardinality(Unsettled \ {Current}) = Cardinality(Unsettled) - 1
    BY <2>3, UnsettledFinite, FS_RemoveElement
  <2>5. Cardinality(Unsettled') \in Nat /\ Cardinality(Unsettled') <= Cardinality(Unsettled) - 1
    BY <2>3, <2>4, FS_Subset, FS_CardinalityType
  <2>6. passes' = passes /\ passes >= Cardinality(Unsettled)
    BY <1>8, <2>2 DEF CheckpointAndGoOn, EnoughInv
  <2> QED BY <1>1, <1>3, <2>5, <2>6
<1>9. CASE CheckpointPause \/ CheckpointFailure \/ Conclude \/ Crash
           \/ \E n \in Node : AnswerAndRelease(n)
  <2>1. pc' = "out"
    BY <1>9 DEF CheckpointPause, CheckpointFailure, Conclude, Stop, Crash, AnswerAndRelease
  <2> QED BY <2>1 DEF InBatch
<1>10. CASE UNCHANGED vars
  BY <1>10 DEF vars, EnoughInv, Unsettled, Settled, InBatch
<1> QED BY <1>4, <1>5, <1>6, <1>7, <1>8, <1>9, <1>10 DEF Next, Driver

\* Without a cycle, something is due until every node is settled or some row
\* is held.
LEMMA SomethingDue ==
  ASSUME DriverTypeOK, Acyclic, ~IsComplete(rows), ~HasWorkInFlight(rows)
  PROVE  \E n \in Node : DueNow(n)
<1>1. \A n \in Node : rows[n].status = "absent" \/ IsSettled(rows[n])
  BY DEF DriverTypeOK, Row, RunStatus, IsSettled, IsHeld, HasWorkInFlight
<1>2. Undecided(rows) # {} /\ Undecided(rows) \in SUBSET Node
  BY <1>1 DEF IsComplete, Undecided, IsSettled
<1>3. PICK n \in Undecided(rows) : Sources(n) \cap Undecided(rows) = {}
  BY <1>2 DEF Acyclic
<1>4. Sources(n) \subseteq Settled(rows)
  BY <1>1, <1>3, SourcesFinite DEF Undecided, Settled
<1> QED BY <1>3, <1>4 DEF DueNow, Undecided

StuckInv == result = "stuck" => ~Acyclic \/ MaxPasses > 0

LEMMA StuckKept == DriverInv /\ CascadeInv /\ EnoughInv /\ StuckInv /\ [Next]_vars => StuckInv'
<1> SUFFICES ASSUME DriverInv, CascadeInv, EnoughInv, StuckInv, [Next]_vars, result' = "stuck"
             PROVE  ~Acyclic \/ MaxPasses > 0
  BY DEF StuckInv
<1>1. CASE result = "stuck"
  BY <1>1 DEF StuckInv
<1>2. CASE result # "stuck"
  <2>1. Conclude
    BY <1>2 DEF Next, Driver, Call, Crash, Pass, SettleSkip, Selected, Mint, Claim, Execute,
                CheckpointAndGoOn, CheckpointPause, CheckpointFailure, Retry, Stop,
                AnswerAndRelease, vars
  <2>2. ~IsComplete(rows) /\ ~HasWorkInFlight(rows)
    BY <2>1 DEF Conclude, Stop
  <2>3. CASE pc = "conclude"
    BY <2>2, <2>3, SomethingDue DEF DriverInv, CascadeInv
  <2>4. CASE pc = "pass" /\ passes = 0
    BY <2>4, UnsettledFinite, DriverAssumption DEF EnoughInv, DriverAssumption
  <2> QED BY <2>1, <2>3, <2>4 DEF Conclude
<1> QED BY <1>1, <1>2

\* "The run cannot progress" is said of a cyclic graph only, unless the host
\* set the limit: the default one is never used up.
THEOREM DriverStuckMeansCycle == Spec => []StuckMeansCycle
<1>1. Init => EnoughInv /\ StuckInv
  BY DEF Init, EnoughInv, StuckInv, InBatch
<1>2. StuckInv => StuckMeansCycle
  BY DEF StuckInv, StuckMeansCycle
<1> QED BY <1>1, <1>2, InitDriver, DriverKept, InitCascade, CascadeKept, EnoughKept, StuckKept,
           PTL DEF Spec

=============================================================================

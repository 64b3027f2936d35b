--------------------------- MODULE EngineWalkProps ---------------------------
(***************************************************************************)
(* What one walk of the engine must do, and what the durable layer may     *)
(* conclude from the walk it drives.  A walk of replay_up_to is given the  *)
(* rows it was fed from besides, in the field rows of its start.           *)
(***************************************************************************)
EXTENDS EngineWalk, FencedReplay

\* What the store can hold of n: a row is there only once the sources of n
\* have settled, is skipped only if n is dead or visual, and otherwise only if
\* n is live (the drivers' OnlyDeadNodesSkipped and OnlyReachedNodesRun).
Plausible(rows, n) ==
  /\ rows[n].status # "absent" => Sources(n) \subseteq Settled(rows)
  /\ rows[n].status \notin {"absent", "skipped"} => Lit(rows, n) /\ n \notin Note
  /\ rows[n].status = "skipped" => ~Lit(rows, n) \/ n \in Note \cup Lane

ASSUME ReplayAssumption ==
  \A s \in Starts : s.fenced # {} =>
    /\ s.rows \in [Node -> Row]
    /\ \A n \in Node : Plausible(s.rows, n)
    /\ \E target \in {{}} \cup {{n} : n \in Held(s.rows)} :
         s = Replaying(s.rows, target)

\* A run that reports success has decided every node, and each decision is
\* still right once everything is published: the nodes with an output are
\* the resumed ones and those a lit edge reaches, and no other was called.
OkMeansDecided ==
  ResultOk =>
    \A n \in Node :
      LET resumed == n \in DOMAIN given.stored
          reached == (\E e \in Edges : e.target = n) =>
                       \E e \in Edges : e.target = n /\ <<e.source, e.port>> \in lit
          live == reached /\ n \notin Note \cup Lane
      IN  /\ (n \in outputs) = (resumed \/ live)
          /\ ran[n] = IF live /\ ~resumed /\ n \notin given.fenced THEN 1 ELSE 0

\* Nothing is called once the host has cancelled, the budget is spent or an
\* error is recorded ("observed BETWEEN nodes"), and an error or a
\* cancellation, once recorded, is not replaced by another.
NothingStartsAfterStop ==
  [][/\ signal \/ expired \/ error # "none" \/ cancelled => ran' = ran
     /\ error # "none" \/ cancelled => UNCHANGED <<error, cancelled, outputs>>]_vars

\* A walk of the whole graph implements DurableRun: the single-process run
\* and the queued one keep the same promise.  A replay, which decides about
\* its target alone, is no such run, and neither is one that resumes.
Whole == given.fenced = {} /\ DOMAIN given.stored = {}

Run == INSTANCE DurableRun WITH
  phase <- [n \in Node |->
              IF ~Whole THEN "pending"
              ELSE IF n \in outputs THEN "completed"
              ELSE IF \E i \in 1..cursor - 1 : order[i] = n THEN "skipped"
              ELSE IF Acyclic /\ cursor <= Len(order) /\ order[cursor] = n
                   THEN IF state = "awaiting" THEN "held"
                        ELSE IF error \in {"unbound", "abort"} THEN "failed"
                        ELSE "pending"
              ELSE "pending"],
  lit <- [n \in Node |-> {p \in Port : Whole /\ <<n, p>> \in lit}]

ImplementsDurableRun == Run!RunSpec

-----------------------------------------------------------------------------
(* Walks of replay_up_to. *)

Over == state = "finished" /\ given.fenced # {}
Target(n) == n \notin given.fenced

\* The walk calls the target exactly when ExecutorRuns says so of the rows,
\* whatever the siblings are in the middle of ("everything downstream of a
\* fenced node is dark in the replay -- which never matters to the target").
VerdictIsTheRows ==
  Over =>
    \A n \in Node : ran[n] = IF Target(n) /\ ExecutorRuns(given.rows, n) THEN 1 ELSE 0

\* Walk and frontier decide alike: what the frontier would skip the walk has
\* passed over, what it would hand out the walk has reached.
WalkAgreesWithFrontier ==
  Over /\ ResultOk =>
    /\ Skips(given.rows) \cap outputs = {}
    /\ Ready(given.rows) \ Lane \subseteq outputs

\* Against a node the frontier skips, the coordinator warns from the rows of
\* the very edges the walk warns of, sources that failed aside.
WarningsAgree ==
  Over /\ ResultOk =>
    \A n \in Skips(given.rows) :
      (\A s \in Sources(n) : given.rows[s].status # "failed") =>
        {e \in warned : e.target = n} = UndeliveredRows(given.rows, Possible, n)

=============================================================================

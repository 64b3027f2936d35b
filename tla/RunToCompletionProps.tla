------------------------ MODULE RunToCompletionProps -------------------------
(***************************************************************************)
(* What the in-process driver must do, through crashes, gates and          *)
(* repeated calls.                                                         *)
(***************************************************************************)
EXTENDS RunToCompletion

\* Up to N nodes are held at once, whatever earlier processes left claimed:
\* with one caller of advance the cap holds of the run.
HeldWithinCap ==
  MaxConcurrent > 0 => Cardinality(Held(rows)) <= MaxConcurrent

\* One call runs a node as often as the policy says, and no later call or
\* process runs it again: a row it left behind is settled, or held under a
\* token no one presents.  Only a gate runs once more, when it is answered.
DriverRetryBudget ==
  \A n \in Node :
    LET tries == IF n \in Unsafe \/ PolicyTries[n] = 0 THEN 1 ELSE PolicyTries[n]
    IN  runs[n] <= tries + (IF n \in answered THEN 1 ELSE 0)

\* "The run cannot progress" is said of a cyclic graph only, if the host sets
\* no limit: the passes allowed by default are enough for every other.
StuckMeansCycle == result = "stuck" => ~Acyclic \/ MaxPasses > 0

\* What a call reports is true of the rows it leaves: ok of a run whose every
\* node settled and none failed, a failure of a failed node, a pause of a
\* parked gate (until it is answered), waiting of a row someone holds.
ReportsTheRows ==
  /\ result = "ok" => \A n \in Node : rows[n].status \in {"completed", "skipped"}
  /\ result = "failed" => \E n \in Node : rows[n].status = "failed"
  /\ pc = "out" /\ result \in {"paused", "waiting"} =>
       HasWorkInFlight(rows) \/ answered # {}

\* The driver's rows implement the run of module DurableRun.
Run == INSTANCE DurableRun WITH
  phase <- [n \in Node |-> IF rows[n].status = "absent" THEN "pending"
                           ELSE IF IsHeld(rows[n]) THEN "held"
                           ELSE rows[n].status],
  lit <- [n \in Node |-> rows[n].ports]

ImplementsDurableRun == Run!RunSpec

-----------------------------------------------------------------------------
\* "It survives a crash exactly as a queued run does" (coordinator.rs): the
\* run settles every node, given a host that calls again and answers.
DriverSettles == <>[]IsComplete(rows)

=============================================================================

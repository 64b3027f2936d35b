---------------------------- MODULE FrontierLoop -----------------------------
(***************************************************************************)
(* The loop of Frontier::compute, one iteration of its inner for per step: *)
(* Visit(i) is the body of the loop for the i-th declared node, EndPass    *)
(* the test of the outer while.                                            *)
(***************************************************************************)
EXTENDS Frontier

CONSTANT RowStates    \* the rows a call may be given

ASSUME LoopAssumption == RowStates \subseteq [Node -> Row]

VARIABLES
  rows,       \* the argument, never written
  skipped,    \* the nodes settled by this call, in order
  ready,      \* the nodes readied by this call, in order
  changed,    \* the flag of the while loop
  at,         \* position of the for loop in the node list
  passes,     \* passes begun
  done

vars == <<rows, skipped, ready, changed, at, passes, done>>

Members(seq) == {seq[i] : i \in DOMAIN seq}

Init ==
  /\ rows \in RowStates
  /\ skipped = <<>>
  /\ ready = <<>>
  /\ changed = FALSE
  /\ at = 1
  /\ passes = 1
  /\ done = FALSE

Decided(n) ==
  \/ rows[n].status # "absent"
  \/ n \in Members(skipped)
  \/ n \in Members(ready)

Blocked(n) == ~ (Sources(n) \subseteq Settled(rows) \cup Members(skipped))

\* continue: settled, held, readied already, or waiting for a source.
Pass(n) ==
  /\ Decided(n) \/ Blocked(n)
  /\ UNCHANGED <<skipped, ready, changed>>

\* Mutants of Skip: the flag is not raised; the newest skip goes first.
MutantSkipQuietly(n) ==
  /\ ~Decided(n) /\ ~Blocked(n)
  /\ ~Lit(rows, n) \/ n \in Note
  /\ skipped' = Append(skipped, n)
  /\ UNCHANGED <<ready, changed>>
MutantSkipFirst(n) ==
  /\ ~Decided(n) /\ ~Blocked(n)
  /\ ~Lit(rows, n) \/ n \in Note
  /\ skipped' = <<n>> \o skipped
  /\ changed' = TRUE
  /\ UNCHANGED ready

Skip(n) ==
  /\ ~Decided(n) /\ ~Blocked(n)
  /\ ~Lit(rows, n) \/ n \in Note
  /\ skipped' = Append(skipped, n)
  /\ changed' = TRUE
  /\ UNCHANGED ready

MakeReady(n) ==
  /\ ~Decided(n) /\ ~Blocked(n)
  /\ Lit(rows, n) /\ n \notin Note
  /\ ready' = Append(ready, n)
  /\ UNCHANGED <<skipped, changed>>

Visit ==
  /\ ~done /\ at \in DOMAIN NodeList
  /\ LET n == NodeList[at] IN Pass(n) \/ Skip(n) \/ MakeReady(n)
  /\ at' = at + 1
  /\ UNCHANGED <<rows, passes, done>>

\* Mutant of EndPass: the loop goes round again when nothing changed.
MutantEndNever ==
  /\ ~done /\ at > Len(NodeList)
  /\ at' = 1
  /\ changed' = FALSE
  /\ UNCHANGED <<rows, skipped, ready, passes, done>>

EndPass ==
  /\ ~done /\ at > Len(NodeList)
  /\ IF changed
     THEN at' = 1 /\ passes' = passes + 1 /\ UNCHANGED done
     ELSE done' = TRUE /\ UNCHANGED <<at, passes>>
  /\ changed' = FALSE
  /\ UNCHANGED <<rows, skipped, ready>>

Next == Visit \/ EndPass

Spec == Init /\ [][Next]_vars

FairSpec == Spec /\ WF_vars(Next)

=============================================================================

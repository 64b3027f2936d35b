-------------------------- MODULE FrontierLoopProps --------------------------
(***************************************************************************)
(* What Frontier::compute promises of its result.                          *)
(***************************************************************************)
EXTENDS FrontierLoop

\* The variables of the loop have their types: the two results are lists of
\* node ids, the cursor stays within one past the node list.
LoopTypeOK ==
  /\ rows \in [Node -> Row]
  /\ skipped \in Seq(Node)
  /\ ready \in Seq(Node)
  /\ changed \in BOOLEAN
  /\ at \in 1..Len(NodeList) + 1
  /\ passes \in Nat \ {0}
  /\ done \in BOOLEAN

\* Whatever the order of the node list, the loop of Frontier::compute stops
\* at the least fixpoint of the skip rule and at the nodes ready under it:
\* no dead branch is left standing and no node is readied too early.
ComputesFixpoint ==
  done => /\ Members(skipped) = Skips(rows)
          /\ Members(ready) = Ready(rows)

\* The loop never judges a node before its sources have: a node it has
\* readied stays unblocked and lit and is never also skipped, however many
\* later nodes the same call goes on to skip.
ReadyStaysReady ==
  \A n \in Members(ready) :
    /\ n \notin Members(skipped)
    /\ Unblocked(rows, Members(skipped), n)
    /\ Lit(rows, n)

\* The order of both results is the cascade order of PassOf: declaration
\* order within a pass, later passes after earlier ones (FrontierResult's
\* comment and the one above the return of compute).
CascadeOrder ==
  done =>
    LET skipRank  == Ranking(rows, Skips(rows))
        readyRank == Ranking(rows, Ready(rows))
    IN  /\ \A i \in DOMAIN skipped : skipRank[skipped[i]] = i - 1
        /\ \A i \in DOMAIN ready : readyRank[ready[i]] = i - 1

\* "At most nodes + 1 passes" (the comment on compute).
PassBound == passes <= Cardinality(Node) + 1

\* The while loop ends, on any graph, a cyclic one included.
Terminates == <>done

=============================================================================

--------------------------- MODULE TopoSortProps -----------------------------
(***************************************************************************)
(* What the walk may assume of topo_sort's result.                         *)
(***************************************************************************)
EXTENDS TopoSort

Ids == {doc.ids[i] : i \in Places}

\* Each node of S has a source in S, or one that no node is.
Stuck(S) ==
  \A id \in S : \E k \in DOMAIN doc.edges :
    /\ doc.edges[k].target = id
    /\ doc.edges[k].source \in S \/ doc.edges[k].source \notin Ids

\* topo_sort returns an order exactly when the ids are unique and no set of
\* nodes waits on itself or on an id that is not there: no graph that can
\* run is refused as a cycle, and none that cannot is walked.
OrdersExactlyTheRunnable ==
  result # "sorting" =>
    (result = "order") = (UniqueIds /\ \A S \in (SUBSET Ids) \ {{}} : ~Stuck(S))

\* In the order it returns, every node comes after all its sources: "in
\* topological order every upstream node is already settled" (next_step).
SourcesComeFirst ==
  result = "order" =>
    \A k \in DOMAIN doc.edges, i, j \in DOMAIN ordered :
      /\ doc.ids[ordered[i]] = doc.edges[k].source
      /\ doc.ids[ordered[j]] = doc.edges[k].target
      => i < j

\* Places that have all been queued, each a target of one of them: as every
\* count on the way is down to zero, each queues the next for ever.
RoundACycle ==
  \E S \in (SUBSET Places) \ {{}} :
    \A t \in S :
      /\ t \in {ordered[i] : i \in DOMAIN ordered} \cup {waiting[i] : i \in DOMAIN waiting}
      /\ \E s \in S, k \in DOMAIN doc.edges :
           doc.edges[k].source = doc.ids[s] /\ IndexOf(doc.edges[k].target) = t

\* A document whose ids are unique is sorted or refused.  One that repeats an
\* id is refused too ("would also fail this check"), unless the repeated id
\* lets the queue come round a cycle: then topo_sort never reaches the check
\* and never returns.
SortEnds ==
  /\ UniqueIds => <>(result # "sorting")
  /\ <>(result # "sorting" \/ RoundACycle)
  /\ [](RoundACycle => result = "sorting")

=============================================================================

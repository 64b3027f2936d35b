------------------------------ MODULE TopoSort -------------------------------
(***************************************************************************)
(* topo_sort: Kahn's algorithm over a document as it was written.  Nodes   *)
(* are positions in the document; two may carry one id, and an edge may    *)
(* name an id no node has.  One step per edge looked at.                   *)
(*                                                                         *)
(* The code's queue is kept in two parts: ordered, what has been taken     *)
(* from it, and waiting, the rest.  Of ordered only the length is read, to *)
(* be compared with the number of nodes, so it is kept to one entry more.  *)
(***************************************************************************)
EXTENDS Naturals, Sequences, FiniteSets

CONSTANTS
  Id,          \* the node ids
  Documents,   \* the graphs handed to the sort
  MaxWaiting   \* bound: the queue grows no longer than this

ASSUME DocumentsAssumption ==
  Documents \subseteq [ids : Seq(Id), edges : Seq([source : Id, target : Id])]

\* The queue of a document whose ids are unique never reaches the bound; one
\* that repeats an id on a cycle may fill any queue there is.
ASSUME MaxWaitingAssumption == \A d \in Documents : Len(d.ids) < MaxWaiting

VARIABLES
  doc,        \* the document, never written
  degree,     \* in_degree, by position
  waiting,    \* the queue from the node being relaxed on
  ordered,    \* the nodes taken before it
  edge,       \* the edge being looked at
  result      \* "sorting", then "order" or "cycle"

vars == <<doc, degree, waiting, ordered, edge, result>>

Places == DOMAIN doc.ids

\* index_of: the last position that carries the id, 0 when none does.
IndexOf(id) ==
  LET carrying == {i \in Places : doc.ids[i] = id}
  IN  IF carrying = {} THEN 0 ELSE CHOOSE i \in carrying : \A j \in carrying : j <= i

InDegree(i) == Cardinality({k \in DOMAIN doc.edges : IndexOf(doc.edges[k].target) = i})

\* The places of S as the filter over the nodes yields them.
InDocumentOrder(S) ==
  [r \in 1..Cardinality(S) |-> CHOOSE i \in S : Cardinality({j \in S : j < i}) = r - 1]

Init ==
  /\ doc \in Documents
  /\ degree = [i \in Places |-> InDegree(i)]
  /\ waiting = InDocumentOrder({i \in Places : InDegree(i) = 0})
  /\ ordered = <<>>
  /\ edge = 1
  /\ result = "sorting"

Looking == result = "sorting" /\ waiting # <<>> /\ edge <= Len(doc.edges)

\* An edge of another node, or one whose target no node is.
PassEdge ==
  /\ Looking
  /\ \/ doc.edges[edge].source # doc.ids[Head(waiting)]
     \/ IndexOf(doc.edges[edge].target) = 0
  /\ edge' = edge + 1
  /\ UNCHANGED <<doc, degree, waiting, ordered, result>>

\* in_degree[target].saturating_sub(1)
Lowered(t) == IF degree[t] = 0 THEN 0 ELSE degree[t] - 1

\* Mutant of IsFree: off by one.
MutantIsFree(left) == left = 1

IsFree(left) == left = 0

\* The target waits for one source fewer, and is queued when for none.
RelaxEdge ==
  /\ Looking
  /\ doc.edges[edge].source = doc.ids[Head(waiting)]
  /\ LET t == IndexOf(doc.edges[edge].target)
     IN  /\ t # 0
         /\ IsFree(Lowered(t)) => Len(waiting) < MaxWaiting
         /\ degree' = [degree EXCEPT ![t] = Lowered(t)]
         /\ waiting' = IF IsFree(Lowered(t)) THEN Append(waiting, t) ELSE waiting
  /\ edge' = edge + 1
  /\ UNCHANGED <<doc, ordered, result>>

\* Mutants of NextNode: the search for edges does not start over; the queue's
\* position stays.
MutantNextNode ==
  /\ result = "sorting" /\ waiting # <<>> /\ edge > Len(doc.edges)
  /\ ordered' = Append(ordered, Head(waiting))
  /\ waiting' = Tail(waiting)
  /\ UNCHANGED <<doc, degree, edge, result>>
MutantStays ==
  /\ result = "sorting" /\ waiting # <<>> /\ edge > Len(doc.edges)
  /\ ordered' = IF Len(ordered) > Len(doc.ids) THEN ordered
                ELSE Append(ordered, Head(waiting))
  /\ edge' = 1
  /\ UNCHANGED <<doc, degree, waiting, result>>

NextNode ==
  /\ result = "sorting" /\ waiting # <<>> /\ edge > Len(doc.edges)
  /\ ordered' = IF Len(ordered) > Len(doc.ids) THEN ordered
                ELSE Append(ordered, Head(waiting))
  /\ waiting' = Tail(waiting)
  /\ edge' = 1
  /\ UNCHANGED <<doc, degree, result>>

UniqueIds == \A i, j \in Places : doc.ids[i] = doc.ids[j] => i = j

Finish ==
  /\ result = "sorting" /\ waiting = <<>>
  /\ result' = IF Len(ordered) = Len(doc.ids) /\ UniqueIds THEN "order" ELSE "cycle"
  /\ UNCHANGED <<doc, degree, waiting, ordered, edge>>

Next == PassEdge \/ RelaxEdge \/ NextNode \/ Finish

Spec == Init /\ [][Next]_vars

FairSpec == Spec /\ WF_vars(Next)

=============================================================================

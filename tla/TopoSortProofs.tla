---------------------------- MODULE TopoSortProofs ----------------------------
(***************************************************************************)
(* topo_sort returns an order exactly of the documents that can run, and   *)
(* sources first, for every document.  in_degree counts the edges of a     *)
(* node that have not been relaxed; a node is queued when it has none      *)
(* left, which is when all its sources have been taken from the queue, or  *)
(* are being relaxed.  All of this holds of documents without a repeated   *)
(* id; the others are refused at the end whatever the counts have become.  *)
(***************************************************************************)
EXTENDS TopoSortProps, FiniteSetTheorems, WellFoundedInduction, TLAPS

Into(t) == {k \in DOMAIN doc.edges : IndexOf(doc.edges[k].target) = t}

Taken(id) == \E i \in DOMAIN ordered : doc.ids[ordered[i]] = id

AtHead(id) == waiting # <<>> /\ doc.ids[waiting[1]] = id

Relaxed(k) ==
  \/ Taken(doc.edges[k].source)
  \/ AtHead(doc.edges[k].source) /\ k < edge

Left(t) == {k \in Into(t) : ~Relaxed(k)}

Queued(t) ==
  \/ \E i \in DOMAIN ordered : ordered[i] = t
  \/ \E i \in DOMAIN waiting : waiting[i] = t

\* The queue holds places, each once.
QueueInv ==
  /\ ordered \in Seq(Places) /\ waiting \in Seq(Places)
  /\ edge \in 1..Len(doc.edges) + 1
  /\ \A i, j \in DOMAIN ordered : ordered[i] = ordered[j] => i = j
  /\ \A i, j \in DOMAIN waiting : waiting[i] = waiting[j] => i = j
  /\ \A i \in DOMAIN ordered, j \in DOMAIN waiting : ordered[i] # waiting[j]

\* A node's count is that of its edges left, and it is queued when none are.
DegreeInv ==
  /\ degree \in [Places -> Nat]
  /\ \A t \in Places : degree[t] = Cardinality(Left(t))
  /\ \A t \in Places : degree[t] = 0 <=> Queued(t)

\* The sources of a node in the queue come before it.
SourceInv ==
  /\ \A j \in DOMAIN ordered : \A k \in Into(ordered[j]) :
       \E i \in DOMAIN ordered : i < j /\ doc.ids[ordered[i]] = doc.edges[k].source
  /\ \A j \in DOMAIN waiting : \A k \in Into(waiting[j]) :
       \/ Taken(doc.edges[k].source)
       \/ j > 1 /\ AtHead(doc.edges[k].source)

ResultInv ==
  /\ result \in {"sorting", "order", "cycle"}
  /\ result # "sorting" =>
       /\ waiting = <<>>
       /\ result = "order" <=> Len(ordered) = Len(doc.ids) /\ UniqueIds

SortInv ==
  /\ doc \in Documents
  /\ ResultInv
  /\ UniqueIds => QueueInv /\ DegreeInv /\ SourceInv

-----------------------------------------------------------------------------
(* Naturals. *)

LEMMA LessWellFounded ==
  IsWellFoundedOn({pair \in Nat \X Nat : pair[1] < pair[2]}, Nat)
BY NatLessThanWellFounded DEF OpToRel

\* A non-empty set of naturals has a least element.
LEMMA LeastNatural ==
  ASSUME NEW T \in SUBSET Nat, T # {}
  PROVE  \E x \in T : \A y \in T : x <= y
<1> DEFINE Less == {pair \in Nat \X Nat : pair[1] < pair[2]}
<1>1. \A x, y \in Nat : y < x => <<y, x>> \in Less
  OBVIOUS
<1>2. IsWellFoundedOn(Less, Nat)
  BY LessWellFounded
<1>3. PICK x \in T : \A y \in T : ~(<<y, x>> \in Less)
  <2> HIDE DEF Less
  <2> QED BY <1>2, WFMin
<1>4. \A y \in T : ~(y < x)
  BY <1>1, <1>3
<1> QED BY <1>4

LEMMA Upto ==
  ASSUME NEW n \in Nat
  PROVE  IsFiniteSet(1..n) /\ Cardinality(1..n) = n
<1>1. IsFiniteSet(1..n) /\ Cardinality(1..n) = IF 1 > n THEN 0 ELSE n - 1 + 1
  BY FS_Interval
<1> QED BY <1>1

\* A finite set of naturals, in order: each of them once.
LEMMA InOrderLists ==
  ASSUME NEW n \in Nat, NEW S \in SUBSET (1..n)
  PROVE  /\ InDocumentOrder(S) \in Seq(S)
         /\ \A t \in S : \E r \in DOMAIN InDocumentOrder(S) : InDocumentOrder(S)[r] = t
         /\ \A q, r \in DOMAIN InDocumentOrder(S) :
              InDocumentOrder(S)[q] = InDocumentOrder(S)[r] => q = r
<1> DEFINE Below(i) == {j \in S : j < i}
           c == Cardinality(S)
           f == [i \in S |-> Cardinality(Below(i)) + 1]
<1>1. IsFiniteSet(S) /\ c \in Nat
  BY Upto, FS_Subset, FS_CardinalityType
<1>2. \A i \in S : /\ IsFiniteSet(Below(i)) /\ Cardinality(Below(i)) \in Nat
                   /\ Cardinality(Below(i)) < c
  <2> TAKE i \in S
  <2>1. Below(i) \in SUBSET (S \ {i})
    OBVIOUS
  <2>2. IsFiniteSet(S \ {i}) /\ Cardinality(S \ {i}) = c - 1
    BY <1>1, FS_RemoveElement
  <2> HIDE DEF Below
  <2>3. /\ IsFiniteSet(Below(i)) /\ Cardinality(Below(i)) \in Nat
        /\ Cardinality(Below(i)) <= Cardinality(S \ {i})
    BY <2>1, <2>2, FS_Subset, FS_CardinalityType
  <2> QED BY <1>1, <2>2, <2>3
<1>3. \A i, j \in S : i < j => Cardinality(Below(i)) < Cardinality(Below(j))
  <2> SUFFICES ASSUME NEW i \in S, NEW j \in S, i < j
               PROVE  Cardinality(Below(i)) < Cardinality(Below(j))
    OBVIOUS
  <2>0. \A x \in S : x \in Nat
    OBVIOUS
  <2>1. Below(i) \cup {i} \in SUBSET Below(j) /\ i \notin Below(i)
    <3>1. ~(i < i) /\ \A x \in S : x < i => x < j
      BY <2>0
    <3> QED BY <3>1
  <2> HIDE DEF Below
  <2>2. Cardinality(Below(i) \cup {i}) = Cardinality(Below(i)) + 1
    BY <1>2, <2>1, FS_AddElement
  <2>3. Cardinality(Below(i) \cup {i}) <= Cardinality(Below(j))
    BY <1>2, <2>1, FS_Subset
  <2> QED BY <1>2, <2>2, <2>3
<1>4. f \in Injection(S, 1..c)
  <2>1. \A i \in S : f[i] \in 1..c
    <3> HIDE DEF Below, c
    <3> QED BY <1>1, <1>2
  <2>2. \A i, j \in S : i = j \/ i < j \/ j < i
    OBVIOUS
  <2>3. \A i, j \in S : f[i] = f[j] => i = j
    <3> HIDE DEF Below
    <3> QED BY <1>2, <1>3, <2>2
  <2>4. f \in [S -> 1..c]
    BY <2>1
  <2> HIDE DEF f, c
  <2> QED BY <2>3, <2>4 DEF Injection, IsInjective
<1>5. f \in Surjection(S, 1..c)
  <2> HIDE DEF f, c
  <2>1. IsFiniteSet(1..c) /\ Cardinality(1..c) = c
    BY <1>1, Upto
  <2> QED BY <1>4, <2>1, FS_Injection DEF c
<1>6. \A r \in 1..c : \E i \in S : Cardinality(Below(i)) = r - 1
  <2> TAKE r \in 1..c
  <2>1. PICK i \in S : f[i] = r
    <3> HIDE DEF f, c
    <3> QED BY <1>5 DEF Surjection
  <2> HIDE DEF Below
  <2> QED BY <1>2, <2>1
<1> DEFINE q == InDocumentOrder(S)
<1>7. /\ DOMAIN q = 1..c
      /\ \A r \in 1..c : q[r] \in S /\ Cardinality(Below(q[r])) = r - 1
  <2>1. q = [r \in 1..c |-> CHOOSE i \in S : Cardinality(Below(i)) = r - 1]
    BY DEF InDocumentOrder
  <2> HIDE DEF q, Below, c
  <2> QED BY <1>6, <2>1
<1>8. q \in Seq(S)
  <2> DEFINE pick(r) == CHOOSE i \in S : Cardinality(Below(i)) = r - 1
  <2>0. q = [r \in 1..c |-> pick(r)]
    BY DEF InDocumentOrder
  <2> HIDE DEF q, c, pick
  <2>1. q = [r \in 1..c |-> q[r]]
    BY <2>0
  <2>2. q \in [1..c -> S]
    BY <1>7, <2>1
  <2> QED BY <1>1, <2>2
<1>9. \A t \in S : \E r \in DOMAIN q : q[r] = t
  <2> TAKE t \in S
  <2>1. Cardinality(Below(t)) + 1 \in 1..c
    <3> HIDE DEF Below, c
    <3> QED BY <1>1, <1>2
  <2>2. Cardinality(Below(q[Cardinality(Below(t)) + 1])) = Cardinality(Below(t))
    <3> HIDE DEF Below, q, c
    <3> QED BY <1>2, <1>7, <2>1
  <2>3. \A i, j \in S : i = j \/ i < j \/ j < i
    OBVIOUS
  <2> HIDE DEF Below, q, c
  <2>5. ASSUME NEW x \in S, Cardinality(Below(x)) = Cardinality(Below(t)) PROVE x = t
    <3>1. ~(x < t) /\ ~(t < x)
      BY <1>2, <1>3, <2>5
    <3> QED BY <2>3, <3>1
  <2>4. q[Cardinality(Below(t)) + 1] = t
    BY <1>7, <2>1, <2>2, <2>5
  <2> QED BY <1>7, <2>1, <2>4
<1>10. \A j, r \in DOMAIN q : q[j] = q[r] => j = r
  <2> SUFFICES ASSUME NEW j \in 1..c, NEW r \in 1..c, q[j] = q[r] PROVE j = r
    <3> HIDE DEF q, c
    <3> QED BY <1>7
  <2>1. j - 1 = r - 1
    <3> HIDE DEF q, c, Below
    <3> QED BY <1>7
  <2> QED BY <2>1
<1> QED BY <1>8, <1>9, <1>10

-----------------------------------------------------------------------------
(* The document. *)

LEMMA DocumentTypes ==
  ASSUME doc \in Documents
  PROVE  /\ doc.ids \in Seq(Id) /\ Len(doc.ids) \in Nat /\ Places = 1..Len(doc.ids)
         /\ doc.edges \in Seq([source : Id, target : Id]) /\ Len(doc.edges) \in Nat
         /\ DOMAIN doc.edges = 1..Len(doc.edges)
<1>1. doc.ids \in Seq(Id) /\ doc.edges \in Seq([source : Id, target : Id])
  BY DocumentsAssumption DEF DocumentsAssumption
<1> QED BY <1>1 DEF Places

\* With unique ids, index_of leads each id back to the place that carries it.
LEMMA IndexOfUnique ==
  ASSUME doc \in Documents, UniqueIds
  PROVE  /\ \A t \in Places : IndexOf(doc.ids[t]) = t
         /\ \A id : IndexOf(id) # 0 => IndexOf(id) \in Places /\ doc.ids[IndexOf(id)] = id
         /\ \A t \in Places : t # 0
<1>1. \A t \in Places : t \in Nat /\ t # 0 /\ t <= t
  BY DocumentTypes
<1>2. ASSUME NEW id, NEW t \in Places, doc.ids[t] = id
      PROVE  IndexOf(id) = t
  <2>1. {i \in Places : doc.ids[i] = id} = {t}
    BY <1>2 DEF UniqueIds
  <2>2. (CHOOSE i \in {t} : \A j \in {t} : j <= i) = t
    BY <1>1
  <2> QED BY <2>1, <2>2 DEF IndexOf
<1>3. ASSUME NEW id, IndexOf(id) # 0
      PROVE  IndexOf(id) \in Places /\ doc.ids[IndexOf(id)] = id
  <2>1. PICK t \in Places : doc.ids[t] = id
    BY <1>3 DEF IndexOf
  <2> QED BY <1>2, <2>1
<1> QED BY <1>1, <1>2, <1>3

LEMMA LeftFinite ==
  ASSUME doc \in Documents, NEW t
  PROVE  /\ IsFiniteSet(Left(t)) /\ Cardinality(Left(t)) \in Nat
         /\ Cardinality(Left(t)) = 0 <=> Left(t) = {}
<1>1. Left(t) \in SUBSET (1..Len(doc.edges)) /\ Len(doc.edges) \in Nat
  BY DocumentTypes DEF Left, Into
<1>2. IsFiniteSet(Left(t))
  BY <1>1, Upto, FS_Subset
<1> QED BY <1>2, FS_CardinalityType, FS_EmptySet

-----------------------------------------------------------------------------
(* SortInv is an invariant. *)

LEMMA InitSorts == Init => SortInv
<1> SUFFICES ASSUME Init PROVE SortInv
  OBVIOUS
<1>1. doc \in Documents /\ ResultInv
  BY DEF Init, ResultInv
<1> DEFINE F == {i \in Places : InDegree(i) = 0}
<1>2. F \in SUBSET (1..Len(doc.ids)) /\ Len(doc.ids) \in Nat
  BY <1>1, DocumentTypes
<1>3. /\ waiting \in Seq(F)
      /\ \A t \in F : \E i \in DOMAIN waiting : waiting[i] = t
      /\ \A i, j \in DOMAIN waiting : waiting[i] = waiting[j] => i = j
  <2>1. waiting = InDocumentOrder(F)
    BY DEF Init
  <2> HIDE DEF F
  <2> QED BY <1>2, <2>1, InOrderLists
<1>4. ordered = <<>> /\ edge = 1 /\ degree = [i \in Places |-> InDegree(i)]
  BY DEF Init
<1>5. QueueInv
  <2>1. Len(doc.edges) \in Nat
    BY <1>1, DocumentTypes
  <2>2. waiting \in Seq(Places)
    BY <1>3
  <2>3. edge \in 1..Len(doc.edges) + 1
    BY <1>4, <2>1
  <2> QED BY <1>3, <1>4, <2>2, <2>3 DEF QueueInv
<1>6. \A t : Left(t) = Into(t)
  <2>1. \A k \in DOMAIN doc.edges : ~Relaxed(k)
    BY <1>1, <1>4, DocumentTypes DEF Relaxed, Taken
  <2> QED BY <2>1 DEF Left, Into
<1>7. \A t : InDegree(t) = Cardinality(Left(t))
  BY <1>6 DEF InDegree, Into
<1>8. \A t \in Places : InDegree(t) = 0 <=> Queued(t)
  <2>1. \A i \in DOMAIN waiting : waiting[i] \in F
    BY <1>3
  <2> QED BY <1>3, <1>4, <2>1 DEF Queued
<1>9. DegreeInv
  <2>1. \A t \in Places : degree[t] = InDegree(t)
    BY <1>4
  <2>2. \A t \in Places : InDegree(t) \in Nat
    BY <1>1, <1>7, LeftFinite
  <2>3. degree \in [Places -> Nat]
    BY <1>4, <2>2
  <2> QED BY <1>7, <1>8, <2>1, <2>3 DEF DegreeInv
<1>10. SourceInv
  <2>1. \A j \in DOMAIN waiting : Into(waiting[j]) = {}
    <3> TAKE j \in DOMAIN waiting
    <3>1. waiting[j] \in F
      BY <1>3
    <3>2. Cardinality(Left(waiting[j])) = 0
      BY <1>7, <3>1
    <3> QED BY <1>1, <1>6, <3>2, LeftFinite
  <2> QED BY <1>4, <2>1 DEF SourceInv
<1> QED BY <1>1, <1>5, <1>9, <1>10 DEF SortInv

\* The node being relaxed has not been taken, and nothing waits behind itself.
LEMMA HeadFacts ==
  ASSUME SortInv, UniqueIds, waiting # <<>>
  PROVE  /\ waiting[1] = Head(waiting) /\ waiting[1] \in Places /\ 1 \in DOMAIN waiting
         /\ ~Taken(doc.ids[waiting[1]])
         /\ \A k \in Into(waiting[1]) : Taken(doc.edges[k].source)
         /\ degree[waiting[1]] = 0
<1>1. QueueInv /\ DegreeInv /\ SourceInv /\ doc \in Documents
  BY DEF SortInv
<1>2. waiting[1] = Head(waiting) /\ waiting[1] \in Places /\ 1 \in DOMAIN waiting
  BY <1>1 DEF QueueInv
<1>3. ~Taken(doc.ids[waiting[1]])
  <2> SUFFICES ASSUME NEW i \in DOMAIN ordered, doc.ids[ordered[i]] = doc.ids[waiting[1]]
               PROVE  FALSE
    BY DEF Taken
  <2>1. ordered[i] \in Places
    BY <1>1 DEF QueueInv
  <2>2. ordered[i] = waiting[1]
    BY <1>2, <2>1 DEF UniqueIds
  <2> QED BY <1>1, <1>2, <2>2 DEF QueueInv
<1>4. \A k \in Into(waiting[1]) : Taken(doc.edges[k].source)
  BY <1>1, <1>2 DEF SourceInv
<1> QED BY <1>1, <1>2, <1>3, <1>4 DEF DegreeInv, Queued

LEMMA PassEdgeSorts == SortInv /\ PassEdge => SortInv'
<1> SUFFICES ASSUME SortInv, PassEdge PROVE SortInv'
  OBVIOUS
<1>1. /\ doc' = doc /\ degree' = degree /\ waiting' = waiting /\ ordered' = ordered
      /\ result' = result /\ edge' = edge + 1 /\ result = "sorting" /\ waiting # <<>>
      /\ edge <= Len(doc.edges)
      /\ \/ doc.edges[edge].source # doc.ids[Head(waiting)]
         \/ IndexOf(doc.edges[edge].target) = 0
  BY DEF PassEdge, Looking
<1>2. doc' \in Documents /\ ResultInv'
  BY <1>1 DEF SortInv, ResultInv, UniqueIds, Places
<1>3. ASSUME UniqueIds PROVE QueueInv' /\ DegreeInv' /\ SourceInv'
  <2>1. QueueInv /\ DegreeInv /\ SourceInv /\ doc \in Documents
    BY <1>3 DEF SortInv
  <2>2. Len(doc.edges) \in Nat /\ edge \in Nat
    BY <2>1, DocumentTypes DEF QueueInv
  <2>3. QueueInv'
    <3>1. edge + 1 \in 1..Len(doc.edges) + 1
      BY <1>1, <2>2
    <3> QED BY <1>1, <2>1, <3>1 DEF QueueInv, Places
  <2>4. \A id : Taken(id)' <=> Taken(id)
    BY <1>1 DEF Taken
  <2>5. \A id : AtHead(id)' <=> AtHead(id)
    BY <1>1 DEF AtHead
  <2>6. \A t : Into(t)' = Into(t)
    BY <1>1 DEF Into, IndexOf, Places
  <2>7. waiting[1] = Head(waiting)
    BY <2>1, <1>1 DEF QueueInv
  <2>8. \A t \in Places : \A k \in Into(t) : Relaxed(k)' <=> Relaxed(k)
    <3> SUFFICES ASSUME NEW t \in Places, NEW k \in Into(t) PROVE Relaxed(k)' <=> Relaxed(k)
      OBVIOUS
    <3>1. k \in Nat /\ t # 0
      BY <2>1, <1>3, DocumentTypes, IndexOfUnique DEF Into
    <3>2. AtHead(doc.edges[k].source) => k # edge
      BY <1>1, <2>7, <3>1 DEF AtHead, Into
    <3>3. k # edge => (k < edge + 1 <=> k < edge)
      BY <2>2, <3>1
    <3>4. Relaxed(k)' <=> Taken(doc.edges[k].source) \/ (AtHead(doc.edges[k].source) /\ k < edge + 1)
      BY <1>1, <2>4, <2>5 DEF Relaxed
    <3> QED BY <3>2, <3>3, <3>4 DEF Relaxed
  <2>9. \A t \in Places : Left(t)' = Left(t)
    BY <2>6, <2>8 DEF Left
  <2>10. DegreeInv'
    BY <1>1, <2>1, <2>9 DEF DegreeInv, Queued, Places
  <2>11. SourceInv'
    BY <1>1, <2>1, <2>4, <2>5, <2>6 DEF SourceInv
  <2> QED BY <2>3, <2>10, <2>11
<1> QED BY <1>1, <1>2, <1>3 DEF SortInv, UniqueIds, Places

LEMMA FinishSorts == SortInv /\ Finish => SortInv'
<1> SUFFICES ASSUME SortInv, Finish PROVE SortInv'
  OBVIOUS
<1>1. /\ doc' = doc /\ degree' = degree /\ waiting' = waiting /\ ordered' = ordered
      /\ edge' = edge /\ waiting = <<>>
      /\ result' = IF Len(ordered) = Len(doc.ids) /\ UniqueIds THEN "order" ELSE "cycle"
  BY DEF Finish
<1>2. UniqueIds' <=> UniqueIds
  BY <1>1 DEF UniqueIds, Places
<1>3. ResultInv'
  BY <1>1, <1>2 DEF ResultInv
<1>4. QueueInv => QueueInv'
  BY <1>1 DEF QueueInv, Places
<1>5. DegreeInv => DegreeInv'
  BY <1>1 DEF DegreeInv, Queued, Left, Into, Relaxed, Taken, AtHead, IndexOf, Places
<1>6. SourceInv => SourceInv'
  BY <1>1 DEF SourceInv, Into, Taken, AtHead, IndexOf, Places
<1> QED BY <1>1, <1>2, <1>3, <1>4, <1>5, <1>6 DEF SortInv

LEMMA RelaxEdgeSorts == SortInv /\ RelaxEdge => SortInv'
<1> SUFFICES ASSUME SortInv, RelaxEdge PROVE SortInv'
  OBVIOUS
<1> DEFINE t0 == IndexOf(doc.edges[edge].target)
<1>1. /\ doc' = doc /\ ordered' = ordered /\ result' = result /\ edge' = edge + 1
      /\ result = "sorting" /\ waiting # <<>> /\ edge <= Len(doc.edges)
      /\ doc.edges[edge].source = doc.ids[Head(waiting)] /\ t0 # 0
      /\ degree' = [degree EXCEPT ![t0] = Lowered(t0)]
      /\ waiting' = IF Lowered(t0) = 0 THEN Append(waiting, t0) ELSE waiting
  BY DEF RelaxEdge, Looking, IsFree
<1>2. doc' \in Documents /\ ResultInv'
  BY <1>1 DEF SortInv, ResultInv
<1>3. ASSUME UniqueIds PROVE QueueInv' /\ DegreeInv' /\ SourceInv'
  <2>1. QueueInv /\ DegreeInv /\ SourceInv /\ doc \in Documents
    BY <1>3 DEF SortInv
  <2>2. /\ Len(doc.edges) \in Nat /\ edge \in Nat /\ edge \in DOMAIN doc.edges
        /\ DOMAIN doc.edges \subseteq Nat
    BY <1>1, <2>1, DocumentTypes DEF QueueInv
  <2>3. t0 \in Places /\ edge \in Into(t0)
    BY <1>1, <1>3, <2>1, <2>2, IndexOfUnique DEF Into
  <2>4. /\ waiting[1] = Head(waiting) /\ 1 \in DOMAIN waiting /\ waiting[1] \in Places
        /\ ~Taken(doc.edges[edge].source) /\ AtHead(doc.edges[edge].source)
    BY <1>1, <1>3, HeadFacts DEF AtHead
  <2>5. edge \in Left(t0)
    BY <2>2, <2>3, <2>4 DEF Left, Relaxed
  <2>6. /\ degree[t0] \in Nat /\ degree[t0] = Cardinality(Left(t0)) /\ degree[t0] # 0
        /\ ~Queued(t0) /\ Lowered(t0) = degree[t0] - 1
    BY <2>1, <2>3, <2>5, LeftFinite DEF DegreeInv, Lowered
  <2> HIDE DEF t0
  <2>7. /\ waiting' \in Seq(Places) /\ waiting' # <<>> /\ waiting'[1] = waiting[1]
        /\ \A j \in DOMAIN waiting : j \in DOMAIN waiting' /\ waiting'[j] = waiting[j]
        /\ \A j \in DOMAIN waiting' :
             j \in DOMAIN waiting \/ (Lowered(t0) = 0 /\ waiting'[j] = t0 /\ j > 1 /\ j = Len(waiting) + 1)
        /\ Lowered(t0) = 0 => \E j \in DOMAIN waiting' : waiting'[j] = t0
    <3>1. waiting \in Seq(Places)
      BY <2>1 DEF QueueInv
    <3>2. CASE Lowered(t0) = 0
      <4>1. waiting' = Append(waiting, t0)
        BY <1>1, <3>2
      <4>2. /\ DOMAIN waiting' = 1..(Len(waiting) + 1) /\ DOMAIN waiting = 1..Len(waiting)
            /\ Len(waiting) \in Nat /\ waiting' \in Seq(Places)
            /\ \A j \in 1..Len(waiting) : waiting'[j] = waiting[j]
            /\ waiting'[Len(waiting) + 1] = t0
        BY <2>3, <3>1, <4>1
      <4>3. \A j \in DOMAIN waiting' : j \in DOMAIN waiting \/ (j = Len(waiting) + 1 /\ j > 1)
        BY <2>4, <4>2
      <4>4. Len(waiting) + 1 \in DOMAIN waiting' /\ DOMAIN waiting \subseteq DOMAIN waiting'
        BY <4>2
      <4> QED BY <2>4, <3>2, <4>2, <4>3, <4>4
    <3>3. CASE Lowered(t0) # 0
      BY <1>1, <3>1, <3>3
    <3> QED BY <3>2, <3>3
  <2>8. \A i \in DOMAIN ordered : ordered[i] # t0
    BY <2>6 DEF Queued
  <2>9. \A i \in DOMAIN waiting : waiting[i] # t0
    BY <2>6 DEF Queued
  <2>10. QueueInv'
    <3>1. edge + 1 \in 1..Len(doc.edges) + 1
      BY <1>1, <2>2
    <3>2. \A i, j \in DOMAIN waiting' : waiting'[i] = waiting'[j] => i = j
      BY <2>1, <2>7, <2>9 DEF QueueInv
    <3>3. \A i \in DOMAIN ordered, j \in DOMAIN waiting' : ordered[i] # waiting'[j]
      BY <2>1, <2>7, <2>8 DEF QueueInv
    <3>4. Places' = Places
      BY <1>1 DEF Places
    <3> QED BY <1>1, <2>1, <2>7, <3>1, <3>2, <3>3, <3>4 DEF QueueInv
  <2>11. \A id : Taken(id)' <=> Taken(id)
    BY <1>1 DEF Taken
  <2>12. \A id : AtHead(id)' <=> AtHead(id)
    BY <1>1, <2>7 DEF AtHead
  <2>13. \A t : Into(t)' = Into(t)
    BY <1>1 DEF Into, IndexOf, Places
  <2>14. \A k \in DOMAIN doc.edges : Relaxed(k)' <=> Relaxed(k) \/ k = edge
    <3> SUFFICES ASSUME NEW k \in DOMAIN doc.edges PROVE Relaxed(k)' <=> Relaxed(k) \/ k = edge
      OBVIOUS
    <3>1. k < edge + 1 <=> k < edge \/ k = edge
      BY <2>2
    <3>2. Relaxed(k)' <=> Taken(doc.edges[k].source) \/ (AtHead(doc.edges[k].source) /\ k < edge + 1)
      BY <1>1, <2>11, <2>12 DEF Relaxed
    <3> QED BY <2>4, <3>1, <3>2 DEF Relaxed
  <2>15. \A t : Left(t)' = Left(t) \ {edge}
    BY <2>13, <2>14 DEF Left, Into
  <2>16. \A t \in Places : degree'[t] = Cardinality(Left(t) \ {edge}) /\ degree'[t] \in Nat
    <3> TAKE t \in Places
    <3>1. CASE t = t0
      <4>1. Cardinality(Left(t0) \ {edge}) = Cardinality(Left(t0)) - 1
        BY <2>1, <2>5, LeftFinite, FS_RemoveElement
      <4> QED BY <1>1, <2>1, <2>3, <2>6, <3>1, <4>1 DEF DegreeInv
    <3>2. CASE t # t0
      <4>1. Left(t) \ {edge} = Left(t)
        BY <2>3, <3>2 DEF Left, Into
      <4> QED BY <1>1, <2>1, <3>2, <4>1 DEF DegreeInv
    <3> QED BY <3>1, <3>2
  <2>17. \A t \in Places : Queued(t)' <=> Queued(t) \/ (t = t0 /\ Lowered(t0) = 0)
    BY <1>1, <2>7 DEF Queued
  <2>18. \A t \in Places : degree'[t] = 0 <=> Queued(t)'
    BY <1>1, <2>1, <2>3, <2>6, <2>17 DEF DegreeInv
  <2>19. DegreeInv'
    <3>1. degree' \in [Places -> Nat]
      BY <1>1, <2>1, <2>16 DEF DegreeInv
    <3>2. Places' = Places
      BY <1>1 DEF Places
    <3> QED BY <2>15, <2>16, <2>18, <3>1, <3>2 DEF DegreeInv
  <2>20. ASSUME Lowered(t0) = 0, NEW k \in Into(t0)
         PROVE  Taken(doc.edges[k].source) \/ AtHead(doc.edges[k].source)
    <3>1. Left(t0) \ {edge} = {}
      <4>1. Cardinality(Left(t0) \ {edge}) = 0 /\ IsFiniteSet(Left(t0) \ {edge})
        BY <1>1, <2>1, <2>3, <2>5, <2>6, <2>20, LeftFinite, FS_RemoveElement
      <4> QED BY <4>1, FS_EmptySet
    <3>2. k = edge \/ Relaxed(k)
      BY <3>1 DEF Left
    <3> QED BY <2>4, <3>2 DEF Relaxed
  <2>21. SourceInv'
    <3>1. \A j \in DOMAIN waiting' : \A k \in Into(waiting'[j]) :
            Taken(doc.edges[k].source) \/ (j > 1 /\ AtHead(doc.edges[k].source))
      BY <2>1, <2>7, <2>20 DEF SourceInv
    <3>2. \A j \in DOMAIN ordered : \A k \in Into(ordered[j]) :
            \E i \in DOMAIN ordered : i < j /\ doc.ids[ordered[i]] = doc.edges[k].source
      BY <2>1 DEF SourceInv
    <3> QED BY <1>1, <2>11, <2>12, <2>13, <3>1, <3>2 DEF SourceInv
  <2> QED BY <2>10, <2>19, <2>21
<1>4. UniqueIds' <=> UniqueIds
  BY <1>1 DEF UniqueIds, Places
<1> QED BY <1>2, <1>3, <1>4 DEF SortInv

\* What is taken from the queue are different places, so no more than there are.
LEMMA OrderedFits ==
  ASSUME SortInv, UniqueIds
  PROVE  /\ Len(ordered) \in Nat /\ Len(ordered) <= Len(doc.ids)
         /\ Len(ordered) = Len(doc.ids) =>
              \A t \in Places : \E i \in DOMAIN ordered : ordered[i] = t
         /\ (\A t \in Places : \E i \in DOMAIN ordered : ordered[i] = t) =>
              Len(ordered) = Len(doc.ids)
<1>1. QueueInv /\ doc \in Documents
  BY DEF SortInv
<1>2. ordered \in Injection(1..Len(ordered), Places) /\ Len(ordered) \in Nat
  BY <1>1 DEF QueueInv, Injection, IsInjective
<1>3. /\ IsFiniteSet(Places) /\ Cardinality(Places) = Len(doc.ids)
      /\ IsFiniteSet(1..Len(ordered)) /\ Cardinality(1..Len(ordered)) = Len(ordered)
  BY <1>1, <1>2, DocumentTypes, Upto
<1>4. /\ Len(ordered) <= Len(doc.ids)
      /\ Len(ordered) = Len(doc.ids) <=> ordered \in Surjection(1..Len(ordered), Places)
  BY <1>2, <1>3, FS_Injection
<1>5. ordered \in Surjection(1..Len(ordered), Places)
        <=> \A t \in Places : \E i \in 1..Len(ordered) : ordered[i] = t
  BY <1>2 DEF Injection, Surjection
<1>6. DOMAIN ordered = 1..Len(ordered)
  BY <1>1 DEF QueueInv
<1> QED BY <1>2, <1>4, <1>5, <1>6

LEMMA NextNodeSorts == SortInv /\ NextNode => SortInv'
<1> SUFFICES ASSUME SortInv, NextNode PROVE SortInv'
  OBVIOUS
<1>1. /\ doc' = doc /\ degree' = degree /\ result' = result /\ edge' = 1
      /\ result = "sorting" /\ waiting # <<>> /\ edge > Len(doc.edges)
      /\ waiting' = Tail(waiting)
      /\ ordered' = IF Len(ordered) > Len(doc.ids) THEN ordered
                    ELSE Append(ordered, Head(waiting))
  BY DEF NextNode
<1>2. doc' \in Documents /\ ResultInv'
  BY <1>1 DEF SortInv, ResultInv
<1>3. ASSUME UniqueIds PROVE QueueInv' /\ DegreeInv' /\ SourceInv'
  <2>1. QueueInv /\ DegreeInv /\ SourceInv /\ doc \in Documents
    BY <1>3 DEF SortInv
  <2>2. Len(doc.edges) \in Nat /\ edge \in Nat /\ DOMAIN doc.edges = 1..Len(doc.edges)
    BY <2>1, DocumentTypes DEF QueueInv
  <2> DEFINE h == waiting[1]
             n == Len(ordered)
  <2>3. /\ h = Head(waiting) /\ h \in Places
        /\ \A k \in Into(h) : Taken(doc.edges[k].source)
    BY <1>1, <1>3, HeadFacts
  <2>4. ordered' = Append(ordered, h) /\ n \in Nat
    <3>1. n \in Nat /\ n <= Len(doc.ids) /\ Len(doc.ids) \in Nat
      BY <1>3, <2>1, OrderedFits, DocumentTypes
    <3> QED BY <1>1, <2>3, <3>1
  <2>5. /\ ordered' \in Seq(Places) /\ DOMAIN ordered' = 1..(n + 1) /\ DOMAIN ordered = 1..n
        /\ \A i \in 1..n : ordered'[i] = ordered[i]
        /\ ordered'[n + 1] = h
    BY <2>1, <2>3, <2>4 DEF QueueInv
  <2>6. /\ waiting' \in Seq(Places)
        /\ \A j \in DOMAIN waiting' : j \in Nat /\ j >= 1 /\ j + 1 \in DOMAIN waiting
                                      /\ waiting'[j] = waiting[j + 1]
        /\ \A j \in DOMAIN waiting : j = 1 \/ (j - 1 \in DOMAIN waiting' /\ waiting'[j - 1] = waiting[j])
        /\ 1 \in DOMAIN waiting
        /\ waiting' # <<>> => 1 \in DOMAIN waiting'
    <3>1. /\ waiting \in Seq(Places) /\ Len(waiting) \in Nat /\ Len(waiting) >= 1
          /\ waiting' = Tail(waiting) /\ DOMAIN waiting = 1..Len(waiting)
      BY <1>1, <2>1 DEF QueueInv
    <3>2. /\ waiting' \in Seq(Places) /\ DOMAIN waiting' = 1..(Len(waiting) - 1)
          /\ \A j \in 1..(Len(waiting) - 1) : waiting'[j] = waiting[j + 1]
      BY <3>1
    <3>3. waiting' # <<>> => 1 \in DOMAIN waiting'
      BY <3>2
    <3>4. \A j \in DOMAIN waiting : j = 1 \/ (j - 1 \in DOMAIN waiting' /\ (j - 1) + 1 = j)
      BY <3>1, <3>2
    <3>5. \A j \in DOMAIN waiting' : j \in Nat /\ j >= 1 /\ j + 1 \in DOMAIN waiting
      BY <3>1, <3>2
    <3> QED BY <3>1, <3>2, <3>3, <3>4, <3>5
  <2> HIDE DEF h, n
  <2>7. \A i \in DOMAIN ordered' : i \in DOMAIN ordered \/ i = n + 1
    BY <2>4, <2>5
  <2>8. \A j \in DOMAIN waiting : j # 1 => waiting[j] # h
    BY <2>1, <2>6 DEF QueueInv, h
  <2>9. \A i \in DOMAIN ordered : ordered[i] # h /\ ordered[i] = ordered'[i] /\ i \in DOMAIN ordered' /\ i < n + 1
    BY <2>1, <2>4, <2>5, <2>6 DEF QueueInv, h
  <2>10. QueueInv'
    <3>1. edge' \in 1..Len(doc.edges) + 1
      BY <1>1, <2>2
    <3>2. \A i, j \in DOMAIN waiting' : waiting'[i] = waiting'[j] => i = j
      <4> SUFFICES ASSUME NEW i \in DOMAIN waiting', NEW j \in DOMAIN waiting', waiting'[i] = waiting'[j]
                   PROVE  i = j
        OBVIOUS
      <4>1. i + 1 = j + 1
        BY <2>1, <2>6 DEF QueueInv
      <4> QED BY <2>6, <4>1
    <3>3. \A i, j \in DOMAIN ordered' : ordered'[i] = ordered'[j] => i = j
      BY <2>1, <2>5, <2>7, <2>9 DEF QueueInv
    <3>4. \A j \in DOMAIN waiting' : j + 1 # 1
      BY <2>6
    <3>5. \A i \in DOMAIN ordered', j \in DOMAIN waiting' : ordered'[i] # waiting'[j]
      <4> TAKE i \in DOMAIN ordered', j \in DOMAIN waiting'
      <4>1. j + 1 \in DOMAIN waiting /\ waiting'[j] = waiting[j + 1] /\ waiting[j + 1] # h
        BY <2>6, <2>8, <3>4
      <4>2. CASE i \in DOMAIN ordered
        BY <2>1, <2>9, <4>1, <4>2 DEF QueueInv
      <4>3. CASE i = n + 1
        BY <2>5, <4>1, <4>3
      <4> QED BY <2>7, <4>2, <4>3
    <3>6. Places' = Places
      BY <1>1 DEF Places
    <3> QED BY <1>1, <2>5, <2>6, <3>1, <3>2, <3>3, <3>5, <3>6 DEF QueueInv
  <2>11. \A id : Taken(id)' <=> Taken(id) \/ AtHead(id)
    <3> SUFFICES ASSUME NEW id PROVE Taken(id)' <=> Taken(id) \/ AtHead(id)
      OBVIOUS
    <3>1. AtHead(id) <=> doc.ids[h] = id
      BY <1>1 DEF AtHead, h
    <3>2. Taken(id)' <=> \E i \in DOMAIN ordered' : doc.ids[ordered'[i]] = id
      BY <1>1 DEF Taken
    <3>3. n + 1 \in DOMAIN ordered'
      BY <2>4, <2>5
    <3> QED BY <2>5, <2>7, <2>9, <3>1, <3>2, <3>3 DEF Taken
  <2>12. \A t : Into(t)' = Into(t)
    BY <1>1 DEF Into, IndexOf, Places
  <2>13. \A k \in DOMAIN doc.edges : Relaxed(k)' <=> Relaxed(k)
    <3> SUFFICES ASSUME NEW k \in DOMAIN doc.edges PROVE Relaxed(k)' <=> Relaxed(k)
      OBVIOUS
    <3>1. k < edge /\ ~(k < 1)
      BY <1>1, <2>2
    <3>2. Relaxed(k)' <=> Taken(doc.edges[k].source)'
      BY <1>1, <3>1 DEF Relaxed
    <3>3. Taken(doc.edges[k].source)' <=> Taken(doc.edges[k].source) \/ AtHead(doc.edges[k].source)
      BY <1>1, <2>11 DEF Taken
    <3> QED BY <3>1, <3>2, <3>3 DEF Relaxed
  <2>14. \A t : Left(t)' = Left(t)
    BY <2>12, <2>13 DEF Left, Into
  <2>15. \A t \in Places : Queued(t)' <=> Queued(t)
    <3> TAKE t \in Places
    <3>1. Queued(t)' <=> \/ \E i \in DOMAIN ordered' : ordered'[i] = t
                         \/ \E i \in DOMAIN waiting' : waiting'[i] = t
      BY DEF Queued
    <3>2. (\E i \in DOMAIN ordered' : ordered'[i] = t) <=> t = h \/ \E i \in DOMAIN ordered : ordered[i] = t
      <4>1. n + 1 \in DOMAIN ordered'
        BY <2>4, <2>5
      <4> QED BY <2>5, <2>7, <2>9, <4>1
    <3>3. (\E i \in DOMAIN waiting : waiting[i] = t) <=> t = h \/ \E i \in DOMAIN waiting' : waiting'[i] = t
      BY <2>6 DEF h
    <3> QED BY <3>1, <3>2, <3>3 DEF Queued
  <2>16. DegreeInv'
    <3>1. Places' = Places
      BY <1>1 DEF Places
    <3> QED BY <1>1, <2>1, <2>14, <2>15, <3>1 DEF DegreeInv
  <2>17. SourceInv'
    <3>1. ASSUME NEW j \in DOMAIN ordered', NEW k \in Into(ordered'[j])
          PROVE  \E i \in DOMAIN ordered' : i < j /\ doc.ids[ordered'[i]] = doc.edges[k].source
      <4>1. CASE j \in DOMAIN ordered
        <5>1. PICK i \in DOMAIN ordered : i < j /\ doc.ids[ordered[i]] = doc.edges[k].source
          BY <2>1, <2>9, <3>1, <4>1 DEF SourceInv
        <5> QED BY <2>9, <5>1
      <4>2. CASE j = n + 1
        <5>1. PICK i \in DOMAIN ordered : doc.ids[ordered[i]] = doc.edges[k].source
          BY <2>3, <2>5, <3>1, <4>2 DEF Taken
        <5> QED BY <2>9, <4>2, <5>1
      <4> QED BY <2>7, <4>1, <4>2
    <3>2. ASSUME NEW j \in DOMAIN waiting', NEW k \in Into(waiting'[j])
          PROVE  Taken(doc.edges[k].source) \/ AtHead(doc.edges[k].source)
      <4>1. j + 1 \in DOMAIN waiting /\ k \in Into(waiting[j + 1])
        BY <2>6, <3>2
      <4> QED BY <2>1, <4>1 DEF SourceInv
    <3> QED BY <1>1, <2>11, <2>12, <3>1, <3>2 DEF SourceInv
  <2> QED BY <2>10, <2>16, <2>17
<1>4. UniqueIds' <=> UniqueIds
  BY <1>1 DEF UniqueIds, Places
<1> QED BY <1>2, <1>3, <1>4 DEF SortInv

LEMMA SortInvariant == Spec => []SortInv
<1>1. SortInv /\ UNCHANGED vars => SortInv'
  <2> SUFFICES ASSUME SortInv, UNCHANGED vars PROVE SortInv'
    OBVIOUS
  <2>1. UniqueIds' <=> UniqueIds
    BY DEF vars, UniqueIds, Places
  <2>2. ResultInv' /\ doc' \in Documents
    BY <2>1 DEF vars, SortInv, ResultInv
  <2>3. QueueInv => QueueInv'
    BY DEF vars, QueueInv, Places
  <2>4. DegreeInv => DegreeInv'
    BY DEF vars, DegreeInv, Queued, Left, Into, Relaxed, Taken, AtHead, IndexOf, Places
  <2>5. SourceInv => SourceInv'
    BY DEF vars, SourceInv, Into, Taken, AtHead, IndexOf, Places
  <2> QED BY <2>1, <2>2, <2>3, <2>4, <2>5 DEF SortInv
<1>2. SortInv /\ [Next]_vars => SortInv'
  BY <1>1, PassEdgeSorts, RelaxEdgeSorts, NextNodeSorts, FinishSorts DEF Next
<1> QED BY <1>2, InitSorts, PTL DEF Spec

-----------------------------------------------------------------------------
\* In the order the sort returns, every node comes after all its sources, for
\* every document.
THEOREM SortedSourcesFirst == Spec => []SourcesComeFirst
<1>1. SortInv => SourcesComeFirst
  <2> SUFFICES ASSUME SortInv, result = "order",
                      NEW k \in DOMAIN doc.edges, NEW i \in DOMAIN ordered, NEW j \in DOMAIN ordered,
                      doc.ids[ordered[i]] = doc.edges[k].source,
                      doc.ids[ordered[j]] = doc.edges[k].target
               PROVE  i < j
    BY DEF SourcesComeFirst
  <2>1. UniqueIds /\ QueueInv /\ SourceInv /\ doc \in Documents
    BY DEF SortInv, ResultInv
  <2>2. ordered[i] \in Places /\ ordered[j] \in Places
    BY <2>1 DEF QueueInv
  <2>3. k \in Into(ordered[j])
    BY <2>1, <2>2, IndexOfUnique DEF Into
  <2>4. PICK m \in DOMAIN ordered : m < j /\ doc.ids[ordered[m]] = doc.edges[k].source
    BY <2>1, <2>3 DEF SourceInv
  <2>5. ordered[m] = ordered[i]
    BY <2>1, <2>2, <2>4 DEF UniqueIds, QueueInv
  <2>6. m = i
    BY <2>1, <2>5 DEF QueueInv
  <2> QED BY <2>4, <2>6
<1> QED BY <1>1, SortInvariant, PTL

\* A document that was ordered has no set of nodes that waits on itself.
LEMMA OrderedIsRunnable ==
  ASSUME SortInv, result = "order", NEW S \in SUBSET Ids, S # {}
  PROVE  ~Stuck(S)
<1>1. UniqueIds /\ QueueInv /\ SourceInv /\ doc \in Documents /\ Len(ordered) = Len(doc.ids)
  BY DEF SortInv, ResultInv
<1>2. \A t \in Places : \E i \in DOMAIN ordered : ordered[i] = t
  BY <1>1, OrderedFits
<1>3. DOMAIN ordered \subseteq Nat /\ \A i \in DOMAIN ordered : ordered[i] \in Places
  BY <1>1 DEF QueueInv
<1> DEFINE T == {i \in DOMAIN ordered : doc.ids[ordered[i]] \in S}
<1>4. T \in SUBSET Nat /\ T # {}
  <2>1. PICK id \in S : TRUE
    OBVIOUS
  <2>2. PICK t \in Places : doc.ids[t] = id
    BY DEF Ids
  <2>3. PICK i \in DOMAIN ordered : ordered[i] = t
    BY <1>2
  <2> QED BY <1>3, <2>2, <2>3
<1>5. PICK j \in T : \A i \in T : j <= i
  <2> HIDE DEF T
  <2> QED BY <1>4, LeastNatural
<1> SUFFICES ASSUME Stuck(S) PROVE FALSE
  OBVIOUS
<1>6. PICK k \in DOMAIN doc.edges :
        /\ doc.edges[k].target = doc.ids[ordered[j]]
        /\ doc.edges[k].source \in S \/ doc.edges[k].source \notin Ids
  BY DEF Stuck
<1>7. k \in Into(ordered[j])
  BY <1>1, <1>3, <1>6, IndexOfUnique DEF Into
<1>8. PICK m \in DOMAIN ordered : m < j /\ doc.ids[ordered[m]] = doc.edges[k].source
  BY <1>1, <1>7 DEF SourceInv
<1>9. doc.edges[k].source \in Ids
  BY <1>3, <1>8 DEF Ids
<1>10. m \in T
  BY <1>6, <1>8, <1>9
<1>11. j <= m /\ j \in Nat /\ m \in Nat
  BY <1>3, <1>5, <1>10
<1> QED BY <1>8, <1>11

\* In one that was refused, what was never queued waits on itself.
LEMMA RefusedIsStuck ==
  ASSUME SortInv, result = "cycle", UniqueIds
  PROVE  \E S \in (SUBSET Ids) \ {{}} : Stuck(S)
<1>1. /\ QueueInv /\ DegreeInv /\ doc \in Documents
      /\ Len(ordered) # Len(doc.ids) /\ waiting = <<>>
  BY DEF SortInv, ResultInv
<1> DEFINE U == {t \in Places : \A i \in DOMAIN ordered : ordered[i] # t}
           S == {doc.ids[t] : t \in U}
<1>2. U # {}
  BY <1>1, OrderedFits
<1>3. S \in (SUBSET Ids) \ {{}}
  <2>1. S \subseteq Ids
    BY DEF Ids
  <2>2. S # {}
    <3> HIDE DEF U
    <3> QED BY <1>2
  <2> HIDE DEF S
  <2> QED BY <2>1, <2>2
<1>4. Stuck(S)
  <2> SUFFICES ASSUME NEW t \in U
               PROVE  \E k \in DOMAIN doc.edges :
                        /\ doc.edges[k].target = doc.ids[t]
                        /\ doc.edges[k].source \in S \/ doc.edges[k].source \notin Ids
    BY DEF Stuck
  <2>1. ~Queued(t)
    BY <1>1 DEF Queued
  <2>2. Left(t) # {}
    BY <1>1, <2>1, LeftFinite DEF DegreeInv
  <2>3. PICK k \in Into(t) : ~Taken(doc.edges[k].source)
    BY <2>2 DEF Left, Relaxed
  <2>4. k \in DOMAIN doc.edges /\ doc.edges[k].target = doc.ids[t]
    BY <1>1, <2>3, IndexOfUnique DEF Into
  <2>5. ASSUME doc.edges[k].source \in Ids PROVE doc.edges[k].source \in S
    <3>1. PICK u \in Places : doc.ids[u] = doc.edges[k].source
      BY <2>5 DEF Ids
    <3>2. u \in U
      BY <2>3, <3>1 DEF Taken
    <3> QED BY <3>1, <3>2
  <2> QED BY <2>4, <2>5
<1> QED BY <1>3, <1>4

\* topo_sort returns an order exactly of the documents whose ids are unique
\* and in which no set of nodes waits on itself or on an id that is not there.
THEOREM SortOrdersTheRunnable == Spec => []OrdersExactlyTheRunnable
<1>1. SortInv => OrdersExactlyTheRunnable
  <2> SUFFICES ASSUME SortInv, result # "sorting"
               PROVE  (result = "order") = (UniqueIds /\ \A S \in (SUBSET Ids) \ {{}} : ~Stuck(S))
    BY DEF OrdersExactlyTheRunnable
  <2>1. CASE result = "order"
    <3>1. UniqueIds
      BY <2>1 DEF SortInv, ResultInv
    <3>2. \A S \in (SUBSET Ids) \ {{}} : ~Stuck(S)
      <4> TAKE S \in (SUBSET Ids) \ {{}}
      <4>1. S \in SUBSET Ids /\ S # {}
        OBVIOUS
      <4> QED BY <2>1, <4>1, OrderedIsRunnable
    <3> QED BY <2>1, <3>1, <3>2
  <2>2. CASE result = "cycle"
    BY <2>2, RefusedIsStuck
  <2> QED BY <2>1, <2>2 DEF SortInv, ResultInv
<1> QED BY <1>1, SortInvariant, PTL

=============================================================================

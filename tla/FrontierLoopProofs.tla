------------------------- MODULE FrontierLoopProofs --------------------------
(***************************************************************************)
(* Frontier::compute is partially correct, for every graph, every order of *)
(* the node list and every set of rows: when its loop stops, it has        *)
(* computed the least fixpoint of the skip rule and the nodes ready under  *)
(* it.  The argument is the loop invariant LoopInv below.                  *)
(***************************************************************************)
EXTENDS FrontierLoopProps, FrontierFacts

\* What this call has skipped lies in every closed set, and was droppable.
SkipsAreSound ==
  /\ \A n \in Members(skipped) :
       n \in Undecided(rows) /\ (~Lit(rows, n) \/ n \in Note)
  /\ \A S \in SUBSET Undecided(rows) :
       Drops(rows, S) \subseteq S => Members(skipped) \subseteq S

ReadyAreSound == ReadyStaysReady /\ \A n \in Members(ready) : n \notin Note

\* While the flag is down, nothing behind the cursor can move any more.
BehindIsStable ==
  /\ ~changed =>
       \A i \in 1..(at - 1) : Decided(NodeList[i]) \/ Blocked(NodeList[i])
  /\ done => \A n \in Node : Decided(n) \/ Blocked(n)

LoopInv == LoopTypeOK /\ SkipsAreSound /\ ReadyAreSound /\ BehindIsStable

-----------------------------------------------------------------------------
\* Appending one node adds it to the members of a list.
LEMMA MembersOfAppend ==
  ASSUME NEW seq \in Seq(Node), NEW n \in Node
  PROVE  /\ Append(seq, n) \in Seq(Node)
         /\ Members(Append(seq, n)) = Members(seq) \cup {n}
<1>1. /\ Append(seq, n) \in Seq(Node)
      /\ DOMAIN Append(seq, n) = 1..(Len(seq) + 1)
      /\ \A i \in 1..Len(seq) : Append(seq, n)[i] = seq[i]
      /\ Append(seq, n)[Len(seq) + 1] = n
      /\ DOMAIN seq = 1..Len(seq) /\ Len(seq) \in Nat
  OBVIOUS
<1>2. Members(seq) \cup {n} \subseteq Members(Append(seq, n))
  <2>1. Len(seq) + 1 \in DOMAIN Append(seq, n)
    BY <1>1
  <2>2. \A i \in DOMAIN seq : i \in DOMAIN Append(seq, n)
    BY <1>1
  <2> QED BY <1>1, <2>1, <2>2 DEF Members
<1>3. Members(Append(seq, n)) \subseteq Members(seq) \cup {n}
  <2> SUFFICES ASSUME NEW i \in 1..(Len(seq) + 1)
               PROVE  Append(seq, n)[i] \in Members(seq) \cup {n}
    BY <1>1 DEF Members
  <2>1. i \in 1..Len(seq) \/ i = Len(seq) + 1
    BY <1>1
  <2> QED BY <1>1, <2>1 DEF Members
<1> QED BY <1>1, <1>2, <1>3

\* The node under the cursor is a node of the graph, and every node is at
\* some position.
LEMMA NodeListCovers ==
  /\ \A i \in 1..Len(NodeList) : NodeList[i] \in Node
  /\ \A n \in Node : \E i \in 1..Len(NodeList) : NodeList[i] = n
  /\ DOMAIN NodeList = 1..Len(NodeList) /\ Len(NodeList) \in Nat
BY GraphAssumption DEF GraphAssumption

\* More skipped nodes unblock more nodes.
LEMMA UnblockedMonotone ==
  ASSUME NEW r, NEW S, NEW T, S \subseteq T, NEW n, Unblocked(r, S, n)
  PROVE  Unblocked(r, T, n)
BY DEF Unblocked

-----------------------------------------------------------------------------
LEMMA InitEstablishes == Init => LoopInv
<1> SUFFICES ASSUME Init PROVE LoopInv
  OBVIOUS
<1>1. Members(skipped) = {} /\ Members(ready) = {}
  BY DEF Init, Members
<1>2. LoopTypeOK
  <2>1. rows \in [Node -> Row]
    BY LoopAssumption DEF Init, LoopAssumption
  <2>2. 1 \in 1..Len(NodeList) + 1
    BY NodeListCovers
  <2>3. skipped \in Seq(Node) /\ ready \in Seq(Node)
    BY DEF Init
  <2>4. at \in 1..Len(NodeList) + 1 /\ passes \in Nat \ {0}
    BY <2>2 DEF Init
  <2> QED BY <2>1, <2>3, <2>4 DEF Init, LoopTypeOK
<1>3. SkipsAreSound
  BY <1>1 DEF SkipsAreSound
<1>4. ReadyAreSound
  BY <1>1 DEF ReadyAreSound, ReadyStaysReady
<1>5. BehindIsStable
  BY DEF Init, BehindIsStable
<1> QED BY <1>2, <1>3, <1>4, <1>5 DEF LoopInv

LEMMA VisitPreserves == LoopInv /\ Visit => LoopInv'
<1> SUFFICES ASSUME LoopInv, Visit PROVE LoopInv'
  OBVIOUS
<1> DEFINE n == NodeList[at]
<1>1. /\ n \in Node /\ at \in 1..Len(NodeList) /\ Len(NodeList) \in Nat
      /\ at' = at + 1 /\ rows' = rows /\ passes' = passes /\ done' = done /\ ~done
  BY NodeListCovers DEF Visit
<1>2. skipped \in Seq(Node) /\ ready \in Seq(Node) /\ LoopTypeOK
  BY DEF LoopInv, LoopTypeOK
<1>3. at' \in 1..Len(NodeList) + 1
  BY <1>1
<1>4. \A i \in 1..(at' - 1) : i = at \/ i \in 1..(at - 1)
  BY <1>1
<1>5. CASE Pass(n)
  <2>1. skipped' = skipped /\ ready' = ready /\ changed' = changed
    BY <1>5 DEF Pass
  <2>2. LoopTypeOK'
    BY <1>1, <1>2, <1>3, <2>1 DEF LoopTypeOK
  <2>3. SkipsAreSound'
    BY <1>1, <2>1 DEF LoopInv, SkipsAreSound, Members
  <2>4. ReadyAreSound'
    BY <1>1, <2>1 DEF LoopInv, ReadyAreSound, ReadyStaysReady, Members
  <2>5. BehindIsStable'
    BY <1>1, <1>4, <1>5, <2>1
    DEF LoopInv, BehindIsStable, Pass, Decided, Blocked, Members
  <2> QED BY <2>2, <2>3, <2>4, <2>5 DEF LoopInv
<1>6. CASE Skip(n)
  <2>1. /\ skipped' = Append(skipped, n) /\ ready' = ready /\ changed' = TRUE
        /\ ~Decided(n) /\ ~Blocked(n) /\ (~Lit(rows, n) \/ n \in Note)
    BY <1>6 DEF Skip
  <2>2. /\ Members(skipped)' = Members(skipped) \cup {n}
        /\ Members(ready)' = Members(ready)
        /\ skipped' \in Seq(Node)
    <3>1. /\ Append(skipped, n) \in Seq(Node)
          /\ Members(Append(skipped, n)) = Members(skipped) \cup {n}
      BY <1>1, <1>2, MembersOfAppend
    <3>2. Members(skipped)' = Members(Append(skipped, n))
      BY <2>1 DEF Members
    <3>3. Members(ready)' = Members(ready)
      BY <2>1 DEF Members
    <3> QED BY <2>1, <3>1, <3>2, <3>3
  <2>3. LoopTypeOK'
    BY <1>1, <1>2, <1>3, <2>1, <2>2 DEF LoopTypeOK
  <2>4. Unblocked(rows, Members(skipped), n) /\ n \notin Members(ready)
    BY <1>1, <2>1 DEF Unblocked, Decided, Blocked, Undecided
  <2>5. SkipsAreSound'
    <3>1. \A m \in Members(skipped) \cup {n} :
            m \in Undecided(rows) /\ (~Lit(rows, m) \/ m \in Note)
      BY <2>1, <2>4 DEF LoopInv, SkipsAreSound, Unblocked
    <3>2. ASSUME NEW S \in SUBSET Undecided(rows), Drops(rows, S) \subseteq S
          PROVE  Members(skipped) \cup {n} \subseteq S
      <4>1. Members(skipped) \subseteq S
        BY <3>2 DEF LoopInv, SkipsAreSound
      <4>2. Unblocked(rows, S, n)
        BY <2>4, <4>1, UnblockedMonotone
      <4>3. n \in Drops(rows, S)
        BY <1>1, <2>1, <4>2 DEF Drops
      <4> QED BY <3>2, <4>1, <4>3
    <3> QED BY <1>1, <2>2, <3>1, <3>2 DEF SkipsAreSound
  <2>6. ReadyAreSound'
    <3>1. ASSUME NEW m \in Members(ready)
          PROVE  /\ m \notin Members(skipped) \cup {n}
                 /\ Unblocked(rows, Members(skipped) \cup {n}, m)
                 /\ Lit(rows, m) /\ m \notin Note
      <4>1. /\ m \notin Members(skipped) /\ Unblocked(rows, Members(skipped), m)
            /\ Lit(rows, m) /\ m \notin Note
        BY DEF LoopInv, ReadyAreSound, ReadyStaysReady
      <4>2. m # n
        BY <2>4
      <4> QED BY <4>1, <4>2, UnblockedMonotone
    <3> QED BY <1>1, <2>2, <3>1 DEF ReadyAreSound, ReadyStaysReady
  <2>7. BehindIsStable'
    BY <1>1, <2>1 DEF BehindIsStable
  <2> QED BY <2>3, <2>5, <2>6, <2>7 DEF LoopInv
<1>7. CASE MakeReady(n)
  <2>1. /\ skipped' = skipped /\ ready' = Append(ready, n) /\ changed' = changed
        /\ ~Decided(n) /\ ~Blocked(n) /\ Lit(rows, n) /\ n \notin Note
    BY <1>7 DEF MakeReady
  <2>2. /\ Members(skipped)' = Members(skipped)
        /\ Members(ready)' = Members(ready) \cup {n}
        /\ ready' \in Seq(Node)
    <3>1. /\ Append(ready, n) \in Seq(Node)
          /\ Members(Append(ready, n)) = Members(ready) \cup {n}
      BY <1>1, <1>2, MembersOfAppend
    <3>2. Members(skipped)' = Members(skipped)
      BY <2>1 DEF Members
    <3>3. Members(ready)' = Members(Append(ready, n))
      BY <2>1 DEF Members
    <3> QED BY <2>1, <3>1, <3>2, <3>3
  <2>3. LoopTypeOK'
    BY <1>1, <1>2, <1>3, <2>1, <2>2 DEF LoopTypeOK
  <2>4. SkipsAreSound'
    BY <1>1, <2>2 DEF LoopInv, SkipsAreSound
  <2>5. Unblocked(rows, Members(skipped), n) /\ n \notin Members(skipped)
    BY <1>1, <2>1 DEF Unblocked, Decided, Blocked, Undecided
  <2>6. ReadyAreSound'
    BY <1>1, <2>1, <2>2, <2>5 DEF LoopInv, ReadyAreSound, ReadyStaysReady
  <2>7. BehindIsStable'
    BY <1>1, <1>4, <2>1, <2>2 DEF LoopInv, BehindIsStable, Decided, Blocked
  <2> QED BY <2>3, <2>4, <2>6, <2>7 DEF LoopInv
<1> QED BY <1>5, <1>6, <1>7 DEF Visit

LEMMA EndPassPreserves == LoopInv /\ EndPass => LoopInv'
<1> SUFFICES ASSUME LoopInv, EndPass PROVE LoopInv'
  OBVIOUS
<1>1. rows' = rows /\ skipped' = skipped /\ ready' = ready /\ changed' = FALSE
  BY DEF EndPass
<1>2. /\ at \in 1..Len(NodeList) + 1 /\ at > Len(NodeList) /\ Len(NodeList) \in Nat
      /\ passes \in Nat \ {0} /\ changed \in BOOLEAN
  BY NodeListCovers DEF EndPass, LoopInv, LoopTypeOK
<1>3. SkipsAreSound' /\ ReadyAreSound'
  BY <1>1 DEF LoopInv, SkipsAreSound, ReadyAreSound, ReadyStaysReady, Members
<1>4. CASE changed
  <2>1. at' = 1 /\ passes' = passes + 1 /\ done' = done /\ ~done
    BY <1>4 DEF EndPass
  <2>2. at' \in 1..Len(NodeList) + 1 /\ passes' \in Nat \ {0}
    BY <1>2, <2>1
  <2>3. LoopTypeOK'
    BY <1>1, <2>1, <2>2 DEF LoopInv, LoopTypeOK
  <2>4. BehindIsStable'
    BY <2>1 DEF BehindIsStable
  <2> QED BY <1>3, <2>3, <2>4 DEF LoopInv
<1>5. CASE ~changed
  <2>1. at' = at /\ passes' = passes /\ done' = TRUE
    BY <1>5 DEF EndPass
  <2>2. LoopTypeOK'
    BY <1>1, <1>2, <2>1 DEF LoopInv, LoopTypeOK
  <2>3. \A i \in 1..Len(NodeList) : Decided(NodeList[i]) \/ Blocked(NodeList[i])
    <3>1. \A i \in 1..Len(NodeList) : i \in 1..(at - 1)
      BY <1>2
    <3> QED BY <1>5, <3>1 DEF LoopInv, BehindIsStable
  <2>4. \A n \in Node : Decided(n) \/ Blocked(n)
    BY <2>3, NodeListCovers
  <2>5. BehindIsStable'
    <3>1. \A n : (Decided(n))' <=> Decided(n)
      BY <1>1 DEF Decided, Members
    <3>2. \A n : (Blocked(n))' <=> Blocked(n)
      BY <1>1 DEF Blocked, Members
    <3>3. \A i \in 1..(at' - 1) : i \in 1..Len(NodeList)
      BY <1>2, <2>1
    <3> QED BY <2>3, <2>4, <3>1, <3>2, <3>3 DEF BehindIsStable
  <2> QED BY <1>3, <2>2, <2>5 DEF LoopInv
<1> QED BY <1>4, <1>5

LEMMA StutterPreserves == LoopInv /\ UNCHANGED vars => LoopInv'
<1> SUFFICES ASSUME LoopInv, UNCHANGED vars PROVE LoopInv'
  OBVIOUS
<1>1. LoopTypeOK'
  BY DEF vars, LoopInv, LoopTypeOK
<1>2. SkipsAreSound'
  BY DEF vars, LoopInv, SkipsAreSound, Members
<1>3. ReadyAreSound'
  BY DEF vars, LoopInv, ReadyAreSound, ReadyStaysReady, Members
<1>4. BehindIsStable'
  BY DEF vars, LoopInv, BehindIsStable, Decided, Blocked, Members
<1> QED BY <1>1, <1>2, <1>3, <1>4 DEF LoopInv

LEMMA LoopInvariant == Spec => []LoopInv
<1>1. LoopInv /\ [Next]_vars => LoopInv'
  BY VisitPreserves, EndPassPreserves, StutterPreserves DEF Next
<1> QED BY <1>1, InitEstablishes, PTL DEF Spec

-----------------------------------------------------------------------------
\* At the end of the loop the skipped nodes are a closed set, and the least.
LEMMA DoneIsFixpoint == LoopInv => ComputesFixpoint
<1> SUFFICES ASSUME LoopInv, done PROVE /\ Members(skipped) = Skips(rows)
                                        /\ Members(ready) = Ready(rows)
  BY DEF ComputesFixpoint
<1> DEFINE SK == Members(skipped)
<1>1. \A n \in SK : n \in Undecided(rows) /\ (~Lit(rows, n) \/ n \in Note)
  BY DEF LoopInv, SkipsAreSound
<1>2. \A n \in Node : Unblocked(rows, SK, n) => n \in SK \/ n \in Members(ready)
  BY DEF LoopInv, BehindIsStable, Unblocked, Undecided, Decided, Blocked
<1>3. \A n \in Members(ready) :
        n \in Node /\ Unblocked(rows, SK, n) /\ Lit(rows, n) /\ n \notin Note
  BY DEF LoopInv, ReadyAreSound, ReadyStaysReady, Unblocked, Undecided
<1>4. Drops(rows, SK) \subseteq SK
  BY <1>2, <1>3 DEF Drops
<1>5. SK \subseteq Undecided(rows)
  BY <1>1
<1>6. Skips(rows) \subseteq SK
  BY <1>4, <1>5 DEF Skips
<1>7. SK \subseteq Skips(rows)
  BY <1>5 DEF LoopInv, SkipsAreSound, Skips
<1>8. SK = Skips(rows)
  BY <1>6, <1>7
<1>9. Members(ready) = Ready(rows)
  <2>1. Members(ready) \subseteq Ready(rows)
    BY <1>3, <1>8 DEF Ready
  <2>2. Ready(rows) \subseteq Members(ready)
    BY <1>1, <1>2, <1>8 DEF Ready
  <2> QED BY <2>1, <2>2
<1> QED BY <1>8, <1>9

\* The loop keeps its types, on every graph.
THEOREM LoopTypeCorrect == Spec => []LoopTypeOK
<1>1. LoopInv => LoopTypeOK
  BY DEF LoopInv
<1> QED BY <1>1, LoopInvariant, PTL

\* A node the loop has readied stays ready to the end of the call, on every
\* graph and every order of the node list.
THEOREM LoopReadyStaysReady == Spec => []ReadyStaysReady
<1>1. LoopInv => ReadyStaysReady
  BY DEF LoopInv, ReadyAreSound
<1> QED BY <1>1, LoopInvariant, PTL

\* When Frontier::compute returns, skipped is the least fixpoint of its skip
\* rule and ready the nodes ready under it, on every graph, every order of the
\* node list and every set of rows.
THEOREM LoopComputesFixpoint == Spec => []ComputesFixpoint
BY DoneIsFixpoint, LoopInvariant, PTL

-----------------------------------------------------------------------------
\* Every pass but the last has skipped a node of its own.
PassCount ==
  passes <= Cardinality(Members(skipped)) + (IF changed THEN 0 ELSE 1)

LEMMA SkippedIsFinite ==
  LoopInv => /\ IsFiniteSet(Members(skipped))
             /\ Cardinality(Members(skipped)) \in Nat
             /\ Cardinality(Members(skipped)) <= Cardinality(Node)
             /\ Cardinality(Node) \in Nat
<1> SUFFICES ASSUME LoopInv
             PROVE  /\ IsFiniteSet(Members(skipped))
                    /\ Cardinality(Members(skipped)) \in Nat
                    /\ Cardinality(Members(skipped)) <= Cardinality(Node)
                    /\ Cardinality(Node) \in Nat
  OBVIOUS
<1>1. Members(skipped) \subseteq Node
  BY DEF LoopInv, SkipsAreSound, Undecided
<1>2. IsFiniteSet(Node)
  BY GraphAssumption DEF GraphAssumption
<1> QED BY <1>1, <1>2, FS_Subset, FS_CardinalityType

LEMMA PassCountPreserved ==
  LoopInv /\ PassCount /\ [Next]_vars => PassCount'
<1> SUFFICES ASSUME LoopInv, PassCount, [Next]_vars PROVE PassCount'
  OBVIOUS
<1>1. /\ IsFiniteSet(Members(skipped)) /\ Cardinality(Members(skipped)) \in Nat
      /\ passes \in Nat /\ changed \in BOOLEAN
  <2>1. passes \in Nat /\ changed \in BOOLEAN
    BY DEF LoopInv, LoopTypeOK
  <2> QED BY <2>1, SkippedIsFinite
<1>2. CASE Visit
  <2> DEFINE n == NodeList[at]
  <2>1. n \in Node /\ passes' = passes
    BY <1>2, NodeListCovers DEF Visit
  <2>2. CASE Pass(n) \/ MakeReady(n)
    <3>1. Members(skipped)' = Members(skipped) /\ changed' = changed
      BY <2>2 DEF Pass, MakeReady, Members
    <3> QED BY <1>1, <2>1, <3>1 DEF PassCount
  <2>3. CASE Skip(n)
    <3>1. skipped' = Append(skipped, n) /\ ~Decided(n) /\ changed' = TRUE
      BY <2>3 DEF Skip
    <3>2. skipped \in Seq(Node)
      BY DEF LoopInv, LoopTypeOK
    <3>3. n \notin Members(skipped)
      BY <3>1 DEF Decided
    <3>4. Members(skipped)' = Members(skipped) \cup {n}
      BY <2>1, <3>1, <3>2, MembersOfAppend DEF Members
    <3>5. Cardinality(Members(skipped) \cup {n}) = Cardinality(Members(skipped)) + 1
      BY <1>1, <3>3, FS_AddElement
    <3> QED BY <1>1, <2>1, <3>1, <3>4, <3>5 DEF PassCount
  <2> QED BY <1>2, <2>2, <2>3 DEF Visit
<1>3. CASE EndPass
  <2>1. Members(skipped)' = Members(skipped) /\ changed' = FALSE
    BY <1>3 DEF EndPass, Members
  <2>2. passes' = IF changed THEN passes + 1 ELSE passes
    BY <1>3 DEF EndPass
  <2> QED BY <1>1, <2>1, <2>2 DEF PassCount
<1>4. CASE UNCHANGED vars
  BY <1>4 DEF vars, PassCount, Members
<1> QED BY <1>2, <1>3, <1>4 DEF Next

\* "At most nodes + 1 passes", on every graph, a cyclic one included.
THEOREM LoopPassBound == Spec => []PassBound
<1>1. Init => PassCount
  <2> SUFFICES ASSUME Init PROVE PassCount
    OBVIOUS
  <2>1. Members(skipped) = {} /\ passes = 1 /\ changed = FALSE
    BY DEF Init, Members
  <2> QED BY <2>1, FS_EmptySet DEF PassCount
<1>2. LoopInv /\ PassCount => PassBound
  BY SkippedIsFinite DEF PassCount, PassBound, LoopInv, LoopTypeOK
<1> QED BY <1>1, <1>2, PassCountPreserved, LoopInvariant, PTL DEF Spec

-----------------------------------------------------------------------------
(* The order of the results: the loop reaches each node in the pass that   *)
(* PassOf says.  A node still to be decided waits for one that is skipped  *)
(* late enough not to be seen before the cursor comes round again.         *)

\* seq is in the loop's order, and all of it lies before place a of pass q.
InOrder(r, q, a, seq) ==
  /\ \A i, j \in DOMAIN seq : i < j => Earlier(r, seq[i], seq[j])
  /\ \A i \in DOMAIN seq : \/ PassOf(r)[seq[i]] < q
                           \/ PassOf(r)[seq[i]] = q /\ Declared(seq[i]) < a

\* The pass in which the cursor, at place a of pass q, meets n next.
MeetsIn(q, a, n) == IF Declared(n) < a THEN q + 1 ELSE q

WaitsFor(n, s) ==
  /\ s \in Sources(n) /\ s \notin Settled(rows)
  /\ s \in Members(skipped) => MeetsIn(passes, at, n) <= PassOf(rows)[s] + Late(s, n)

LoopOrder ==
  /\ InOrder(rows, passes, at, skipped)
  /\ InOrder(rows, passes, at, ready)
  /\ \A n \in Node : \/ Decided(n)
                     \/ MeetsIn(passes, at, n) = 1
                     \/ \E s \in Node : WaitsFor(n, s)

LEMMA AppendInOrder ==
  ASSUME NEW r, NEW q \in Nat, NEW a \in Nat, NEW seq \in Seq(Node), NEW n \in Node,
         InOrder(r, q, a, seq), PassOf(r)[n] = q, Declared(n) = a
  PROVE  InOrder(r, q, a + 1, Append(seq, n))
<1> DEFINE t == Append(seq, n)
<1>1. /\ DOMAIN t = 1..(Len(seq) + 1) /\ DOMAIN seq = 1..Len(seq) /\ Len(seq) \in Nat
      /\ \A i \in 1..Len(seq) : t[i] = seq[i] /\ seq[i] \in Node
      /\ t[Len(seq) + 1] = n
  OBVIOUS
<1> HIDE DEF t
<1>2. \A i \in DOMAIN t : i \in DOMAIN seq \/ i = Len(seq) + 1
  BY <1>1
<1>3. \A i \in DOMAIN seq : Earlier(r, seq[i], n)
  BY DEF InOrder, Earlier
<1>4. \A i, j \in DOMAIN t : i < j => i \in DOMAIN seq /\ (j \in DOMAIN seq \/ j = Len(seq) + 1)
  BY <1>1
<1>5. \A i, j \in DOMAIN t : i < j => Earlier(r, t[i], t[j])
  BY <1>1, <1>3, <1>4 DEF InOrder
<1>6. \A m \in Node : Declared(m) \in Nat
  BY DeclaredPlace
<1>7. \A i \in DOMAIN seq : \/ PassOf(r)[seq[i]] < q
                            \/ PassOf(r)[seq[i]] = q /\ Declared(seq[i]) < a + 1
  BY <1>1, <1>6 DEF InOrder
<1>8. \A i \in DOMAIN t : \/ PassOf(r)[t[i]] < q
                          \/ PassOf(r)[t[i]] = q /\ Declared(t[i]) < a + 1
  BY <1>1, <1>2, <1>7
<1>9. InOrder(r, q, a + 1, t)
  BY <1>5, <1>8 DEF InOrder
<1> QED BY <1>9 DEF t

LEMMA DeclaredHere ==
  \A i \in 1..Len(NodeList) : Declared(NodeList[i]) = i
<1>1. \A i \in 1..Len(NodeList) :
        NodeList[Declared(NodeList[i])] = NodeList[i] /\ Declared(NodeList[i]) \in DOMAIN NodeList
  BY NodeListCovers DEF Declared
<1> QED BY <1>1, NodeListCovers, GraphAssumption DEF GraphAssumption

LEMMA SkippedAreSkips == LoopInv => Members(skipped) \subseteq Skips(rows)
BY DEF LoopInv, SkipsAreSound, Skips

\* The loop decides a node in its pass.
LEMMA DecidedInPass ==
  ASSUME LoopInv, LoopOrder, Visit, ~Decided(NodeList[at]), ~Blocked(NodeList[at])
  PROVE  PassOf(rows)[NodeList[at]] = passes
<1> DEFINE n == NodeList[at]
           p == PassOf(rows)
<1>1. n \in Node /\ at \in 1..Len(NodeList) /\ Declared(n) = at /\ passes \in Nat \ {0} /\ at \in Nat
  BY NodeListCovers, DeclaredHere DEF Visit, LoopInv, LoopTypeOK
<1>2. Sources(n) \subseteq Settled(rows) \cup Members(skipped)
  BY DEF Blocked
<1>3. \A s \in Skips(rows) : s \in Node /\ s \notin Settled(rows)
  BY SkipsAreDropped DEF Undecided, Settled, IsSettled
<1>4. \A m \in Node : p[m] \in Nat /\ Declared(m) \in Nat
  BY PassesRise, DeclaredPlace
<1>5. \A s \in Sources(n) \cap Skips(rows) : p[s] + Late(s, n) <= p[n]
  BY <1>1, PassesRise
<1>6. 1 <= p[n] /\ (p[n] = 1 \/ \E s \in Sources(n) \cap Skips(rows) : p[n] = p[s] + Late(s, n))
  BY <1>1, PassIsSet
<1>7. \A s \in Members(skipped) : p[s] < passes \/ (p[s] = passes /\ Declared(s) < at)
  BY DEF LoopOrder, InOrder, Members
<1>8. MeetsIn(passes, at, n) = passes
  BY <1>1 DEF MeetsIn
<1>9. passes = 1 \/ \E s \in Sources(n) \cap Skips(rows) : passes <= p[s] + Late(s, n)
  <2> SUFFICES ASSUME passes # 1
               PROVE  \E s \in Sources(n) \cap Skips(rows) : passes <= p[s] + Late(s, n)
    OBVIOUS
  <2>1. PICK s \in Node : WaitsFor(n, s)
    BY <1>1, <1>8 DEF LoopOrder
  <2>2. s \in Members(skipped)
    BY <1>2, <2>1 DEF WaitsFor
  <2> QED BY <1>8, <2>1, <2>2, SkippedAreSkips DEF WaitsFor
<1> HIDE DEF p
<1>10. passes <= p[n]
  <2>1. \A s \in Sources(n) \cap Skips(rows) : Late(s, n) \in Nat /\ p[s] \in Nat
    BY <1>3, <1>4 DEF Late
  <2> QED BY <1>1, <1>4, <1>5, <1>6, <1>9, <2>1
<1>11. p[n] <= passes
  <2>1. CASE p[n] = 1
    BY <1>1, <2>1
  <2>2. ASSUME NEW s \in Sources(n) \cap Skips(rows), p[n] = p[s] + Late(s, n)
        PROVE  p[n] <= passes
    <3>1. s \in Members(skipped) /\ s \in Node
      BY <1>2, <1>3
    <3>2. p[s] \in Nat /\ Declared(s) \in Nat
      BY <1>4, <3>1
    <3> QED BY <1>1, <1>7, <2>2, <3>1, <3>2 DEF Late
  <2> QED BY <1>6, <2>1, <2>2
<1>12. p[n] = passes
  BY <1>1, <1>4, <1>10, <1>11
<1> QED BY <1>12 DEF p

LEMMA VisitOrders == LoopInv /\ LoopOrder /\ Visit => LoopOrder'
<1> SUFFICES ASSUME LoopInv, LoopOrder, Visit PROVE LoopOrder'
  OBVIOUS
<1> DEFINE n == NodeList[at]
           p == PassOf(rows)
<1>1. /\ n \in Node /\ at \in Nat /\ Declared(n) = at /\ passes \in Nat \ {0}
      /\ skipped \in Seq(Node) /\ ready \in Seq(Node)
      /\ at' = at + 1 /\ passes' = passes /\ rows' = rows
  BY NodeListCovers, DeclaredHere DEF Visit, LoopInv, LoopTypeOK
<1>2. \A m \in Node : Declared(m) \in Nat /\ (Declared(m) = at => m = n)
  BY <1>1, DeclaredPlace
<1>3. \A m \in Node \ {n} : MeetsIn(passes, at + 1, m) = MeetsIn(passes, at, m)
  BY <1>1, <1>2 DEF MeetsIn
<1>4. ASSUME NEW seq \in Seq(Node), InOrder(rows, passes, at, seq)
      PROVE  InOrder(rows, passes, at + 1, seq)
  <2>1. \A i \in DOMAIN seq : Declared(seq[i]) \in Nat
    BY <1>2
  <2> QED BY <1>1, <1>4, <2>1 DEF InOrder
<1>5. InOrder(rows, passes, at + 1, skipped) /\ InOrder(rows, passes, at + 1, ready)
  BY <1>1, <1>4 DEF LoopOrder
<1>6. CASE Pass(n)
  <2>1. skipped' = skipped /\ ready' = ready /\ (Decided(n) \/ Blocked(n))
    BY <1>6 DEF Pass
  <2>2. \A m : Decided(m)' <=> Decided(m)
    BY <1>1, <2>1 DEF Decided, Members
  <2>3. ASSUME NEW m \in Node \ {n}, NEW s \in Node, WaitsFor(m, s) PROVE WaitsFor(m, s)'
    BY <1>1, <1>3, <2>1, <2>3 DEF WaitsFor, Members
  <2>4. ASSUME NEW m \in Node, Blocked(m) PROVE \E s \in Node : WaitsFor(m, s)'
    <3>1. PICK s \in Sources(m) : s \notin Settled(rows) /\ s \notin Members(skipped)
      BY <2>4 DEF Blocked
    <3>2. s \in Node
      BY SourcesFinite
    <3>3. WaitsFor(m, s)'
      BY <1>1, <2>1, <3>1 DEF WaitsFor, Members
    <3> QED BY <3>2, <3>3
  <2>5. \A m \in Node : \/ Decided(m)'
                        \/ MeetsIn(passes', at', m) = 1
                        \/ \E s \in Node : WaitsFor(m, s)'
    <3> TAKE m \in Node
    <3>1. CASE m = n
      <4>1. Decided(m) \/ Blocked(m)
        BY <2>1, <3>1
      <4> QED BY <2>2, <2>4, <4>1
    <3>2. CASE m # n
      BY <1>1, <1>3, <2>2, <2>3, <3>2 DEF LoopOrder
    <3> QED BY <3>1, <3>2
  <2> QED BY <1>1, <1>5, <2>1, <2>5 DEF LoopOrder
<1>7. CASE Skip(n)
  <2>1. skipped' = Append(skipped, n) /\ ready' = ready /\ ~Decided(n) /\ ~Blocked(n)
    BY <1>7 DEF Skip
  <2>2. p[n] = passes
    BY <2>1, DecidedInPass
  <2>3. InOrder(rows, passes, at + 1, Append(skipped, n))
    BY <1>1, <2>2, AppendInOrder DEF LoopOrder
  <2>4. Members(skipped)' = Members(skipped) \cup {n}
    <3>1. Members(Append(skipped, n)) = Members(skipped) \cup {n}
      BY <1>1, MembersOfAppend
    <3> QED BY <2>1, <3>1 DEF Members
  <2>5. \A m \in Node : Decided(m) \/ m = n => Decided(m)'
    BY <1>1, <2>1, <2>4 DEF Decided, Members
  <2>6. ASSUME NEW m \in Node \ {n}, NEW s \in Node, WaitsFor(m, s) PROVE WaitsFor(m, s)'
    <3>1. MeetsIn(passes', at', m) = MeetsIn(passes, at, m)
      BY <1>1, <1>3
    <3>2. MeetsIn(passes, at, m) <= p[n] + Late(n, m)
      BY <1>1, <1>2, <2>2 DEF MeetsIn, Late
    <3>3. s \in Members(skipped)' => MeetsIn(passes, at, m) <= p[s] + Late(s, m)
      BY <2>4, <2>6, <3>2 DEF WaitsFor
    <3> QED BY <1>1, <2>6, <3>1, <3>3 DEF WaitsFor
  <2>7. \A m \in Node : \/ Decided(m)'
                        \/ MeetsIn(passes', at', m) = 1
                        \/ \E s \in Node : WaitsFor(m, s)'
    BY <1>1, <1>3, <2>5, <2>6 DEF LoopOrder
  <2> QED BY <1>1, <1>5, <2>1, <2>3, <2>7 DEF LoopOrder
<1>8. CASE MakeReady(n)
  <2>1. skipped' = skipped /\ ready' = Append(ready, n) /\ ~Decided(n) /\ ~Blocked(n)
    BY <1>8 DEF MakeReady
  <2>2. p[n] = passes
    BY <2>1, DecidedInPass
  <2>3. InOrder(rows, passes, at + 1, Append(ready, n))
    BY <1>1, <2>2, AppendInOrder DEF LoopOrder
  <2>4. Members(ready)' = Members(ready) \cup {n}
    <3>1. Members(Append(ready, n)) = Members(ready) \cup {n}
      BY <1>1, MembersOfAppend
    <3> QED BY <2>1, <3>1 DEF Members
  <2>5. \A m \in Node : Decided(m) \/ m = n => Decided(m)'
    BY <1>1, <2>1, <2>4 DEF Decided, Members
  <2>6. ASSUME NEW m \in Node \ {n}, NEW s \in Node, WaitsFor(m, s) PROVE WaitsFor(m, s)'
    BY <1>1, <1>3, <2>1, <2>6 DEF WaitsFor, Members
  <2>7. \A m \in Node : \/ Decided(m)'
                        \/ MeetsIn(passes', at', m) = 1
                        \/ \E s \in Node : WaitsFor(m, s)'
    BY <1>1, <1>3, <2>5, <2>6 DEF LoopOrder
  <2> QED BY <1>1, <1>5, <2>1, <2>3, <2>7 DEF LoopOrder
<1> QED BY <1>6, <1>7, <1>8 DEF Visit

LEMMA EndPassOrders == LoopInv /\ LoopOrder /\ EndPass => LoopOrder'
<1> SUFFICES ASSUME LoopInv, LoopOrder, EndPass PROVE LoopOrder'
  OBVIOUS
<1>1. /\ rows' = rows /\ skipped' = skipped /\ ready' = ready
      /\ \/ at' = 1 /\ passes' = passes + 1
         \/ at' = at /\ passes' = passes
  BY DEF EndPass
<1>2. at > Len(NodeList) /\ passes \in Nat /\ at \in Nat
  BY NodeListCovers DEF EndPass, LoopInv, LoopTypeOK
<1>3. CASE at' = at /\ passes' = passes
  BY <1>1, <1>3 DEF LoopOrder, WaitsFor, Decided, Members
<1>4. CASE at' = 1 /\ passes' = passes + 1
  <2>1. \A m \in Node : Declared(m) \in Nat /\ Declared(m) >= 1 /\ Declared(m) < at
    <3>1. \A i \in 1..Len(NodeList) : Declared(NodeList[i]) = i
      BY DeclaredHere
    <3> QED BY <1>2, <3>1, NodeListCovers
  <2>2. \A m \in Node : MeetsIn(passes', at', m) = MeetsIn(passes, at, m)
    BY <1>2, <1>4, <2>1 DEF MeetsIn
  <2>3. ASSUME NEW seq \in Seq(Node), InOrder(rows, passes, at, seq)
        PROVE  InOrder(rows, passes + 1, 1, seq)
    <3>1. \A i \in DOMAIN seq : PassOf(rows)[seq[i]] \in Nat
      BY PassesRise
    <3> QED BY <1>2, <2>3, <3>1 DEF InOrder
  <2>4. InOrder(rows, passes + 1, 1, skipped) /\ InOrder(rows, passes + 1, 1, ready)
    BY <2>3 DEF LoopOrder, LoopInv, LoopTypeOK
  <2>5. \A m \in Node : Decided(m)' <=> Decided(m)
    BY <1>1 DEF Decided, Members
  <2>6. \A m, s \in Node : WaitsFor(m, s) => WaitsFor(m, s)'
    BY <1>1, <2>2 DEF WaitsFor, Members
  <2> QED BY <1>1, <1>4, <2>2, <2>4, <2>5, <2>6 DEF LoopOrder
<1> QED BY <1>1, <1>3, <1>4

LEMMA DoneInOrder == LoopInv /\ LoopOrder => CascadeOrder
<1> SUFFICES ASSUME LoopInv, LoopOrder, done PROVE CascadeOrder
  BY DEF CascadeOrder
<1>1. Members(skipped) = Skips(rows) /\ Members(ready) = Ready(rows)
  BY DoneIsFixpoint DEF ComputesFixpoint
<1>2. skipped \in Seq(Node) /\ ready \in Seq(Node)
  BY DEF LoopInv, LoopTypeOK
<1>3. ASSUME NEW seq \in Seq(Node), InOrder(rows, passes, at, seq), NEW i \in DOMAIN seq
      PROVE  Ranking(rows, {seq[j] : j \in DOMAIN seq})[seq[i]] = i - 1
  BY <1>3, RankIsPlace DEF InOrder
<1>4. \A i \in DOMAIN skipped : Ranking(rows, Skips(rows))[skipped[i]] = i - 1
  BY <1>1, <1>2, <1>3 DEF LoopOrder, Members
<1>5. \A i \in DOMAIN ready : Ranking(rows, Ready(rows))[ready[i]] = i - 1
  BY <1>1, <1>2, <1>3 DEF LoopOrder, Members
<1> QED BY <1>4, <1>5 DEF CascadeOrder

\* Both results of Frontier::compute come out in cascade order, on every graph,
\* every order of the node list and every set of rows: what advance() skips
\* first, and hands out first, is what the module Frontier ranks first.
THEOREM LoopCascadeOrder == Spec => []CascadeOrder
<1>1. Init => LoopOrder
  <2> SUFFICES ASSUME Init PROVE LoopOrder
    OBVIOUS
  <2>1. \A n \in Node : Declared(n) \in Nat /\ Declared(n) >= 1
    BY DeclaredHere, NodeListCovers
  <2>2. \A n \in Node : MeetsIn(passes, at, n) = 1
    BY <2>1 DEF Init, MeetsIn
  <2> QED BY <2>2 DEF Init, LoopOrder, InOrder
<1>2. LoopInv /\ LoopOrder /\ [Next]_vars => LoopOrder'
  <2>1. LoopOrder /\ UNCHANGED vars => LoopOrder'
    BY DEF vars, LoopOrder, WaitsFor, Decided, Members
  <2> QED BY <2>1, VisitOrders, EndPassOrders DEF Next
<1> QED BY <1>1, <1>2, DoneInOrder, LoopInvariant, PTL DEF Spec

=============================================================================

----------------------------- MODULE FrontierFacts ----------------------------
(***************************************************************************)
(* Facts about the store's operations on a row and about the frontier that *)
(* the proofs about several drivers rest on: what it skips and readies,    *)
(* and the order in which its loop reaches nodes.                          *)
(*                                                                         *)
(* PassOf is defined by recursion along the skipped sources of a node.     *)
(* That such a function exists is no matter of course on a graph with      *)
(* cycles; here it follows from the skips being a least fixpoint, which is *)
(* also the induction principle of all that concerns the order (LeastSkips *)
(* and what follows it).                                                   *)
(***************************************************************************)
EXTENDS Frontier, FiniteSetTheorems, WellFoundedInduction, TLAPS

\* Each operation of the store turns a row into a row.
LEMMA RowTypes ==
  /\ Absent \in Row /\ Released \in Row
  /\ \A row \in Row :
       /\ \A w \in Owner, t \in Nat : Claimed(row, w, t) \in Row
       /\ \A P \in SUBSET RowPort : Completed(row, P) \in Row
       /\ Failed(row) \in Row /\ Paused(row) \in Row /\ Skipped(row) \in Row
<1>1. Absent \in Row
  BY DEF Absent, Row, RunStatus
<1>2. ASSUME NEW row \in Row, NEW w \in Owner, NEW t \in Nat
      PROVE  Claimed(row, w, t) \in Row
  <2>1. CASE row.status = "absent"
    <3>1. Claimed(row, w, t) = [status |-> "claimed", owner |-> w, attempts |-> 1,
                                first |-> t, ports |-> {}]
      BY <2>1 DEF Claimed, Absent
    <3> QED BY <3>1 DEF Row, RunStatus
  <2>2. CASE row.status # "absent"
    <3>1. Claimed(row, w, t) = [status |-> "claimed", owner |-> row.owner,
                                attempts |-> row.attempts + 1,
                                first |-> row.first, ports |-> row.ports]
      BY <2>2 DEF Claimed, Row
    <3> QED BY <3>1 DEF Row, RunStatus
  <2> QED BY <2>1, <2>2
<1>3. ASSUME NEW row \in Row, NEW P \in SUBSET RowPort
      PROVE  Completed(row, P) \in Row
  BY DEF Completed, Row, RunStatus
<1>4. ASSUME NEW row \in Row
      PROVE  Failed(row) \in Row /\ Paused(row) \in Row /\ Skipped(row) \in Row
  BY DEF Failed, Paused, Skipped, Row, RunStatus
<1> QED BY <1>1, <1>2, <1>3, <1>4 DEF Released

\* The skip rule is monotone: what it drops, given its least fixpoint, is in it.
LEMMA SkipsAreClosed ==
  ASSUME NEW r
  PROVE  Drops(r, Skips(r)) \subseteq Skips(r)
<1> SUFFICES ASSUME NEW n \in Drops(r, Skips(r)) PROVE n \in Skips(r)
  OBVIOUS
<1>1. n \in Undecided(r)
  BY DEF Drops, Unblocked
<1>2. ASSUME NEW S \in SUBSET Undecided(r), Drops(r, S) \subseteq S
      PROVE  n \in S
  <2>1. Skips(r) \subseteq S
    BY <1>2 DEF Skips
  <2>2. n \in Drops(r, S)
    BY <2>1 DEF Drops, Unblocked
  <2> QED BY <1>2, <2>2
<1> QED BY <1>1, <1>2 DEF Skips

\* Its least fixpoint is one of its own steps.
LEMMA SkipsAreDropped ==
  ASSUME NEW r
  PROVE  Skips(r) \subseteq Drops(r, Skips(r)) /\ Skips(r) \subseteq Undecided(r)
<1> DEFINE K == Skips(r)
           T == K \cap Drops(r, K)
<1>1. K \subseteq Undecided(r)
  BY DEF Skips
<1>2. Drops(r, K) \subseteq K
  BY SkipsAreClosed
<1>3. Drops(r, T) \subseteq T
  <2> SUFFICES ASSUME NEW n \in Drops(r, T) PROVE n \in T
    OBVIOUS
  <2>1. n \in Drops(r, K)
    BY DEF Drops, Unblocked
  <2> QED BY <1>2, <2>1
<1>4. K \subseteq T
  <2>1. T \in SUBSET Undecided(r)
    BY <1>1
  <2> HIDE DEF T
  <2> QED BY <1>3, <2>1 DEF Skips
<1> QED BY <1>1, <1>4

LEMMA ReadyIsReached ==
  ASSUME NEW r, NEW n \in Ready(r)
  PROVE  /\ n \in Node /\ n \notin Note /\ Lit(r, n)
         /\ Sources(n) \subseteq Settled(r) \cup Skips(r)
BY DEF Ready, Unblocked

LEMMA ClaimedMakes ==
  ASSUME NEW row \in Row, NEW w, NEW t
  PROVE  /\ Claimed(row, w, t).status = "claimed"
         /\ row.status = "absent" =>
              Claimed(row, w, t) = [status |-> "claimed", owner |-> w, attempts |-> 1,
                                    first |-> t, ports |-> {}]
         /\ row.status # "absent" =>
              Claimed(row, w, t) = [row EXCEPT !.status = "claimed", !.attempts = @ + 1]
BY DEF Claimed, Absent, Row

\* Once no skip is left to settle, the sources of a ready node are settled.
LEMMA QuietReady ==
  ASSUME NEW r, Drops(r, {}) = {}, NEW n \in Ready(r)
  PROVE  /\ r[n].status = "absent" /\ Lit(r, n) /\ n \in Node \ Note
         /\ Sources(n) \subseteq Settled(r)
<1>1. Skips(r) = {}
  <2>1. {} \in {S \in SUBSET Undecided(r) : Drops(r, S) \subseteq S}
    OBVIOUS
  <2> QED BY <2>1 DEF Skips
<1> QED BY <1>1, ReadyIsReached DEF Ready, Unblocked, Undecided

-----------------------------------------------------------------------------
(* Naturals and finite sets of them. *)

LEMMA LessWellFounded ==
  IsWellFoundedOn({pair \in Nat \X Nat : pair[1] < pair[2]}, Nat)
BY NatLessThanWellFounded DEF OpToRel

\* A non-empty set of naturals has a least element.
LEMMA LeastNatural ==
  ASSUME NEW T \in SUBSET Nat, T # {}
  PROVE  \E x \in T : \A y \in T : x <= y
<1> DEFINE Less == {pair \in Nat \X Nat : pair[1] < pair[2]}
<1>1. \A x, y \in Nat : y < x => <<y, x>> \in Less
  OBVIOUS
<1>2. IsWellFoundedOn(Less, Nat)
  BY LessWellFounded
<1>3. PICK x \in T : \A y \in T : ~(<<y, x>> \in Less)
  <2> HIDE DEF Less
  <2> QED BY <1>2, WFMin
<1>4. \A y \in T : ~(y < x)
  BY <1>1, <1>3
<1> QED BY <1>4

\* A non-empty finite set of naturals has a greatest element.
LEMMA FiniteMax ==
  ASSUME NEW S \in SUBSET Nat, IsFiniteSet(S), S # {}
  PROVE  Max(S) \in S /\ \A y \in S : y <= Max(S)
<1> DEFINE Above(x) == {y \in S : y > x}
           T == {Cardinality(Above(x)) : x \in S}
<1>1. \A x \in S : IsFiniteSet(Above(x)) /\ Cardinality(Above(x)) \in Nat
  <2> TAKE x \in S
  <2>1. Above(x) \in SUBSET S
    OBVIOUS
  <2> HIDE DEF Above
  <2> QED BY <2>1, FS_Subset, FS_CardinalityType
<1>2. T \in SUBSET Nat /\ T # {}
  <2> HIDE DEF Above
  <2> QED BY <1>1
<1>3. PICK c \in T : \A d \in T : c <= d
  <2> HIDE DEF T
  <2> QED BY <1>2, LeastNatural
<1>4. PICK x \in S : c = Cardinality(Above(x))
  OBVIOUS
<1>5. \A y \in S : ~(y > x)
  <2> SUFFICES ASSUME NEW y \in S, y > x PROVE FALSE
    OBVIOUS
  <2>0. x \in Nat /\ y \in Nat /\ y > x /\ S \subseteq Nat
    OBVIOUS
  <2>1. Above(y) \in SUBSET (Above(x) \ {y}) /\ y \in Above(x)
    <3>1. \A z \in S : z > y => z > x /\ z # y
      BY <2>0
    <3> QED BY <2>0, <3>1
  <2>2. Cardinality(Above(x)) <= Cardinality(Above(y))
    BY <1>3, <1>4
  <2> HIDE DEF Above
  <2>3. IsFiniteSet(Above(x) \ {y}) /\ Cardinality(Above(x) \ {y}) = Cardinality(Above(x)) - 1
    BY <1>1, <2>1, FS_RemoveElement
  <2>4. Cardinality(Above(y)) <= Cardinality(Above(x) \ {y})
    BY <2>1, <2>3, FS_Subset
  <2> QED BY <1>1, <2>2, <2>3, <2>4
<1>6. \A y \in S : x >= y
  BY <1>5
<1>7. Max(S) \in S /\ \A y \in S : Max(S) >= y
  BY <1>6 DEF Max
<1> QED BY <1>7

-----------------------------------------------------------------------------
(* The skips, by induction. *)

\* A set of skips that holds each node whose skipped sources it holds holds
\* every skip.
LEMMA LeastSkips ==
  ASSUME NEW r, NEW A \in SUBSET Skips(r),
         \A n \in Skips(r) : Sources(n) \cap Skips(r) \subseteq A => n \in A
  PROVE  Skips(r) \subseteq A
<1>1. Skips(r) \subseteq Undecided(r) /\ Skips(r) \subseteq Drops(r, Skips(r))
  BY SkipsAreDropped
<1>2. A \in SUBSET Undecided(r)
  BY <1>1
<1>3. ASSUME NEW n \in Drops(r, A) PROVE n \in A
  <2>1. n \in Undecided(r) /\ Sources(n) \subseteq Settled(r) \cup A
    BY DEF Drops, Unblocked
  <2>2. n \in Skips(r)
    <3>1. ASSUME NEW S \in SUBSET Undecided(r), Drops(r, S) \subseteq S PROVE n \in S
      <4>1. A \subseteq S
        BY <3>1 DEF Skips
      <4>2. n \in Drops(r, S)
        BY <4>1 DEF Drops, Unblocked
      <4> QED BY <3>1, <4>2
    <3> QED BY <2>1, <3>1 DEF Skips
  <2>3. Settled(r) \cap Skips(r) = {}
    BY <1>1 DEF Settled, Undecided, IsSettled
  <2>4. Sources(n) \cap Skips(r) \subseteq A
    BY <2>1, <2>3
  <2> QED BY <2>2, <2>4
<1>4. Drops(r, A) \subseteq A
  BY <1>3
<1> QED BY <1>2, <1>4 DEF Skips

\* No skip waits for itself.
LEMMA SkipNotOwnSource ==
  ASSUME NEW r, NEW n \in Skips(r)
  PROVE  n \notin Sources(n)
<1> DEFINE A == {m \in Skips(r) : m \notin Sources(m)}
<1>1. \A m \in Skips(r) : Sources(m) \cap Skips(r) \subseteq A => m \in A
  OBVIOUS
<1>2. Skips(r) \subseteq A
  <2>1. A \in SUBSET Skips(r)
    OBVIOUS
  <2> HIDE DEF A
  <2> QED BY <1>1, <2>1, LeastSkips
<1> QED BY <1>2

-----------------------------------------------------------------------------
(* Places in the node list. *)

LEMMA DeclaredPlace ==
  /\ \A n \in Node : Declared(n) \in Nat
  /\ \A m, n \in Node : Declared(m) = Declared(n) => m = n
<1>1. \A n \in Node : Declared(n) \in DOMAIN NodeList /\ NodeList[Declared(n)] = n
  BY GraphAssumption DEF GraphAssumption, Declared
<1>2. DOMAIN NodeList \subseteq Nat
  BY GraphAssumption DEF GraphAssumption
<1> QED BY <1>1, <1>2

LEMMA SourcesFinite ==
  ASSUME NEW n
  PROVE  Sources(n) \subseteq Node /\ IsFiniteSet(Sources(n))
<1>1. Sources(n) \in SUBSET Node
  BY GraphAssumption DEF GraphAssumption, Sources, Incoming
<1> QED BY <1>1, FS_Subset, GraphAssumption DEF GraphAssumption

-----------------------------------------------------------------------------
(* The equation of PassOf. *)

Late(s, n) == IF Declared(s) > Declared(n) THEN 1 ELSE 0

PassesOf(r, f, n) == {1} \cup {f[s] + Late(s, n) : s \in Sources(n) \cap Skips(r)}

LEMMA PassesAreNaturals ==
  ASSUME NEW r, NEW f, NEW n \in Node,
         \A s \in Sources(n) \cap Skips(r) : f[s] \in Nat
  PROVE  /\ Max(PassesOf(r, f, n)) \in Nat
         /\ Max(PassesOf(r, f, n)) \in PassesOf(r, f, n)
         /\ \A k \in PassesOf(r, f, n) : k <= Max(PassesOf(r, f, n))
<1> DEFINE A == Sources(n) \cap Skips(r)
           T == {f[s] + Late(s, n) : s \in A}
           g == [s \in A |-> f[s] + Late(s, n)]
<1>1. \A s \in A : Late(s, n) \in Nat
  BY DEF Late
<1>2. T \subseteq Nat
  BY <1>1
<1>3. IsFiniteSet(T)
  <2>1. IsFiniteSet(A)
    <3>1. A \in SUBSET Sources(n)
      OBVIOUS
    <3> HIDE DEF A
    <3> QED BY <3>1, SourcesFinite, FS_Subset
  <2>2. g \in Surjection(A, T)
    <3> HIDE DEF A
    <3> QED BY DEF Surjection
  <2> HIDE DEF A, T, g
  <2> QED BY <2>1, <2>2, FS_Surjection
<1>4. PassesOf(r, f, n) = {1} \cup T
  BY DEF PassesOf
<1>5. IsFiniteSet({1} \cup T)
  <2> HIDE DEF T
  <2> QED BY <1>3, FS_Union, FS_Singleton
<1>6. {1} \cup T \in SUBSET Nat /\ {1} \cup T # {}
  BY <1>2
<1> HIDE DEF T
<1> QED BY <1>4, <1>5, <1>6, FiniteMax

\* What the equation asks of a node depends on its skipped sources only.
LEMMA SamePasses ==
  ASSUME NEW r, NEW f, NEW g, NEW n,
         \A s \in Sources(n) \cap Skips(r) : f[s] = g[s]
  PROVE  PassesOf(r, f, n) = PassesOf(r, g, n)
BY DEF PassesOf

\* f solves the equation on D, which holds the skipped sources of its nodes.
Solves(r, D, f) ==
  /\ D \in SUBSET Skips(r)
  /\ \A n \in D : Sources(n) \cap Skips(r) \subseteq D
  /\ \A n \in D : f[n] \in Nat /\ f[n] = Max(PassesOf(r, f, n))

LEMMA SolutionsAgree ==
  ASSUME NEW r, NEW D, NEW f, NEW E, NEW g, Solves(r, D, f), Solves(r, E, g)
  PROVE  \A n \in D \cap E : f[n] = g[n]
<1> DEFINE A == {n \in Skips(r) : n \in D \cap E => f[n] = g[n]}
<1>1. ASSUME NEW n \in Skips(r), Sources(n) \cap Skips(r) \subseteq A PROVE n \in A
  <2> SUFFICES ASSUME n \in D \cap E PROVE f[n] = g[n]
    OBVIOUS
  <2>1. \A s \in Sources(n) \cap Skips(r) : f[s] = g[s]
    BY <1>1 DEF Solves
  <2>2. PassesOf(r, f, n) = PassesOf(r, g, n)
    BY <2>1, SamePasses
  <2> QED BY <2>2 DEF Solves
<1>2. Skips(r) \subseteq A
  <2>1. A \in SUBSET Skips(r)
    OBVIOUS
  <2> HIDE DEF A
  <2> QED BY <1>1, <2>1, LeastSkips
<1> QED BY <1>2 DEF Solves

\* The solutions on parts of the skips make up one on all of them.
LEMMA SolutionExists ==
  ASSUME NEW r
  PROVE  \E f : Solves(r, Skips(r), f)
<1> DEFINE Has(n, v) == \E D, f : Solves(r, D, f) /\ n \in D /\ v = f[n]
           E == {n \in Skips(r) : \E v : Has(n, v)}
           g == [n \in E |-> CHOOSE v : Has(n, v)]
<1>1. ASSUME NEW D, NEW f, Solves(r, D, f)
      PROVE  D \subseteq E /\ \A n \in D : g[n] = f[n]
  <2>1. \A n \in D : Has(n, f[n])
    BY <1>1
  <2>2. \A n \in D : \A v : Has(n, v) => v = f[n]
    BY <1>1, SolutionsAgree
  <2>3. D \subseteq Skips(r)
    BY <1>1 DEF Solves
  <2> HIDE DEF Has
  <2> QED BY <2>1, <2>2, <2>3
<1>2. ASSUME NEW n \in E
      PROVE  /\ Sources(n) \cap Skips(r) \subseteq E
             /\ g[n] \in Nat /\ g[n] = Max(PassesOf(r, g, n))
  <2>1. PICK D, f : Solves(r, D, f) /\ n \in D
    OBVIOUS
  <2> HIDE DEF E, g
  <2>2. D \subseteq E /\ \A m \in D : g[m] = f[m]
    BY <1>1, <2>1
  <2>3. Sources(n) \cap Skips(r) \subseteq D
    BY <2>1 DEF Solves
  <2>4. PassesOf(r, g, n) = PassesOf(r, f, n)
    BY <2>2, <2>3, SamePasses
  <2> QED BY <2>1, <2>2, <2>3, <2>4 DEF Solves
<1>3. E \in SUBSET Skips(r)
  OBVIOUS
<1> HIDE DEF E, g
<1>4. Solves(r, E, g)
  BY <1>2, <1>3 DEF Solves
<1>5. ASSUME NEW n \in Skips(r), Sources(n) \cap Skips(r) \subseteq E PROVE n \in E
  <2> DEFINE h == [m \in E \cup {n} |-> IF m \in E THEN g[m] ELSE Max(PassesOf(r, g, n))]
  <2> SUFFICES ASSUME n \notin E PROVE FALSE
    OBVIOUS
  <2>1. \A m \in E : h[m] = g[m]
    OBVIOUS
  <2>2. h[n] = Max(PassesOf(r, g, n))
    OBVIOUS
  <2> HIDE DEF h
  <2>3. \A m \in E : PassesOf(r, h, m) = PassesOf(r, g, m)
    BY <1>2, <2>1, SamePasses
  <2>4. PassesOf(r, h, n) = PassesOf(r, g, n)
    BY <1>5, <2>1, SamePasses
  <2>5. n \in Node
    BY SkipsAreDropped DEF Undecided
  <2>6. Max(PassesOf(r, g, n)) \in Nat
    BY <1>2, <1>5, <2>5, PassesAreNaturals
  <2>7. Solves(r, E \cup {n}, h)
    <3>1. E \cup {n} \in SUBSET Skips(r)
      BY <1>3
    <3>2. \A m \in E \cup {n} : Sources(m) \cap Skips(r) \subseteq E \cup {n}
      BY <1>2, <1>5
    <3>3. \A m \in E \cup {n} : h[m] \in Nat /\ h[m] = Max(PassesOf(r, h, m))
      BY <1>2, <2>1, <2>2, <2>3, <2>4, <2>6
    <3> QED BY <3>1, <3>2, <3>3 DEF Solves
  <2> QED BY <1>1, <2>7
<1>6. Skips(r) \subseteq E
  BY <1>3, <1>5, LeastSkips
<1>7. E = Skips(r)
  BY <1>3, <1>6
<1> QED BY <1>4, <1>7

\* PassOf is what its equation says.
LEMMA PassOfSolves ==
  ASSUME NEW r
  PROVE  PassOf(r) = [n \in Node |-> Max(PassesOf(r, PassOf(r), n))]
<1>1. PICK g : Solves(r, Skips(r), g)
  BY SolutionExists
<1> DEFINE h == [n \in Node |-> Max(PassesOf(r, g, n))]
<1>2. \A n \in Skips(r) : h[n] = g[n]
  BY <1>1, SkipsAreDropped DEF Solves, Undecided
<1>3. \A n \in Node : PassesOf(r, h, n) = PassesOf(r, g, n)
  BY <1>2, SamePasses
<1>4. h = [n \in Node |-> Max(PassesOf(r, h, n))]
  BY <1>3
<1>5. PassOf(r) = CHOOSE f : f = [n \in Node |-> Max(PassesOf(r, f, n))]
  BY DEF PassOf, PassesOf, Late
<1> HIDE DEF h
<1> QED BY <1>4, <1>5

LEMMA PassesRise ==
  ASSUME NEW r
  PROVE  /\ \A n \in Node : PassOf(r)[n] \in Nat
         /\ \A n \in Node : \A s \in Sources(n) \cap Skips(r) :
              PassOf(r)[s] + Late(s, n) <= PassOf(r)[n]
<1> DEFINE p == PassOf(r)
           A == {n \in Skips(r) : p[n] \in Nat}
<1>1. Skips(r) \subseteq Node
  BY SkipsAreDropped DEF Undecided
<1>2. \A n \in Node : p[n] = Max(PassesOf(r, p, n))
  BY PassOfSolves
<1> HIDE DEF p
<1>3. \A n \in Skips(r) : Sources(n) \cap Skips(r) \subseteq A => n \in A
  BY <1>1, <1>2, PassesAreNaturals
<1>4. \A s \in Skips(r) : p[s] \in Nat
  <2>1. A \in SUBSET Skips(r)
    OBVIOUS
  <2>2. Skips(r) \subseteq A
    <3> HIDE DEF A
    <3> QED BY <1>3, <2>1, LeastSkips
  <2> QED BY <2>2
<1>5. ASSUME NEW n \in Node
      PROVE  /\ p[n] \in Nat
             /\ \A s \in Sources(n) \cap Skips(r) : p[s] + Late(s, n) <= p[n]
  <2>1. /\ Max(PassesOf(r, p, n)) \in Nat
        /\ \A k \in PassesOf(r, p, n) : k <= Max(PassesOf(r, p, n))
    BY <1>4, PassesAreNaturals
  <2>2. \A s \in Sources(n) \cap Skips(r) : p[s] + Late(s, n) \in PassesOf(r, p, n)
    BY DEF PassesOf
  <2> QED BY <1>2, <2>1, <2>2
<1> QED BY <1>5 DEF p

\* A node is reached in the first pass, or in one that a skipped source sets.
LEMMA PassIsSet ==
  ASSUME NEW r, NEW n \in Node
  PROVE  /\ 1 <= PassOf(r)[n]
         /\ \/ PassOf(r)[n] = 1
            \/ \E s \in Sources(n) \cap Skips(r) : PassOf(r)[n] = PassOf(r)[s] + Late(s, n)
<1> DEFINE p == PassOf(r)
<1>1. \A s \in Sources(n) \cap Skips(r) : p[s] \in Nat
  BY PassesRise, SkipsAreDropped DEF Undecided
<1>2. p[n] = Max(PassesOf(r, p, n))
  BY PassOfSolves
<1> HIDE DEF p
<1>3. p[n] \in PassesOf(r, p, n) /\ \A k \in PassesOf(r, p, n) : k <= p[n]
  BY <1>1, <1>2, PassesAreNaturals
<1>4. 1 <= p[n] /\ (p[n] = 1 \/ \E s \in Sources(n) \cap Skips(r) : p[n] = p[s] + Late(s, n))
  BY <1>3 DEF PassesOf
<1> QED BY <1>4 DEF p

-----------------------------------------------------------------------------
(* Ranks. *)

\* The order of the loop: by pass, and within a pass as declared.
Earlier(r, m, n) ==
  \/ PassOf(r)[m] < PassOf(r)[n]
  \/ PassOf(r)[m] = PassOf(r)[n] /\ Declared(m) < Declared(n)

LEMMA EarlierOrders ==
  ASSUME NEW r
  PROVE  /\ \A m \in Node : ~Earlier(r, m, m)
         /\ \A m, n \in Node : m # n => Earlier(r, m, n) \/ Earlier(r, n, m)
         /\ \A k, m, n \in Node : Earlier(r, k, m) /\ Earlier(r, m, n) => Earlier(r, k, n)
<1> DEFINE p == PassOf(r)
<1>1. \A n \in Node : p[n] \in Nat
  BY PassesRise
<1>2. \A m, n \in Node : Earlier(r, m, n) <=>
        p[m] < p[n] \/ (p[m] = p[n] /\ Declared(m) < Declared(n))
  BY DEF Earlier
<1> HIDE DEF p
<1> QED BY <1>1, <1>2, DeclaredPlace

LEMMA RankingCounts ==
  ASSUME NEW r, NEW S \in SUBSET Node
  PROVE  /\ DOMAIN Ranking(r, S) = S
         /\ \A n \in S : /\ Ranking(r, S)[n] = Cardinality({m \in S : Earlier(r, m, n)})
                          /\ Ranking(r, S)[n] \in Nat
         /\ \A n \in S : IsFiniteSet({m \in S : Earlier(r, m, n)})
<1>1. Ranking(r, S) = [n \in S |-> Cardinality({m \in S : Earlier(r, m, n)})]
  BY DEF Ranking, Earlier
<1>2. ASSUME NEW n \in S
      PROVE  /\ IsFiniteSet({m \in S : Earlier(r, m, n)})
             /\ Cardinality({m \in S : Earlier(r, m, n)}) \in Nat
  <2>1. {m \in S : Earlier(r, m, n)} \in SUBSET Node
    OBVIOUS
  <2> QED BY <2>1, FS_Subset, FS_CardinalityType, GraphAssumption DEF GraphAssumption
<1> QED BY <1>1, <1>2

\* What the loop reaches earlier has the smaller rank.
LEMMA RankingOrders ==
  ASSUME NEW r, NEW S \in SUBSET Node, NEW m \in S, NEW n \in S, Earlier(r, m, n)
  PROVE  Ranking(r, S)[m] < Ranking(r, S)[n]
<1> DEFINE B(k) == {j \in S : Earlier(r, j, k)}
<1>1. B(m) \cup {m} \in SUBSET B(n) /\ m \notin B(m)
  <2>1. m \in Node /\ n \in Node /\ S \subseteq Node
    OBVIOUS
  <2> QED BY <2>1, EarlierOrders
<1>2. /\ Ranking(r, S)[m] = Cardinality(B(m)) /\ Ranking(r, S)[m] \in Nat
      /\ Ranking(r, S)[n] = Cardinality(B(n)) /\ Ranking(r, S)[n] \in Nat
      /\ IsFiniteSet(B(m)) /\ IsFiniteSet(B(n))
  BY RankingCounts
<1> HIDE DEF B
<1>3. /\ IsFiniteSet(B(m) \cup {m})
      /\ Cardinality(B(m) \cup {m}) = Cardinality(B(m)) + 1
  BY <1>1, <1>2, FS_AddElement
<1>4. Cardinality(B(m) \cup {m}) <= Cardinality(B(n))
  BY <1>1, <1>2, FS_Subset
<1> QED BY <1>2, <1>3, <1>4

LEMMA RanksDiffer ==
  ASSUME NEW r, NEW S \in SUBSET Node, NEW m \in S, NEW n \in S, m # n
  PROVE  Ranking(r, S)[m] # Ranking(r, S)[n]
<1>1. Earlier(r, m, n) \/ Earlier(r, n, m)
  BY EarlierOrders
<1>2. Ranking(r, S)[m] \in Nat /\ Ranking(r, S)[n] \in Nat
  BY RankingCounts
<1> QED BY <1>1, <1>2, RankingOrders

\* A skipped source comes before the nodes it feeds.
THEOREM SourceBefore ==
  ASSUME NEW r, NEW n \in Skips(r), NEW s \in Sources(n) \cap Skips(r)
  PROVE  Ranking(r, Skips(r))[s] < Ranking(r, Skips(r))[n]
<1>1. Skips(r) \in SUBSET Node
  BY SkipsAreDropped DEF Undecided
<1>2. s # n
  BY SkipNotOwnSource
<1>3. PassOf(r)[s] + Late(s, n) <= PassOf(r)[n] /\ PassOf(r)[s] \in Nat /\ PassOf(r)[n] \in Nat
  BY <1>1, PassesRise
<1>4. Earlier(r, s, n)
  BY <1>1, <1>2, <1>3, DeclaredPlace DEF Earlier, Late
<1> QED BY <1>1, <1>4, RankingOrders

\* Some node has the first rank.
LEMMA FirstRank ==
  ASSUME NEW r, NEW S \in SUBSET Node, S # {}
  PROVE  \E n \in S : Ranking(r, S)[n] = 0
<1> DEFINE T == {Ranking(r, S)[n] : n \in S}
<1>1. T \in SUBSET Nat /\ T # {}
  <2>1. \A n \in S : Ranking(r, S)[n] \in Nat
    BY RankingCounts
  <2> QED BY <2>1
<1>2. PICK x \in T : \A y \in T : x <= y
  <2> HIDE DEF T
  <2> QED BY <1>1, LeastNatural
<1>3. PICK n \in S : x = Ranking(r, S)[n]
  OBVIOUS
<1>4. {m \in S : Earlier(r, m, n)} = {}
  <2> SUFFICES ASSUME NEW m \in S, Earlier(r, m, n) PROVE FALSE
    OBVIOUS
  <2>1. Ranking(r, S)[m] < x /\ x <= Ranking(r, S)[m]
    BY <1>2, <1>3, RankingOrders
  <2>2. x \in Nat /\ Ranking(r, S)[m] \in Nat
    BY <1>1
  <2> QED BY <2>1, <2>2
<1>5. Ranking(r, S)[n] = 0
  BY <1>4, RankingCounts, FS_EmptySet
<1> QED BY <1>5

\* A list in the loop's order gives each member its place as its rank.
LEMMA RankIsPlace ==
  ASSUME NEW r, NEW seq \in Seq(Node),
         \A i, j \in DOMAIN seq : i < j => Earlier(r, seq[i], seq[j]),
         NEW i \in DOMAIN seq
  PROVE  Ranking(r, {seq[j] : j \in DOMAIN seq})[seq[i]] = i - 1
<1> DEFINE S == {seq[j] : j \in DOMAIN seq}
           B == {m \in S : Earlier(r, m, seq[i])}
           g == [j \in 1..(i - 1) |-> seq[j]]
<1>1. /\ i \in Nat /\ i >= 1 /\ \A j \in 1..(i - 1) : j \in DOMAIN seq /\ j < i
      /\ DOMAIN seq \subseteq Nat /\ \A j \in DOMAIN seq : seq[j] \in Node /\ j >= 1
  OBVIOUS
<1>2. \A j \in DOMAIN seq : Earlier(r, seq[j], seq[i]) => j \in 1..(i - 1)
  <2> SUFFICES ASSUME NEW j \in DOMAIN seq, Earlier(r, seq[j], seq[i]) PROVE j \in 1..(i - 1)
    OBVIOUS
  <2>1. seq[i] \in Node /\ seq[j] \in Node
    BY <1>1
  <2>2. j # i
    BY <2>1, EarlierOrders
  <2>3. ~Earlier(r, seq[i], seq[j])
    BY <2>1, EarlierOrders
  <2>4. ~(i < j)
    BY <2>3
  <2> QED BY <1>1, <2>2, <2>4
<1>3. g \in Injection(1..(i - 1), B)
  <2>1. \A j \in 1..(i - 1) : g[j] \in B
    BY <1>1
  <2>2. ASSUME NEW j \in 1..(i - 1), NEW k \in 1..(i - 1), j < k PROVE g[j] # g[k]
    <3>1. Earlier(r, seq[j], seq[k]) /\ seq[k] \in Node
      BY <1>1, <2>2
    <3> QED BY <3>1, EarlierOrders
  <2>3. \A j, k \in 1..(i - 1) : j = k \/ j < k \/ k < j
    BY <1>1
  <2>4. \A j, k \in 1..(i - 1) : g[j] = g[k] => j = k
    <3> HIDE DEF g
    <3> QED BY <2>2, <2>3
  <2>5. g \in [1..(i - 1) -> B]
    BY <2>1
  <2> HIDE DEF g, B
  <2> QED BY <2>4, <2>5 DEF Injection, IsInjective
<1>4. g \in Surjection(1..(i - 1), B)
  <2>1. \A m \in B : \E j \in 1..(i - 1) : g[j] = m
    BY <1>2
  <2>2. g \in [1..(i - 1) -> B]
    BY <1>3 DEF Injection
  <2> HIDE DEF g, B
  <2> QED BY <2>1, <2>2 DEF Surjection
<1>5. IsFiniteSet(1..(i - 1)) /\ Cardinality(1..(i - 1)) = i - 1
  <2>1. i - 1 \in Int /\ 1 \in Int
    BY <1>1
  <2>2. /\ IsFiniteSet(1..(i - 1))
        /\ Cardinality(1..(i - 1)) = IF 1 > i - 1 THEN 0 ELSE (i - 1) - 1 + 1
    BY <2>1, FS_Interval
  <2> QED BY <1>1, <2>2
<1>6. Cardinality(B) = i - 1
  <2> HIDE DEF g, B
  <2> QED BY <1>3, <1>4, <1>5, FS_Surjection
<1>7. S \in SUBSET Node /\ seq[i] \in S
  BY <1>1
<1> HIDE DEF S
<1>8. Ranking(r, S)[seq[i]] = Cardinality(B)
  BY <1>7, RankingCounts
<1> QED BY <1>6, <1>8 DEF S

\* Of nodes ranked apart, at most k are ranked below k.
LEMMA FewBelow ==
  ASSUME NEW f, NEW F, NEW k \in Nat,
         \A n \in F : f[n] \in Nat /\ f[n] < k,
         \A m, n \in F : f[m] = f[n] => m = n
  PROVE  IsFiniteSet(F) /\ Cardinality(F) <= k
<1> DEFINE g == [n \in F |-> f[n]]
<1>1. g \in Injection(F, 0..k - 1)
  <2>1. \A n \in F : f[n] \in 0..k - 1
    OBVIOUS
  <2> QED BY <2>1 DEF Injection, IsInjective
<1>2. IsFiniteSet(0..k - 1) /\ Cardinality(0..k - 1) = k
  BY FS_Interval
<1> HIDE DEF g
<1> QED BY <1>1, <1>2, FS_Injection

=============================================================================

--------------------------- MODULE EngineWalkProofs ---------------------------
(***************************************************************************)
(* The engine's walk is correct on every graph, in every order that puts   *)
(* sources first, whatever it is resumed from, and wherever a signal, the  *)
(* budget or an executor ends it; and a replay of every snapshot a durable *)
(* run can hold decides what the rows decide.                              *)
(*                                                                         *)
(* The argument is that the walk never looks back: what lies behind the    *)
(* cursor is decided by edges whose sources lie further behind, and those  *)
(* edges never change again (DarkStays).                                   *)
(***************************************************************************)
EXTENDS EngineWalkProps, FrontierFacts

Size == Cardinality(Node)

-----------------------------------------------------------------------------
(* Orders. *)

\* An order has every node in it, and exactly once.
LEMMA OrderCovers ==
  ASSUME NEW o \in Orders
  PROVE  /\ Size \in Nat /\ Len(o) = Size /\ o \in [1..Size -> Node]
         /\ \A n \in Node : \E i \in 1..Size : o[i] = n
         /\ \A i, j \in 1..Size : o[i] = o[j] => i = j
<1>1. IsFiniteSet(Node) /\ Size \in Nat
  BY FS_CardinalityType, GraphAssumption DEF GraphAssumption, Size
<1>2. o \in [1..Size -> Node] /\ \A i, j \in 1..Size : o[i] = o[j] => i = j
  BY DEF Orders, SourcesFirst, Size
<1>3. Len(o) = Size
  BY <1>1, <1>2
<1>4. o \in Injection(1..Size, Node)
  BY <1>2 DEF Injection, IsInjective
<1>5. IsFiniteSet(1..Size) /\ Cardinality(1..Size) = Size
  BY <1>1, FS_Interval
<1>6. o \in Surjection(1..Size, Node)
  BY <1>1, <1>4, <1>5, FS_Injection DEF Size
<1> QED BY <1>1, <1>2, <1>3, <1>6 DEF Surjection

\* What an edge into a place reads lies at an earlier place.
LEMMA SourcesBehind ==
  ASSUME NEW o \in Orders, NEW i \in 1..Len(o), NEW e \in Incoming(o[i])
  PROVE  \E j \in 1..i - 1 : o[j] = e.source
<1>1. e \in Edges /\ e.target = o[i] /\ e.source \in Node
  BY GraphAssumption DEF GraphAssumption, Incoming
<1>2. PICK j \in 1..Len(o) : o[j] = e.source
  BY <1>1, OrderCovers
<1>3. j < i
  BY <1>1, <1>2, OrderCovers DEF Orders, SourcesFirst
<1> QED BY <1>2, <1>3, OrderCovers

-----------------------------------------------------------------------------
(* Types, and why a walk stops. *)

\* The walk stands on the node it called.
Called ==
  /\ cursor <= Len(order)
  /\ Here \notin DOMAIN given.stored /\ ~Dark(Here) /\ Here \notin Note \cup Lane
  /\ ran[Here] = IF Here \in given.fenced THEN 0 ELSE 1

WalkTypeOK ==
  /\ given \in Starts
  /\ IF Acyclic THEN order \in Orders
     ELSE /\ order = <<>> /\ state = "finished" /\ error = "cycle"
          /\ ran = [n \in Node |-> 0]
  /\ cursor \in 1..Len(order) + 1
  /\ outputs \subseteq Node /\ warned \subseteq Edges
  /\ ran \in [Node -> Nat]
  /\ state \in {"walking", "awaiting", "finished"}
  /\ error \in {"none", "cycle", "timeout", "unbound", "abort"}
  /\ signal \in BOOLEAN /\ expired \in BOOLEAN /\ cancelled \in BOOLEAN

\* The walk stops at the end, or for a reason it was given.
StopInv ==
  /\ state # "finished" => error = "none" /\ ~cancelled
  /\ signal \/ expired \/ cancelled \/ error = "timeout" => given.interrupts
  /\ error = "cycle" => ~Acyclic
  /\ error = "unbound" => given.unbound # {}
  /\ error = "abort" => cursor <= Len(order) /\ Here \notin given.fenced
  /\ state = "awaiting" => cursor <= Len(order)
  /\ ResultOk => Acyclic /\ cursor = Len(order) + 1

LEMMA LenOrder ==
  ASSUME WalkTypeOK
  PROVE  /\ Len(order) \in Nat
         /\ \A i \in 1..Len(order) : order[i] \in Node /\ Acyclic /\ order \in Orders
<1>1. CASE Acyclic
  BY <1>1, OrderCovers DEF WalkTypeOK
<1>2. CASE ~Acyclic
  BY <1>2 DEF WalkTypeOK
<1> QED BY <1>1, <1>2

LEMMA InitTypes == Init => WalkTypeOK /\ StopInv
<1> SUFFICES ASSUME Init PROVE WalkTypeOK /\ StopInv
  OBVIOUS
<1>1. Len(order) \in Nat
  BY OrderCovers DEF Init
<1>2. cursor \in 1..Len(order) + 1
  BY <1>1 DEF Init
<1>3. IF Acyclic THEN order \in Orders /\ state = "walking" /\ error = "none"
      ELSE order = <<>> /\ state = "finished" /\ error = "cycle"
  BY DEF Init
<1>4. WalkTypeOK
  BY <1>2, <1>3 DEF Init, WalkTypeOK
<1> QED BY <1>3, <1>4 DEF Init, StopInv, ResultOk

LEMMA TypesKept ==
  WalkTypeOK /\ StopInv /\ [Next]_vars => WalkTypeOK' /\ StopInv'
<1> SUFFICES ASSUME WalkTypeOK, StopInv, [Next]_vars
             PROVE  WalkTypeOK' /\ StopInv'
  OBVIOUS
<1>1. /\ Len(order) \in Nat /\ cursor \in Nat \ {0} /\ cursor <= Len(order) + 1
      /\ cursor <= Len(order) => Here \in Node /\ Acyclic
      /\ state # "finished" => Acyclic
  BY LenOrder DEF WalkTypeOK, Here
<1>2. \A n : Undelivered(n) \subseteq Edges
  BY DEF Undelivered, Incoming
<1> USE DEF WalkTypeOK, StopInv, ResultOk, interrupts
<1>3. CASE Cancel
  BY <1>1, <1>3 DEF Cancel, Looking
<1>4. CASE TimeOut
  BY <1>1, <1>4 DEF TimeOut, Looking
<1>5. CASE Republish
  BY <1>1, <1>5 DEF Republish, Looking, Publish
<1>6. CASE PassDead \/ PassVisual
  BY <1>1, <1>2, <1>6 DEF PassDead, PassVisual, Reached, Looking
<1>7. CASE Unregistered
  BY <1>1, <1>2, <1>7 DEF Unregistered, Reached, Looking
<1>8. CASE Call
  BY <1>1, <1>2, <1>8 DEF Call, Reached, Looking
<1>9. CASE Return
  BY <1>1, <1>9 DEF Return, Publish
<1>10. CASE Abort
  BY <1>1, <1>10 DEF Abort, Here
<1>11. CASE EndOfOrder
  BY <1>1, <1>11 DEF EndOfOrder
<1>12. CASE Trip \/ Expire
  <2>1. /\ UNCHANGED <<given, order, cursor, state, outputs, warned, error, cancelled, ran>>
        /\ signal' \in BOOLEAN /\ expired' \in BOOLEAN
        /\ given.interrupts /\ state # "finished"
    BY <1>12 DEF Trip, Expire
  <2>2. WalkTypeOK'
    BY <2>1
  <2> QED BY <1>1, <2>1, <2>2 DEF Here
<1>13. CASE UNCHANGED vars
  BY <1>1, <1>13 DEF vars, Here
<1> QED BY <1>3, <1>4, <1>5, <1>6, <1>7, <1>8, <1>9, <1>10, <1>11, <1>12, <1>13
        DEF Next, Step

\* Nothing is called after the walk must stop, and what stopped it stays.
THEOREM WalkStops == Spec => NothingStartsAfterStop
<1>1. WalkTypeOK /\ StopInv /\ [Next]_vars =>
        [/\ signal \/ expired \/ error # "none" \/ cancelled => ran' = ran
         /\ error # "none" \/ cancelled => UNCHANGED <<error, cancelled, outputs>>]_vars
  <2> SUFFICES ASSUME StopInv, Next
               PROVE  /\ signal \/ expired \/ error # "none" \/ cancelled => ran' = ran
                      /\ error # "none" \/ cancelled =>
                           UNCHANGED <<error, cancelled, outputs>>
    OBVIOUS
  <2>1. CASE Step
    BY <2>1 DEF StopInv, Step, Cancel, TimeOut, Republish, PassDead, PassVisual, Unregistered,
                Call, Return, Abort, EndOfOrder, Reached, Looking
  <2>2. CASE Trip \/ Expire
    BY <2>2 DEF Trip, Expire
  <2> QED BY <2>1, <2>2 DEF Next
<1> QED BY <1>1, InitTypes, TypesKept, PTL DEF Spec, NothingStartsAfterStop


-----------------------------------------------------------------------------
(* Decisions. *)

Visited(n) == \E i \in 1..cursor - 1 : order[i] = n

\* What OkMeansDecided asks of one node.
Live(n) == ~Dark(n) /\ n \notin Note \cup Lane

Decided(n) ==
  /\ (n \in outputs) = (n \in DOMAIN given.stored \/ Live(n))
  /\ ran[n] = IF Live(n) /\ n \notin DOMAIN given.stored /\ n \notin given.fenced
              THEN 1 ELSE 0

\* Behind the cursor every node is decided, from it on none is.
DecideInv ==
  /\ \A i \in 1..cursor - 1 : Decided(order[i])
  /\ \A i \in cursor..Len(order) :
       /\ order[i] \notin outputs
       /\ i > cursor \/ ~(state = "awaiting" \/ error = "abort") => ran[order[i]] = 0
  /\ \A e \in Edges : <<e.source, e.port>> \in lit => Visited(e.source)
  /\ state = "awaiting" \/ error = "abort" => Called

WalkInv == WalkTypeOK /\ StopInv /\ DecideInv

\* The cursor passes one node, lighting ports of it at most.
Passing ==
  /\ cursor <= Len(order) /\ cursor' = cursor + 1
  /\ \E P : lit' = lit \cup {<<Here, p>> : p \in P}
  /\ outputs' \in {outputs, outputs \cup {Here}}
  /\ UNCHANGED <<given, order, ran>>

\* An edge into a node at or behind the cursor keeps its light when the
\* cursor moves on.
LEMMA EdgeStays ==
  ASSUME WalkTypeOK, Passing, NEW i \in 1..cursor, NEW e \in Incoming(order[i])
  PROVE  /\ e \in Edges /\ Visited(e.source) /\ e.source # Here
         /\ (<<e.source, e.port>> \in lit') = (<<e.source, e.port>> \in lit)
         /\ (e.source \in outputs') = (e.source \in outputs)
<1>1. /\ Len(order) \in Nat /\ cursor \in 1..Len(order)
      /\ order \in Orders /\ i \in 1..Len(order)
  BY LenOrder DEF WalkTypeOK, Passing
<1>2. PICK j \in 1..i - 1 : order[j] = e.source
  BY <1>1, SourcesBehind
<1>3. Visited(e.source)
  BY <1>1, <1>2 DEF Visited
<1>4. e.source # Here
  BY <1>1, <1>2, OrderCovers DEF Here
<1>5. (<<e.source, e.port>> \in lit') = (<<e.source, e.port>> \in lit)
  BY <1>4 DEF Passing
<1> QED BY <1>3, <1>4, <1>5 DEF Passing, Incoming

LEMMA DarkStays ==
  ASSUME WalkTypeOK, Passing, NEW i \in 1..cursor
  PROVE  Dark(order[i])' = Dark(order[i])
<1>1. Incoming(order[i])' = Incoming(order[i])
  BY DEF Passing, Incoming
<1> QED BY <1>1, EdgeStays DEF Dark

\* A walk that passes a node it has decided rightly keeps its invariant.
LEMMA PassingKeeps ==
  ASSUME WalkInv, Passing, state' # "awaiting", error' = "none",
         /\ (Here \in outputs') = (Here \in DOMAIN given.stored \/ Live(Here))
         /\ ran[Here] = IF Live(Here) /\ Here \notin DOMAIN given.stored
                           /\ Here \notin given.fenced
                        THEN 1 ELSE 0
  PROVE  DecideInv'
<1> USE DEF WalkInv
<1>1. /\ Len(order) \in Nat /\ cursor \in 1..Len(order)
      /\ order \in Orders /\ cursor' = cursor + 1
      /\ order' = order /\ given' = given /\ ran' = ran
  BY LenOrder DEF WalkTypeOK, Passing
<1>2. ASSUME NEW i \in 1..cursor PROVE Decided(order[i])'
  <2>1. Live(order[i])' = Live(order[i])
    BY <1>1, DarkStays DEF Live
  <2>2. CASE i = cursor
    BY <1>1, <2>1, <2>2 DEF Decided, Here
  <2>3. CASE i # cursor
    <3>1. i \in 1..cursor - 1 /\ Decided(order[i])
      BY <1>1, <2>3 DEF DecideInv
    <3>2. order[i] # Here
      BY <1>1, <2>3, OrderCovers DEF Here
    <3> QED BY <1>1, <2>1, <3>1, <3>2 DEF Decided, Passing
  <2> QED BY <2>2, <2>3
<1>3. ASSUME NEW i \in cursor + 1..Len(order)
      PROVE  order[i] \notin outputs' /\ ran[order[i]] = 0
  <2>1. order[i] # Here
    BY <1>1, OrderCovers DEF Here
  <2> QED BY <1>1, <2>1 DEF DecideInv, Passing
<1>4. ASSUME NEW e \in Edges, <<e.source, e.port>> \in lit'
      PROVE  \E i \in 1..cursor : order[i] = e.source
  BY <1>1, <1>4 DEF Passing, DecideInv, Visited, Here
<1> QED BY <1>1, <1>2, <1>3, <1>4 DEF DecideInv, Visited

LEMMA InitDecides == Init => DecideInv
<1> SUFFICES ASSUME Init PROVE DecideInv
  OBVIOUS
<1>1. WalkTypeOK
  BY InitTypes
<1>2. /\ Len(order) \in Nat /\ cursor = 1 /\ outputs = {} /\ lit = {}
      /\ \A i \in 1..Len(order) : ran[order[i]] = 0
  BY <1>1, LenOrder DEF Init
<1> QED BY <1>2 DEF Init, DecideInv

\* A step that stays on its node and decides nothing.
Standing ==
  /\ UNCHANGED <<given, order, cursor, lit, outputs, ran>>
  /\ (state' = "awaiting" \/ error' = "abort") = (state = "awaiting" \/ error = "abort")

LEMMA StandingKeeps == DecideInv /\ Standing => DecideInv'
BY DEF DecideInv, Standing, Decided, Called, Here, Live, Dark, Incoming, Visited

LEMMA DecisionsKept == WalkInv /\ [Next]_vars => WalkInv'
<1> SUFFICES ASSUME WalkInv, [Next]_vars PROVE DecideInv'
  BY TypesKept DEF WalkInv
<1> USE DEF WalkInv
<1>1. /\ Len(order) \in Nat /\ cursor \in Nat \ {0}
      /\ cursor <= Len(order) => Here \in Node /\ cursor \in 1..Len(order)
  BY LenOrder DEF WalkTypeOK, Here
<1>2. Looking => ran[Here] = 0 /\ Here \notin outputs
  BY <1>1 DEF Looking, DecideInv, StopInv, Here
<1>3. CASE Republish
  <2>1. Passing
    BY <1>3 DEF Republish, Looking, Publish, Passing
  <2> QED BY <1>1, <1>2, <1>3, <2>1, PassingKeeps DEF Republish, Looking, Publish, StopInv
<1>4. CASE PassDead \/ PassVisual
  <2>1. Passing
    <3>1. lit' = lit \cup {<<Here, p>> : p \in {}}
      BY <1>4 DEF PassDead, PassVisual, Reached
    <3> QED BY <1>4, <3>1 DEF PassDead, PassVisual, Reached, Looking, Passing
  <2> QED BY <1>1, <1>2, <1>4, <2>1, PassingKeeps
          DEF PassDead, PassVisual, Reached, Looking, StopInv, Live
<1>5. CASE Return
  <2>1. Called /\ error = "none" /\ error' = "none"
    BY <1>5 DEF Return, DecideInv, StopInv
  <2>2. Passing
    BY <1>5, <2>1 DEF Return, Publish, Passing, Called
  <2> QED BY <1>1, <1>5, <2>1, <2>2, PassingKeeps DEF Return, Publish, Called, Live
<1>6. CASE Call
  <2>1. /\ cursor \in 1..Len(order) /\ Here \in Node /\ error' = "none"
        /\ state' = "awaiting"
        /\ UNCHANGED <<given, order, cursor, lit, outputs>>
    BY <1>1, <1>6 DEF Call, Reached, Looking, StopInv
  <2>2. \A n \in Node : n # Here => ran'[n] = ran[n]
    BY <1>6, <2>1 DEF Call, WalkTypeOK
  <2>3. \A i \in 1..Len(order) : i # cursor => order[i] # Here /\ order[i] \in Node
    BY <2>1, LenOrder, OrderCovers DEF Here
  <2>4. Called'
    <3>1. Here \notin DOMAIN given.stored /\ ~Dark(Here) /\ Here \notin Note \cup Lane
      BY <1>6 DEF Call, Reached
    <3>2. ran'[Here] = IF Here \in given.fenced THEN 0 ELSE 1
      BY <1>2, <1>6, <2>1 DEF Call, Reached, WalkTypeOK
    <3> QED BY <2>1, <3>1, <3>2 DEF Called, Here, Dark, Incoming
  <2>5. \A i \in 1..cursor - 1 : Decided(order[i])'
    BY <1>1, <2>1, <2>2, <2>3 DEF DecideInv, Decided, Live, Dark, Incoming
  <2>6. \A i \in cursor..Len(order) : /\ order[i] \notin outputs
                                     /\ i > cursor => ran'[order[i]] = 0
    BY <1>1, <2>1, <2>2, <2>3 DEF DecideInv
  <2> QED BY <2>1, <2>4, <2>5, <2>6 DEF DecideInv, Visited
<1>7. CASE Abort
  <2>1. Standing
    BY <1>7 DEF Abort, Standing
  <2> QED BY <2>1, StandingKeeps
<1>8. CASE \/ Cancel \/ TimeOut \/ Unregistered \/ EndOfOrder \/ Trip \/ Expire
           \/ UNCHANGED vars
  <2>1. Standing
    BY <1>8 DEF Cancel, TimeOut, Unregistered, EndOfOrder, Trip, Expire, vars, Reached,
                Looking, StopInv, Standing
  <2> QED BY <2>1, StandingKeeps
<1> QED BY <1>3, <1>4, <1>5, <1>6, <1>7, <1>8 DEF Next, Step

\* Every node has been decided when a walk succeeds, and rightly: whatever it
\* was resumed from, and on any graph.
THEOREM DecidesAll == Spec => []OkMeansDecided
<1>1. WalkInv => OkMeansDecided
  <2> SUFFICES ASSUME WalkInv, ResultOk PROVE OkMeansDecided
    BY DEF OkMeansDecided
  <2>1. Acyclic /\ cursor = Len(order) + 1 /\ order \in Orders
    BY DEF WalkInv, StopInv, WalkTypeOK
  <2>2. ASSUME NEW n \in Node PROVE Decided(n)
    <3>1. PICK i \in 1..Len(order) : order[i] = n
      BY <2>1, OrderCovers
    <3> QED BY <2>1, <3>1, LenOrder DEF WalkInv, DecideInv
  <2>3. ASSUME NEW n \in Node
        PROVE  Live(n) = /\ (\E e \in Edges : e.target = n) =>
                              \E e \in Edges : e.target = n /\ <<e.source, e.port>> \in lit
                         /\ n \notin Note \cup Lane
    BY DEF Live, Dark, Incoming
  <2> QED BY <2>2, <2>3, Zenon DEF OkMeansDecided, Decided
<1>2. Init => WalkInv
  BY InitTypes, InitDecides DEF WalkInv
<1> QED BY <1>1, <1>2, DecisionsKept, PTL DEF Spec

-----------------------------------------------------------------------------
(* Replays. *)

\* What replay_up_to gives the walk it starts.
LEMMA ReplayGiven ==
  ASSUME WalkTypeOK, given.fenced # {}
  PROVE  /\ given.rows \in [Node -> Row]
         /\ \A n \in Node : Plausible(given.rows, n)
         /\ DOMAIN given.stored = {n \in Node : given.rows[n].status = "completed"}
         /\ \A n \in DOMAIN given.stored : given.stored[n] = given.rows[n].ports
         /\ given.unbound = {} /\ ~given.interrupts
         /\ \A n \in Node \ given.fenced : IsHeld(given.rows[n])
         /\ \A m, n \in Node \ given.fenced : m = n
<1>1. PICK target \in {{}} \cup {{n} : n \in Held(given.rows)} :
        given = Replaying(given.rows, target)
  BY ReplayAssumption DEF WalkTypeOK
<1>2. given.rows \in [Node -> Row] /\ \A n \in Node : Plausible(given.rows, n)
  BY ReplayAssumption DEF WalkTypeOK
<1>3. /\ given.stored = [n \in {m \in Node : given.rows[m].status = "completed"} |->
                           given.rows[n].ports]
      /\ given.fenced = Node \ target
      /\ given.unbound = {} /\ given.interrupts = FALSE
  <2>1. \A r, T : /\ Replaying(r, T).stored =
                         [n \in {m \in Node : r[m].status = "completed"} |-> r[n].ports]
                  /\ Replaying(r, T).fenced = Node \ T
                  /\ Replaying(r, T).unbound = {} /\ Replaying(r, T).interrupts = FALSE
    BY DEF Replaying
  <2>2. /\ given.stored = Replaying(given.rows, target).stored
        /\ given.fenced = Replaying(given.rows, target).fenced
        /\ given.unbound = Replaying(given.rows, target).unbound
        /\ given.interrupts = Replaying(given.rows, target).interrupts
    BY <1>1, Zenon
  <2> QED BY <2>1, <2>2
<1>4. \A n \in target : IsHeld(given.rows[n]) /\ target = {n}
  BY DEF Held
<1> QED BY <1>2, <1>3, <1>4

\* Behind the cursor, a fenced node lights what its row says it lit.
ReplayInv ==
  given.fenced # {} =>
    \A e \in Edges : Visited(e.source) /\ e.source \in given.fenced =>
      (<<e.source, e.port>> \in lit) = Active(given.rows, e)

LEMMA ReplayKept == WalkInv /\ ReplayInv /\ [Next]_vars => ReplayInv'
<1> SUFFICES ASSUME WalkInv, ReplayInv, [Next]_vars, given'.fenced # {},
                    NEW e \in Edges, Visited(e.source)', e.source \in given'.fenced
             PROVE  (<<e.source, e.port>> \in lit)' = Active(given'.rows, e)
  BY DEF ReplayInv, Active
<1> USE DEF WalkInv
<1>1. ASSUME UNCHANGED <<given, order, cursor, lit>>
      PROVE  (<<e.source, e.port>> \in lit)' = Active(given'.rows, e)
  BY <1>1 DEF ReplayInv, Visited
<1>2. ASSUME Passing, NEW P, lit' = lit \cup {<<Here, p>> : p \in P},
             Here \in DOMAIN given.stored => P = given.stored[Here],
             Here \in given.fenced \ DOMAIN given.stored => P = {}
      PROVE  (<<e.source, e.port>> \in lit)' = Active(given'.rows, e)
  <2>1. /\ Len(order) \in Nat /\ cursor \in 1..Len(order) /\ Here \in Node
        /\ order \in Orders /\ given' = given
        /\ given.fenced # {} /\ e.source \in given.fenced
    BY <1>2, LenOrder DEF WalkTypeOK, Passing, Here
  <2>2. CASE e.source = Here
    <3>1. <<e.source, e.port>> \notin lit
      <4>1. ~Visited(Here)
        BY <2>1, OrderCovers DEF Visited, Here
      <4> QED BY <2>2, <4>1 DEF DecideInv
    <3>2. (<<e.source, e.port>> \in lit)' = (e.port \in P)
      BY <1>2, <2>2, <3>1
    <3>3. Active(given.rows, e) = (Here \in DOMAIN given.stored
                                     /\ e.port \in given.stored[Here])
      BY <2>1, <2>2, ReplayGiven DEF Active
    <3>4. (e.port \in P) = Active(given.rows, e)
      BY <1>2, <2>1, <2>2, <3>3
    <3> QED BY <2>1, <3>2, <3>4
  <2>3. CASE e.source # Here
    <3>1. Visited(e.source)
      BY <1>2, <2>1, <2>3 DEF Visited, Passing, Here
    <3>2. (<<e.source, e.port>> \in lit)' = (<<e.source, e.port>> \in lit)
      BY <1>2, <2>3
    <3> QED BY <2>1, <3>1, <3>2 DEF ReplayInv
  <2> QED BY <2>2, <2>3
<1>3. CASE Republish
  <2>1. Passing /\ lit' = lit \cup {<<Here, p>> : p \in given.stored[Here]}
    BY <1>3 DEF Republish, Looking, Publish, Passing
  <2> QED BY <1>2, <1>3, <2>1 DEF Republish
<1>4. CASE PassDead \/ PassVisual
  <2>1. lit' = lit \cup {<<Here, p>> : p \in {}}
    BY <1>4 DEF PassDead, PassVisual, Reached
  <2>2. Passing
    BY <1>4, <2>1 DEF PassDead, PassVisual, Reached, Looking, Passing
  <2> QED BY <1>2, <1>4, <2>1, <2>2 DEF PassDead, PassVisual, Reached
<1>5. CASE Return
  <2>1. Called
    BY <1>5 DEF Return, DecideInv
  <2>2. PICK P \in IF Here \in given.fenced THEN {{}} ELSE Outcomes[Here] :
          Publish(Here, P)
    BY <1>5 DEF Return
  <2>3. Passing /\ lit' = lit \cup {<<Here, p>> : p \in P}
    BY <1>5, <2>1, <2>2 DEF Return, Publish, Passing, Called
  <2> QED BY <1>2, <2>1, <2>2, <2>3 DEF Called
<1>6. CASE \/ Cancel \/ TimeOut \/ Unregistered \/ Call \/ Abort \/ EndOfOrder
           \/ Trip \/ Expire \/ UNCHANGED vars
  BY <1>1, <1>6 DEF Cancel, TimeOut, Unregistered, Call, Abort, EndOfOrder, Trip, Expire,
                    vars, Reached
<1> QED BY <1>3, <1>4, <1>5, <1>6 DEF Next, Step

\* A node none of whose sources is the target is lit as the rows have it.
LEMMA LitAgrees ==
  ASSUME WalkInv, ReplayInv, given.fenced # {},
         NEW i \in 1..Len(order), i <= cursor, Sources(order[i]) \subseteq given.fenced
  PROVE  Dark(order[i]) = ~Lit(given.rows, order[i])
<1>1. ASSUME NEW e \in Incoming(order[i])
      PROVE  (<<e.source, e.port>> \in lit) = Active(given.rows, e)
  <2>1. order \in Orders /\ cursor \in Nat
    BY LenOrder DEF WalkInv, WalkTypeOK
  <2>2. PICK j \in 1..i - 1 : order[j] = e.source
    BY <2>1, SourcesBehind
  <2>3. Visited(e.source)
    BY <2>1, <2>2 DEF Visited
  <2> QED BY <2>3 DEF ReplayInv, Incoming, Sources
<1> QED BY <1>1 DEF Dark, Lit

\* A replay calls its target exactly when the rows alone say it should: the
\* verdict run_node acts on, for every graph and every snapshot.
THEOREM ReplayDecides == Spec => []VerdictIsTheRows
<1>1. WalkInv /\ ReplayInv => VerdictIsTheRows
  <2> SUFFICES ASSUME WalkInv, ReplayInv, Over, NEW n \in Node
               PROVE  ran[n] = IF Target(n) /\ ExecutorRuns(given.rows, n) THEN 1 ELSE 0
    BY DEF VerdictIsTheRows
  <2> USE DEF WalkInv
  <2>1. CASE ~Acyclic
    BY <2>1 DEF WalkTypeOK, ExecutorRuns
  <2>2. CASE Acyclic
    <3>1. /\ order \in Orders /\ Len(order) \in Nat /\ cursor \in 1..Len(order) + 1
          /\ given.fenced # {}
      BY <2>2, LenOrder DEF WalkTypeOK, Over
    <3>2. PICK i \in 1..Len(order) : order[i] = n
      BY <3>1, OrderCovers
    <3>3. Target(n) /\ i <= cursor => Live(n) = ExecutorRuns(given.rows, n)
      <4>1. Target(n) => Sources(n) \subseteq given.fenced
        <5>1. \A e \in Incoming(n) : e.source \in Node /\ e.source # n
          <6> SUFFICES ASSUME NEW e \in Incoming(n) PROVE e.source \in Node /\ e.source # n
            OBVIOUS
          <6>1. PICK j \in 1..i - 1 : order[j] = e.source
            BY <3>1, <3>2, SourcesBehind
          <6>2. j # i /\ j \in 1..Len(order)
            BY <3>1, <3>2
          <6> QED BY <3>1, <3>2, <6>1, <6>2, LenOrder, OrderCovers
        <5> QED BY <3>1, <5>1, ReplayGiven DEF Target, Sources
      <4> QED BY <2>2, <3>1, <3>2, <4>1, LitAgrees DEF Live, ExecutorRuns
    <3>4. n \notin given.fenced => n \notin DOMAIN given.stored
      BY <3>1, ReplayGiven DEF IsHeld
    <3>5. CASE i < cursor
      BY <3>1, <3>2, <3>3, <3>4, <3>5 DEF DecideInv, Decided, Target
    <3>6. CASE i >= cursor
      <4>1. error = "abort"
        BY <3>1, <3>6, ReplayGiven DEF Over, StopInv, WalkTypeOK, ResultOk
      <4>2. Called /\ Here \notin given.fenced /\ Here \in Node
        BY <3>1, <4>1, LenOrder DEF DecideInv, StopInv, Here
      <4>3. CASE n = Here
        <5>1. i = cursor
          <6>1. cursor \in 1..Len(order) /\ order[cursor] = order[i]
            BY <3>1, <3>2, <4>2, <4>3 DEF Called, Here
          <6>2. \A a, b \in 1..Len(order) : order[a] = order[b] => a = b
            BY <3>1, OrderCovers
          <6> QED BY <6>1, <6>2
        <5>2. Target(n) /\ Live(n) /\ ran[n] = 1
          BY <4>2, <4>3 DEF Called, Live, Target
        <5>3. ExecutorRuns(given.rows, n)
          BY <3>1, <3>3, <5>1, <5>2 DEF ExecutorRuns, Live
        <5> QED BY <5>2, <5>3
      <4>4. CASE n # Here
        <5>1. ran[n] = 0 
          BY <3>1, <3>2, <3>6, <4>1, <4>2, <4>4 DEF DecideInv, Here
        <5> QED BY <3>1, <4>2, <4>4, <5>1, ReplayGiven DEF Target
      <4> QED BY <4>3, <4>4
    <3> QED BY <3>1, <3>5, <3>6
  <2> QED BY <2>1, <2>2
<1>2. Init => WalkInv /\ ReplayInv
  BY InitTypes, InitDecides DEF WalkInv, Init, ReplayInv, Visited
<1> QED BY <1>1, <1>2, DecisionsKept, ReplayKept, PTL DEF Spec

-----------------------------------------------------------------------------
(* Frontier and walk. *)

\* What a replay that ended well says of a node whose sources are decided.
LEMMA ReplaySays ==
  ASSUME WalkInv, ReplayInv, ResultOk, given.fenced # {}, NEW n \in Node,
         \A s \in Sources(n) : ~IsHeld(given.rows[s])
  PROVE  /\ (n \in outputs) = \/ given.rows[n].status = "completed"
                              \/ Lit(given.rows, n) /\ n \notin Note \cup Lane
         /\ \A e \in Incoming(n) :
              (<<e.source, e.port>> \in lit) = Active(given.rows, e)
<1>1. /\ Acyclic /\ order \in Orders /\ Len(order) \in Nat /\ cursor = Len(order) + 1
      /\ WalkTypeOK
  BY LenOrder DEF WalkInv, WalkTypeOK, StopInv
<1>2. PICK i \in 1..Len(order) : order[i] = n
  BY <1>1, OrderCovers
<1>3. Sources(n) \subseteq given.fenced
  <2>1. Sources(n) \subseteq Node
    BY GraphAssumption DEF GraphAssumption, Sources, Incoming
  <2> QED BY <1>1, <2>1, ReplayGiven
<1>4. Dark(n) = ~Lit(given.rows, n)
  BY <1>1, <1>2, <1>3, LitAgrees
<1>5. Decided(n)
  BY <1>1, <1>2 DEF WalkInv, DecideInv
<1>6. (n \in DOMAIN given.stored) = (given.rows[n].status = "completed")
  BY <1>1, ReplayGiven
<1>7. (n \in outputs) = \/ given.rows[n].status = "completed"
                        \/ Lit(given.rows, n) /\ n \notin Note \cup Lane
  BY <1>4, <1>5, <1>6, Zenon DEF Decided, Live
<1>8. ASSUME NEW e \in Incoming(n)
      PROVE  (<<e.source, e.port>> \in lit) = Active(given.rows, e)
  <2>1. PICK j \in 1..i - 1 : order[j] = e.source
    BY <1>1, <1>2, SourcesBehind
  <2>2. Visited(e.source)
    BY <1>1, <2>1 DEF Visited
  <2> QED BY <1>3, <2>2 DEF ReplayInv, Sources, Incoming
<1> QED BY <1>7, <1>8

\* Nodes the frontier decides have no held source.
LEMMA DecidedSources ==
  ASSUME NEW r, NEW n \in Node, Sources(n) \subseteq Settled(r) \cup Skips(r)
  PROVE  \A s \in Sources(n) : s \in Node /\ ~IsHeld(r[s])
BY SkipsAreDropped DEF Settled, Undecided, IsSettled, IsHeld

LEMMA SkippedNode ==
  ASSUME NEW r, NEW n \in Skips(r)
  PROVE  /\ n \in Node /\ r[n].status = "absent"
         /\ Sources(n) \subseteq Settled(r) \cup Skips(r)
         /\ ~Lit(r, n) \/ n \in Note
BY SkipsAreDropped DEF Drops, Unblocked, Undecided

\* Walk and frontier decide alike on every graph and every snapshot a run can
\* take.
THEOREM WalkAgrees == Spec => []WalkAgreesWithFrontier
<1>1. WalkInv /\ ReplayInv => WalkAgreesWithFrontier
  <2> SUFFICES ASSUME WalkInv, ReplayInv, given.fenced # {}, ResultOk
               PROVE  /\ \A n \in Skips(given.rows) : n \notin outputs
                      /\ \A n \in Ready(given.rows) \ Lane : n \in outputs
    BY DEF WalkAgreesWithFrontier, Over
  <2>1. ASSUME NEW n \in Skips(given.rows) PROVE n \notin outputs
    BY SkippedNode, DecidedSources, ReplaySays
  <2>2. ASSUME NEW n \in Ready(given.rows) \ Lane PROVE n \in outputs
    BY ReadyIsReached, DecidedSources, ReplaySays
  <2> QED BY <2>1, <2>2
<1>2. Init => WalkInv /\ ReplayInv
  BY InitTypes, InitDecides DEF WalkInv, Init, ReplayInv, Visited
<1> QED BY <1>1, <1>2, DecisionsKept, ReplayKept, PTL DEF Spec

-----------------------------------------------------------------------------
(* Warnings. *)

\* Each node the walk did not resume has been warned about, once and for all,
\* when the walk passes it.
Warned(i) ==
  \A e \in Incoming(order[i]) :
    (e \in warned) = (order[i] \notin DOMAIN given.stored /\ e \in Undelivered(order[i]))

WarnInv ==
  /\ \A i \in 1..cursor - 1 : Warned(i)
  /\ state = "awaiting" => Warned(cursor)
  /\ \A i \in 1..Len(order) :
       i > cursor \/ (i = cursor /\ state = "walking") =>
         \A e \in Incoming(order[i]) : e \notin warned

\* The warnings about a node behind the cursor stay right.
LEMMA WarnedStays ==
  ASSUME WalkTypeOK, Passing, NEW i \in 1..cursor,
         \A e \in Incoming(order[i]) :
           (e \in warned') = (order[i] \notin DOMAIN given.stored /\ e \in Undelivered(order[i]))
  PROVE  Warned(i)'
<1>1. /\ order' = order /\ given' = given
      /\ Incoming(order[i])' = Incoming(order[i])
  BY DEF Passing, Incoming
<1>2. ASSUME NEW e \in Incoming(order[i])
      PROVE  (e \in Undelivered(order[i]))' = (e \in Undelivered(order[i]))
  BY <1>1, EdgeStays DEF Undelivered
<1> QED BY <1>1, <1>2 DEF Warned

LEMMA WarningsKept == WalkInv /\ WarnInv /\ [Next]_vars => WarnInv'
<1> SUFFICES ASSUME WalkInv, WarnInv, [Next]_vars PROVE WarnInv'
  OBVIOUS
<1> USE DEF WalkInv
<1>1. /\ Len(order) \in Nat /\ cursor \in Nat \ {0}
      /\ cursor <= Len(order) => Here \in Node /\ cursor \in 1..Len(order) /\ order \in Orders
  BY LenOrder DEF WalkTypeOK, Here
<1>2. ASSUME cursor <= Len(order), NEW i \in 1..Len(order), i # cursor,
             NEW e \in Incoming(order[i])
      PROVE  e \notin Undelivered(Here) /\ e \notin Incoming(Here)
  <2>1. order[i] # Here
    BY <1>1, <1>2, OrderCovers DEF Here
  <2> QED BY <2>1 DEF Undelivered, Incoming
<1>3. ASSUME Passing, state' = "walking",
             \A i \in 1..Len(order) : \A e \in Incoming(order[i]) :
               i # cursor => (e \in warned') = (e \in warned),
             \A e \in Incoming(Here) :
               (e \in warned') = (Here \notin DOMAIN given.stored /\ e \in Undelivered(Here))
      PROVE  WarnInv'
  <2>1. cursor \in 1..Len(order) /\ cursor' = cursor + 1 /\ order' = order
    BY <1>1, <1>3 DEF Passing
  <2>2. ASSUME NEW i \in 1..cursor PROVE Warned(i)'
    <3>1. ASSUME NEW e \in Incoming(order[i])
          PROVE  (e \in warned') = (order[i] \notin DOMAIN given.stored
                                      /\ e \in Undelivered(order[i]))
      <4>1. CASE i = cursor
        BY <1>3, <4>1 DEF Here
      <4>2. CASE i # cursor
        <5>1. Warned(i)
          BY <2>1, <4>2 DEF WarnInv
        <5>2. (e \in warned') = (e \in warned)
          BY <1>3, <2>1, <4>2
        <5> QED BY <5>1, <5>2 DEF Warned
      <4> QED BY <4>1, <4>2
    <3> QED BY <1>3, <3>1, WarnedStays
  <2>3. ASSUME NEW i \in 1..Len(order), i > cursor, NEW e \in Incoming(order[i])
        PROVE  e \notin warned'
    BY <1>1, <1>3, <2>1, <2>3 DEF WarnInv
  <2> QED BY <1>1, <1>3, <2>1, <2>2, <2>3 DEF WarnInv, Incoming
<1>4. ASSUME UNCHANGED <<given, order, cursor, lit, outputs>>,
             \A i \in 1..Len(order) : \A e \in Incoming(order[i]) :
               i # cursor => (e \in warned') = (e \in warned),
             \/ state' = "finished"
             \/ state' = state /\ warned' = warned
             \/ state' = "awaiting" /\ Warned(cursor)'
      PROVE  WarnInv'
  <2> DEFINE Due(i) == {e \in Incoming(order[i]) : order[i] \notin DOMAIN given.stored
                                                    /\ e \in Undelivered(order[i])}
  <2>5. \A i : Due(i)' = Due(i) /\ Incoming(order[i])' = Incoming(order[i])
    BY <1>4 DEF Undelivered, Incoming
  <2>6. \A i : /\ Warned(i) = \A e \in Incoming(order[i]) : (e \in warned) = (e \in Due(i))
               /\ Warned(i)' = \A e \in Incoming(order[i])' : (e \in warned') = (e \in Due(i)')
    BY DEF Warned
  <2> HIDE DEF Due
  <2>1. \A i \in 1..Len(order) : i # cursor /\ Warned(i) => Warned(i)'
    BY <1>4, <2>5, <2>6
  <2>2. warned' = warned /\ Warned(cursor) => Warned(cursor)'
    BY <1>4, <2>5, <2>6
  <2>3. \A i \in 1..cursor - 1 : i \in 1..Len(order) /\ i # cursor
    BY <1>1 DEF WalkTypeOK
  <2> QED BY <1>1, <1>4, <2>1, <2>2, <2>3 DEF WarnInv, Incoming
<1>5. CASE Republish
  <2>1. Passing
    BY <1>5 DEF Republish, Looking, Publish, Passing
  <2>2. \A e \in Incoming(Here) : e \notin warned
    BY <1>1, <1>5 DEF Republish, Looking, WarnInv, Here
  <2> QED BY <1>3, <1>5, <2>1, <2>2 DEF Republish, Looking
<1>6. CASE PassDead \/ PassVisual
  <2>1. lit' = lit \cup {<<Here, p>> : p \in {}}
    BY <1>6 DEF PassDead, PassVisual, Reached
  <2>2. Passing /\ state' = "walking" /\ Here \notin DOMAIN given.stored
        /\ warned' = warned \cup Undelivered(Here) /\ cursor <= Len(order)
    BY <1>6, <2>1 DEF PassDead, PassVisual, Reached, Looking, Passing
  <2>3. \A e \in Incoming(Here) : e \notin warned
    BY <1>1, <1>6, <2>2 DEF PassDead, PassVisual, Reached, Looking, WarnInv, Here
  <2> QED BY <1>2, <1>3, <2>2, <2>3
<1>7. CASE Return
  <2>1. Called
    BY <1>7 DEF Return, DecideInv
  <2>2. Passing /\ state' = "walking" /\ warned' = warned
    BY <1>7, <2>1 DEF Return, Publish, Passing, Called
  <2>3. Warned(cursor)
    BY <1>7 DEF Return, WarnInv
  <2> QED BY <1>3, <2>1, <2>2, <2>3 DEF Warned, Called, Here
<1>8. CASE Call
  <2>1. /\ UNCHANGED <<given, order, cursor, lit, outputs>> /\ cursor <= Len(order)
        /\ state' = "awaiting" /\ Here \notin DOMAIN given.stored
        /\ warned' = warned \cup Undelivered(Here)
    BY <1>8 DEF Call, Reached, Looking
  <2>2. \A e \in Incoming(Here) : e \notin warned
    BY <1>1, <1>8, <2>1 DEF Call, Reached, Looking, WarnInv, Here
  <2>3. Warned(cursor)'
    <3>1. Undelivered(Here)' = Undelivered(Here) /\ Incoming(Here)' = Incoming(Here)
      BY <2>1 DEF Undelivered, Incoming, Here
    <3>2. \A e \in Incoming(Here) : (e \in warned') = (e \in Undelivered(Here))
      BY <2>1, <2>2
    <3> QED BY <2>1, <3>1, <3>2 DEF Warned, Here
  <2> QED BY <1>2, <1>4, <2>1, <2>3
<1>9. CASE Unregistered
  <2>1. /\ UNCHANGED <<given, order, cursor, lit, outputs>> /\ cursor <= Len(order)
        /\ state' = "finished" /\ warned' = warned \cup Undelivered(Here)
    BY <1>9 DEF Unregistered, Reached, Looking
  <2>2. ASSUME NEW i \in 1..Len(order), i # cursor, NEW e \in Incoming(order[i])
        PROVE  (e \in warned') = (e \in warned)
    BY <1>2, <2>1, <2>2
  <2> QED BY <1>4, <2>1, <2>2
<1>10. CASE Cancel \/ TimeOut \/ Abort \/ EndOfOrder \/ Trip \/ Expire \/ UNCHANGED vars
  BY <1>4, <1>10 DEF Cancel, TimeOut, Abort, EndOfOrder, Trip, Expire, vars
<1> QED BY <1>5, <1>6, <1>7, <1>8, <1>9, <1>10 DEF Next, Step

\* Against a node the frontier skips, engine and coordinator warn alike: the
\* walk from what it has, the coordinator from the rows.
THEOREM WarnsAlike == Spec => []WarningsAgree
<1>1. WalkInv /\ ReplayInv /\ WarnInv => WarningsAgree
  <2> SUFFICES ASSUME WalkInv, ReplayInv, WarnInv, given.fenced # {}, ResultOk,
                      NEW n \in Skips(given.rows),
                      \A s \in Sources(n) : given.rows[s].status # "failed"
               PROVE  {e \in warned : e.target = n}
                        = UndeliveredRows(given.rows, Possible, n)
    BY DEF WarningsAgree, Over
  <2> DEFINE r == given.rows
  <2>1. /\ n \in Node /\ r[n].status = "absent"
        /\ Sources(n) \subseteq Settled(r) \cup Skips(r)
        /\ \A s \in Sources(n) : s \in Node /\ ~IsHeld(r[s])
    BY SkippedNode, DecidedSources
  <2>2. /\ Acyclic /\ order \in Orders /\ Len(order) \in Nat /\ cursor = Len(order) + 1
        /\ WalkTypeOK
    BY LenOrder DEF WalkInv, WalkTypeOK, StopInv
  <2>3. n \notin DOMAIN given.stored
    BY <2>1, <2>2, ReplayGiven
  <2>4. \A e \in Incoming(n) : (e \in warned) = (e \in Undelivered(n))
    <3>1. PICK i \in 1..Len(order) : order[i] = n
      BY <2>1, <2>2, OrderCovers
    <3> QED BY <2>2, <2>3, <3>1 DEF WarnInv, Warned
  <2>5. ASSUME NEW s \in Sources(n)
        PROVE  (s \in outputs) = (r[s].status = "completed")
    <3>1. CASE r[s].status = "absent"
      <4>1. s \in Skips(r)
        BY <2>1, <3>1 DEF Settled, IsSettled
      <4> QED BY <3>1, <4>1, SkippedNode, DecidedSources, ReplaySays
    <3>2. CASE r[s].status # "absent"
      <4>1. /\ Plausible(r, s) /\ r[s] \in Row
        BY <2>1, <2>2, ReplayGiven
      <4>2. /\ Sources(s) \subseteq Settled(r)
            /\ r[s].status = "skipped" => ~Lit(r, s) \/ s \in Note \cup Lane
        BY <3>2, <4>1 DEF Plausible
      <4>3. \A t \in Sources(s) : ~IsHeld(r[t])
        BY <4>2 DEF Settled, IsSettled, IsHeld
      <4>4. r[s].status \in {"completed", "skipped"}
        BY <2>1, <3>2, <4>1 DEF Row, RunStatus, IsHeld
      <4> QED BY <2>1, <4>2, <4>3, <4>4, ReplaySays
    <3> QED BY <3>1, <3>2
  <2>6. \A e \in Incoming(n) : (<<e.source, e.port>> \in lit) = Active(r, e)
    BY <2>1, ReplaySays
  <2>7. \A e \in Incoming(n) : (e \in Undelivered(n)) = (e \in UndeliveredRows(r, Possible, n))
    BY <2>5, <2>6 DEF Undelivered, UndeliveredRows, Active, Sources
  <2>8. /\ UndeliveredRows(r, Possible, n) \subseteq Incoming(n)
        /\ \A e \in warned : e.target = n => e \in Incoming(n)
        /\ \A e \in Incoming(n) : e.target = n
    BY <2>2 DEF UndeliveredRows, Incoming, WalkTypeOK
  <2> HIDE DEF r
  <2> QED BY <2>4, <2>7, <2>8 DEF r
<1>2. Init => WalkInv /\ ReplayInv /\ WarnInv
  <2>1. Init => WalkInv
    BY InitTypes, InitDecides DEF WalkInv
  <2>2. Init => ReplayInv /\ WarnInv
    BY DEF Init, ReplayInv, WarnInv, Visited
  <2> QED BY <2>1, <2>2
<1> QED BY <1>1, <1>2, DecisionsKept, ReplayKept, WarningsKept, PTL DEF Spec

-----------------------------------------------------------------------------
(* The walk of a whole graph is a run of DurableRun. *)

PhaseOf(n) ==
  IF ~Whole THEN "pending"
  ELSE IF n \in outputs THEN "completed"
  ELSE IF \E i \in 1..cursor - 1 : order[i] = n THEN "skipped"
  ELSE IF Acyclic /\ cursor <= Len(order) /\ order[cursor] = n
       THEN IF state = "awaiting" THEN "held"
            ELSE IF error \in {"unbound", "abort"} THEN "failed"
            ELSE "pending"
  ELSE "pending"

Phase == [n \in Node |-> PhaseOf(n)]
Ports == [n \in Node |-> {p \in Port : Whole /\ <<n, p>> \in lit}]

\* Only a node with an output has lit a port.
LitInv == \A e \in Edges : <<e.source, e.port>> \in lit => e.source \in outputs

LEMMA LitKept == LitInv /\ [Next]_vars => LitInv'
BY DEF LitInv, Next, Step, Cancel, TimeOut, Republish, PassDead, PassVisual, Unregistered,
       Call, Return, Abort, EndOfOrder, Trip, Expire, Reached, Publish, vars

\* A node's phase, by its place.
PlaceInv ==
  \A i \in 1..Len(order) :
    /\ i < cursor => PhaseOf(order[i]) = IF order[i] \in outputs THEN "completed"
                                          ELSE "skipped"
    /\ i = cursor => PhaseOf(order[i]) = IF state = "awaiting" THEN "held"
                                          ELSE IF error \in {"unbound", "abort"}
                                               THEN "failed" ELSE "pending"
    /\ i > cursor => PhaseOf(order[i]) = "pending"

LEMMA PlacePhase == WalkInv /\ Whole => PlaceInv
<1> SUFFICES ASSUME WalkInv, Whole, NEW i \in 1..Len(order)
    PROVE  /\ i < cursor => PhaseOf(order[i]) = IF order[i] \in outputs THEN "completed"
                                                 ELSE "skipped"
           /\ i = cursor => PhaseOf(order[i]) = IF state = "awaiting" THEN "held"
                                                 ELSE IF error \in {"unbound", "abort"}
                                                      THEN "failed" ELSE "pending"
           /\ i > cursor => PhaseOf(order[i]) = "pending"
  BY DEF PlaceInv
<1>1. /\ Len(order) \in Nat /\ cursor \in Nat \ {0} /\ cursor <= Len(order) + 1
      /\ Acyclic /\ order \in Orders
      /\ \A a, b \in 1..Len(order) : order[a] = order[b] => a = b
  BY LenOrder, OrderCovers DEF WalkInv, WalkTypeOK
<1>2. CASE i < cursor
  <2>1. i \in 1..cursor - 1
    BY <1>1, <1>2
  <2> QED BY <1>1, <1>2, <2>1 DEF PhaseOf
<1>3. CASE i >= cursor
  <2>1. order[i] \notin outputs /\ ~\E j \in 1..cursor - 1 : order[j] = order[i]
    BY <1>1, <1>3 DEF WalkInv, DecideInv
  <2>2. i > cursor => ~(cursor <= Len(order) /\ order[cursor] = order[i])
    BY <1>1
  <2> QED BY <1>1, <1>3, <2>1, <2>2 DEF PhaseOf
<1> QED BY <1>1, <1>2, <1>3

\* The cursor stands at a node that is due, and live unless it is dark.
LEMMA HereIsDue ==
  ASSUME WalkInv, LitInv, Whole, Looking
  PROVE  /\ Here \in Node /\ Phase[Here] = "pending"
         /\ Run!Due(Here) /\ Run!Live(Here) = ~Dark(Here)
<1>1. /\ Len(order) \in Nat /\ cursor \in 1..Len(order) /\ Acyclic /\ order \in Orders
      /\ Here \in Node /\ state = "walking" /\ error = "none"
  BY LenOrder DEF WalkInv, WalkTypeOK, StopInv, Looking, Here
<1>2. PhaseOf(Here) = "pending"
  BY <1>1, PlacePhase DEF Here, PlaceInv
<1>3. ASSUME NEW e \in Incoming(Here)
      PROVE  /\ e.source \in Node /\ e.port \in Port
             /\ PhaseOf(e.source) = IF e.source \in outputs THEN "completed" ELSE "skipped"
  <2>1. PICK j \in 1..cursor - 1 : order[j] = e.source
    BY <1>1, SourcesBehind DEF Here
  <2>2. j \in 1..Len(order) /\ j < cursor
    BY <1>1
  <2>3. PhaseOf(e.source) = IF e.source \in outputs THEN "completed" ELSE "skipped"
    BY <2>1, <2>2, PlacePhase DEF PlaceInv
  <2> QED BY <2>3, GraphAssumption DEF GraphAssumption, Incoming
<1>4. Run!Incoming(Here) = Incoming(Here) /\ Run!Sources(Here) = Sources(Here)
  BY DEF Run!Incoming, Run!Sources, Incoming, Sources
<1>5. Run!Due(Here)
  <2>1. \A s \in Sources(Here) : s \in Node /\ PhaseOf(s) \in {"completed", "skipped"}
    BY <1>3 DEF Sources
  <2> QED BY <1>1, <1>2, <1>4, <2>1 DEF Run!Due, Run!Over, PhaseOf
<1>6. Run!Live(Here) = ~Dark(Here)
  <2>1. ASSUME NEW e \in Incoming(Here)
        PROVE  (Phase[e.source] = "completed" /\ e.port \in Ports[e.source])
                 = (<<e.source, e.port>> \in lit)
    <3>1. (PhaseOf(e.source) = "completed") = (e.source \in outputs)
      BY <1>3
    <3>2. <<e.source, e.port>> \in lit => e.source \in outputs
      BY DEF LitInv, Incoming
    <3> QED BY <1>3, <3>1, <3>2 DEF Phase, Ports
  <2>2. Run!Live(Here) = \/ Incoming(Here) = {}
                         \/ \E e \in Incoming(Here) :
                              Phase[e.source] = "completed" /\ e.port \in Ports[e.source]
    BY <1>4, Zenon DEF Run!Live, Phase, Ports, PhaseOf
  <2> QED BY <2>1, <2>2 DEF Dark
<1> QED BY <1>1, <1>2, <1>5, <1>6 DEF Phase

\* The cursor passes a node: its phase is final, and no other phase moves.
LEMMA PassingMoves ==
  ASSUME WalkInv, WalkInv', Whole, Passing, state' = "walking"
  PROVE  /\ Phase' = [Phase EXCEPT ![Here] = IF Here \in outputs' THEN "completed"
                                             ELSE "skipped"]
         /\ \E P \in SUBSET Port : Ports' = [Ports EXCEPT ![Here] = P]
         /\ lit' = lit => Ports' = Ports
<1>0. (Whole => PlaceInv) /\ (Whole' => PlaceInv')
  BY PlacePhase, PTL
<1>1. /\ Len(order) \in Nat /\ cursor \in 1..Len(order) /\ Acyclic /\ order \in Orders
      /\ Here \in Node /\ order' = order /\ cursor' = cursor + 1 /\ Whole' /\ error' = "none"
  BY LenOrder DEF WalkInv, WalkTypeOK, StopInv, Passing, Here, Whole
<1>2. ASSUME NEW n \in Node
      PROVE  PhaseOf(n)' = IF n = Here THEN IF Here \in outputs' THEN "completed" ELSE "skipped"
                           ELSE PhaseOf(n)
  <2>1. PICK i \in 1..Len(order) : order[i] = n
    BY <1>1, OrderCovers
  <2>2. /\ i < cursor + 1 => PhaseOf(n)' = IF n \in outputs' THEN "completed" ELSE "skipped"
        /\ i >= cursor + 1 => PhaseOf(n)' = "pending"
    BY <1>0, <1>1, <2>1 DEF PlaceInv
  <2>3. i # cursor => n # Here /\ (n \in outputs') = (n \in outputs)
    BY <1>1, <2>1, OrderCovers DEF Here, Passing
  <2>4. i < cursor => PhaseOf(n) = IF n \in outputs THEN "completed" ELSE "skipped"
    BY <1>0, <2>1 DEF PlaceInv
  <2>5. i > cursor => PhaseOf(n) = "pending"
    BY <1>0, <2>1 DEF PlaceInv
  <2> QED BY <1>1, <2>1, <2>2, <2>3, <2>4, <2>5 DEF Here
<1>3. Phase' = [Phase EXCEPT ![Here] = IF Here \in outputs' THEN "completed" ELSE "skipped"]
  BY <1>1, <1>2 DEF Phase
<1>4. ASSUME NEW n \in Node, n # Here
      PROVE  {p \in Port : Whole' /\ <<n, p>> \in lit'} = {p \in Port : Whole /\ <<n, p>> \in lit}
  BY <1>1, <1>4 DEF Passing
<1>5. Ports' = [Ports EXCEPT ![Here] = {p \in Port : Whole' /\ <<Here, p>> \in lit'}]
  BY <1>1, <1>4 DEF Ports
<1>6. lit' = lit => Ports' = Ports
  BY <1>1 DEF Ports
<1> QED BY <1>3, <1>5, <1>6

\* The cursor stays: what becomes of the node it is at, and no other.
LEMMA StayingMoves ==
  ASSUME WalkInv, WalkInv', Whole, UNCHANGED <<given, order, cursor, lit, outputs>>
  PROVE  /\ Ports' = Ports
         /\ cursor <= Len(order) =>
              Phase' = [Phase EXCEPT ![Here] = IF state' = "awaiting" THEN "held"
                                              ELSE IF error' \in {"unbound", "abort"}
                                                   THEN "failed" ELSE "pending"]
         /\ \/ cursor > Len(order)
            \/ /\ (state' = "awaiting") = (state = "awaiting")
               /\ (error' \in {"unbound", "abort"}) = (error \in {"unbound", "abort"})
            => Phase' = Phase
<1>0. (Whole => PlaceInv) /\ (Whole' => PlaceInv')
  BY PlacePhase, PTL
<1>1. /\ Len(order) \in Nat /\ cursor \in 1..Len(order) + 1
      /\ Whole' /\ order' = order /\ cursor' = cursor
      /\ cursor <= Len(order) => Here \in Node /\ Acyclic
  BY LenOrder DEF WalkInv, WalkTypeOK, Whole, Here
<1>2. ASSUME NEW n \in Node, ~(cursor <= Len(order) /\ n = Here)
      PROVE  PhaseOf(n)' = PhaseOf(n)
  BY <1>1, <1>2 DEF PhaseOf, Here
<1>3. ASSUME NEW n \in Node, cursor <= Len(order), n = Here
      PROVE  /\ PhaseOf(n)' = IF state' = "awaiting" THEN "held"
                              ELSE IF error' \in {"unbound", "abort"}
                                   THEN "failed" ELSE "pending"
             /\ PhaseOf(n) = IF state = "awaiting" THEN "held"
                             ELSE IF error \in {"unbound", "abort"}
                                  THEN "failed" ELSE "pending"
  <2>1. cursor' \in 1..Len(order') /\ order'[cursor'] = n /\ order[cursor] = n
    BY <1>1, <1>3 DEF Here
  <2> QED BY <1>0, <1>1, <1>3, <2>1 DEF PlaceInv
<1>5. Ports' = Ports
  BY <1>1 DEF Ports
<1>6. cursor <= Len(order) =>
              Phase' = [Phase EXCEPT ![Here] = IF state' = "awaiting" THEN "held"
                                              ELSE IF error' \in {"unbound", "abort"}
                                                   THEN "failed" ELSE "pending"]
  <2> SUFFICES ASSUME cursor <= Len(order)
               PROVE  Phase' = [Phase EXCEPT ![Here] =
                                  IF state' = "awaiting" THEN "held"
                                  ELSE IF error' \in {"unbound", "abort"}
                                       THEN "failed" ELSE "pending"]
    OBVIOUS
  <2>1. \A n \in Node : PhaseOf(n)' = IF n = Here
                                       THEN IF state' = "awaiting" THEN "held"
                                            ELSE IF error' \in {"unbound", "abort"}
                                                 THEN "failed" ELSE "pending"
                                       ELSE PhaseOf(n)
    BY <1>2, <1>3
  <2> QED BY <1>1, <2>1 DEF Phase
<1>7. ASSUME \/ cursor > Len(order)
             \/ /\ (state' = "awaiting") = (state = "awaiting")
                /\ (error' \in {"unbound", "abort"}) = (error \in {"unbound", "abort"})
      PROVE  Phase' = Phase
  <2>1. \A n \in Node : PhaseOf(n)' = PhaseOf(n)
    BY <1>1, <1>2, <1>3, <1>7
  <2> QED BY <2>1 DEF Phase
<1> QED BY <1>5, <1>6, <1>7

\* What a step of the walk is to the run.
RunStepOrStutter ==
  \/ \E n \in Node : Run!Start(n) \/ Run!Finish(n) \/ Run!Fail(n) \/ Run!PassOver(n)
  \/ Phase' = Phase /\ Ports' = Ports

\* The actions of the run, in the words of Phase and Ports.
LEMMA RunMoves ==
  ASSUME NEW n \in Node
  PROVE  /\ Run!Start(n) = /\ Run!Due(n) /\ Run!Live(n) /\ n \notin Note
                           /\ Phase' = [Phase EXCEPT ![n] = "held"] /\ Ports' = Ports
         /\ Run!Finish(n) = /\ Phase[n] = "held"
                            /\ Phase' = [Phase EXCEPT ![n] = "completed"]
                            /\ \E P \in SUBSET Port : Ports' = [Ports EXCEPT ![n] = P]
         /\ Run!Fail(n) = /\ \/ Phase[n] = "held"
                             \/ Run!Due(n) /\ Run!Live(n) /\ n \notin Note \cup Lane
                          /\ Phase' = [Phase EXCEPT ![n] = "failed"] /\ Ports' = Ports
         /\ Run!PassOver(n) = /\ \/ Run!Due(n) /\ (~Run!Live(n) \/ n \in Note \cup Lane)
                                 \/ Phase[n] = "held" /\ n \in Lane
                              /\ Phase' = [Phase EXCEPT ![n] = "skipped"]
                              /\ Ports' = Ports
<1>1. Run!Start(n) = /\ Run!Due(n) /\ Run!Live(n) /\ n \notin Note
                     /\ Phase' = [Phase EXCEPT ![n] = "held"] /\ Ports' = Ports
  BY Zenon DEF Run!Start, Run!Move, Phase, Ports, PhaseOf
<1>2. Run!Finish(n) = /\ Phase[n] = "held"
                      /\ Phase' = [Phase EXCEPT ![n] = "completed"]
                      /\ \E P \in SUBSET Port : Ports' = [Ports EXCEPT ![n] = P]
  BY Zenon DEF Run!Finish, Run!Move, Phase, Ports, PhaseOf
<1>3. Run!Fail(n) = /\ \/ Phase[n] = "held"
                       \/ Run!Due(n) /\ Run!Live(n) /\ n \notin Note \cup Lane
                    /\ Phase' = [Phase EXCEPT ![n] = "failed"] /\ Ports' = Ports
  BY Zenon DEF Run!Fail, Run!Move, Phase, Ports, PhaseOf
<1>4. Run!PassOver(n) = /\ \/ Run!Due(n) /\ (~Run!Live(n) \/ n \in Note \cup Lane)
                           \/ Phase[n] = "held" /\ n \in Lane
                        /\ Phase' = [Phase EXCEPT ![n] = "skipped"]
                        /\ Ports' = Ports
  BY Zenon DEF Run!PassOver, Run!Move, Phase, Ports, PhaseOf
<1> QED BY <1>1, <1>2, <1>3, <1>4

\* The node the walk awaits is the one held.
LEMMA CalledIsHeld ==
  ASSUME WalkInv, Whole, state = "awaiting"
  PROVE  Here \in Node /\ Phase[Here] = "held" /\ Here \notin outputs
<1>1. /\ Len(order) \in Nat /\ cursor \in 1..Len(order) /\ Acyclic /\ order \in Orders
      /\ Here \in Node
  BY LenOrder DEF WalkInv, WalkTypeOK, StopInv, Here
<1>2. PhaseOf(Here) = "held"
  BY <1>1, PlacePhase DEF Here, PlaceInv
<1> QED BY <1>1, <1>2 DEF Phase, WalkInv, DecideInv, Here

LEMMA WholeStep ==
  ASSUME WalkInv, WalkInv', LitInv, Whole, [Next]_vars
  PROVE  RunStepOrStutter
<1>1. Looking => /\ Here \in Node /\ Phase[Here] = "pending" /\ Here \notin outputs
                 /\ Run!Due(Here) /\ Run!Live(Here) = ~Dark(Here)
  <2> SUFFICES ASSUME Looking
               PROVE  /\ Here \in Node /\ Phase[Here] = "pending" /\ Here \notin outputs
                      /\ Run!Due(Here) /\ Run!Live(Here) = ~Dark(Here)
    OBVIOUS
  <2>1. Here \notin outputs
    BY LenOrder DEF WalkInv, WalkTypeOK, DecideInv, Looking, Here
  <2> QED BY <2>1, HereIsDue
<1>3. Phase' = Phase /\ Ports' = Ports => RunStepOrStutter
  BY DEF RunStepOrStutter
<1>4. CASE PassDead \/ PassVisual
  <2>1. lit' = lit \cup {<<Here, p>> : p \in {}} /\ lit' = lit
    BY <1>4 DEF PassDead, PassVisual, Reached
  <2>2. Passing /\ Looking /\ outputs' = outputs /\ state' = "walking"
    BY <1>4, <2>1 DEF PassDead, PassVisual, Reached, Looking, Passing
  <2>3. Phase' = [Phase EXCEPT ![Here] = "skipped"] /\ Ports' = Ports
    BY <1>1, <2>1, <2>2, PassingMoves
  <2>4. Dark(Here) \/ Here \in Note \cup Lane
    BY <1>4 DEF PassDead, PassVisual
  <2>5. Here \in Node /\ Run!Due(Here) /\ (~Run!Live(Here) \/ Here \in Note \cup Lane)
    BY <1>1, <2>2, <2>4, Zenon
  <2>6. PICK n \in Node : n = Here
    BY <2>5
  <2>7. Run!Due(n) /\ (~Run!Live(n) \/ n \in Note \cup Lane)
    BY <2>5, <2>6
  <2>8. Run!PassOver(n)
    BY <2>3, <2>6, <2>7, RunMoves
  <2> QED BY <2>8 DEF RunStepOrStutter
<1>5. CASE Republish
  BY <1>5 DEF Republish, Whole
<1>6. CASE Return
  <2>1. state = "awaiting" /\ Called
    BY <1>6 DEF Return, WalkInv, DecideInv
  <2>2. Here \in Node /\ Phase[Here] = "held"
    BY <2>1, CalledIsHeld
  <2>3. Passing /\ state' = "walking" /\ Here \in outputs'
    BY <1>6, <2>1 DEF Return, Publish, Passing, Called
  <2>4. /\ Phase' = [Phase EXCEPT ![Here] = "completed"]
        /\ \E P \in SUBSET Port : Ports' = [Ports EXCEPT ![Here] = P]
    BY <2>3, PassingMoves
  <2> QED BY <2>2, <2>4, RunMoves DEF RunStepOrStutter
<1>7. CASE Call
  <2>1. /\ Looking /\ ~Dark(Here) /\ Here \notin Note \cup Lane /\ state' = "awaiting"
        /\ UNCHANGED <<given, order, cursor, lit, outputs>>
    BY <1>7 DEF Call, Reached
  <2>2. Phase' = [Phase EXCEPT ![Here] = "held"] /\ Ports' = Ports
    BY <2>1, StayingMoves DEF Looking
  <2> QED BY <1>1, <2>1, <2>2, RunMoves DEF RunStepOrStutter
<1>8. CASE Unregistered
  <2>1. /\ Looking /\ ~Dark(Here) /\ Here \notin Note \cup Lane
        /\ state' = "finished" /\ error' = "unbound"
        /\ UNCHANGED <<given, order, cursor, lit, outputs>>
    BY <1>8 DEF Unregistered, Reached
  <2>2. Phase' = [Phase EXCEPT ![Here] = "failed"] /\ Ports' = Ports
    BY <2>1, StayingMoves DEF Looking
  <2> QED BY <1>1, <2>1, <2>2, RunMoves DEF RunStepOrStutter
<1>9. CASE Abort
  <2>1. /\ state = "awaiting" /\ state' = "finished" /\ error' = "abort"
        /\ UNCHANGED <<given, order, cursor, lit, outputs>>
    BY <1>9 DEF Abort
  <2>2. Here \in Node /\ Phase[Here] = "held" /\ cursor <= Len(order)
    BY <2>1, CalledIsHeld DEF WalkInv, StopInv
  <2>3. Phase' = [Phase EXCEPT ![Here] = "failed"] /\ Ports' = Ports
    BY <2>1, <2>2, StayingMoves
  <2> QED BY <2>2, <2>3, RunMoves DEF RunStepOrStutter
<1>10. CASE \/ Cancel \/ TimeOut \/ EndOfOrder \/ Trip \/ Expire \/ UNCHANGED vars
  <2>1. /\ UNCHANGED <<given, order, cursor, lit, outputs>>
        /\ (state' = "awaiting") = (state = "awaiting")
        /\ (error' \in {"unbound", "abort"}) = (error \in {"unbound", "abort"})
    BY <1>10 DEF Cancel, TimeOut, EndOfOrder, Trip, Expire, vars, Looking, WalkInv, StopInv
  <2> QED BY <1>3, <2>1, StayingMoves
<1> QED BY <1>4, <1>5, <1>6, <1>7, <1>8, <1>9, <1>10 DEF Next, Step

\* A walk of the whole graph keeps the promise of the durable run, node by
\* node, and so does whatever a signal, the budget or an error leaves of it.
THEOREM WalkRefines == Spec => ImplementsDurableRun
<1>1. Init => Run!RunInit
  <2> SUFFICES ASSUME Init
               PROVE  /\ Phase = [n \in Node |-> "pending"]
                      /\ Ports = [n \in Node |-> {}]
    BY DEF Run!RunInit, Phase, Ports, PhaseOf
  <2>1. \A n \in Node : PhaseOf(n) = "pending"
    BY DEF Init, PhaseOf
  <2>2. \A n \in Node : {p \in Port : Whole /\ <<n, p>> \in lit} = {}
    BY DEF Init
  <2> QED BY <2>1, <2>2 DEF Phase, Ports
<1>2. Init => WalkInv /\ LitInv
  BY InitTypes, InitDecides DEF Init, WalkInv, LitInv
<1>3. WalkInv /\ WalkInv' /\ LitInv /\ [Next]_vars => RunStepOrStutter
  <2> SUFFICES ASSUME WalkInv, WalkInv', LitInv, [Next]_vars, ~Whole
               PROVE  Phase' = Phase /\ Ports' = Ports
    BY WholeStep DEF RunStepOrStutter
  <2>1. given' = given
    BY DEF Next, Step, Cancel, TimeOut, Republish, PassDead, PassVisual, Unregistered,
           Call, Return, Abort, EndOfOrder, Trip, Expire, Reached, vars
  <2>2. ~Whole'
    BY <2>1 DEF Whole
  <2>3. \A n \in Node : PhaseOf(n)' = PhaseOf(n)
    BY <2>2 DEF PhaseOf
  <2>4. Ports' = Ports
    BY <2>2 DEF Ports
  <2> QED BY <2>3, <2>4 DEF Phase
<1>4. RunStepOrStutter => [Run!RunNext]_Run!runVars
  BY DEF RunStepOrStutter, Run!RunNext, Run!runVars, Phase, Ports, PhaseOf
<1> QED BY <1>1, <1>2, <1>3, <1>4, DecisionsKept, LitKept, PTL
        DEF Spec, ImplementsDurableRun, Run!RunSpec

=============================================================================

--------------------------- MODULE NestedRunsProofs ---------------------------
(***************************************************************************)
(* What NestedRunsProps says of gates, of the dedup window and of the run  *)
(* itself holds for every graph, however deep its nodes nest, and for any  *)
(* number of crashes, retries and pauses.                                  *)
(***************************************************************************)
EXTENDS NestedRunsProps, FrontierFacts, SequenceTheorems

-----------------------------------------------------------------------------
(* Gates. *)

\* What makes OnlyAnswersPass inductive: the Submissions never hold an answer
\* that was not accepted after a pause, nor name a gate that never paused.
GateInv ==
  /\ subs = [answers |-> subs.answers, awaiting |-> subs.awaiting]
  /\ subs.answers \subseteq accepted \cap asked
  /\ subs.awaiting \in asked \cup {NoNode}
  /\ OnlyAnswersPass

\* A call leaves the log of every other step alone.
LEMMA CalledFields ==
  ASSUME NEW w, NEW n, NEW step, step = [path |-> w.identity.path, node |-> n]
  PROVE  LET to == Called(w, n)
         IN  /\ DOMAIN to = DOMAIN log \cup {step}
             /\ \A s \in DOMAIN log : s # step => to[s] = log[s]
             /\ to[step].again <=> step \in DOMAIN log
             /\ to[step].since = IF step \in DOMAIN log THEN log[step].since ELSE now
             /\ to[step].at = now
             /\ to[step].durable = w.durable
             /\ to[step].safe <=> IsReplaySafe(w.identity, now, Window)
BY DEF Called

LEMMA LoggedMakes ==
  ASSUME NEW n, Logged(n),
         NEW step, step = [path |-> Top.identity.path, node |-> n]
  PROVE  /\ DOMAIN log' = DOMAIN log \cup {step}
         /\ \A s \in DOMAIN log : s # step => log'[s] = log[s]
         /\ log'[step].again <=> step \in DOMAIN log
         /\ log'[step].since = IF step \in DOMAIN log THEN log[step].since ELSE now
         /\ log'[step].at = now
         /\ log'[step].safe <=> IsReplaySafe(Top.identity, now, Window)
BY CalledFields DEF Logged

\* A visit that logs a step keeps the gates' promise if the step is no gate,
\* or passed on an answer or on its own input.
LEMMA LoggedKeepsGates ==
  ASSUME GateInv, NEW n, Logged(n), UNCHANGED <<subs, asked, accepted>>,
         \/ ~IsGate(n)
         \/ Top.durable => Answers(subs, n, n \in AutoAnswer, n \in Prefilled)
  PROVE  GateInv'
<1> DEFINE step == [path |-> Top.identity.path, node |-> n]
<1>1. /\ DOMAIN log' = DOMAIN log \cup {step}
      /\ \A s \in DOMAIN log : s # step => log'[s] = log[s]
      /\ log'[step].durable = Top.durable
  BY CalledFields DEF Logged
<1>2. ASSUME NEW s \in DOMAIN log', IsGate(s.node), log'[s].durable,
             s.node \notin AutoAnswer \cap Prefilled
      PROVE  s.node \in accepted \cap asked
  <2>1. CASE s = step
    <3>1. s.node = n
      BY <2>1
    <3>2. n \in subs.answers
      BY <1>1, <1>2, <2>1, <3>1 DEF Answers
    <3> QED BY <3>1, <3>2 DEF GateInv
  <2>2. CASE s # step
    <3>1. s \in DOMAIN log /\ log'[s] = log[s]
      BY <1>1, <2>2
    <3> QED BY <3>1, <1>2 DEF GateInv, OnlyAnswersPass
  <2> QED BY <2>1, <2>2
<1>3. OnlyAnswersPass'
  BY <1>2 DEF OnlyAnswersPass, IsGate
<1> QED BY <1>3 DEF GateInv

LEMMA ParkKeepsGates ==
  ASSUME GateInv, NEW n, ParkGate(n)
  PROVE  GateInv'
<1>1. subs' = [answers |-> subs.answers, awaiting |-> n]
  BY DEF GateInv, ParkGate, Parked
<1>2. asked' = asked \cup {n} /\ UNCHANGED <<accepted, log>>
  BY DEF ParkGate
<1>3. OnlyAnswersPass'
  BY <1>2 DEF GateInv, OnlyAnswersPass, IsGate
<1> QED BY <1>1, <1>2, <1>3 DEF GateInv

LEMMA RecordKeepsGates ==
  ASSUME GateInv, NEW g \in GateId, Record(g)
  PROVE  GateInv'
<1>1. subs' = [answers |-> subs.answers \cup {g}, awaiting |-> NoNode]
  BY DEF GateInv, Record, Recorded
<1>2. accepted' = accepted \cup {g} /\ UNCHANGED <<asked, log>>
  BY DEF Record
<1>3. g \in asked
  BY SubmissionsAssumption DEF Record, CanRecord, GateInv, SubmissionsAssumption
<1>4. OnlyAnswersPass'
  BY <1>2 DEF GateInv, OnlyAnswersPass, IsGate
<1> QED BY <1>1, <1>2, <1>3, <1>4 DEF GateInv

LEMMA CrashKeepsGates == GateInv /\ Crash => GateInv'
<1> SUFFICES ASSUME GateInv, Crash PROVE GateInv'
  OBVIOUS
<1>1. subs' = [answers |-> {}, awaiting |-> NoNode] /\ UNCHANGED <<log, asked, accepted>>
  BY DEF Crash, NoSubmissions
<1>2. OnlyAnswersPass'
  BY <1>1 DEF GateInv, OnlyAnswersPass, IsGate
<1> QED BY <1>1, <1>2 DEF GateInv

LEMMA QuietKeepsGates ==
  GateInv /\ UNCHANGED <<subs, log, asked, accepted>> => GateInv'
BY DEF GateInv, OnlyAnswersPass, IsGate

LEMMA GatesKept == GateInv /\ [Next]_vars => GateInv'
<1> SUFFICES ASSUME GateInv, [Next]_vars PROVE GateInv'
  OBVIOUS
<1>1. ASSUME NEW n, Visit(n) PROVE GateInv'
  <2>1. CASE RunStep(n)
    <3>1. ~IsGate(n)
      BY <2>1 DEF RunStep, IsGate
    <3> QED BY <2>1, <3>1, LoggedKeepsGates DEF RunStep
  <2>2. CASE PassGate(n)
    BY <2>2, LoggedKeepsGates DEF PassGate
  <2>3. CASE ParkGate(n)
    BY <2>3, ParkKeepsGates
  <2>4. CASE VisitDead(n) \/ RunForEach(n) \/ RunSubgraph(n) \/ RunSubflow(n)
    BY <2>4, QuietKeepsGates DEF VisitDead, RunForEach, RunSubgraph, RunSubflow
  <2> QED BY <1>1, <2>1, <2>2, <2>3, <2>4 DEF Visit
<1>2. CASE EndLane \/ EndChild
  BY <1>2, QuietKeepsGates DEF EndLane, EndChild
<1>3. CASE FinishOutput \/ FinishSkip \/ FinishPause \/ FinishError
  BY <1>3, QuietKeepsGates
     DEF FinishOutput, FinishSkip, FinishPause, FinishError, Finish
<1>4. CASE Drive
  BY <1>4, QuietKeepsGates DEF Drive, SettleSkip, Dispatch, Redispatch, Start
<1>5. ASSUME NEW g \in GateId, Record(g) PROVE GateInv'
  BY <1>5, RecordKeepsGates
<1>6. CASE Crash
  BY <1>6, CrashKeepsGates
<1>7. CASE UNCHANGED vars
  BY <1>7, QuietKeepsGates DEF vars
<1> QED BY <1>1, <1>2, <1>3, <1>4, <1>5, <1>6, <1>7 DEF Next, JobSteps

\* A durable gate passes only on an answer accepted for that very node, once
\* the run had parked on it, whatever crashes, lanes and other gates do.
THEOREM AnswersOnly == Spec => []OnlyAnswersPass
<1>1. Init => GateInv
  BY DEF Init, GateInv, OnlyAnswersPass, NoSubmissions, Empty
<1>2. GateInv => OnlyAnswersPass
  BY DEF GateInv
<1> QED BY <1>1, <1>2, GatesKept, PTL DEF Spec

-----------------------------------------------------------------------------
(* Walks and stacks. *)

IsSeq(s) == \E S : s \in Seq(S)

WalkFields == {"graph", "todo", "ran", "ports", "durable", "identity",
               "holder", "item", "failed"}

IsWalk(w) ==
  /\ DOMAIN w = WalkFields
  /\ w.graph.nodes \subseteq NodeId /\ w.todo \subseteq w.graph.nodes
  /\ w.durable \in BOOLEAN
  /\ IsSeq(w.identity.path)

\* The walk at the bottom is the replay of node j over rows r: until it visits
\* j it knows what the rows know, and afterwards j has published, or j is a
\* visual node the engine walked past.
BottomOK(w, j, r) ==
  /\ w.holder = NoNode /\ w.graph = Whole
  /\ w.identity = TopIdentity(r[j])
  /\ \/ w.todo = {j} /\ w.ran = {} /\ w.ports = [m \in Node |-> r[m].ports]
     \/ w.todo = {} /\ j \in w.ran /\ w.ports[j] \in SUBSET Port
     \/ w.todo = {} /\ w.ran = {} /\ j \in Lane

\* A walk above another runs the graph of a node the other has still to pass.
StackOK(s, j, r) ==
  /\ IsSeq(s)
  /\ j \in Node \cup {NoNode} /\ (j = NoNode) = (s = <<>>)
  /\ \A i \in 1..Len(s) : IsWalk(s[i])
  /\ \A i \in 2..Len(s) : /\ s[i].holder \in s[i - 1].todo
                          /\ s[i].identity.path # <<>>
  /\ s # <<>> => BottomOK(s[1], j, r)

LEMMA LastReplaced ==
  ASSUME NEW s, IsSeq(s), s # <<>>, NEW w
  PROVE  LET t == [s EXCEPT ![Len(s)] = w]
         IN  /\ IsSeq(t) /\ t # <<>> /\ Len(s) \in Nat \ {0} /\ Len(t) = Len(s)
             /\ t[Len(s)] = w
             /\ \A i \in 1..Len(s) : i # Len(s) => t[i] = s[i]
<1> DEFINE t == [s EXCEPT ![Len(s)] = w]
<1>1. PICK S : s \in Seq(S)
  BY DEF IsSeq
<1>2. Len(s) \in Nat \ {0} /\ DOMAIN s = 1..Len(s)
  BY <1>1
<1>3. t \in Seq(S \cup {w}) /\ Len(t) = Len(s)
  BY <1>1, <1>2
<1>4. t[Len(s)] = w /\ \A i \in 1..Len(s) : i # Len(s) => t[i] = s[i]
  BY <1>1, <1>2
<1> QED BY <1>2, <1>3, <1>4 DEF IsSeq

LEMMA EmptyOnly == \A s : IsSeq(s) /\ s # <<>> => Len(s) \in Nat \ {0}
BY DEF IsSeq

LEMMA Appended ==
  ASSUME NEW s, IsSeq(s), NEW w
  PROVE  LET t == Append(s, w)
         IN  /\ IsSeq(t) /\ t # <<>> /\ Len(s) \in Nat /\ Len(t) = Len(s) + 1
             /\ t[Len(s) + 1] = w
             /\ \A i \in 1..Len(s) : t[i] = s[i]
<1> DEFINE t == Append(s, w)
<1>1. PICK S : s \in Seq(S)
  BY DEF IsSeq
<1>2. s \in Seq(S \cup {w}) /\ w \in S \cup {w} /\ Len(s) \in Nat
  BY <1>1
<1>3. t \in Seq(S \cup {w}) /\ Len(t) = Len(s) + 1
  BY <1>2
<1>4. t[Len(s) + 1] = w /\ \A i \in 1..Len(s) : t[i] = s[i]
  BY <1>2
<1> QED BY <1>2, <1>3, <1>4 DEF IsSeq

LEMMA LastDropped ==
  ASSUME NEW s, IsSeq(s), Len(s) > 1
  PROVE  LET t == SubSeq(s, 1, Len(s) - 1)
         IN  /\ IsSeq(t) /\ t # <<>> /\ Len(s) \in Nat /\ Len(t) = Len(s) - 1
             /\ \A i \in 1..Len(t) : t[i] = s[i]
<1> DEFINE t == SubSeq(s, 1, Len(s) - 1)
<1>1. PICK S : s \in Seq(S)
  BY DEF IsSeq
<1>2. Len(s) \in Nat
  BY <1>1
<1>3. t \in Seq(S) /\ Len(t) = Len(s) - 1
  BY <1>1, <1>2
<1>4. \A i \in 1..Len(t) : t[i] = s[i]
  BY <1>1, <1>2, <1>3
<1> HIDE DEF t
<1>5. t # <<>>
  <2>1. Len(s) - 1 # 0
    <3>1. \A k \in Nat : k > 1 => k - 1 # 0
      OBVIOUS
    <3> QED BY <1>2, <3>1
  <2>2. Len(t) = Len(s) - 1
    BY <1>3
  <2>3. Len(t) # 0
    BY <2>1, <2>2, Zenon
  <2> QED BY <2>3
<1>6. IsSeq(t)
  BY <1>3 DEF IsSeq
<1> QED BY <1>2, <1>3, <1>4, <1>5, <1>6 DEF t

LEMMA WalkMakes ==
  ASSUME NEW graph, NEW durable, NEW identity, NEW holder, NEW item, NEW failed
  PROVE  LET w == Walk(graph, durable, identity, holder, item, failed)
         IN  /\ DOMAIN w = WalkFields
             /\ w.graph = graph /\ w.todo = graph.nodes /\ w.durable = durable
             /\ w.identity = identity /\ w.holder = holder
BY DEF Walk, WalkFields

LEMMA PassedMakes ==
  ASSUME NEW w, IsWalk(w), NEW n, NEW ports, NEW ran
  PROVE  LET p == Passed(w, n, ports, ran)
         IN  /\ IsWalk(p)
             /\ p.todo = w.todo \ {n} /\ p.ran = w.ran \cup ran
             /\ n \in DOMAIN p.ports /\ p.ports[n] = ports
             /\ p.graph = w.graph /\ p.identity = w.identity
             /\ p.holder = w.holder
<1> DEFINE p == Passed(w, n, ports, ran)
<1>1. DOMAIN p = WalkFields
  BY DEF Passed, IsWalk
<1>2. /\ p.todo = w.todo \ {n} /\ p.ran = w.ran \cup ran
      /\ p.graph = w.graph /\ p.identity = w.identity
      /\ p.holder = w.holder /\ p.durable = w.durable
  BY DEF Passed, IsWalk, WalkFields
<1>3. p.ports = [m \in DOMAIN w.ports \cup {n} |-> IF m = n THEN ports ELSE w.ports[m]]
  BY DEF Passed, IsWalk, WalkFields
<1>4. n \in DOMAIN p.ports /\ p.ports[n] = ports
  BY <1>3
<1>5. IsWalk(p)
  BY <1>1, <1>2 DEF IsWalk
<1> QED BY <1>2, <1>4, <1>5

\* The four ways a stack changes: its top walk moves on, a walk is put on it,
\* the top one is taken off, and a job starts with one of its own.
LEMMA TopMoves ==
  ASSUME NEW s, NEW j, NEW r, StackOK(s, j, r), s # <<>>,
         NEW w, IsWalk(w), w.holder = s[Len(s)].holder,
         w.identity = s[Len(s)].identity,
         Len(s) = 1 => BottomOK(w, j, r)
  PROVE  StackOK([s EXCEPT ![Len(s)] = w], j, r)
<1> DEFINE t == [s EXCEPT ![Len(s)] = w]
<1>1. /\ IsSeq(t) /\ t # <<>> /\ Len(s) \in Nat \ {0} /\ Len(t) = Len(s)
      /\ t[Len(s)] = w
      /\ \A i \in 1..Len(s) : i # Len(s) => t[i] = s[i]
  BY LastReplaced DEF StackOK
<1> HIDE DEF t
<1>2. \A i \in 1..Len(t) : IsWalk(t[i])
  BY <1>1 DEF StackOK
<1>3. ASSUME NEW i \in 2..Len(t)
      PROVE  t[i].holder \in t[i - 1].todo /\ t[i].identity.path # <<>>
  <2>1. i \in 2..Len(s) /\ i - 1 \in 1..Len(s) /\ i - 1 # Len(s)
    BY <1>1
  <2>2. t[i - 1] = s[i - 1]
    BY <1>1, <2>1
  <2>3. t[i].holder = s[i].holder /\ t[i].identity = s[i].identity
    <3>1. CASE i = Len(s)
      BY <1>1, <3>1
    <3>2. CASE i # Len(s)
      BY <1>1, <2>1, <3>2
    <3> QED BY <3>1, <3>2
  <2> QED BY <2>1, <2>2, <2>3 DEF StackOK
<1>4. BottomOK(t[1], j, r)
  <2>1. CASE Len(s) = 1
    BY <1>1, <2>1
  <2>2. CASE Len(s) # 1
    BY <1>1, <2>2 DEF StackOK
  <2> QED BY <2>1, <2>2
<1>5. StackOK(t, j, r)
  BY <1>1, <1>2, <1>3, <1>4 DEF StackOK
<1> QED BY <1>5 DEF t

LEMMA WalkPushed ==
  ASSUME NEW s, NEW j, NEW r, StackOK(s, j, r), s # <<>>,
         NEW w, IsWalk(w), w.holder \in s[Len(s)].todo, w.identity.path # <<>>
  PROVE  LET t == Append(s, w)
         IN  StackOK(t, j, r) /\ Len(t) > 1 /\ t[1] = s[1]
<1> DEFINE t == Append(s, w)
<1>1. /\ IsSeq(t) /\ t # <<>> /\ Len(s) \in Nat /\ Len(t) = Len(s) + 1
      /\ t[Len(s) + 1] = w
      /\ \A i \in 1..Len(s) : t[i] = s[i]
  BY Appended DEF StackOK
<1> HIDE DEF t
<1>2. Len(s) # 0
  BY EmptyOnly DEF StackOK
<1>3. \A i \in 1..Len(t) : IsWalk(t[i])
  BY <1>1 DEF StackOK
<1>4. ASSUME NEW i \in 2..Len(t)
      PROVE  t[i].holder \in t[i - 1].todo /\ t[i].identity.path # <<>>
  <2>1. i - 1 \in 1..Len(s) /\ t[i - 1] = s[i - 1]
    BY <1>1
  <2>2. CASE i = Len(s) + 1
    <3>1. t[i] = w /\ t[i - 1] = s[Len(s)]
      BY <1>1, <2>1, <2>2
    <3> QED BY <3>1
  <2>3. CASE i # Len(s) + 1
    <3>1. i \in 2..Len(s) /\ t[i] = s[i]
      BY <1>1, <2>3
    <3> QED BY <2>1, <3>1 DEF StackOK
  <2> QED BY <2>2, <2>3
<1>5. t[1] = s[1] /\ Len(t) > 1
  BY <1>1, <1>2
<1>6. StackOK(t, j, r)
  BY <1>1, <1>3, <1>4, <1>5 DEF StackOK
<1> QED BY <1>5, <1>6 DEF t

LEMMA WalkPopped ==
  ASSUME NEW s, NEW j, NEW r, StackOK(s, j, r), Len(s) > 1
  PROVE  LET t == SubSeq(s, 1, Len(s) - 1)
         IN  /\ StackOK(t, j, r) /\ t # <<>>
             /\ Len(s) \in Nat /\ Len(t) = Len(s) - 1
             /\ \A i \in 1..Len(t) : t[i] = s[i]
<1> DEFINE t == SubSeq(s, 1, Len(s) - 1)
<1>1. /\ IsSeq(t) /\ t # <<>> /\ Len(s) \in Nat /\ Len(t) = Len(s) - 1
      /\ \A i \in 1..Len(t) : t[i] = s[i]
  BY LastDropped DEF StackOK
<1> HIDE DEF t
<1>2. s # <<>>
  <2>1. Len(<<>>) = 0
    OBVIOUS
  <2> QED BY <2>1
<1>3. \A i \in 1..Len(t) : IsWalk(t[i])
  BY <1>1 DEF StackOK
<1>4. ASSUME NEW i \in 2..Len(t)
      PROVE  t[i].holder \in t[i - 1].todo /\ t[i].identity.path # <<>>
  <2>1. i \in 1..Len(t) /\ i - 1 \in 1..Len(t) /\ i \in 2..Len(s)
    BY <1>1
  <2>2. t[i - 1] = s[i - 1] /\ t[i] = s[i]
    BY <1>1, <2>1
  <2> QED BY <2>1, <2>2 DEF StackOK
<1>5. BottomOK(t[1], j, r)
  <2>1. t[1] = s[1]
    BY <1>1
  <2> QED BY <1>2, <2>1 DEF StackOK
<1>6. StackOK(t, j, r)
  BY <1>1, <1>2, <1>3, <1>4, <1>5 DEF StackOK
<1> QED BY <1>1, <1>6 DEF t

-----------------------------------------------------------------------------
(* The stack of a job. *)

\* A held node is one the frontier handed out: its sources are settled, an
\* input of it is live and it is no annotation.  Only a completed row has
\* ports, so nothing a settled row says changes under a job's feet.
Reached(r, n) ==
  /\ n \notin Note /\ Lit(r, n)
  /\ Sources(n) \subseteq Settled(r)

RowsOK(r) ==
  /\ r \in [Node -> Row]
  /\ \A n \in Node : r[n].status # "completed" => r[n].ports = {}
  /\ \A n \in Held(r) : Reached(r, n)

RowsInv ==
  /\ RowsOK(rows)
  /\ job # NoNode => job \in Node /\ rows[job].status = "claimed"

StackInv == StackOK(stack, job, rows)

\* The top walk of a job in progress, and the node it visits.
LEMMA TopIsWalk ==
  ASSUME StackInv, stack # <<>>
  PROVE  /\ Len(stack) \in Nat \ {0} /\ IsWalk(Top)
         /\ job \in Node /\ BottomOK(stack[1], job, rows)
         /\ Len(stack) = 1 => Top = stack[1] /\ BottomOK(Top, job, rows)
<1>1. Len(stack) \in Nat \ {0}
  BY EmptyOnly DEF StackInv, StackOK
<1>2. IsWalk(Top)
  BY <1>1 DEF StackInv, StackOK, Top
<1> QED BY <1>1, <1>2 DEF StackInv, StackOK, Top

LEMMA VisitedIsNode ==
  ASSUME StackInv, stack # <<>>, NEW n \in Top.todo
  PROVE  /\ n \in NodeId /\ n \in Top.graph.nodes
         /\ Len(stack) = 1 => n = job /\ Top.todo = {job} /\ Top.ran = {}
                               /\ Top.ports = [m \in Node |-> rows[m].ports]
<1>1. n \in NodeId /\ n \in Top.graph.nodes
  BY TopIsWalk DEF IsWalk
<1>2. ASSUME Len(stack) = 1
      PROVE  n = job /\ Top.todo = {job} /\ Top.ran = {}
             /\ Top.ports = [m \in Node |-> rows[m].ports]
  BY <1>2, TopIsWalk DEF BottomOK
<1> QED BY <1>1, <1>2

\* The replay visits a job's node lit: only a visual node is walked past.
LEMMA JobIsLit ==
  ASSUME StackInv, RowsInv, stack # <<>>, Len(stack) = 1,
         NEW n \in Top.todo, Due(Top, n), ~Runs(n)
  PROVE  n \in Lane
<1>1. /\ n = job /\ job \in Node /\ Top.graph = Whole
      /\ Top.ports = [m \in Node |-> rows[m].ports]
  BY VisitedIsNode, TopIsWalk DEF BottomOK
<1>2. job # NoNode
  BY <1>1, NestedAssumption DEF NestedAssumption, NodeId
<1>3. job \notin Note /\ Lit(rows, job)
  BY <1>1, <1>2 DEF RowsInv, RowsOK, Reached, Held, IsHeld
<1>4. LitIn(Top, n)
  <2>1. {e \in Top.graph.edges : e.target = n} = Incoming(job)
    BY <1>1 DEF Incoming, Whole
  <2>2. CASE Incoming(job) = {}
    BY <2>1, <2>2 DEF LitIn
  <2>3. CASE Incoming(job) # {}
    <3>1. PICK e \in Incoming(job) : Active(rows, e)
      BY <1>3, <2>3 DEF Lit
    <3>2. e.source \in Node
      BY GraphAssumption DEF GraphAssumption, Incoming
    <3>3. e.source \in DOMAIN Top.ports /\ e.port \in Top.ports[e.source]
      BY <1>1, <3>1, <3>2 DEF Active
    <3> QED BY <2>1, <3>3 DEF LitIn
  <2> QED BY <2>2, <2>3
<1> QED BY <1>1, <1>3, <1>4 DEF Runs

\* Passing a node: the walk it leaves is still a walk, and the bottom one has
\* published its node, or walked past a visual one.
LEMMA PassKeepsStack ==
  ASSUME NEW s, NEW r, StackOK(s, job, r), s # <<>>, NEW n \in s[Len(s)].todo,
         NEW ports, NEW ran,
         \/ ports \in SUBSET Port /\ ran = {n}
         \/ ran = {} /\ (Len(s) = 1 => n \in Lane)
  PROVE  StackOK([s EXCEPT ![Len(s)] = Passed(s[Len(s)], n, ports, ran)], job, r)
<1> DEFINE w == s[Len(s)]
           p == Passed(w, n, ports, ran)
<1>1. Len(s) \in Nat \ {0}
  BY EmptyOnly DEF StackOK
<1>2. IsWalk(w)
  BY <1>1 DEF StackOK
<1>3. /\ IsWalk(p)
      /\ p.todo = w.todo \ {n} /\ p.ran = w.ran \cup ran
      /\ n \in DOMAIN p.ports /\ p.ports[n] = ports
      /\ p.graph = w.graph /\ p.identity = w.identity
      /\ p.holder = w.holder
  BY <1>2, PassedMakes
<1>4. ASSUME Len(s) = 1 PROVE BottomOK(p, job, r)
  <2>1. BottomOK(w, job, r) /\ n = job /\ w.todo = {job} /\ w.ran = {}
    BY <1>4 DEF StackOK, BottomOK
  <2>2. p.todo = {}
    BY <1>3, <2>1
  <2> HIDE DEF p, w
  <2>3. \/ job \in p.ran /\ p.ports[job] \in SUBSET Port
        \/ p.ran = {} /\ job \in Lane
    BY <1>3, <1>4, <2>1
  <2> QED BY <1>3, <2>1, <2>2, <2>3 DEF BottomOK
<1> HIDE DEF p
<1>5. StackOK([s EXCEPT ![Len(s)] = p], job, r)
  BY <1>3, <1>4, TopMoves
<1> QED BY <1>5 DEF p

\* Calling a graph for the top walk's node n puts a walk one level deeper.
LEMMA CallKeepsStack ==
  ASSUME NEW s, NEW r, StackOK(s, job, r), s # <<>>, NEW n \in s[Len(s)].todo,
         NEW graph, graph.nodes \subseteq NodeId, NEW durable \in BOOLEAN,
         NEW occ, NEW item, NEW failed
  PROVE  LET w == Walk(graph, durable, Descend(s[Len(s)].identity, Spelled[n], occ),
                       n, item, failed)
             t == Append(s, w)
         IN  StackOK(t, job, r) /\ Len(t) > 1 /\ t[1] = s[1]
<1> DEFINE id == Descend(s[Len(s)].identity, Spelled[n], occ)
           w  == Walk(graph, durable, id, n, item, failed)
<1>1. Len(s) \in Nat \ {0}
  BY EmptyOnly DEF StackOK
<1>2. IsSeq(s[Len(s)].identity.path)
  BY <1>1 DEF StackOK, IsWalk
<1>3. id.path = Append(s[Len(s)].identity.path, Segment(Spelled[n], occ))
  BY DEF Descend
<1>4. IsSeq(id.path) /\ id.path # <<>>
  BY <1>2, <1>3, Appended
<1> HIDE DEF id
<1>5. /\ DOMAIN w = WalkFields
      /\ w.graph = graph /\ w.todo = graph.nodes /\ w.durable = durable
      /\ w.identity = id /\ w.holder = n
  BY WalkMakes
<1> HIDE DEF w
<1>6. IsWalk(w)
  BY <1>4, <1>5 DEF IsWalk
<1>7. w.holder \in s[Len(s)].todo /\ w.identity.path # <<>>
  BY <1>4, <1>5
<1>8. LET t == Append(s, w)
      IN  StackOK(t, job, r) /\ Len(t) > 1 /\ t[1] = s[1]
  BY <1>6, <1>7, WalkPushed
<1> QED BY <1>8 DEF w, id

-----------------------------------------------------------------------------
(* The steps of a job keep the stack. *)

LEMMA VisitKeepsStack ==
  ASSUME StackInv, RowsInv, Visiting, NEW n \in Top.todo, Visit(n)
  PROVE  /\ StackInv'
         /\ UNCHANGED <<rows, job>>
         /\ stack' # <<>>
<1>1. UNCHANGED <<rows, job>>
  BY DEF Visit, VisitDead, RunStep, PassGate, ParkGate, RunForEach,
         RunSubgraph, RunSubflow
<1>2. stack # <<>> /\ n \in NodeId /\ n \in Top.graph.nodes
  BY VisitedIsNode DEF Visiting
<1> SUFFICES StackInv'
  BY <1>1, <1>2 DEF StackInv, StackOK
<1>3. ASSUME NEW ports \in SUBSET Port, Publish(n, ports) PROVE StackInv'
  BY <1>1, <1>2, <1>3, PassKeepsStack DEF StackInv, Publish, SetTop, Top
<1>4. ASSUME UNCHANGED stack PROVE StackInv'
  BY <1>1, <1>4 DEF StackInv
<1>5. CASE VisitDead(n)
  <2>1. Len(stack) = 1 => n \in Lane
    BY <1>2, <1>5, JobIsLit DEF VisitDead
  <2>2. stack' = [stack EXCEPT ![Len(stack)] = Passed(stack[Len(stack)], n, {}, {})]
    BY <1>5 DEF VisitDead, SetTop, Top
  <2>3. StackOK(stack', job, rows)
    BY <1>2, <2>1, <2>2, PassKeepsStack DEF StackInv, Top
  <2> QED BY <1>1, <2>3 DEF StackInv
<1>6. CASE RunStep(n) \/ PassGate(n) \/ ParkGate(n)
  <2>1. Outcomes[n] \subseteq SUBSET Port
    BY <1>2, NestedAssumption DEF NestedAssumption
  <2> QED BY <1>3, <1>4, <1>6, <2>1 DEF RunStep, PassGate, ParkGate, Abort
<1>7. \A ports \in {{"item", "done"}, {"done"}, {"out"}} : ports \in SUBSET Port
  BY NestedAssumption DEF NestedAssumption
<1>8. CASE RunForEach(n)
  <2>1. CASE Publish(n, {"item", "done"}) \/ Publish(n, {"done"})
    BY <1>3, <1>7, <2>1
  <2>2. CASE \E why : Abort(why)
    BY <1>4, <2>2 DEF Abort
  <2>3. ASSUME NEW lane \in {Within(Top.graph, body) : body \in {Body(Top.graph, n)}},
               stack' = Append(stack, LaneWalk(lane, Top, n, 0, Empty))
        PROVE  StackInv'
    <3>1. lane.nodes \subseteq NodeId
      <4>1. Body(Top.graph, n) \subseteq Top.graph.nodes
        BY DEF Body, Reachable
      <4>2. lane.nodes = Body(Top.graph, n)
        BY DEF Within
      <4> QED BY <1>2, <4>1, <4>2, TopIsWalk DEF IsWalk
    <3>2. Top.durable \in BOOLEAN
      BY <1>2, TopIsWalk DEF IsWalk
    <3>3. StackOK(stack', job, rows)
      BY <1>2, <2>3, <3>1, <3>2, CallKeepsStack DEF StackInv, LaneWalk, Top
    <3> QED BY <1>1, <3>3 DEF StackInv
  <2> QED BY <1>8, <2>1, <2>2, <2>3 DEF RunForEach
<1>9. ASSUME CallChild(n), Child[n] # NoGraph, Kind[n] \in {"subgraph", "subflow"}
      PROVE  StackInv'
  <2>1. Child[n].nodes \subseteq NodeId
    BY <1>2, <1>9, NestedAssumption DEF NestedAssumption, NodeId
  <2>2. StackOK(stack', job, rows)
    BY <1>2, <1>9, <2>1, CallKeepsStack DEF StackInv, CallChild, Top
  <2> QED BY <1>1, <2>2 DEF StackInv
<1>10. CASE RunSubgraph(n) \/ RunSubflow(n)
  <2>1. CASE Publish(n, {"out"})
    BY <1>3, <1>7, <2>1
  <2>2. CASE Abort(Failure)
    BY <1>4, <2>2 DEF Abort
  <2> QED BY <1>9, <1>10, <2>1, <2>2 DEF RunSubgraph, RunSubflow
<1> QED BY <1>5, <1>6, <1>8, <1>10 DEF Visit

\* The end of a nested walk hands the stack back to the walk that holds it.
LEMMA EndKeepsStack ==
  ASSUME StackInv, EndLane \/ EndChild
  PROVE  /\ StackInv'
         /\ UNCHANGED <<rows, job>>
         /\ \/ stack' = Below /\ reason # NoReason /\ reason' = reason
            \/ Len(stack') > 1
            \/ job \notin stack'[1].todo
<1>1. UNCHANGED <<rows, job>> /\ Len(stack) > 1
  BY DEF EndLane, EndChild, Ended
<1>2. /\ StackOK(Below, job, rows) /\ Below # <<>>
      /\ Len(stack) \in Nat /\ Len(Below) = Len(stack) - 1
      /\ \A i \in 1..Len(Below) : Below[i] = stack[i]
  BY <1>1, WalkPopped DEF StackInv, Below
<1>3. Under = Below[Len(Below)] /\ Top.holder \in Under.todo
  <2>1. Len(stack) \in 2..Len(stack) /\ Len(Below) \in 1..Len(Below)
    BY <1>1, <1>2
  <2>2. Top.holder \in stack[Len(stack) - 1].todo
    BY <2>1 DEF StackInv, StackOK, Top
  <2> QED BY <1>2, <2>1, <2>2 DEF Under
<1>4. ASSUME NEW ports \in SUBSET Port, Return(ports)
      PROVE  StackInv' /\ (Len(stack') > 1 \/ job \notin stack'[1].todo)
  <2> DEFINE p == Passed(Below[Len(Below)], Top.holder, ports, {Top.holder})
  <2>1. stack' = [Below EXCEPT ![Len(Below)] = p]
    BY <1>2, <1>4 DEF Return
  <2>2. StackOK(stack', job, rows)
    BY <1>2, <1>3, <2>1, PassKeepsStack
  <2>3. Len(stack') = Len(Below) /\ stack'[Len(Below)] = p
    BY <1>2, <2>1, LastReplaced DEF StackOK
  <2>4. IsWalk(Below[Len(Below)])
    BY <1>1, <1>2 DEF StackOK
  <2>5. Top.holder \notin p.todo
    BY <2>4, PassedMakes
  <2>6. ASSUME Len(Below) = 1 PROVE job \notin p.todo
    <3>1. BottomOK(Below[1], job, rows)
      BY <1>2 DEF StackOK
    <3>2. Top.holder = job
      BY <1>3, <2>6, <3>1 DEF BottomOK
    <3> QED BY <2>5, <3>2
  <2> HIDE DEF p
  <2>7. Len(stack') > 1 \/ job \notin stack'[1].todo
    BY <1>1, <1>2, <2>3, <2>6
  <2> QED BY <1>1, <2>2, <2>7 DEF StackInv
<1>5. {"done"} \in SUBSET Port /\ {"out"} \in SUBSET Port
  BY NestedAssumption DEF NestedAssumption
<1>6. ASSUME NEW failed, NextItem(failed)
      PROVE  StackInv' /\ (Len(stack') > 1 \/ job \notin stack'[1].todo)
  <2>1. CASE Return({"done"})
    BY <1>4, <1>5, <2>1
  <2>2. CASE stack' = Append(Below, LaneWalk(Top.graph, Under, Top.holder,
                                             Top.item + 1, failed))
    <3>1. Top.graph.nodes \subseteq NodeId /\ Under.durable \in BOOLEAN
      <4>1. IsWalk(Top) /\ IsWalk(Under)
        BY <1>1, <1>2, <1>3 DEF StackInv, StackOK, Top
      <4> QED BY <4>1 DEF IsWalk
    <3>2. StackOK(stack', job, rows) /\ Len(stack') > 1
      BY <1>2, <1>3, <2>2, <3>1, CallKeepsStack DEF LaneWalk
    <3> QED BY <1>1, <3>2 DEF StackInv
  <2> QED BY <1>6, <2>1, <2>2 DEF NextItem
<1>7. ASSUME stack' = Below PROVE StackInv'
  BY <1>1, <1>2, <1>7 DEF StackInv
<1>8. CASE EndLane
  <2>1. CASE IsPause(reason) /\ stack' = Below /\ UNCHANGED reason
    <3>1. reason # NoReason
      BY <2>1 DEF IsPause, NoReason
    <3> QED BY <1>1, <1>7, <2>1, <3>1
  <2> QED BY <1>1, <1>6, <1>8, <2>1 DEF EndLane
<1>9. CASE EndChild
  BY <1>1, <1>4, <1>5, <1>7, <1>9 DEF EndChild
<1> QED BY <1>8, <1>9

-----------------------------------------------------------------------------
(* The rows. *)

\* A write to a row that is not settled keeps what the other rows rest on.
LEMMA WriteKeepsRows ==
  ASSUME NEW r, RowsOK(r), NEW n \in Node, ~IsSettled(r[n]),
         NEW row \in Row, row.status # "completed" => row.ports = {},
         IsHeld(row) => Reached(r, n)
  PROVE  RowsOK([r EXCEPT ![n] = row])
<1> DEFINE t == [r EXCEPT ![n] = row]
<1>1. /\ t \in [Node -> Row] /\ t[n] = row
      /\ \A m \in Node : m # n => t[m] = r[m]
  BY DEF RowsOK
<1> HIDE DEF t
<1>2. \A m \in Node : t[m].status # "completed" => t[m].ports = {}
  BY <1>1 DEF RowsOK
<1>3. Settled(r) \subseteq Settled(t)
  BY <1>1 DEF Settled
<1>4. ASSUME NEW m \in Node, Reached(r, m) PROVE Reached(t, m)
  <2>1. ASSUME NEW e \in Incoming(m), Active(r, e) PROVE Active(t, e)
    <3>1. e.source \in Node
      BY GraphAssumption DEF GraphAssumption, Incoming
    <3>2. e.source # n
      BY <2>1 DEF Active, IsSettled
    <3> QED BY <1>1, <2>1, <3>1, <3>2 DEF Active
  <2> QED BY <1>3, <1>4, <2>1 DEF Reached, Lit
<1>5. ASSUME NEW m \in Held(t) PROVE Reached(t, m)
  <2>1. m \in Node /\ IsHeld(t[m])
    BY <1>5 DEF Held
  <2>2. Reached(r, m)
    <3>1. CASE m = n
      BY <1>1, <2>1, <3>1
    <3>2. CASE m # n
      BY <1>1, <2>1, <3>2 DEF RowsOK, Held
    <3> QED BY <3>1, <3>2
  <2> QED BY <1>4, <2>1, <2>2
<1>6. RowsOK(t)
  BY <1>1, <1>2, <1>5 DEF RowsOK
<1> QED BY <1>6 DEF t

\* What starting a job does to its row: a fresh claim of a ready node, or one
\* more attempt at a node already held.
LEMMA StartMoves ==
  ASSUME RowsInv, now \in Nat, Drive, ~\E m \in Drops(rows, {}) : SettleSkip(m)
  PROVE  \E n \in Node : \E row \in Row :
           /\ rows' = [rows EXCEPT ![n] = row]
           /\ job' = n /\ stack' = <<ReplayOf(n, row)>>
           /\ UNCHANGED <<reason, subs, now, crashes, log, asked, accepted>>
           /\ Reached(rows, n) /\ n \in Node \ Note
           /\ row.status = "claimed" /\ row.ports = {} /\ rows[n].ports = {}
           /\ \/ rows[n].status = "absent" /\ row.attempts = 1 /\ row.first = now
              \/ /\ IsHeld(rows[n]) /\ row.first = rows[n].first
                 /\ row.attempts = rows[n].attempts + 1
<1>1. PICK n \in Node : /\ Start(n)
                        /\ \/ Drops(rows, {}) = {} /\ n \in Ready(rows)
                           \/ IsHeld(rows[n])
  BY DEF Drive, Dispatch, Redispatch, Ready, Held
<1> DEFINE row == Claimed(rows[n], Driver, now)
<1>2. rows[n] \in Row /\ Driver \in Owner
  BY NestedAssumption DEF NestedAssumption, RowsInv, RowsOK
<1>3. row \in Row
  BY <1>2, RowTypes
<1>4. /\ row.status = "claimed"
      /\ rows[n].status = "absent" =>
           row = [status |-> "claimed", owner |-> Driver, attempts |-> 1,
                  first |-> now, ports |-> {}]
      /\ rows[n].status # "absent" =>
           row = [rows[n] EXCEPT !.status = "claimed", !.attempts = @ + 1]
  BY <1>2, ClaimedMakes
<1>5. /\ rows' = [rows EXCEPT ![n] = row]
      /\ job' = n /\ stack' = <<ReplayOf(n, row)>>
      /\ UNCHANGED <<reason, subs, now, crashes, log, asked, accepted>>
  BY <1>1 DEF Start
<1> HIDE DEF row
<1>6. CASE Drops(rows, {}) = {} /\ n \in Ready(rows)
  <2>1. rows[n].status = "absent" /\ n \in Node \ Note /\ Reached(rows, n)
    BY <1>6, QuietReady DEF Reached
  <2>2. rows[n].ports = {}
    BY <2>1 DEF RowsInv, RowsOK
  <2>3. row.attempts = 1 /\ row.first = now /\ row.ports = {}
    BY <1>4, <2>1
  <2> QED BY <1>3, <1>4, <1>5, <2>1, <2>2, <2>3
<1>7. CASE IsHeld(rows[n])
  <2>1. rows[n].status # "absent" /\ rows[n].status # "completed"
    BY <1>7 DEF IsHeld
  <2>2. Reached(rows, n) /\ rows[n].ports = {} /\ n \in Node \ Note
    BY <1>7, <2>1 DEF RowsInv, RowsOK, Held, Reached
  <2>3. row.attempts = rows[n].attempts + 1 /\ row.first = rows[n].first
        /\ row.ports = {}
    <3>1. row = [rows[n] EXCEPT !.status = "claimed", !.attempts = @ + 1]
      BY <1>4, <2>1
    <3> QED BY <1>2, <2>2, <3>1 DEF Row
  <2> QED BY <1>3, <1>4, <1>5, <1>7, <2>2, <2>3
<1> QED BY <1>1, <1>6, <1>7

\* What the end of a job does to its row.
Finishes == FinishOutput \/ FinishSkip \/ FinishPause \/ FinishError

LEMMA FinishMoves ==
  ASSUME RowsInv, StackInv, Finishes
  PROVE  \E row \in Row :
           /\ Finish(row) /\ job \in Node /\ IsHeld(rows[job])
           /\ \/ row.status = "completed"
              \/ row.status = "skipped" /\ job \in Lane
              \/ row.status = "failed" \/ IsHeld(row)
           /\ row.status # "completed" => row.ports = {}
           /\ row.attempts = rows[job].attempts /\ row.first = rows[job].first
<1>1. stack # <<>>
  <2>1. Len(stack) = 1
    BY DEF Finishes, FinishOutput, FinishSkip, FinishPause, FinishError, Over
  <2>2. Len(<<>>) = 0
    OBVIOUS
  <2> QED BY <2>1, <2>2
<1>2. job \in Node /\ BottomOK(Top, job, rows)
  BY <1>1, TopIsWalk DEF Finishes, FinishOutput, FinishSkip, FinishPause,
                         FinishError, Over
<1>3. job # NoNode
  BY <1>2, NestedAssumption DEF NestedAssumption, NodeId
<1>4. rows[job] \in Row /\ rows[job].status = "claimed" /\ rows[job].ports = {}
  BY <1>2, <1>3 DEF RowsInv, RowsOK
<1>5. IsHeld(rows[job])
  BY <1>4 DEF IsHeld
<1>6. CASE FinishOutput
  <2>1. Top.ports[job] \in SUBSET RowPort
    BY <1>2, <1>6, NestedAssumption DEF NestedAssumption, BottomOK, FinishOutput, Over
  <2> DEFINE row == Completed(rows[job], Top.ports[job])
  <2>2. row \in Row
    BY <1>4, <2>1, RowTypes
  <2>3. row.status = "completed" /\ row.attempts = rows[job].attempts
        /\ row.first = rows[job].first
    BY <1>4 DEF Completed, Row
  <2> QED BY <1>2, <1>5, <1>6, <2>2, <2>3 DEF FinishOutput
<1>7. CASE FinishSkip
  <2>1. job \in Lane
    BY <1>2, <1>7 DEF BottomOK, FinishSkip, Over
  <2>2. Skipped(rows[job]) \in Row
    BY <1>4, RowTypes
  <2>3. /\ Skipped(rows[job]).status = "skipped" /\ Skipped(rows[job]).ports = {}
        /\ Skipped(rows[job]).attempts = rows[job].attempts
        /\ Skipped(rows[job]).first = rows[job].first
    BY <1>4 DEF Skipped, Row
  <2> QED BY <1>2, <1>5, <1>7, <2>1, <2>2, <2>3 DEF FinishSkip
<1>8. CASE FinishPause
  <2>1. Paused(rows[job]) \in Row
    BY <1>4, RowTypes
  <2>2. /\ Paused(rows[job]).status = "paused" /\ Paused(rows[job]).ports = {}
        /\ Paused(rows[job]).attempts = rows[job].attempts
        /\ Paused(rows[job]).first = rows[job].first
    BY <1>4 DEF Paused, Row
  <2>3. IsHeld(Paused(rows[job])) /\ Paused(rows[job]).status # "completed"
    BY <2>2 DEF IsHeld
  <2> QED BY <1>2, <1>5, <1>8, <2>1, <2>2, <2>3 DEF FinishPause
<1>9. CASE FinishError
  <2>1. Failed(rows[job]) \in Row
    BY <1>4, RowTypes
  <2>2. /\ Failed(rows[job]).status = "failed" /\ Failed(rows[job]).ports = {}
        /\ Failed(rows[job]).attempts = rows[job].attempts
        /\ Failed(rows[job]).first = rows[job].first
    BY <1>4 DEF Failed, Row
  <2>3. CASE Finish(Failed(rows[job]))
    BY <1>2, <1>5, <2>1, <2>2, <2>3
  <2>4. CASE Finish(rows[job])
    BY <1>2, <1>4, <1>5, <2>4
  <2> QED BY <1>9, <2>3, <2>4 DEF FinishError
<1> QED BY <1>6, <1>7, <1>8, <1>9 DEF Finishes

LEMMA SettleSkipMoves ==
  ASSUME RowsInv, NEW n \in Drops(rows, {}), SettleSkip(n)
  PROVE  /\ n \in Node /\ rows[n].status = "absent" /\ rows[n].ports = {}
         /\ Sources(n) \subseteq Settled(rows) /\ (~Lit(rows, n) \/ n \in Note)
         /\ Skipped(rows[n]) \in Row /\ Skipped(rows[n]).status = "skipped"
         /\ Skipped(rows[n]).ports = {}
         /\ rows' = [rows EXCEPT ![n] = Skipped(rows[n])]
         /\ UNCHANGED <<job, stack, reason, subs, now, crashes, log, asked, accepted>>
<1>1. /\ n \in Node /\ rows[n].status = "absent"
      /\ Sources(n) \subseteq Settled(rows) /\ (~Lit(rows, n) \/ n \in Note)
  BY DEF Drops, Unblocked, Undecided
<1>2. rows[n] \in Row /\ rows[n].ports = {}
  BY <1>1 DEF RowsInv, RowsOK
<1>3. Skipped(rows[n]) \in Row
  BY <1>2, RowTypes
<1>4. Skipped(rows[n]).status = "skipped" /\ Skipped(rows[n]).ports = {}
  BY <1>2 DEF Skipped, Row
<1> QED BY <1>1, <1>2, <1>3, <1>4 DEF SettleSkip

-----------------------------------------------------------------------------
(* The invariant of stack and rows. *)

JobInv == StackInv /\ RowsInv /\ now \in Nat \ {0}

LEMMA StartKeepsJob ==
  ASSUME JobInv, Drive, ~\E m \in Drops(rows, {}) : SettleSkip(m)
  PROVE  JobInv'
<1>1. PICK n \in Node, row \in Row :
           /\ rows' = [rows EXCEPT ![n] = row]
           /\ job' = n /\ stack' = <<ReplayOf(n, row)>>
           /\ UNCHANGED <<reason, subs, now, crashes, log, asked, accepted>>
           /\ Reached(rows, n) /\ n \in Node \ Note
           /\ row.status = "claimed" /\ row.ports = {} /\ rows[n].ports = {}
           /\ \/ rows[n].status = "absent" \/ IsHeld(rows[n])
  BY StartMoves DEF JobInv
<1>2. RowsOK(rows')
  BY <1>1, WriteKeepsRows DEF JobInv, RowsInv, IsSettled, IsHeld
<1>3. rows'[n] = row /\ \A m \in Node : m # n => rows'[m] = rows[m]
  BY <1>1 DEF JobInv, RowsInv, RowsOK
<1>4. RowsInv'
  BY <1>1, <1>2, <1>3 DEF RowsInv
<1> DEFINE w == ReplayOf(n, row)
           v == Walk(Whole, TRUE, TopIdentity(row), NoNode, 0, Empty)
           ports == [m \in Node |-> rows[m].ports]
<1>5. /\ DOMAIN v = WalkFields
      /\ v.graph = Whole /\ v.durable = TRUE
      /\ v.identity = TopIdentity(row) /\ v.holder = NoNode /\ v.ran = {}
  BY WalkMakes DEF Walk
<1>6. /\ DOMAIN w = WalkFields
      /\ w.todo = {n} /\ w.ports = ports
      /\ w.graph = v.graph /\ w.durable = v.durable /\ w.identity = v.identity
      /\ w.holder = v.holder /\ w.ran = v.ran
  <2>1. w = [v EXCEPT !.todo = {n}, !.ports = ports]
    BY DEF ReplayOf
  <2> HIDE DEF v, w, ports
  <2> QED BY <1>5, <2>1 DEF WalkFields
<1> HIDE DEF v, w
<1>7. ports = [m \in Node |-> rows'[m].ports]
  BY <1>1, <1>3
<1>8. IsWalk(w)
  <2>1. w.graph.nodes = Node /\ Node \subseteq NodeId
    BY <1>5, <1>6 DEF Whole, NodeId
  <2>2. w.identity.path = <<>>
    BY <1>5, <1>6 DEF TopIdentity
  <2>3. IsSeq(w.identity.path)
    <3>1. <<>> \in Seq({})
      OBVIOUS
    <3> QED BY <2>2, <3>1 DEF IsSeq
  <2> QED BY <1>5, <1>6, <2>1, <2>3 DEF IsWalk
<1>9. BottomOK(w, n, rows')
  BY <1>3, <1>5, <1>6, <1>7 DEF BottomOK
<1>10. stack' = <<w>>
  BY <1>1 DEF w
<1>11. IsSeq(stack') /\ Len(stack') = 1 /\ stack'[1] = w /\ stack' # <<>>
  <2>1. <<w>> \in Seq({w}) /\ Len(<<w>>) = 1 /\ <<w>>[1] = w /\ <<w>> # <<>>
    OBVIOUS
  <2> QED BY <1>10, <2>1 DEF IsSeq
<1>12. n # NoNode
  BY NestedAssumption DEF NestedAssumption, NodeId
<1>13. StackInv'
  <2>1. 1..Len(stack') = {1} /\ 2..Len(stack') = {}
    BY <1>11
  <2> QED BY <1>1, <1>8, <1>9, <1>11, <1>12, <2>1 DEF StackInv, StackOK
<1> QED BY <1>1, <1>4, <1>13 DEF JobInv

\* Without a job the stack is empty, whatever the rows.
LEMMA NoJobStack ==
  ASSUME NEW r
  PROVE  StackOK(<<>>, NoNode, r)
<1>1. <<>> \in Seq({}) /\ Len(<<>>) = 0
  OBVIOUS
<1>2. IsSeq(<<>>)
  BY <1>1 DEF IsSeq
<1>3. 1..Len(<<>>) = {} /\ 2..Len(<<>>) = {}
  BY <1>1
<1> QED BY <1>2, <1>3 DEF StackOK

LEMMA FinishKeepsJob ==
  ASSUME JobInv, Finishes
  PROVE  JobInv'
<1>1. PICK row \in Row :
           /\ Finish(row) /\ job \in Node /\ IsHeld(rows[job])
           /\ row.status # "completed" => row.ports = {}
  BY FinishMoves DEF JobInv
<1>2. Reached(rows, job) /\ ~IsSettled(rows[job])
  BY <1>1 DEF JobInv, RowsInv, RowsOK, Held, IsHeld, IsSettled
<1>3. RowsOK(rows')
  BY <1>1, <1>2, WriteKeepsRows DEF JobInv, RowsInv, Finish
<1>4. job' = NoNode /\ stack' = <<>> /\ now' = now
  BY <1>1 DEF Finish
<1> QED BY <1>3, <1>4, NoJobStack DEF JobInv, RowsInv, StackInv

LEMMA SettleSkipKeepsJob ==
  ASSUME JobInv, NEW n \in Drops(rows, {}), SettleSkip(n)
  PROVE  JobInv'
<1>1. /\ n \in Node /\ rows[n].status = "absent"
      /\ Skipped(rows[n]) \in Row /\ Skipped(rows[n]).status = "skipped"
      /\ Skipped(rows[n]).ports = {}
      /\ rows' = [rows EXCEPT ![n] = Skipped(rows[n])]
      /\ UNCHANGED <<job, stack, now>>
  BY SettleSkipMoves DEF JobInv
<1>2. RowsOK(rows')
  BY <1>1, WriteKeepsRows DEF JobInv, RowsInv, IsSettled, IsHeld
<1>3. job = NoNode /\ stack = <<>>
  BY DEF SettleSkip, JobInv, StackInv, StackOK
<1> QED BY <1>1, <1>2, <1>3, NoJobStack DEF JobInv, RowsInv, StackInv

LEMMA JobKept == JobInv /\ [Next]_vars => JobInv'
<1> SUFFICES ASSUME JobInv, [Next]_vars PROVE JobInv'
  OBVIOUS
<1>1. CASE Visiting /\ \E n \in Top.todo : Visit(n)
  <2>1. PICK n \in Top.todo : Visit(n)
    BY <1>1
  <2>2. StackInv' /\ UNCHANGED <<rows, job>>
    BY <1>1, <2>1, VisitKeepsStack DEF JobInv
  <2>3. now' = now
    BY <2>1 DEF Visit, VisitDead, RunStep, PassGate, ParkGate, RunForEach,
                RunSubgraph, RunSubflow
  <2> QED BY <2>2, <2>3 DEF JobInv, RowsInv
<1>2. CASE EndLane \/ EndChild
  <2>1. StackInv' /\ UNCHANGED <<rows, job>>
    BY <1>2, EndKeepsStack DEF JobInv
  <2>2. now' = now
    BY <1>2 DEF EndLane, EndChild
  <2> QED BY <2>1, <2>2 DEF JobInv, RowsInv
<1>3. CASE Finishes
  BY <1>3, FinishKeepsJob
<1>4. CASE Drive
  <2>1. CASE \E n \in Drops(rows, {}) : SettleSkip(n)
    BY <2>1, SettleSkipKeepsJob
  <2> QED BY <1>4, <2>1, StartKeepsJob
<1>5. ASSUME NEW g \in GateId, Record(g) PROVE JobInv'
  BY <1>5 DEF Record, JobInv, StackInv, RowsInv
<1>6. CASE Crash
  <2>1. rows' = rows /\ job' = NoNode /\ stack' = <<>> /\ now' \in Nat \ {0}
    BY <1>6, NestedAssumption DEF Crash, NestedAssumption, JobInv
  <2> QED BY <2>1, NoJobStack DEF JobInv, StackInv, RowsInv
<1>7. CASE UNCHANGED vars
  BY <1>7 DEF vars, JobInv, StackInv, RowsInv
<1> QED BY <1>1, <1>2, <1>3, <1>4, <1>5, <1>6, <1>7 DEF Next, JobSteps, Finishes

LEMMA InitJob == Init => JobInv
<1> SUFFICES ASSUME Init PROVE JobInv
  OBVIOUS
<1>1. StackInv
  BY NoJobStack DEF Init, StackInv
<1>2. rows \in [Node -> Row] /\ \A n \in Node : rows[n] = Absent
  BY RowTypes DEF Init
<1>3. \A n \in Node : rows[n].ports = {} /\ ~IsHeld(rows[n])
  BY <1>2 DEF Absent, IsHeld
<1>4. RowsOK(rows)
  BY <1>2, <1>3 DEF RowsOK, Held
<1> QED BY <1>1, <1>4 DEF Init, JobInv, RowsInv

-----------------------------------------------------------------------------
(* The run is a run of DurableRun. *)

PhaseOf(row) ==
  IF row.status = "absent" THEN "pending"
  ELSE IF IsHeld(row) THEN "held" ELSE row.status

Phase(r) == [n \in Node |-> PhaseOf(r[n])]
Ports(r) == [n \in Node |-> r[n].ports]

\* A node is due, and live, in the abstract run as it is in the rows.
LEMMA AbstractReach ==
  ASSUME RowsInv, NEW n \in Node
  PROVE  /\ rows[n].status = "absent" /\ Sources(n) \subseteq Settled(rows) => Run!Due(n)
         /\ Run!Live(n) = Lit(rows, n)
<1>1. \A m \in Node : /\ rows[m].status \in RunStatus \cup {"absent"}
                      /\ IsSettled(rows[m]) => PhaseOf(rows[m]) \in Run!Over
                      /\ (PhaseOf(rows[m]) = "completed") = (rows[m].status = "completed")
  BY DEF RowsInv, RowsOK, Row, RunStatus, IsSettled, IsHeld, PhaseOf, Run!Over
<1>2. Run!Incoming(n) = Incoming(n) /\ Run!Sources(n) = Sources(n)
  BY DEF Run!Incoming, Run!Sources, Incoming, Sources
<1>3. \A e \in Incoming(n) : e.source \in Node
  BY GraphAssumption DEF GraphAssumption, Incoming
<1>4. Run!Live(n) = Lit(rows, n)
  BY <1>1, <1>2, <1>3 DEF Run!Live, Lit, Active, PhaseOf
<1>5. ASSUME rows[n].status = "absent", Sources(n) \subseteq Settled(rows)
      PROVE  Run!Due(n)
  <2>1. \A m \in Sources(n) : m \in Node /\ PhaseOf(rows[m]) \in Run!Over
    BY <1>1, <1>5 DEF Settled
  <2> QED BY <1>2, <1>5, <2>1 DEF Run!Due, PhaseOf
<1> QED BY <1>4, <1>5

\* A write to one row moves one node of the abstract run.
LEMMA AbstractMove ==
  ASSUME RowsInv, NEW n \in Node, NEW row \in Row,
         rows' = [rows EXCEPT ![n] = row]
  PROVE  /\ Phase(rows') = [Phase(rows) EXCEPT ![n] = PhaseOf(row)]
         /\ Ports(rows') = [Ports(rows) EXCEPT ![n] = row.ports]
         /\ row.ports = rows[n].ports => Ports(rows') = Ports(rows)
         /\ PhaseOf(row) = PhaseOf(rows[n]) => Phase(rows') = Phase(rows)
<1>1. rows'[n] = row /\ \A m \in Node : m # n => rows'[m] = rows[m]
  BY DEF RowsInv, RowsOK
<1>2. /\ \A m \in Node : PhaseOf(rows'[m]) = IF m = n THEN PhaseOf(row) ELSE PhaseOf(rows[m])
      /\ \A m \in Node : rows'[m].ports = IF m = n THEN row.ports ELSE rows[m].ports
  BY <1>1
<1>3. Phase(rows') = [Phase(rows) EXCEPT ![n] = PhaseOf(row)]
  BY <1>2 DEF Phase
<1>4. Ports(rows') = [Ports(rows) EXCEPT ![n] = row.ports]
  BY <1>2 DEF Ports
<1>5. row.ports = rows[n].ports => Ports(rows') = Ports(rows)
  BY <1>2 DEF Ports
<1>6. PhaseOf(row) = PhaseOf(rows[n]) => Phase(rows') = Phase(rows)
  BY <1>2 DEF Phase
<1> QED BY <1>3, <1>4, <1>5, <1>6

\* The moves of the abstract run, in terms of the rows.
LEMMA AbstractActions ==
  \A n : /\ /\ Phase(rows)[n] = "held" /\ Phase(rows') = [Phase(rows) EXCEPT ![n] = "failed"]
            /\ Ports(rows') = Ports(rows)
            => Run!Fail(n)
         /\ /\ Phase(rows)[n] = "held" /\ n \in Lane
            /\ Phase(rows') = [Phase(rows) EXCEPT ![n] = "skipped"]
            /\ Ports(rows') = Ports(rows)
            => Run!PassOver(n)
         /\ /\ Phase(rows)[n] = "held" /\ Phase(rows') = [Phase(rows) EXCEPT ![n] = "completed"]
            /\ \E P \in SUBSET Port : Ports(rows') = [Ports(rows) EXCEPT ![n] = P]
            => Run!Finish(n)
BY Zenon DEF Run!Fail, Run!PassOver, Run!Finish, Run!Move, Phase, Ports, PhaseOf

LEMMA AbstractQuiet ==
  UNCHANGED rows => Phase(rows') = Phase(rows) /\ Ports(rows') = Ports(rows)
BY DEF Phase, Ports

RunStepOrStutter ==
  \/ \E n \in Node : \/ Run!Start(n) \/ Run!Finish(n) \/ Run!Fail(n)
                     \/ Run!PassOver(n) \/ Run!Withdraw(n)
  \/ Phase(rows') = Phase(rows) /\ Ports(rows') = Ports(rows)

LEMMA StartIsAbstract ==
  ASSUME JobInv, Drive, ~\E m \in Drops(rows, {}) : SettleSkip(m)
  PROVE  RunStepOrStutter
<1>1. PICK n \in Node, row \in Row :
           /\ rows' = [rows EXCEPT ![n] = row]
           /\ Reached(rows, n) /\ n \in Node \ Note
           /\ row.status = "claimed" /\ row.ports = {} /\ rows[n].ports = {}
           /\ \/ rows[n].status = "absent" \/ IsHeld(rows[n])
  BY StartMoves DEF JobInv
<1>2. PhaseOf(row) = "held"
  BY <1>1 DEF PhaseOf, IsHeld
<1>3. Phase(rows') = [Phase(rows) EXCEPT ![n] = "held"] /\ Ports(rows') = Ports(rows)
  <2>1. /\ Phase(rows') = [Phase(rows) EXCEPT ![n] = PhaseOf(row)]
        /\ row.ports = rows[n].ports => Ports(rows') = Ports(rows)
    BY <1>1, AbstractMove DEF JobInv
  <2> QED BY <1>1, <1>2, <2>1
<1>4. CASE rows[n].status = "absent"
  <2>1. Run!Due(n) /\ Run!Live(n) /\ n \notin Note
    BY <1>1, <1>4, AbstractReach DEF JobInv, Reached
  <2>2. Run!Start(n)
    BY <1>3, <2>1 DEF Run!Start, Run!Move, Phase, Ports, PhaseOf
  <2> QED BY <2>2 DEF RunStepOrStutter
<1>5. CASE IsHeld(rows[n])
  <2>1. PhaseOf(rows[n]) = "held"
    BY <1>5 DEF PhaseOf, IsHeld
  <2>2. Phase(rows') = Phase(rows)
    BY <1>1, <1>2, <2>1, AbstractMove DEF JobInv
  <2> QED BY <1>3, <2>2 DEF RunStepOrStutter
<1> QED BY <1>1, <1>4, <1>5

\* The end of a job at a node it holds.
LEMMA HeldMoves ==
  ASSUME RowsInv, NEW n \in Node, NEW row \in Row,
         rows' = [rows EXCEPT ![n] = row], IsHeld(rows[n]),
         \/ row.status = "completed"
         \/ row.status = "skipped" /\ n \in Lane
         \/ row.status = "failed" \/ IsHeld(row),
         row.status # "completed" => row.ports = {}
  PROVE  RunStepOrStutter
<1>1. /\ Phase(rows') = [Phase(rows) EXCEPT ![n] = PhaseOf(row)]
      /\ Ports(rows') = [Ports(rows) EXCEPT ![n] = row.ports]
      /\ row.ports = rows[n].ports => Ports(rows') = Ports(rows)
      /\ PhaseOf(row) = PhaseOf(rows[n]) => Phase(rows') = Phase(rows)
  BY AbstractMove
<1>2. rows[n].ports = {} /\ PhaseOf(rows[n]) = "held" /\ Phase(rows)[n] = "held"
  BY DEF RowsInv, RowsOK, IsHeld, PhaseOf, Phase
<1>3. CASE row.status = "completed"
  <2>1. PhaseOf(row) = "completed" /\ row.ports \in SUBSET Port
    BY <1>3, NestedAssumption DEF NestedAssumption, PhaseOf, IsHeld, Row
  <2>2. Run!Finish(n)
    BY <1>1, <1>2, <2>1, AbstractActions
  <2> QED BY <2>2 DEF RunStepOrStutter
<1>4. CASE row.status = "skipped" /\ n \in Lane
  <2>1. PhaseOf(row) = "skipped" /\ row.ports = {}
    BY <1>4 DEF PhaseOf, IsHeld
  <2>2. Run!PassOver(n)
    BY <1>1, <1>2, <1>4, <2>1, AbstractActions
  <2> QED BY <2>2 DEF RunStepOrStutter
<1>5. CASE row.status = "failed"
  <2>1. PhaseOf(row) = "failed" /\ row.ports = {}
    BY <1>5 DEF PhaseOf, IsHeld
  <2>2. Run!Fail(n)
    BY <1>1, <1>2, <2>1, AbstractActions
  <2> QED BY <2>2 DEF RunStepOrStutter
<1>6. CASE IsHeld(row)
  <2>1. PhaseOf(row) = "held" /\ row.ports = {}
    BY <1>6 DEF PhaseOf, IsHeld
  <2> QED BY <1>1, <1>2, <2>1 DEF RunStepOrStutter
<1> QED BY <1>3, <1>4, <1>5, <1>6

LEMMA FinishIsAbstract ==
  ASSUME JobInv, Finishes
  PROVE  RunStepOrStutter
<1>1. PICK row \in Row :
           /\ Finish(row) /\ job \in Node /\ IsHeld(rows[job])
           /\ \/ row.status = "completed"
              \/ row.status = "skipped" /\ job \in Lane
              \/ row.status = "failed" \/ IsHeld(row)
           /\ row.status # "completed" => row.ports = {}
  BY FinishMoves DEF JobInv
<1> QED BY <1>1, HeldMoves DEF JobInv, Finish

LEMMA SkipIsAbstract ==
  ASSUME JobInv, NEW n \in Drops(rows, {}), SettleSkip(n)
  PROVE  RunStepOrStutter
<1> DEFINE row == Skipped(rows[n])
<1>1. /\ n \in Node /\ rows[n].status = "absent" /\ rows[n].ports = {}
      /\ Sources(n) \subseteq Settled(rows) /\ (~Lit(rows, n) \/ n \in Note)
      /\ row \in Row /\ row.status = "skipped" /\ row.ports = {}
      /\ rows' = [rows EXCEPT ![n] = row]
  BY SettleSkipMoves DEF JobInv
<1> HIDE DEF row
<1>2. PhaseOf(row) = "skipped"
  BY <1>1 DEF PhaseOf, IsHeld
<1>3. Phase(rows') = [Phase(rows) EXCEPT ![n] = "skipped"] /\ Ports(rows') = Ports(rows)
  <2>1. /\ Phase(rows') = [Phase(rows) EXCEPT ![n] = PhaseOf(row)]
        /\ row.ports = rows[n].ports => Ports(rows') = Ports(rows)
    BY <1>1, AbstractMove DEF JobInv
  <2> QED BY <1>1, <1>2, <2>1
<1>4. Run!Due(n) /\ (~Run!Live(n) \/ n \in Note)
  BY <1>1, AbstractReach DEF JobInv
<1>5. Run!PassOver(n)
  BY <1>3, <1>4 DEF Run!PassOver, Run!Move, Phase, Ports, PhaseOf
<1> QED BY <1>1, <1>5 DEF RunStepOrStutter

LEMMA StepIsAbstract == JobInv /\ [Next]_vars => RunStepOrStutter
<1> SUFFICES ASSUME JobInv, [Next]_vars PROVE RunStepOrStutter
  OBVIOUS
<1>1. ASSUME UNCHANGED rows PROVE RunStepOrStutter
  BY <1>1, AbstractQuiet DEF RunStepOrStutter
<1>2. CASE JobSteps
  <2>1. CASE Finishes
    BY <2>1, FinishIsAbstract
  <2>2. CASE EndLane \/ EndChild
    BY <1>1, <2>2 DEF EndLane, EndChild
  <2>3. ASSUME NEW n, Visit(n) PROVE RunStepOrStutter
    BY <1>1, <2>3 DEF Visit, VisitDead, RunStep, PassGate, ParkGate, RunForEach,
                      RunSubgraph, RunSubflow
  <2> QED BY <1>2, <2>1, <2>2, <2>3 DEF JobSteps, Finishes
<1>3. CASE Drive
  BY <1>3, StartIsAbstract, SkipIsAbstract
<1>4. CASE (\E g \in GateId : Record(g)) \/ Crash \/ UNCHANGED vars
  BY <1>1, <1>4 DEF Record, Crash, vars
<1> QED BY <1>2, <1>3, <1>4 DEF Next

\* Whatever runs inside its nodes, a run starts, finishes, fails and passes
\* over its own nodes as DurableRun allows: on every graph, however deep the
\* nesting and however many crashes, pauses and retries.
THEOREM NestedRefines == Spec => NestedImplementsDurableRun
<1>1. Init => Run!RunInit
  BY DEF Init, Absent, Run!RunInit
<1>2. JobInv /\ [Next]_vars => [Run!RunNext]_Run!runVars
  BY StepIsAbstract DEF RunStepOrStutter, Run!RunNext, Run!runVars, Phase, Ports, PhaseOf
<1> QED BY <1>1, <1>2, InitJob, JobKept, PTL
        DEF Spec, NestedImplementsDurableRun, Run!RunSpec

-----------------------------------------------------------------------------
(* The dedup window. *)

LEMMA Deeper ==
  /\ \A k \in Nat \ {0} : k # 1 => 2 \in 2..k /\ k \in 2..k
  /\ \A k : k > 1 => k # 1 /\ k # 0
OBVIOUS

\* The step a job's own node takes.
JobStep == [path |-> <<>>, node |-> job]

\* A row remembers a time no later than the first call it covers, and a job
\* that is about to call again knows that it is not the first attempt.
Stamped ==
  \A n \in Held(rows) : rows[n].attempts >= 1 /\ rows[n].first <= now

CallsCovered ==
  \A s \in DOMAIN log :
    s.path = <<>> => /\ s.node \in Node /\ log[s].since \in Nat
                     /\ rows[s.node].status # "absent"
                     /\ rows[s.node].first <= log[s].since

AboutToCall ==
  /\ stack # <<>> /\ job \in stack[1].todo
  /\ Len(stack) # 1 \/ reason = NoReason

LogInv ==
  /\ Stamped /\ CallsCovered /\ RetriesStayInWindow
  /\ AboutToCall /\ JobStep \in DOMAIN log => rows[job].attempts > 1

\* The calls of nested walks have other keys, and the call of the job's own
\* node asks about the clock of its own row.
LEMMA LoggedKeepsWindow ==
  ASSUME JobInv, LogInv, Visiting, NEW n \in Top.todo, Logged(n),
         UNCHANGED <<rows, job, now>>
  PROVE  /\ CallsCovered' /\ RetriesStayInWindow'
         /\ Len(stack) # 1 => (JobStep \in DOMAIN log' => JobStep \in DOMAIN log)
<1> DEFINE step == [path |-> Top.identity.path, node |-> n]
<1>0. step = [path |-> Top.identity.path, node |-> n] /\ log' = Called(Top, n)
  BY DEF Logged
<1> HIDE DEF step
<1>1. /\ DOMAIN log' = DOMAIN log \cup {step}
      /\ \A s \in DOMAIN log : s # step => log'[s] = log[s]
      /\ log'[step].again <=> step \in DOMAIN log
      /\ log'[step].since = IF step \in DOMAIN log THEN log[step].since ELSE now
      /\ log'[step].at = now
      /\ log'[step].safe <=> IsReplaySafe(Top.identity, now, Window)
  BY <1>0, LoggedMakes
<1>2. stack # <<>> /\ reason = NoReason /\ Len(stack) \in Nat \ {0}
  BY TopIsWalk DEF Visiting, JobInv
<1>3. CASE Len(stack) # 1
  <2>1. step.path # <<>>
    <3>1. Len(stack) \in 2..Len(stack)
      BY <1>2, <1>3, Deeper
    <3> QED BY <1>2, <3>1 DEF JobInv, StackInv, StackOK, Top, step
  <2>2. \A s \in DOMAIN log' : s.path = <<>> => s \in DOMAIN log /\ log'[s] = log[s]
    BY <1>1, <2>1
  <2>3. JobStep.path = <<>>
    BY DEF JobStep
  <2>4. RetriesStayInWindow' /\ CallsCovered'
    BY <2>2 DEF LogInv, RetriesStayInWindow, CallsCovered
  <2> QED BY <2>2, <2>3, <2>4
<1>4. CASE Len(stack) = 1
  <2>1. /\ n = job /\ job \in Node
        /\ Top.identity = TopIdentity(rows[job]) /\ job \in stack[1].todo
    BY <1>2, <1>4, TopIsWalk, VisitedIsNode DEF JobInv, BottomOK, Top
  <2>2. step = JobStep
    BY <2>1 DEF step, JobStep, TopIdentity
  <2>3. step.path = <<>> /\ step.node = job
    BY <2>2 DEF JobStep
  <2>4. /\ rows[job] \in Row /\ rows[job].status # "absent" /\ now \in Nat
        /\ rows[job].first <= now
    <3>1. job # NoNode
      BY <2>1, NestedAssumption DEF NestedAssumption, NodeId
    <3>2. rows[job] \in Row /\ rows[job].status = "claimed"
      BY <2>1, <3>1 DEF JobInv, RowsInv, RowsOK
    <3>3. job \in Held(rows)
      BY <2>1, <3>2 DEF Held, IsHeld
    <3> QED BY <3>2, <3>3 DEF JobInv, LogInv, Stamped
  <2>5. /\ log'[step].since \in Nat
        /\ rows[job].first <= log'[step].since
    BY <1>1, <2>3, <2>4 DEF LogInv, CallsCovered
  <2>6. log'[step].again /\ log'[step].safe =>
          Window = None \/ log'[step].at - log'[step].since <= Window
    <3> SUFFICES ASSUME log'[step].again, log'[step].safe, Window # None
                 PROVE  now - log'[step].since <= Window
      BY <1>1
    <3>1. rows[job].attempts > 1
      BY <1>1, <1>2, <2>1, <2>2 DEF LogInv, AboutToCall
    <3>2. Top.identity.attempt = rows[job].attempts
          /\ Top.identity.first = rows[job].first
      BY <2>1 DEF TopIdentity
    <3>3. rows[job].attempts \in Nat /\ rows[job].first \in Nat
      BY <2>4 DEF Row
    <3>4. Window \in Nat
      BY NestedAssumption DEF NestedAssumption
    <3>5. IsReplaySafe(Top.identity, now, Window)
      BY <1>1
    <3>6. now - rows[job].first <= Window
      BY <3>1, <3>2, <3>3, <3>4, <3>5 DEF IsReplaySafe
    <3> QED BY <2>4, <2>5, <3>3, <3>4, <3>6
  <2>7. ASSUME NEW s \in DOMAIN log', s.path = <<>>
        PROVE  /\ s.node \in Node /\ log'[s].since \in Nat
               /\ rows[s.node].status # "absent"
               /\ rows[s.node].first <= log'[s].since
               /\ log'[s].again /\ log'[s].safe =>
                    Window = None \/ log'[s].at - log'[s].since <= Window
    <3>1. CASE s = step
      BY <2>1, <2>3, <2>4, <2>5, <2>6, <3>1
    <3>2. CASE s # step
      <4>1. s \in DOMAIN log /\ log'[s] = log[s]
        BY <1>1, <3>2
      <4> QED BY <2>7, <4>1 DEF LogInv, CallsCovered, RetriesStayInWindow
    <3> QED BY <3>1, <3>2
  <2>8. RetriesStayInWindow'
    BY <2>7 DEF RetriesStayInWindow
  <2>9. rows' = rows
    OBVIOUS
  <2>10. CallsCovered'
    BY <2>7, <2>9 DEF CallsCovered
  <2> QED BY <1>4, <2>8, <2>10
<1> QED BY <1>3, <1>4

\* While anything is visited, the replay has still to pass the job's node.
LEMMA JobIsAhead ==
  ASSUME JobInv, stack # <<>>,
         Len(stack) # 1 \/ (Top.todo # {} /\ reason = NoReason)
  PROVE  AboutToCall
<1>1. Len(stack) \in Nat \ {0} /\ BottomOK(stack[1], job, rows)
  BY TopIsWalk DEF JobInv
<1>2. CASE Len(stack) # 1
  <2>1. 2 \in 2..Len(stack)
    BY <1>1, <1>2, Deeper
  <2>2. stack[2].holder \in stack[1].todo
    BY <2>1 DEF JobInv, StackInv, StackOK
  <2>3. job \in stack[1].todo
    BY <1>1, <2>2 DEF BottomOK
  <2> QED BY <1>2, <2>3 DEF AboutToCall
<1>3. CASE Len(stack) = 1 /\ Top.todo # {} /\ reason = NoReason
  <2>1. job \in stack[1].todo
    BY <1>1, <1>3 DEF BottomOK, Top
  <2>2. reason = NoReason
    BY <1>3
  <2> QED BY <2>1, <2>2, Zenon DEF AboutToCall
<1> QED BY <1>2, <1>3

\* Publishing or aborting ends what is ahead of the bottom walk.
LEMMA CallPasses ==
  ASSUME JobInv, Visiting, NEW n \in Top.todo, Len(stack) = 1,
         (\E ports : Publish(n, ports)) \/ (\E why : why # NoReason /\ Abort(why)),
         UNCHANGED job
  PROVE  ~AboutToCall'
<1>1. stack # <<>> /\ IsWalk(Top) /\ n = job
  BY TopIsWalk, VisitedIsNode DEF Visiting, JobInv
<1>2. CASE \E ports : Publish(n, ports)
  <2>1. PICK ports : Publish(n, ports)
    BY <1>2
  <2> DEFINE p == Passed(Top, n, ports, {n})
  <2>2. stack' = [stack EXCEPT ![Len(stack)] = p]
    BY <2>1 DEF Publish, SetTop
  <2>3. p.todo = Top.todo \ {n}
    BY <1>1, PassedMakes
  <2> HIDE DEF p
  <2>4. IsSeq(stack)
    BY DEF JobInv, StackInv, StackOK
  <2>5. stack'[1] = p
    BY <1>1, <2>2, <2>4, LastReplaced
  <2> QED BY <1>1, <2>3, <2>5 DEF AboutToCall
<1>3. CASE \E why : why # NoReason /\ Abort(why)
  <2>1. reason' # NoReason /\ stack' = stack
    BY <1>3 DEF Abort
  <2>2. Len(stack') = 1
    BY <2>1
  <2> QED BY <2>1, <2>2, Zenon DEF AboutToCall
<1> QED BY <1>2, <1>3

LEMMA VisitKeepsLog ==
  ASSUME JobInv, LogInv, Visiting, NEW n \in Top.todo, Visit(n)
  PROVE  LogInv'
<1>1. UNCHANGED <<rows, job, now>>
  BY DEF Visit, VisitDead, RunStep, PassGate, ParkGate, RunForEach,
         RunSubgraph, RunSubflow
<1>2. stack # <<>> /\ AboutToCall /\ JobStep' = JobStep /\ Stamped'
  <2>1. stack # <<>> /\ Top.todo # {} /\ reason = NoReason
    BY DEF Visiting
  <2>2. AboutToCall
    BY <2>1, JobIsAhead
  <2> QED BY <1>1, <2>1, <2>2 DEF JobStep, LogInv, Stamped
<1>3. CASE log' = log
  BY <1>1, <1>2, <1>3 DEF LogInv, CallsCovered, RetriesStayInWindow
<1>4. CASE RunStep(n) \/ PassGate(n)
  <2>1. /\ Logged(n)
        /\ (\E ports : Publish(n, ports)) \/ (\E why : why # NoReason /\ Abort(why))
    <3>1. Failure # NoReason
      BY DEF Failure, NoReason
    <3> QED BY <1>4, <3>1 DEF RunStep, PassGate
  <2>2. /\ CallsCovered' /\ RetriesStayInWindow'
        /\ Len(stack) # 1 => (JobStep \in DOMAIN log' => JobStep \in DOMAIN log)
    BY <1>1, <2>1, LoggedKeepsWindow
  <2>3. CASE Len(stack) = 1
    <3>1. ~AboutToCall'
      BY <1>1, <2>1, <2>3, CallPasses
    <3> QED BY <1>2, <2>2, <3>1 DEF LogInv
  <2>4. CASE Len(stack) # 1
    BY <1>1, <1>2, <2>2, <2>4 DEF LogInv
  <2> QED BY <2>3, <2>4
<1>5. CASE VisitDead(n) \/ ParkGate(n) \/ RunForEach(n) \/ RunSubgraph(n) \/ RunSubflow(n)
  BY <1>3, <1>5 DEF VisitDead, ParkGate, RunForEach, RunSubgraph, RunSubflow
<1> QED BY <1>4, <1>5 DEF Visit

LEMMA StartKeepsLog ==
  ASSUME JobInv, LogInv, Drive, ~\E m \in Drops(rows, {}) : SettleSkip(m)
  PROVE  LogInv'
<1>1. PICK n \in Node, row \in Row :
           /\ rows' = [rows EXCEPT ![n] = row]
           /\ job' = n /\ UNCHANGED <<now, log>>
           /\ row.status = "claimed"
           /\ \/ rows[n].status = "absent" /\ row.attempts = 1 /\ row.first = now
              \/ /\ IsHeld(rows[n]) /\ row.first = rows[n].first
                 /\ row.attempts = rows[n].attempts + 1
  BY StartMoves DEF JobInv
<1>2. rows'[n] = row /\ \A m \in Node : m # n => rows'[m] = rows[m]
  BY <1>1 DEF JobInv, RowsInv, RowsOK
<1>3. /\ now \in Nat /\ rows[n].attempts \in Nat /\ rows[n].first \in Nat
      /\ row.attempts \in Nat /\ row.first \in Nat
  BY <1>1 DEF JobInv, RowsInv, RowsOK, Row
<1>4. ASSUME IsHeld(rows[n])
      PROVE  row.attempts > 1 /\ row.first <= now
  <2>1. n \in Held(rows) /\ rows[n].status # "absent"
    BY <1>4 DEF Held, IsHeld
  <2>2. rows[n].attempts >= 1 /\ rows[n].first <= now
    BY <2>1 DEF LogInv, Stamped
  <2> QED BY <1>1, <1>3, <2>1, <2>2
<1>5. Stamped'
  <2>1. row.attempts >= 1 /\ row.first <= now
    BY <1>1, <1>3, <1>4
  <2> QED BY <1>1, <1>2, <2>1 DEF LogInv, Stamped, Held
<1>6. CallsCovered'
  <2> SUFFICES ASSUME NEW s \in DOMAIN log, s.path = <<>>
               PROVE  /\ s.node \in Node /\ log[s].since \in Nat
                      /\ rows'[s.node].status # "absent"
                      /\ rows'[s.node].first <= log[s].since
    BY <1>1 DEF CallsCovered
  <2>1. /\ s.node \in Node /\ log[s].since \in Nat
        /\ rows[s.node].status # "absent"
        /\ rows[s.node].first <= log[s].since
    BY DEF LogInv, CallsCovered
  <2>2. CASE s.node = n
    <3>1. rows'[s.node] = row /\ row.first = rows[s.node].first
      BY <1>1, <1>2, <2>1, <2>2
    <3> QED BY <1>1, <2>1, <3>1
  <2>3. CASE s.node # n
    BY <1>2, <2>1, <2>3
  <2> QED BY <2>2, <2>3
<1>7. RetriesStayInWindow'
  BY <1>1 DEF LogInv, RetriesStayInWindow
<1>8. ASSUME JobStep' \in DOMAIN log PROVE row.attempts > 1
  <2>1. JobStep'.path = <<>> /\ JobStep'.node = n
    BY <1>1 DEF JobStep
  <2>2. rows[n].status # "absent"
    BY <1>8, <2>1 DEF LogInv, CallsCovered
  <2> QED BY <1>1, <1>4, <2>2
<1> QED BY <1>1, <1>2, <1>5, <1>6, <1>7, <1>8 DEF LogInv

LEMMA RowsMoveKeepsLog ==
  ASSUME JobInv, LogInv, NEW n \in Node, NEW row \in Row,
         rows' = [rows EXCEPT ![n] = row], UNCHANGED <<now, log>>, stack' = <<>>,
         \/ rows[n].status = "absent" /\ ~IsHeld(row)
         \/ IsHeld(rows[n]) /\ row.attempts = rows[n].attempts,
         row.first = rows[n].first, row.status # "absent"
  PROVE  LogInv'
<1>1. rows'[n] = row /\ \A m \in Node : m # n => rows'[m] = rows[m]
  BY DEF JobInv, RowsInv, RowsOK
<1>2. Stamped'
  BY <1>1 DEF LogInv, Stamped, Held
<1>3. CallsCovered'
  BY <1>1 DEF LogInv, CallsCovered
<1>4. RetriesStayInWindow'
  BY DEF LogInv, RetriesStayInWindow
<1> QED BY <1>2, <1>3, <1>4 DEF LogInv, AboutToCall

LEMMA LogKept == JobInv /\ LogInv /\ [Next]_vars => LogInv'
<1> SUFFICES ASSUME JobInv, LogInv, [Next]_vars PROVE LogInv'
  OBVIOUS
<1>1. CASE Visiting /\ \E n \in Top.todo : Visit(n)
  BY <1>1, VisitKeepsLog
<1>2. CASE EndLane \/ EndChild
  <2>1. UNCHANGED <<rows, job, now, log>> /\ Len(stack) > 1
    BY <1>2 DEF EndLane, EndChild, Ended
  <2>2. stack # <<>> /\ Len(stack) # 1
    <3>1. Len(stack) # 1 /\ Len(stack) # 0
      BY <2>1, Deeper
    <3>2. Len(<<>>) = 0
      OBVIOUS
    <3> QED BY <3>1, <3>2
  <2>3. AboutToCall
    BY <2>2, JobIsAhead
  <2> QED BY <2>1, <2>3 DEF LogInv, Stamped, CallsCovered, RetriesStayInWindow, JobStep
<1>3. CASE Finishes
  <2>1. PICK row \in Row :
           /\ Finish(row) /\ job \in Node /\ IsHeld(rows[job])
           /\ row.status \in {"completed", "skipped", "failed"} \/ IsHeld(row)
           /\ row.attempts = rows[job].attempts /\ row.first = rows[job].first
    BY <1>3, FinishMoves DEF JobInv
  <2>2. row.status # "absent"
    BY <2>1 DEF IsHeld
  <2> QED BY <2>1, <2>2, RowsMoveKeepsLog DEF Finish
<1>4. CASE Drive
  <2>1. ASSUME NEW n \in Drops(rows, {}), SettleSkip(n) PROVE LogInv'
    <3>1. /\ n \in Node /\ rows[n].status = "absent"
          /\ Skipped(rows[n]) \in Row /\ Skipped(rows[n]).status = "skipped"
          /\ rows' = [rows EXCEPT ![n] = Skipped(rows[n])]
          /\ UNCHANGED <<job, stack, now, log>>
      BY <2>1, SettleSkipMoves DEF JobInv
    <3>2. rows[n] \in Row
      BY <3>1 DEF JobInv, RowsInv, RowsOK
    <3>3. Skipped(rows[n]).first = rows[n].first
      BY <3>2 DEF Skipped, Row
    <3>4. stack' = <<>>
      BY <2>1, <3>1 DEF SettleSkip, JobInv, StackInv, StackOK
    <3>5. ~IsHeld(Skipped(rows[n])) /\ Skipped(rows[n]).status # "absent"
      BY <3>1 DEF IsHeld
    <3> QED BY <3>1, <3>3, <3>4, <3>5, RowsMoveKeepsLog
  <2> QED BY <1>4, <2>1, StartKeepsLog
<1>5. ASSUME NEW g \in GateId, Record(g) PROVE LogInv'
  BY <1>5 DEF Record, LogInv, Stamped, CallsCovered, RetriesStayInWindow, JobStep,
              AboutToCall
<1>6. CASE Crash
  <2>1. UNCHANGED <<rows, log>> /\ stack' = <<>> /\ now' \in Nat /\ now <= now'
    BY <1>6, NestedAssumption DEF Crash, NestedAssumption, JobInv
  <2>2. \A n \in Node : rows[n].first \in Nat
    BY DEF JobInv, RowsInv, RowsOK, Row
  <2>3. Stamped'
    BY <2>1, <2>2 DEF LogInv, Stamped, Held, JobInv
  <2> QED BY <2>1, <2>3 DEF LogInv, CallsCovered, RetriesStayInWindow, AboutToCall
<1>7. CASE UNCHANGED vars
  BY <1>7 DEF vars, LogInv, Stamped, CallsCovered, RetriesStayInWindow, JobStep,
              AboutToCall
<1> QED BY <1>1, <1>2, <1>3, <1>4, <1>5, <1>6, <1>7 DEF Next, JobSteps, Finishes

\* A node of the run that asks before it writes again is told yes only inside
\* the provider's window, whatever crashes, retries and pauses lie between.
THEOREM RetriesInWindow == Spec => []RetriesStayInWindow
<1>1. Init => LogInv
  <2> SUFFICES ASSUME Init PROVE LogInv
    OBVIOUS
  <2>1. Held(rows) = {}
    BY DEF Init, Held, IsHeld, Absent
  <2>2. DOMAIN log = {} /\ stack = <<>>
    BY DEF Init, Empty
  <2> QED BY <2>1, <2>2 DEF LogInv, Stamped, CallsCovered, RetriesStayInWindow, AboutToCall
<1>2. LogInv => RetriesStayInWindow
  BY DEF LogInv
<1> QED BY <1>1, <1>2, InitJob, JobKept, LogKept, PTL DEF Spec

-----------------------------------------------------------------------------
(* Types. *)

RestOK ==
  /\ subs \in Submission
  /\ reason \in Reason
  /\ crashes \in 0..MaxCrashes
  /\ asked \subseteq GateId /\ accepted \subseteq GateId

LEMMA SubmissionTypes ==
  /\ NoSubmissions \in Submission
  /\ \A s \in Submission, g \in GateId :
       Recorded(s, g) \in Submission /\ Parked(s, g) \in Submission
BY DEF Submission, NoSubmissions, Recorded, Parked

LEMMA RestKept == JobInv /\ RestOK /\ [Next]_vars => RestOK'
<1> SUFFICES ASSUME JobInv, RestOK, [Next]_vars PROVE RestOK'
  OBVIOUS
<1>1. NoReason \in Reason /\ Failure \in Reason /\ \A g \in GateId : Pause(g) \in Reason
  BY DEF Reason
<1>2. CASE Visiting /\ \E n \in Top.todo : Visit(n)
  <2>1. PICK n \in Top.todo : Visit(n)
    BY <1>2
  <2>2. CASE ParkGate(n)
    <3>1. stack # <<>>
      BY <1>2 DEF Visiting
    <3>2. n \in GateId
      BY <2>2, <3>1, VisitedIsNode, NestedAssumption
         DEF JobInv, ParkGate, NestedAssumption, IsGate
    <3> QED BY <1>1, <2>2, <3>2, SubmissionTypes DEF RestOK, ParkGate, Abort
  <2>3. CASE VisitDead(n) \/ RunStep(n) \/ PassGate(n)
    BY <1>1, <2>3 DEF RestOK, VisitDead, RunStep, PassGate, Publish, Abort
  <2>4. CASE RunForEach(n)
    BY <1>1, <2>4 DEF RestOK, RunForEach, Publish, Abort
  <2>5. CASE RunSubgraph(n) \/ RunSubflow(n)
    BY <1>1, <2>5 DEF RestOK, RunSubgraph, RunSubflow, Publish, Abort, CallChild
  <2> QED BY <2>1, <2>2, <2>3, <2>4, <2>5 DEF Visit
<1>3. CASE EndLane \/ EndChild
  BY <1>1, <1>3 DEF RestOK, EndLane, EndChild
<1>4. CASE Finishes
  BY <1>1, <1>4 DEF RestOK, Finishes, FinishOutput, FinishSkip, FinishPause,
                    FinishError, Finish
<1>5. CASE Drive
  BY <1>5 DEF RestOK, Drive, SettleSkip, Dispatch, Redispatch, Start
<1>6. ASSUME NEW g \in GateId, Record(g) PROVE RestOK'
  BY <1>6, SubmissionTypes DEF RestOK, Record
<1>7. CASE Crash
  <2>1. crashes' \in 0..MaxCrashes
    BY <1>7, NestedAssumption DEF Crash, RestOK, NestedAssumption
  <2> QED BY <1>1, <1>7, <2>1, SubmissionTypes DEF RestOK, Crash
<1>8. CASE UNCHANGED vars
  BY <1>8 DEF vars, RestOK
<1> QED BY <1>2, <1>3, <1>4, <1>5, <1>6, <1>7, <1>8 DEF Next, JobSteps, Finishes

\* Every variable keeps its type, and the stack of a job its shape: the replay
\* of the job's node at the bottom, above it one walk per node being run.
THEOREM NestedTypes == Spec => []NestedTypeOK
<1>1. Init => RestOK
  BY SubmissionTypes, NestedAssumption DEF Init, RestOK, Reason, NestedAssumption
<1>2. JobInv /\ RestOK => NestedTypeOK
  <2> SUFFICES ASSUME JobInv, RestOK PROVE NestedTypeOK
    OBVIOUS
  <2>1. IsSeq(stack)
    BY DEF JobInv, StackInv, StackOK
  <2>2. DOMAIN stack = 1..Len(stack) /\ Len(stack) \in Nat
    BY <2>1 DEF IsSeq
  <2>3. ASSUME NEW i \in DOMAIN stack
        PROVE  /\ stack[i].todo \subseteq stack[i].graph.nodes
               /\ (i = 1) = (stack[i].holder = NoNode)
               /\ stack[i].durable \in BOOLEAN
    <3>1. IsWalk(stack[i])
      BY <2>2 DEF JobInv, StackInv, StackOK
    <3>2. CASE i = 1
      <4>1. stack # <<>>
        <5>1. Len(<<>>) = 0
          OBVIOUS
        <5> QED BY <2>2, <5>1
      <4>2. stack[1].holder = NoNode
        BY <4>1 DEF JobInv, StackInv, StackOK, BottomOK
      <4> QED BY <3>1, <3>2, <4>2 DEF IsWalk
    <3>3. CASE i # 1
      <4>1. i \in 2..Len(stack) /\ i - 1 \in 1..Len(stack)
        BY <2>2, <3>3
      <4>2. stack[i].holder \in stack[i - 1].todo /\ IsWalk(stack[i - 1])
        BY <4>1 DEF JobInv, StackInv, StackOK
      <4>3. stack[i].holder # NoNode
        BY <4>2, NestedAssumption DEF IsWalk, NestedAssumption
      <4> QED BY <3>1, <3>3, <4>3 DEF IsWalk
    <3> QED BY <3>2, <3>3
  <2>4. rows \in [Node -> Row] /\ now \in Nat \ {0}
    BY DEF JobInv, RowsInv, RowsOK
  <2>5. job \in Node \cup {NoNode} /\ (job = NoNode) = (stack = <<>>)
    BY DEF JobInv, StackInv, StackOK
  <2> QED BY <2>3, <2>4, <2>5 DEF RestOK, NestedTypeOK
<1> QED BY <1>1, <1>2, InitJob, JobKept, RestKept, PTL DEF Spec

-----------------------------------------------------------------------------
(* Lanes. *)

\* l is a loop of the run itself that runs its body as lanes; its body is
\* sealed if no edge from outside leads into it, and what lies inside a sealed
\* body is for the lanes alone.
Laned(l)  == Kind[l] = "for_each" /\ RunsLane(Whole, l)
Sealed(l) == \A m \in Body(Whole, l) : Sources(m) \subseteq Body(Whole, l) \cup {l}
Inside(n) == \E l \in Node : Laned(l) /\ Sealed(l) /\ n \in Body(Whole, l)

\* The first walk above the replay is the run of a lane, or of a child.
LaneOK(w, j) ==
  \E occ :
    /\ w.identity.path = <<Segment(Spelled[j], occ)>>
    /\ IF Kind[j] = "for_each" THEN Laned(j) /\ w.graph.nodes = Body(Whole, j)
       ELSE occ = None

PlaceOK(s, j) ==
  /\ \A i \in 3..Len(s) : Len(s[i].identity.path) \notin {0, 1}
  /\ Len(s) > 1 => LaneOK(s[2], j)
  /\ s # <<>> /\ Laned(j) /\ j \notin s[1].todo => s[1].ports[j] \subseteq {"done"}

\* Nothing inside a sealed body publishes in the run itself, and its loop never
\* on "item".
LanePorts ==
  /\ \A n \in Node : Inside(n) => rows[n].ports = {}
  /\ \A l \in Node : Laned(l) => rows[l].ports \subseteq {"done"}

CallsPlaced ==
  \A s \in DOMAIN log :
    /\ s.path = <<>> => ~Inside(s.node)
    /\ Len(s.path) = 1 /\ s.path[1].occ # None =>
         \E l \in Node : /\ Laned(l) /\ s.path[1].id = Spelled[l]
                         /\ s.node \in Body(Whole, l)

PlaceInv == PlaceOK(stack, job) /\ LanePorts /\ CallsPlaced

LEMMA Heights ==
  /\ \A k \in Nat \ {0} : k # 1 => k > 1 /\ 2 \in 1..k
  /\ \A k \in Nat \ {0} : k # 1 /\ k \notin 3..k => k = 2
  /\ \A k \in Nat : k - 1 = 1 => k = 2
OBVIOUS

\* A node of a body is entered by an edge, and not by one from "done".
LEMMA BodyEntered ==
  ASSUME NEW l, NEW n \in Body(Whole, l)
  PROVE  n \in Node /\ Incoming(n) # {}
<1> DEFINE starts == Targets(EdgesFrom(Whole, l, "item"))
<1>1. n \in Node /\ n \in Reachable(Whole, starts)
  BY DEF Body, Reachable, Whole
<1>2. CASE n \in starts
  <2>1. PICK e \in Edges : e.target = n
    BY <1>2 DEF Targets, EdgesFrom, Whole
  <2>2. e \in Incoming(n)
    BY <2>1 DEF Incoming
  <2> QED BY <1>1, <2>2
<1>3. CASE n \notin starts
  <2>1. starts \subseteq Node \ {n}
    BY <1>3, GraphAssumption DEF GraphAssumption, Targets, EdgesFrom, Whole
  <2>2. PICK e \in Edges : e.source \in Node \ {n} /\ e.target \notin Node \ {n}
    <3>1. Node \ {n} \in SUBSET (Whole.nodes \ {n})
      BY DEF Whole
    <3> HIDE DEF starts
    <3> QED BY <1>1, <2>1, <3>1 DEF Reachable, Whole
  <2>3. e.target = n
    BY <2>2, GraphAssumption DEF GraphAssumption
  <2>4. e \in Incoming(n)
    BY <2>3 DEF Incoming
  <2> QED BY <1>1, <2>4
<1> QED BY <1>1, <1>2, <1>3

LEMMA DoneLeaves ==
  ASSUME NEW l, NEW e \in Edges, e.source = l, e.port = "done"
  PROVE  e.target \notin Body(Whole, l)
<1>1. e.target \in Targets(EdgesFrom(Whole, l, "done"))
  BY DEF Targets, EdgesFrom, Whole
<1>2. e.target \in Node
  BY GraphAssumption DEF GraphAssumption
<1>3. e.target \in Reachable(Whole, Targets(EdgesFrom(Whole, l, "done")))
  BY <1>1, <1>2 DEF Reachable, Whole
<1> QED BY <1>3 DEF Body

\* So the run itself never reaches a node inside a sealed body.
LEMMA InsideStaysDark ==
  ASSUME LanePorts, NEW n \in Node, Inside(n)
  PROVE  ~Lit(rows, n)
<1>1. PICK l \in Node : Laned(l) /\ Sealed(l) /\ n \in Body(Whole, l)
  BY DEF Inside
<1>2. Incoming(n) # {}
  BY <1>1, BodyEntered
<1>3. ASSUME NEW e \in Incoming(n) PROVE ~Active(rows, e)
  <2>1. e \in Edges /\ e.target = n /\ e.source \in Sources(n)
    BY DEF Incoming, Sources
  <2>2. CASE e.source = l
    <3>1. e.port # "done"
      BY <1>1, <2>1, <2>2, DoneLeaves
    <3>2. rows[l].ports \subseteq {"done"}
      BY <1>1 DEF LanePorts
    <3> QED BY <2>2, <3>1, <3>2 DEF Active
  <2>3. CASE e.source # l
    <3>1. e.source \in Body(Whole, l)
      BY <1>1, <2>1, <2>3 DEF Sealed
    <3>2. e.source \in Node /\ Inside(e.source)
      BY <1>1, <3>1, BodyEntered DEF Inside
    <3>3. rows[e.source].ports = {}
      BY <3>2 DEF LanePorts
    <3> QED BY <3>3 DEF Active
  <2> QED BY <2>2, <2>3
<1> QED BY <1>2, <1>3 DEF Lit

LEMMA JobIsOutside ==
  ASSUME JobInv, LanePorts, stack # <<>>
  PROVE  job \in Node /\ ~Inside(job)
<1>1. job \in Node /\ job # NoNode
  BY TopIsWalk, NestedAssumption DEF JobInv, NestedAssumption, NodeId
<1>2. Lit(rows, job)
  BY <1>1 DEF JobInv, RowsInv, RowsOK, Reached, Held, IsHeld
<1> QED BY <1>1, <1>2, InsideStaysDark

\* The bottom walk that passes its loop publishes on "done" alone.
LEMMA PassKeepsPlace ==
  ASSUME NEW s, NEW r, StackOK(s, job, r), PlaceOK(s, job), s # <<>>,
         NEW n \in s[Len(s)].todo, NEW ports, NEW ran,
         Len(s) = 1 /\ Laned(job) => ports \subseteq {"done"}
  PROVE  PlaceOK([s EXCEPT ![Len(s)] = Passed(s[Len(s)], n, ports, ran)], job)
<1> DEFINE p == Passed(s[Len(s)], n, ports, ran)
           t == [s EXCEPT ![Len(s)] = p]
<1>1. /\ t # <<>> /\ Len(s) \in Nat \ {0} /\ Len(t) = Len(s)
      /\ t[Len(s)] = p
      /\ \A i \in 1..Len(s) : i # Len(s) => t[i] = s[i]
  BY LastReplaced DEF StackOK
<1>2. IsWalk(s[Len(s)])
  BY <1>1 DEF StackOK
<1>3. p.graph = s[Len(s)].graph /\ p.identity = s[Len(s)].identity /\ p.ports[n] = ports
  BY <1>2, PassedMakes
<1> HIDE DEF p, t
<1>4. ASSUME NEW i \in 1..Len(s)
      PROVE  t[i].graph = s[i].graph /\ t[i].identity = s[i].identity
  BY <1>1, <1>3
<1>5. ASSUME NEW i \in 3..Len(t) PROVE Len(t[i].identity.path) \notin {0, 1}
  <2>1. i \in 3..Len(s) /\ i \in 1..Len(s)
    BY <1>1
  <2>2. t[i].identity = s[i].identity
    BY <1>4, <2>1
  <2> QED BY <2>1, <2>2 DEF PlaceOK
<1>6. ASSUME Len(t) > 1 PROVE LaneOK(t[2], job)
  <2>1. Len(s) > 1 /\ 2 \in 1..Len(s)
    BY <1>1, <1>6
  <2>2. t[2].graph = s[2].graph /\ t[2].identity = s[2].identity
    BY <1>4, <2>1
  <2> QED BY <2>1, <2>2 DEF PlaceOK, LaneOK
<1>7. ASSUME Laned(job), job \notin t[1].todo PROVE t[1].ports[job] \subseteq {"done"}
  <2>1. CASE Len(s) = 1
    <3>1. n = job
      BY <2>1 DEF StackOK, BottomOK
    <3> QED BY <1>1, <1>3, <1>7, <2>1, <3>1
  <2>2. CASE Len(s) # 1
    <3>1. t[1] = s[1]
      BY <1>1, <2>2
    <3> QED BY <1>7, <3>1 DEF PlaceOK
  <2> QED BY <2>1, <2>2
<1>8. PlaceOK(t, job)
  BY <1>5, <1>6, <1>7 DEF PlaceOK
<1> QED BY <1>8 DEF t, p

\* What the bottom walk calls is a lane with an index, or a child without.
LEMMA CallKeepsPlace ==
  ASSUME NEW s, NEW r, StackOK(s, job, r), PlaceOK(s, job), s # <<>>,
         NEW n \in s[Len(s)].todo,
         NEW graph, NEW durable, NEW occ, NEW item, NEW failed,
         Len(s) = 1 => IF Kind[job] = "for_each"
                       THEN Laned(job) /\ graph.nodes = Body(Whole, job)
                       ELSE occ = None
  PROVE  PlaceOK(Append(s, Walk(graph, durable,
                                Descend(s[Len(s)].identity, Spelled[n], occ),
                                n, item, failed)), job)
<1> DEFINE id == Descend(s[Len(s)].identity, Spelled[n], occ)
           w  == Walk(graph, durable, id, n, item, failed)
           t  == Append(s, w)
<1>1. /\ t # <<>> /\ Len(s) \in Nat /\ Len(t) = Len(s) + 1
      /\ t[Len(s) + 1] = w
      /\ \A i \in 1..Len(s) : t[i] = s[i]
  BY Appended DEF StackOK
<1>2. Len(s) \in Nat \ {0}
  BY EmptyOnly DEF StackOK
<1>3. w.graph = graph /\ w.identity = id
  BY WalkMakes
<1>4. id.path = Append(s[Len(s)].identity.path, Segment(Spelled[n], occ))
  BY DEF Descend
<1>5. IsSeq(s[Len(s)].identity.path)
  BY <1>2 DEF StackOK, IsWalk
<1> HIDE DEF w, t, id
<1>6. ASSUME NEW i \in 3..Len(t) PROVE Len(t[i].identity.path) \notin {0, 1}
  <2>1. CASE i = Len(s) + 1
    <3>1. Len(s) \in 2..Len(s)
      BY <1>1, <1>2, <2>1
    <3>2. s[Len(s)].identity.path # <<>>
      BY <3>1 DEF StackOK
    <3>3. Len(s[Len(s)].identity.path) \in Nat \ {0}
      BY <1>5, <3>2, EmptyOnly
    <3>4. Len(id.path) = Len(s[Len(s)].identity.path) + 1
      BY <1>4, <1>5, Appended
    <3>5. \A k \in Nat \ {0} : k + 1 \notin {0, 1}
      OBVIOUS
    <3>6. Len(id.path) \notin {0, 1}
      BY <3>3, <3>4, <3>5
    <3> QED BY <1>1, <1>3, <2>1, <3>6
  <2>2. CASE i # Len(s) + 1
    <3>1. i \in 1..Len(s) /\ i \in 3..Len(s)
      BY <1>1, <2>2
    <3> QED BY <1>1, <3>1 DEF PlaceOK
  <2> QED BY <2>1, <2>2
<1>7. LaneOK(t[2], job)
  <2>1. CASE Len(s) = 1
    <3>1. n = job /\ s[1].identity.path = <<>>
      BY <2>1 DEF StackOK, BottomOK, TopIdentity
    <3>2. id.path = <<Segment(Spelled[job], occ)>>
      BY <1>4, <2>1, <3>1
    <3>3. t[2].graph = graph /\ t[2].identity = id
      BY <1>1, <1>3, <2>1
    <3> QED BY <2>1, <3>2, <3>3 DEF LaneOK
  <2>2. CASE Len(s) # 1
    <3>1. Len(s) > 1 /\ 2 \in 1..Len(s)
      BY <1>2, <2>2, Heights
    <3> QED BY <1>1, <3>1 DEF PlaceOK
  <2> QED BY <2>1, <2>2
<1>8. t[1] = s[1]
  BY <1>1, <1>2
<1>9. PlaceOK(t, job)
  BY <1>6, <1>7, <1>8 DEF PlaceOK
<1> QED BY <1>9 DEF t, w, id

LEMMA PopKeepsPlace ==
  ASSUME NEW s, NEW r, StackOK(s, job, r), PlaceOK(s, job), Len(s) > 1
  PROVE  PlaceOK(SubSeq(s, 1, Len(s) - 1), job)
<1> DEFINE t == SubSeq(s, 1, Len(s) - 1)
<1>1. /\ t # <<>> /\ Len(s) \in Nat /\ Len(t) = Len(s) - 1
      /\ \A i \in 1..Len(t) : t[i] = s[i]
  BY WalkPopped
<1> HIDE DEF t
<1>2. s # <<>>
  <2>1. Len(<<>>) = 0
    OBVIOUS
  <2> QED BY <2>1
<1>3. ASSUME NEW i \in 3..Len(t) PROVE Len(t[i].identity.path) \notin {0, 1}
  <2>1. i \in 1..Len(t) /\ i \in 3..Len(s)
    BY <1>1
  <2> QED BY <1>1, <2>1 DEF PlaceOK
<1>4. ASSUME Len(t) > 1 PROVE LaneOK(t[2], job)
  <2>1. 2 \in 1..Len(t)
    BY <1>1, <1>4
  <2> QED BY <1>1, <2>1 DEF PlaceOK
<1>5. t[1] = s[1]
  <2>1. 1 \in 1..Len(t)
    BY <1>1
  <2> QED BY <1>1, <2>1
<1>6. PlaceOK(t, job)
  BY <1>2, <1>3, <1>4, <1>5 DEF PlaceOK
<1> QED BY <1>6 DEF t

\* A call carries the place of the walk it is made in.
LEMMA LoggedKeepsPlace ==
  ASSUME JobInv, PlaceInv, stack # <<>>, NEW n \in Top.todo, Logged(n)
  PROVE  CallsPlaced'
<1> DEFINE step == [path |-> Top.identity.path, node |-> n]
<1>1. DOMAIN log' = DOMAIN log \cup {step}
  BY LoggedMakes
<1>2. Len(stack) \in Nat \ {0} /\ BottomOK(stack[1], job, rows) /\ Top = stack[Len(stack)]
  BY TopIsWalk DEF JobInv, Top
<1>3. ASSUME step.path = <<>> PROVE ~Inside(n)
  <2>1. Len(stack) = 1
    <3>1. ASSUME Len(stack) # 1 PROVE FALSE
      <4>1. Len(stack) \in 2..Len(stack)
        BY <1>2, <3>1, Deeper
      <4>2. Top.identity.path # <<>>
        BY <1>2, <4>1 DEF JobInv, StackInv, StackOK
      <4> QED BY <1>3, <4>2
    <3> QED BY <3>1
  <2>2. n = job
    BY <2>1, VisitedIsNode DEF JobInv
  <2> QED BY <2>2, JobIsOutside DEF PlaceInv
<1>4. ASSUME Len(step.path) = 1, step.path[1].occ # None
      PROVE  \E l \in Node : /\ Laned(l) /\ step.path[1].id = Spelled[l]
                             /\ n \in Body(Whole, l)
  <2>1. Len(stack) # 1
    <3>1. ASSUME Len(stack) = 1 PROVE FALSE
      <4>1. Top.identity.path = <<>>
        BY <1>2, <3>1 DEF BottomOK, TopIdentity
      <4>2. Len(step.path) = 0
        BY <4>1
      <4> QED BY <1>4, <4>2
    <3> QED BY <3>1
  <2>2. Len(stack) \notin 3..Len(stack)
    BY <1>2, <1>4 DEF PlaceInv, PlaceOK
  <2>3. Len(stack) = 2
    BY <1>2, <2>1, <2>2, Heights
  <2>4. Top = stack[2] /\ LaneOK(Top, job)
    BY <1>2, <2>3 DEF PlaceInv, PlaceOK
  <2>5. PICK occ : /\ Top.identity.path = <<Segment(Spelled[job], occ)>>
                   /\ IF Kind[job] = "for_each"
                      THEN Laned(job) /\ Top.graph.nodes = Body(Whole, job)
                      ELSE occ = None
    BY <2>4 DEF LaneOK
  <2>6. step.path[1] = Segment(Spelled[job], occ)
    BY <2>5
  <2>7. step.path[1].occ = occ /\ step.path[1].id = Spelled[job]
    BY <2>6 DEF Segment
  <2>8. Laned(job) /\ Top.graph.nodes = Body(Whole, job)
    BY <1>4, <2>5, <2>7
  <2>9. n \in Top.graph.nodes /\ job \in Node
    BY VisitedIsNode, TopIsWalk DEF JobInv
  <2> QED BY <2>7, <2>8, <2>9
<1>5. ASSUME NEW s \in DOMAIN log'
      PROVE  /\ s.path = <<>> => ~Inside(s.node)
             /\ Len(s.path) = 1 /\ s.path[1].occ # None =>
                  \E l \in Node : /\ Laned(l) /\ s.path[1].id = Spelled[l]
                                  /\ s.node \in Body(Whole, l)
  <2>1. CASE s = step
    <3>1. s.node = n /\ s.path = step.path
      BY <2>1
    <3> HIDE DEF step
    <3> QED BY <1>3, <1>4, <3>1
  <2>2. CASE s # step
    <3>1. s \in DOMAIN log
      BY <1>1, <2>2
    <3> QED BY <3>1 DEF PlaceInv, CallsPlaced
  <2> QED BY <2>1, <2>2
<1> QED BY <1>5 DEF CallsPlaced

LEMMA VisitKeepsPlace ==
  ASSUME JobInv, PlaceInv, Visiting, NEW n \in Top.todo, Visit(n)
  PROVE  PlaceInv'
<1>1. UNCHANGED <<rows, job>>
  BY DEF Visit, VisitDead, RunStep, PassGate, ParkGate, RunForEach,
         RunSubgraph, RunSubflow
<1>2. LanePorts'
  BY <1>1 DEF PlaceInv, LanePorts
<1>3. stack # <<>> /\ StackOK(stack, job, rows) /\ PlaceOK(stack, job)
      /\ n \in stack[Len(stack)].todo
  BY DEF Visiting, JobInv, StackInv, PlaceInv, Top
<1>4. CallsPlaced'
  <2>1. CASE Logged(n)
    BY <1>3, <2>1, LoggedKeepsPlace
  <2>2. CASE log' = log
    BY <2>2 DEF PlaceInv, CallsPlaced
  <2> QED BY <2>1, <2>2 DEF Visit, VisitDead, RunStep, PassGate, ParkGate,
                            RunForEach, RunSubgraph, RunSubflow
<1> SUFFICES PlaceOK(stack', job)
  BY <1>1, <1>2, <1>4 DEF PlaceInv
<1>5. Len(stack) = 1 => n = job /\ Top.graph = Whole
  BY <1>3, VisitedIsNode, TopIsWalk DEF JobInv, BottomOK
<1>6. ASSUME NEW ports, Publish(n, ports),
             Len(stack) = 1 /\ Laned(job) => ports \subseteq {"done"}
      PROVE  PlaceOK(stack', job)
  BY <1>3, <1>6, PassKeepsPlace DEF Publish, SetTop, Top
<1>7. ASSUME UNCHANGED stack PROVE PlaceOK(stack', job)
  BY <1>3, <1>7
<1>8. ASSUME Kind[n] # "for_each", Len(stack) = 1 PROVE ~Laned(job)
  BY <1>5, <1>8 DEF Laned
<1>9. CASE VisitDead(n)
  BY <1>3, <1>9, PassKeepsPlace DEF VisitDead, SetTop, Top
<1>10. CASE RunStep(n) \/ PassGate(n) \/ ParkGate(n)
  BY <1>6, <1>7, <1>8, <1>10 DEF RunStep, PassGate, ParkGate, Abort
<1>11. CASE RunForEach(n)
  <2>1. Len(stack) = 1 /\ RunsLane(Top.graph, n) => Laned(job)
    BY <1>5, <1>11 DEF Laned, RunForEach
  <2>2. CASE ~RunsLane(Top.graph, n) /\ Publish(n, {"item", "done"})
    <3>1. Len(stack) = 1 => ~Laned(job)
      BY <1>5, <2>2 DEF Laned
    <3> QED BY <1>6, <2>2, <3>1
  <2>3. CASE Publish(n, {"done"})
    BY <1>6, <2>3
  <2>4. CASE \E why : Abort(why)
    BY <1>7, <2>4 DEF Abort
  <2>5. ASSUME RunsLane(Top.graph, n),
               NEW lane \in {Within(Top.graph, body) : body \in {Body(Top.graph, n)}},
               stack' = Append(stack, LaneWalk(lane, Top, n, 0, Empty))
        PROVE  PlaceOK(stack', job)
    <3>1. lane.nodes = Body(Top.graph, n)
      BY DEF Within
    <3>2. Len(stack) = 1 => Laned(job) /\ lane.nodes = Body(Whole, job)
      BY <1>5, <2>1, <2>5, <3>1
    <3>3. Len(stack) = 1 => Kind[job] = "for_each"
      BY <1>5, <1>11 DEF RunForEach
    <3> QED BY <1>3, <2>5, <3>2, <3>3, CallKeepsPlace DEF LaneWalk, Top
  <2> QED BY <1>11, <2>2, <2>3, <2>4, <2>5 DEF RunForEach
<1>12. ASSUME Kind[n] \in {"subgraph", "subflow"}, CallChild(n)
       PROVE  PlaceOK(stack', job)
  <2>1. Len(stack) = 1 => Kind[job] # "for_each"
    BY <1>5, <1>12
  <2> QED BY <1>3, <1>12, <2>1, CallKeepsPlace DEF CallChild, Top
<1>13. CASE RunSubgraph(n) \/ RunSubflow(n)
  <2>1. Kind[n] \in {"subgraph", "subflow"}
    BY <1>13 DEF RunSubgraph, RunSubflow
  <2>2. CASE Publish(n, {"out"})
    BY <1>6, <1>8, <2>1, <2>2
  <2>3. CASE Abort(Failure)
    BY <1>7, <2>3 DEF Abort
  <2> QED BY <1>12, <1>13, <2>1, <2>2, <2>3 DEF RunSubgraph, RunSubflow
<1> QED BY <1>9, <1>10, <1>11, <1>13 DEF Visit

LEMMA EndKeepsPlace ==
  ASSUME JobInv, PlaceInv, EndLane \/ EndChild
  PROVE  PlaceInv'
<1>1. UNCHANGED <<rows, job, log>> /\ Len(stack) > 1
  BY DEF EndLane, EndChild, Ended
<1>2. /\ StackOK(Below, job, rows) /\ Below # <<>>
      /\ Len(stack) \in Nat /\ Len(Below) = Len(stack) - 1
      /\ \A i \in 1..Len(Below) : Below[i] = stack[i]
  BY <1>1, WalkPopped DEF JobInv, StackInv, Below
<1>3. PlaceOK(Below, job)
  BY <1>1, PopKeepsPlace DEF JobInv, StackInv, PlaceInv, Below
<1>4. Under = Below[Len(Below)] /\ Top.holder \in Under.todo
  <2>1. Len(stack) \in 2..Len(stack) /\ Len(Below) \in 1..Len(Below)
    BY <1>1, <1>2
  <2>2. Top.holder \in stack[Len(stack) - 1].todo
    BY <2>1 DEF JobInv, StackInv, StackOK, Top
  <2> QED BY <1>2, <2>1, <2>2 DEF Under
<1>5. LanePorts' /\ CallsPlaced'
  BY <1>1 DEF PlaceInv, LanePorts, CallsPlaced
<1> SUFFICES PlaceOK(stack', job)
  BY <1>1, <1>5 DEF PlaceInv
<1>6. ASSUME Len(Below) = 1
      PROVE  Top.holder = job /\ Top = stack[2]
  <2>1. Top.holder = job
    BY <1>2, <1>4, <1>6 DEF StackOK, BottomOK
  <2>2. Len(stack) = 2
    BY <1>2, <1>6, Heights
  <2> QED BY <2>1, <2>2 DEF Top
<1>7. ASSUME NEW ports, Return(ports),
             ports = {"done"} \/ Kind[Top.holder] # "for_each"
      PROVE  PlaceOK(stack', job)
  <2>1. Len(Below) = 1 /\ Laned(job) => ports \subseteq {"done"}
    BY <1>6, <1>7 DEF Laned
  <2>2. stack' = [Below EXCEPT ![Len(Below)] =
                    Passed(Below[Len(Below)], Top.holder, ports, {Top.holder})]
    BY <1>2, <1>7 DEF Return
  <2> QED BY <1>2, <1>3, <1>4, <2>1, <2>2, PassKeepsPlace
<1>8. ASSUME Kind[Top.holder] = "for_each", NEW failed,
             stack' = Append(Below, LaneWalk(Top.graph, Under, Top.holder,
                                             Top.item + 1, failed))
      PROVE  PlaceOK(stack', job)
  <2>1. Len(Below) = 1 => /\ Kind[job] = "for_each"
                          /\ Laned(job) /\ Top.graph.nodes = Body(Whole, job)
    BY <1>1, <1>6, <1>8 DEF PlaceInv, PlaceOK, LaneOK
  <2> QED BY <1>2, <1>3, <1>4, <1>8, <2>1, CallKeepsPlace DEF LaneWalk
<1>9. ASSUME stack' = Below PROVE PlaceOK(stack', job)
  BY <1>3, <1>9
<1>10. CASE EndLane
  BY <1>7, <1>8, <1>9, <1>10 DEF EndLane, NextItem
<1>11. CASE EndChild
  <2>1. Kind[Top.holder] # "for_each"
    BY <1>11 DEF EndChild
  <2> QED BY <1>7, <1>9, <1>11, <2>1 DEF EndChild
<1> QED BY <1>10, <1>11

\* Without a job the stack places nothing; the rows alone have to be looked at.
LEMMA WriteKeepsPlace ==
  ASSUME PlaceInv, NEW n \in Node, NEW row, rows \in [Node -> Row],
         rows' = [rows EXCEPT ![n] = row], log' = log,
         Inside(n) => row.ports = {}, Laned(n) => row.ports \subseteq {"done"}
  PROVE  LanePorts' /\ CallsPlaced'
<1>1. rows'[n] = row /\ \A m \in Node : m # n => rows'[m] = rows[m]
  OBVIOUS
<1>2. LanePorts'
  BY <1>1 DEF PlaceInv, LanePorts
<1>3. CallsPlaced'
  BY DEF PlaceInv, CallsPlaced
<1> QED BY <1>2, <1>3

LEMMA NoJobPlace == \A j : PlaceOK(<<>>, j)
<1>1. Len(<<>>) = 0
  OBVIOUS
<1>2. 3..Len(<<>>) = {} /\ ~(Len(<<>>) > 1)
  BY <1>1
<1> QED BY <1>2 DEF PlaceOK

LEMMA FinishKeepsPlace ==
  ASSUME JobInv, PlaceInv, Finishes
  PROVE  PlaceInv'
<1>1. Len(stack) = 1 /\ stack # <<>>
  <2>1. Len(stack) = 1
    BY DEF Finishes, FinishOutput, FinishSkip, FinishPause, FinishError, Over
  <2>2. Len(<<>>) = 0
    OBVIOUS
  <2> QED BY <2>1, <2>2
<1>2. job \in Node /\ ~Inside(job) /\ Top = stack[1] /\ BottomOK(Top, job, rows)
  BY <1>1, JobIsOutside, TopIsWalk DEF PlaceInv, JobInv
<1>3. job # NoNode
  BY <1>2, NestedAssumption DEF NestedAssumption, NodeId
<1>4. rows \in [Node -> Row] /\ rows[job] \in Row /\ rows[job].ports = {}
  BY <1>2, <1>3 DEF JobInv, RowsInv, RowsOK
<1>5. PICK row : Finish(row) /\ (Laned(job) => row.ports \subseteq {"done"})
  <2>1. CASE FinishOutput
    <3>1. Completed(rows[job], Top.ports[job]).ports = Top.ports[job]
      BY <1>4 DEF Completed, Row
    <3>2. job \notin stack[1].todo
      BY <1>2, <2>1 DEF FinishOutput, BottomOK
    <3>3. Laned(job) => Top.ports[job] \subseteq {"done"}
      BY <1>1, <1>2, <3>2 DEF PlaceInv, PlaceOK
    <3> QED BY <2>1, <3>1, <3>3 DEF FinishOutput
  <2>2. CASE FinishSkip
    <3>1. Skipped(rows[job]).ports = {}
      BY <1>4 DEF Skipped, Row
    <3> QED BY <2>2, <3>1 DEF FinishSkip
  <2>3. CASE FinishPause
    <3>1. Paused(rows[job]).ports = {}
      BY <1>4 DEF Paused, Row
    <3> QED BY <2>3, <3>1 DEF FinishPause
  <2>4. CASE FinishError
    <3>1. Failed(rows[job]).ports = {}
      BY <1>4 DEF Failed, Row
    <3> QED BY <1>4, <2>4, <3>1 DEF FinishError
  <2> QED BY <2>1, <2>2, <2>3, <2>4 DEF Finishes
<1>6. rows' = [rows EXCEPT ![job] = row] /\ stack' = <<>> /\ log' = log
  BY <1>5 DEF Finish
<1>7. LanePorts' /\ CallsPlaced'
  BY <1>2, <1>4, <1>5, <1>6, WriteKeepsPlace
<1> QED BY <1>6, <1>7, NoJobPlace DEF PlaceInv

LEMMA StartKeepsPlace ==
  ASSUME JobInv, PlaceInv, Drive, ~\E m \in Drops(rows, {}) : SettleSkip(m)
  PROVE  PlaceInv'
<1>1. PICK n \in Node, row \in Row :
           /\ rows' = [rows EXCEPT ![n] = row]
           /\ job' = n /\ stack' = <<ReplayOf(n, row)>>
           /\ log' = log /\ row.ports = {}
  BY StartMoves DEF JobInv
<1>2. LanePorts' /\ CallsPlaced'
  BY <1>1, WriteKeepsPlace DEF JobInv, RowsInv, RowsOK
<1> DEFINE w == ReplayOf(n, row)
<1>3. w.todo = {n}
  BY DEF ReplayOf, Walk
<1> HIDE DEF w
<1>4. stack' = <<w>>
  BY <1>1 DEF w
<1>5. Len(stack') = 1 /\ stack'[1] = w
  BY <1>4
<1>6. 3..Len(stack') = {} /\ ~(Len(stack') > 1)
  BY <1>5
<1>7. PlaceOK(stack', job')
  BY <1>1, <1>3, <1>5, <1>6 DEF PlaceOK
<1> QED BY <1>2, <1>7 DEF PlaceInv

LEMMA PlaceKept == JobInv /\ PlaceInv /\ [Next]_vars => PlaceInv'
<1> SUFFICES ASSUME JobInv, PlaceInv, [Next]_vars PROVE PlaceInv'
  OBVIOUS
<1>1. CASE Visiting /\ \E n \in Top.todo : Visit(n)
  BY <1>1, VisitKeepsPlace
<1>2. CASE EndLane \/ EndChild
  BY <1>2, EndKeepsPlace
<1>3. CASE Finishes
  BY <1>3, FinishKeepsPlace
<1>4. CASE Drive
  <2>1. ASSUME NEW n \in Drops(rows, {}), SettleSkip(n) PROVE PlaceInv'
    <3>1. /\ n \in Node /\ Skipped(rows[n]).ports = {}
          /\ rows' = [rows EXCEPT ![n] = Skipped(rows[n])]
          /\ UNCHANGED <<job, stack, log>>
      BY <2>1, SettleSkipMoves DEF JobInv
    <3>2. LanePorts' /\ CallsPlaced'
      BY <3>1, WriteKeepsPlace DEF JobInv, RowsInv, RowsOK
    <3> QED BY <3>1, <3>2 DEF PlaceInv
  <2> QED BY <1>4, <2>1, StartKeepsPlace
<1>5. ASSUME NEW g \in GateId, Record(g) PROVE PlaceInv'
  BY <1>5 DEF Record, PlaceInv, LanePorts, CallsPlaced
<1>6. CASE Crash
  BY <1>6, NoJobPlace DEF Crash, PlaceInv, LanePorts, CallsPlaced
<1>7. CASE UNCHANGED vars
  BY <1>7 DEF vars, PlaceInv, LanePorts, CallsPlaced
<1> QED BY <1>1, <1>2, <1>3, <1>4, <1>5, <1>6, <1>7 DEF Next, JobSteps, Finishes

\* What a lane of a loop runs, the run itself never does, unless an edge from
\* outside the loop's body leads into it, whatever the graph and the crashes.
THEOREM InOnePlace == Spec => []RunsInOnePlace
<1>1. Init => PlaceInv
  <2> SUFFICES ASSUME Init PROVE PlaceInv
    OBVIOUS
  <2>1. \A n \in Node : rows[n].ports = {}
    BY DEF Init, Absent
  <2>2. DOMAIN log = {} /\ stack = <<>>
    BY DEF Init, Empty
  <2> QED BY <2>1, <2>2, NoJobPlace DEF PlaceInv, LanePorts, CallsPlaced
<1>2. PlaceInv => RunsInOnePlace
  <2> SUFFICES ASSUME PlaceInv, NEW s \in DOMAIN log, NEW t \in DOMAIN log,
                      s.node = t.node, s.path = <<>>,
                      Len(t.path) = 1, t.path[1].occ # None
               PROVE  \E l \in Node :
                        /\ t.path[1].id = Spelled[l] /\ s.node \in Body(Whole, l)
                        /\ \E m \in Body(Whole, l) :
                             Sources(m) \ (Body(Whole, l) \cup {l}) # {}
    BY DEF RunsInOnePlace
  <2>1. PICK l \in Node : /\ Laned(l) /\ t.path[1].id = Spelled[l]
                          /\ t.node \in Body(Whole, l)
    BY DEF PlaceInv, CallsPlaced
  <2>2. ~Inside(s.node)
    BY DEF PlaceInv, CallsPlaced
  <2>3. ~Sealed(l)
    BY <2>1, <2>2 DEF Inside
  <2> QED BY <2>1, <2>3 DEF Sealed
<1> QED BY <1>1, <1>2, InitJob, JobKept, PlaceKept, PTL DEF Spec

-----------------------------------------------------------------------------
(* Sequences built from left to right. *)

\* A set that holds the empty sequence, and with a sequence every one that is
\* longer by one element, holds all of them.
LEMMA AllSequences ==
  ASSUME NEW S, NEW T, <<>> \in T,
         \A s \in Seq(S) : s \in T => \A c \in S : Append(s, c) \in T
  PROVE  Seq(S) \subseteq T
<1> DEFINE Bad == {Len(s) : s \in Seq(S) \ T}
<1> SUFFICES ASSUME Seq(S) \ T # {} PROVE FALSE
  OBVIOUS
<1>1. PICK k \in Bad : \A l \in Bad : k <= l
  <2>1. Bad \in SUBSET Nat
    OBVIOUS
  <2>2. PICK s : s \in Seq(S) \ T
    OBVIOUS
  <2>3. Len(s) \in Bad
    BY <2>2
  <2> HIDE DEF Bad
  <2> QED BY <2>1, <2>3, LeastNatural
<1>2. PICK s \in Seq(S) \ T : k = Len(s)
  BY <1>1
<1>3. PICK t \in Seq(S), c \in S : s = Append(t, c)
  BY <1>2, SequenceEmptyOrAppend
<1>4. t \notin T
  BY <1>2, <1>3
<1>5. Len(t) \in Bad /\ Len(t) \in Nat /\ Len(s) = Len(t) + 1
  BY <1>3, <1>4
<1> HIDE DEF Bad
<1>6. k <= Len(t)
  BY <1>1, <1>5
<1> QED BY <1>2, <1>5, <1>6

\* What FlattenSeq builds: f[i] is all of the first i sequences.
Joins(f, s, k) == f = [i \in 1..k |-> IF i = 1 THEN s[i] ELSE f[i - 1] \o s[i]]

LEMMA JoinsAt ==
  ASSUME NEW f, NEW s, NEW k \in Nat, Joins(f, s, k), NEW i \in 1..k
  PROVE  f[i] = IF i = 1 THEN s[i] ELSE f[i - 1] \o s[i]
BY DEF Joins

LEMMA JoinsExist == \A s : \A k \in Nat : \E f : Joins(f, s, k)
<1> SUFFICES ASSUME NEW s PROVE \A k \in Nat : \E f : Joins(f, s, k)
  OBVIOUS
<1> DEFINE Bad == {k \in Nat : ~\E f : Joins(f, s, k)}
<1> SUFFICES ASSUME Bad # {} PROVE FALSE
  OBVIOUS
<1>1. PICK k \in Bad : \A l \in Bad : k <= l
  <2>1. Bad \in SUBSET Nat
    OBVIOUS
  <2> HIDE DEF Bad
  <2> QED BY <2>1, LeastNatural
<1>2. k \in Nat /\ ~\E f : Joins(f, s, k)
  BY <1>1
<1>3. k # 0
  <2>1. Joins([i \in 1..0 |-> <<>>], s, 0)
    BY DEF Joins
  <2> QED BY <1>2, <2>1
<1>4. k - 1 \in Nat /\ k - 1 \notin Bad
  <2>1. k - 1 \in Nat /\ ~(k <= k - 1)
    BY <1>2, <1>3
  <2> HIDE DEF Bad
  <2> QED BY <1>1, <2>1
<1>5. PICK f : Joins(f, s, k - 1)
  BY <1>4
<1> DEFINE Next1(i) == IF i = 1 THEN s[i] ELSE f[i - 1] \o s[i]
           g == [i \in 1..k |-> Next1(i)]
<1>6. \A i \in 1..(k - 1) : g[i] = f[i]
  <2>1. \A i \in 1..(k - 1) : f[i] = Next1(i)
    BY <1>5, Zenon DEF Joins
  <2>2. \A i \in 1..(k - 1) : i \in 1..k
    BY <1>2
  <2> HIDE DEF Next1
  <2> QED BY <2>1, <2>2
<1>7. \A i \in 1..k : i # 1 => i - 1 \in 1..(k - 1)
  BY <1>2
<1>8. \A i \in 1..k : Next1(i) = IF i = 1 THEN s[i] ELSE g[i - 1] \o s[i]
  <2> HIDE DEF g
  <2> QED BY <1>6, <1>7
<1>9. Joins(g, s, k)
  BY <1>8, Zenon DEF Joins
<1> QED BY <1>2, <1>9

Alike(s, t, k) == \A i \in 1..k : s[i] = t[i]

LEMMA JoinsAgree ==
  ASSUME NEW s, NEW t, NEW k \in Nat, Alike(s, t, k),
         NEW f, NEW g, Joins(f, s, k), Joins(g, t, k + 1)
  PROVE  Alike(f, g, k)
<1> DEFINE Bad == {i \in 1..k : f[i] # g[i]}
<1> SUFFICES ASSUME Bad # {} PROVE FALSE
  BY DEF Alike
<1>1. PICK i \in Bad : \A j \in Bad : i <= j
  <2>1. Bad \in SUBSET Nat
    OBVIOUS
  <2> HIDE DEF Bad
  <2> QED BY <2>1, LeastNatural
<1>2. i \in 1..k /\ f[i] # g[i]
  BY <1>1
<1>3. i \in 1..k /\ i \in 1..(k + 1) /\ s[i] = t[i] /\ k + 1 \in Nat
  BY <1>2 DEF Alike
<1>4. i # 1 /\ f[i - 1] # g[i - 1]
  <2>1. f[i] = IF i = 1 THEN s[i] ELSE f[i - 1] \o s[i]
    BY <1>3, JoinsAt
  <2>2. g[i] = IF i = 1 THEN s[i] ELSE g[i - 1] \o s[i]
    BY <1>3, JoinsAt
  <2> QED BY <1>2, <2>1, <2>2, Zenon
<1>5. i - 1 \in 1..k /\ ~(i <= i - 1)
  BY <1>2, <1>4
<1>6. i - 1 \in Bad
  BY <1>4, <1>5
<1> HIDE DEF Bad
<1> QED BY <1>1, <1>5, <1>6

LEMMA FlattenJoins ==
  ASSUME NEW S, NEW s \in Seq(S), s # <<>>
  PROVE  \E f : Joins(f, s, Len(s)) /\ FlattenSeq(s) = f[Len(s)]
<1> DEFINE f == CHOOSE f : Joins(f, s, Len(s))
<1>1. Len(s) \in Nat /\ Len(s) # 0
  OBVIOUS
<1>2. Joins(f, s, Len(s))
  <2>1. \E g : Joins(g, s, Len(s))
    BY <1>1, JoinsExist
  <2> QED BY <2>1, Zenon
<1>3. FlattenSeq(s) = f[Len(s)]
  BY <1>1 DEF FlattenSeq, Joins
<1> QED BY <1>2, <1>3

\* FlattenSeq goes from left to right.
LEMMA Flattened ==
  ASSUME NEW S
  PROVE  /\ FlattenSeq(<<>>) = <<>>
         /\ \A s \in Seq(Seq(S)), t \in Seq(S) :
              /\ FlattenSeq(Append(s, t)) = FlattenSeq(s) \o t
              /\ FlattenSeq(s) \in Seq(S)
<1>1. FlattenSeq(<<>>) = <<>>
  BY DEF FlattenSeq
<1>2. ASSUME NEW s \in Seq(Seq(S)), NEW t \in Seq(S)
      PROVE  FlattenSeq(Append(s, t)) = FlattenSeq(s) \o t
  <2> DEFINE u == Append(s, t)
  <2>1. /\ u \in Seq(Seq(S)) /\ u # <<>> /\ Len(u) = Len(s) + 1 /\ Len(s) \in Nat
        /\ u[Len(s) + 1] = t /\ \A i \in 1..Len(s) : s[i] = u[i]
    BY AppendProperties
  <2> HIDE DEF u
  <2>2. PICK g : Joins(g, u, Len(s) + 1) /\ FlattenSeq(u) = g[Len(s) + 1]
    BY <2>1, FlattenJoins
  <2>3. PICK k \in Nat : k = Len(s)
    BY <2>1
  <2>4. Joins(g, u, k + 1) /\ u[k + 1] = t /\ \A i \in 1..k : s[i] = u[i]
    BY <2>1, <2>2, <2>3
  <2>5. g[k + 1] = IF k = 0 THEN t ELSE g[k] \o t
    <3>1. k + 1 \in Nat /\ k + 1 \in 1..(k + 1) /\ k + 1 - 1 = k /\ (k + 1 = 1 <=> k = 0)
      OBVIOUS
    <3>2. g[k + 1] = IF k + 1 = 1 THEN u[k + 1] ELSE g[k + 1 - 1] \o u[k + 1]
      BY <2>4, <3>1, JoinsAt
    <3> QED BY <2>4, <3>1, <3>2
  <2>6. CASE s = <<>>
    <3>1. k = 0
      BY <2>3, <2>6
    <3>2. <<>> \o t = t
      OBVIOUS
    <3> QED BY <1>1, <2>2, <2>3, <2>5, <2>6, <3>1, <3>2 DEF u
  <2>7. CASE s # <<>>
    <3>1. PICK f : Joins(f, s, Len(s)) /\ FlattenSeq(s) = f[Len(s)]
      BY <2>7, FlattenJoins
    <3>2. Joins(f, s, k)
      BY <2>3, <3>1
    <3>3. \A i \in 1..k : f[i] = g[i]
      <4>1. Alike(s, u, k)
        BY <2>4 DEF Alike
      <4>2. Alike(f, g, k)
        BY <2>4, <3>2, <4>1, JoinsAgree
      <4> QED BY <4>2 DEF Alike
    <3>4. k # 0 /\ k \in 1..k
      BY <2>3, <2>7
    <3>5. g[k] = FlattenSeq(s)
      BY <2>3, <3>1, <3>3, <3>4
    <3> QED BY <2>2, <2>3, <2>5, <3>4, <3>5 DEF u
  <2> QED BY <2>6, <2>7
<1>3. \A s \in Seq(Seq(S)) : FlattenSeq(s) \in Seq(S)
  <2> DEFINE T == {s \in Seq(Seq(S)) : FlattenSeq(s) \in Seq(S)}
  <2>1. <<>> \in T
    <3>1. <<>> \in Seq(Seq(S)) /\ <<>> \in Seq(S)
      OBVIOUS
    <3> QED BY <1>1, <3>1
  <2>2. ASSUME NEW s \in Seq(Seq(S)), s \in T, NEW t \in Seq(S)
        PROVE  Append(s, t) \in T
    <3>1. FlattenSeq(s) \o t \in Seq(S)
      BY <2>2
    <3>2. Append(s, t) \in Seq(Seq(S))
      OBVIOUS
    <3> QED BY <1>2, <3>1, <3>2
  <2>3. Seq(Seq(S)) \subseteq T
    <3> HIDE DEF T
    <3> QED BY <2>1, <2>2, AllSequences
  <2> QED BY <2>3
<1> QED BY <1>1, <1>2, <1>3

-----------------------------------------------------------------------------
(* Escaping, one character at a time. *)

Char == STRING \cup {"%", "/", "#", "2", "5", "F",
                     "0", "1", "3", "4", "6", "7", "8", "9"}

Stretch(id, char, by) == [i \in DOMAIN id |-> IF id[i] = char THEN by ELSE <<id[i]>>]

LEMMA Stretched ==
  ASSUME NEW id \in Seq(Char), NEW c \in Char, NEW char, NEW by \in Seq(Char)
  PROVE  /\ Stretch(id, char, by) \in Seq(Seq(Char))
         /\ Stretch(Append(id, c), char, by)
              = Append(Stretch(id, char, by), IF c = char THEN by ELSE <<c>>)
         /\ Stretch(<<>>, char, by) = <<>>
<1> DEFINE s == Stretch(id, char, by)
           u == Append(id, c)
           t == Stretch(u, char, by)
           b == IF c = char THEN by ELSE <<c>>
<1>1. /\ u \in Seq(Char) /\ Len(id) \in Nat /\ Len(u) = Len(id) + 1
      /\ u[Len(id) + 1] = c /\ \A i \in 1..Len(id) : u[i] = id[i]
      /\ DOMAIN u = 1..(Len(id) + 1) /\ DOMAIN id = 1..Len(id)
  OBVIOUS
<1>2. \A d \in Char : <<d>> \in Seq(Char)
  OBVIOUS
<1>3. s \in Seq(Seq(Char)) /\ Len(s) = Len(id)
  <2>1. \A i \in 1..Len(id) : (IF id[i] = char THEN by ELSE <<id[i]>>) \in Seq(Char)
    BY <1>2
  <2>2. s \in [1..Len(id) -> Seq(Char)]
    BY <1>1, <2>1 DEF Stretch
  <2> HIDE DEF s
  <2> QED BY <1>1, <2>2
<1>4. b \in Seq(Char)
  BY <1>2
<1>5. /\ DOMAIN t = 1..(Len(id) + 1) /\ t[Len(id) + 1] = b
      /\ \A i \in 1..Len(id) : t[i] = s[i]
  <2> HIDE DEF u
  <2>1. t = [i \in 1..(Len(id) + 1) |-> IF u[i] = char THEN by ELSE <<u[i]>>]
    BY <1>1 DEF Stretch
  <2>2. \A i \in 1..(Len(id) + 1) : t[i] = IF u[i] = char THEN by ELSE <<u[i]>>
    BY <2>1
  <2>3. \A i \in 1..Len(id) : s[i] = IF id[i] = char THEN by ELSE <<id[i]>>
    BY <1>1 DEF Stretch
  <2>4. \A i \in 1..Len(id) : i \in 1..(Len(id) + 1)
    BY <1>1
  <2>5. Len(id) + 1 \in 1..(Len(id) + 1)
    BY <1>1
  <2>6. DOMAIN t = 1..(Len(id) + 1)
    BY <2>1
  <2> HIDE DEF t, s
  <2> QED BY <1>1, <2>2, <2>3, <2>4, <2>5, <2>6
<1>6. t = Append(s, b)
  <2> DEFINE a == Append(s, b)
  <2>1. /\ a \in Seq(Seq(Char)) /\ Len(a) = Len(id) + 1 /\ a[Len(id) + 1] = b
        /\ \A i \in 1..Len(id) : a[i] = s[i]
    <3> HIDE DEF s, b
    <3> QED BY <1>3, <1>4
  <2>2. DOMAIN a = 1..(Len(id) + 1) /\ a = [i \in 1..(Len(id) + 1) |-> a[i]]
    BY <2>1
  <2>3. t = [i \in 1..(Len(id) + 1) |-> t[i]]
    BY <1>5 DEF Stretch
  <2> HIDE DEF a, s, t, b, u
  <2>4. \A i \in 1..(Len(id) + 1) : i \in 1..Len(id) \/ i = Len(id) + 1
    BY <1>1
  <2>5. \A i \in 1..(Len(id) + 1) : a[i] = t[i]
    BY <1>5, <2>1, <2>4
  <2>6. [i \in 1..(Len(id) + 1) |-> a[i]] = [i \in 1..(Len(id) + 1) |-> t[i]]
    BY <2>5, Zenon
  <2> QED BY <2>2, <2>3, <2>6, Zenon DEF a
<1>7. Stretch(<<>>, char, by) = <<>>
  BY DEF Stretch
<1> QED BY <1>3, <1>6, <1>7

LEMMA ReplacedInTurn ==
  ASSUME NEW id \in Seq(Char), NEW c \in Char, NEW char, NEW by \in Seq(Char)
  PROVE  /\ Replaced(id, char, by) \in Seq(Char)
         /\ Replaced(<<>>, char, by) = <<>>
         /\ c = char => Replaced(Append(id, c), char, by) = Replaced(id, char, by) \o by
         /\ c # char => Replaced(Append(id, c), char, by)
                          = Append(Replaced(id, char, by), c)
<1>1. \A s : Replaced(s, char, by) = FlattenSeq(Stretch(s, char, by))
  BY DEF Replaced, Stretch
<1> DEFINE s == Stretch(id, char, by)
           b == IF c = char THEN by ELSE <<c>>
<1>2. /\ s \in Seq(Seq(Char)) /\ Stretch(<<>>, char, by) = <<>>
      /\ Stretch(Append(id, c), char, by) = Append(s, b)
  BY Stretched
<1>3. b \in Seq(Char)
  OBVIOUS
<1> HIDE DEF s, b
<1>4. /\ FlattenSeq(<<>>) = <<>> /\ FlattenSeq(s) \in Seq(Char)
      /\ FlattenSeq(Append(s, b)) = FlattenSeq(s) \o b
  BY <1>2, <1>3, Flattened
<1>5. /\ Replaced(id, char, by) \in Seq(Char)
      /\ Replaced(<<>>, char, by) = <<>>
      /\ Replaced(Append(id, c), char, by) = Replaced(id, char, by) \o b
  BY <1>1, <1>2, <1>4 DEF s
<1>6. c = char => b = by
  BY DEF b
<1>7. ASSUME c # char PROVE Replaced(id, char, by) \o b = Append(Replaced(id, char, by), c)
  <2>1. b = <<c>>
    BY <1>7 DEF b
  <2> QED BY <1>5, <2>1, AppendIsConcat
<1> QED BY <1>5, <1>6, <1>7

\* What a character is escaped to.
Special == {"%", "/", "#"}
Code(c) == CASE c = "%" -> "5" [] c = "/" -> "F" [] c = "#" -> "3"
Coded(x) == <<"%", "2", x>>
AddCode(s, x) == Append(Append(Append(s, "%"), "2"), x)

LEMMA Codes ==
  /\ Special \subseteq Char /\ \A c \in Special : Code(c) \in Char
  /\ "%" \in Char /\ "2" \in Char
  /\ \A c \in Special : Code(c) \notin Special /\ Code(c) # "2"
  /\ \A c, d \in Special : Code(c) = Code(d) => c = d
  /\ "%" # "2" /\ "2" \notin Special
  /\ "/" # "%" /\ "#" # "%" /\ "#" # "/"
  /\ \A c \in Special : c = "%" \/ c = "/" \/ c = "#"
  /\ {"%", "/", "#"} \subseteq Special
BY DEF Special, Code, Char

LEMMA CodeAdded ==
  ASSUME NEW s \in Seq(Char), NEW x \in Char
  PROVE  s \o Coded(x) = AddCode(s, x) /\ Coded(x) \in Seq(Char)
         /\ AddCode(s, x) \in Seq(Char)
BY Codes DEF Coded, AddCode

\* Replacing a character by its code, character by character; what replaces
\* another is left alone.
LEMMA CodedInTurn ==
  ASSUME NEW char \in Special, NEW x \in Char, NEW s \in Seq(Char)
  PROVE  /\ Replaced(s, char, Coded(x)) \in Seq(Char)
         /\ Replaced(<<>>, char, Coded(x)) = <<>>
         /\ Replaced(Append(s, char), char, Coded(x))
              = AddCode(Replaced(s, char, Coded(x)), x)
         /\ \A c \in Char : c # char =>
              Replaced(Append(s, c), char, Coded(x))
                = Append(Replaced(s, char, Coded(x)), c)
         /\ \A y \in Char : char # "%" /\ y # char =>
              Replaced(AddCode(s, y), char, Coded(x))
                = AddCode(Replaced(s, char, Coded(x)), y)
<1> DEFINE R(t) == Replaced(t, char, Coded(x))
<1>1. Coded(x) \in Seq(Char) /\ char \in Char
  BY Codes, CodeAdded
<1>2. \A t \in Seq(Char) : R(t) \in Seq(Char) /\ R(<<>>) = <<>>
  BY <1>1, ReplacedInTurn
<1>3. R(Append(s, char)) = R(s) \o Coded(x)
  BY <1>1, ReplacedInTurn
<1>4. ASSUME NEW t \in Seq(Char), NEW c \in Char, c # char
      PROVE  R(Append(t, c)) = Append(R(t), c)
  BY <1>1, <1>4, ReplacedInTurn
<1> HIDE DEF R
<1>5. R(Append(s, char)) = AddCode(R(s), x)
  BY <1>2, <1>3, CodeAdded
<1>6. ASSUME NEW y \in Char, char # "%", y # char
      PROVE  R(AddCode(s, y)) = AddCode(R(s), y)
  <2> DEFINE a == Append(s, "%")
             b == Append(a, "2")
  <2>1. a \in Seq(Char) /\ b \in Seq(Char)
    BY Codes
  <2>2. R(a) = Append(R(s), "%")
    BY <1>4, <1>6, Codes
  <2> HIDE DEF a
  <2>3. R(b) = Append(R(a), "2")
    BY <1>4, <2>1, Codes
  <2> HIDE DEF b
  <2>4. R(Append(b, y)) = Append(R(b), y)
    BY <1>4, <1>6, <2>1
  <2> QED BY <2>2, <2>3, <2>4 DEF AddCode, a, b
<1> QED BY <1>2, <1>4, <1>5, <1>6 DEF R

\* Escaping goes from left to right, one character at a time.
LEMMA EscapedInTurn ==
  ASSUME NEW id \in Seq(Char), NEW c \in Char
  PROVE  /\ EscapeSegment(id) \in Seq(Char)
         /\ EscapeSegment(<<>>) = <<>>
         /\ c \in Special => EscapeSegment(Append(id, c)) = AddCode(EscapeSegment(id), Code(c))
         /\ c \notin Special =>
              EscapeSegment(Append(id, c)) = Append(EscapeSegment(id), c)
<1> DEFINE R1(s) == Replaced(s, "%", Coded("5"))
           R2(s) == Replaced(s, "/", Coded("F"))
           R3(s) == Replaced(s, "#", Coded("3"))
<1>1. \A s : EscapeSegment(s) = R3(R2(R1(s)))
  BY DEF EscapeSegment, Coded
<1>2. /\ "5" \in Char /\ "F" \in Char /\ "3" \in Char
      /\ Code("%") = "5" /\ Code("/") = "F" /\ Code("#") = "3"
      /\ "5" # "/" /\ "5" # "#" /\ "F" # "#"
  BY DEF Char, Code
<1>3. ASSUME NEW s \in Seq(Char)
      PROVE  /\ R1(s) \in Seq(Char) /\ R1(<<>>) = <<>>
             /\ R1(Append(s, "%")) = AddCode(R1(s), "5")
             /\ \A d \in Char : d # "%" => R1(Append(s, d)) = Append(R1(s), d)
  BY <1>2, Codes, CodedInTurn
<1>4. ASSUME NEW s \in Seq(Char)
      PROVE  /\ R2(s) \in Seq(Char) /\ R2(<<>>) = <<>>
             /\ R2(Append(s, "/")) = AddCode(R2(s), "F")
             /\ \A d \in Char : d # "/" => R2(Append(s, d)) = Append(R2(s), d)
             /\ R2(AddCode(s, "5")) = AddCode(R2(s), "5")
  <2> DEFINE char == "/"
             x == "F"
  <2>1. char \in Special /\ x \in Char /\ char # "%" /\ "5" # char
    BY <1>2, Codes
  <2> HIDE DEF char, x
  <2>2. /\ Replaced(s, char, Coded(x)) \in Seq(Char)
        /\ Replaced(<<>>, char, Coded(x)) = <<>>
        /\ Replaced(Append(s, char), char, Coded(x))
             = AddCode(Replaced(s, char, Coded(x)), x)
        /\ \A d \in Char : d # char =>
             Replaced(Append(s, d), char, Coded(x))
               = Append(Replaced(s, char, Coded(x)), d)
    BY <2>1, CodedInTurn
  <2>3. Replaced(AddCode(s, "5"), char, Coded(x)) = AddCode(Replaced(s, char, Coded(x)), "5")
    BY <1>2, <2>1, CodedInTurn
  <2> QED BY <2>2, <2>3 DEF char, x
<1>5. ASSUME NEW s \in Seq(Char)
      PROVE  /\ R3(s) \in Seq(Char) /\ R3(<<>>) = <<>>
             /\ R3(Append(s, "#")) = AddCode(R3(s), "3")
             /\ \A d \in Char : d # "#" => R3(Append(s, d)) = Append(R3(s), d)
             /\ R3(AddCode(s, "5")) = AddCode(R3(s), "5")
             /\ R3(AddCode(s, "F")) = AddCode(R3(s), "F")
  <2> DEFINE char == "#"
             x == "3"
  <2>1. char \in Special /\ x \in Char /\ char # "%" /\ "5" # char /\ "F" # char
    BY <1>2, Codes
  <2> HIDE DEF char, x
  <2>2. /\ Replaced(s, char, Coded(x)) \in Seq(Char)
        /\ Replaced(<<>>, char, Coded(x)) = <<>>
        /\ Replaced(Append(s, char), char, Coded(x))
             = AddCode(Replaced(s, char, Coded(x)), x)
        /\ \A d \in Char : d # char =>
             Replaced(Append(s, d), char, Coded(x))
               = Append(Replaced(s, char, Coded(x)), d)
    BY <2>1, CodedInTurn
  <2>3. \A y \in {"5", "F"} :
          Replaced(AddCode(s, y), char, Coded(x)) = AddCode(Replaced(s, char, Coded(x)), y)
    BY <1>2, <2>1, CodedInTurn
  <2> QED BY <2>2, <2>3 DEF char, x
<1> HIDE DEF R1, R2, R3
<1> DEFINE r1 == R1(id)
           r2 == R2(r1)
           r3 == R3(r2)
<1>6. r1 \in Seq(Char) /\ r2 \in Seq(Char) /\ r3 \in Seq(Char)
  BY <1>3, <1>4, <1>5
<1>7. EscapeSegment(id) = r3 /\ EscapeSegment(Append(id, c)) = R3(R2(R1(Append(id, c))))
  BY <1>1
<1>8. EscapeSegment(<<>>) = <<>>
  <2>1. <<>> \in Seq(Char)
    OBVIOUS
  <2> QED BY <1>1, <1>3, <1>4, <1>5, <2>1
<1>12. CASE c = "%"
  <2>1. R1(Append(id, c)) = AddCode(r1, "5")
    BY <1>3, <1>12
  <2> HIDE DEF r1
  <2>2. R2(R1(Append(id, c))) = AddCode(r2, "5")
    BY <1>4, <1>6, <2>1
  <2> HIDE DEF r2
  <2>3. R3(R2(R1(Append(id, c)))) = AddCode(r3, "5")
    BY <1>5, <1>6, <2>2
  <2> HIDE DEF r3
  <2> QED BY <1>2, <1>6, <1>7, <1>8, <1>12, <2>3, Codes
<1>13. CASE c = "/"
  <2>1. R1(Append(id, c)) = Append(r1, "/")
    BY <1>3, <1>13, Codes
  <2> HIDE DEF r1
  <2>2. R2(R1(Append(id, c))) = AddCode(r2, "F")
    BY <1>4, <1>6, <2>1
  <2> HIDE DEF r2
  <2>3. R3(R2(R1(Append(id, c)))) = AddCode(r3, "F")
    BY <1>5, <1>6, <2>2
  <2> HIDE DEF r3
  <2> QED BY <1>2, <1>6, <1>7, <1>8, <1>13, <2>3, Codes
<1>14. CASE c = "#"
  <2>1. R1(Append(id, c)) = Append(r1, "#")
    BY <1>3, <1>14, Codes
  <2> HIDE DEF r1
  <2>2. R2(R1(Append(id, c))) = Append(r2, "#")
    BY <1>4, <1>6, <2>1, Codes
  <2> HIDE DEF r2
  <2>3. R3(R2(R1(Append(id, c)))) = AddCode(r3, "3")
    BY <1>5, <1>6, <2>2
  <2> HIDE DEF r3
  <2> QED BY <1>2, <1>6, <1>7, <1>8, <1>14, <2>3, Codes
<1>15. CASE c \notin Special
  <2>1. c # "%" /\ c # "/" /\ c # "#"
    BY <1>15 DEF Special
  <2>2. R1(Append(id, c)) = Append(r1, c)
    BY <1>3, <2>1
  <2> HIDE DEF r1
  <2>3. R2(R1(Append(id, c))) = Append(r2, c)
    BY <1>4, <1>6, <2>1, <2>2
  <2> HIDE DEF r2
  <2>4. R3(R2(R1(Append(id, c)))) = Append(r3, c)
    BY <1>5, <1>6, <2>1, <2>3
  <2> HIDE DEF r3
  <2> QED BY <1>6, <1>7, <1>8, <1>15, <2>4
<1> QED BY <1>12, <1>13, <1>14, <1>15, Codes

-----------------------------------------------------------------------------
(* Escaped ids: an id is read back, from its end, off its escaped form. *)

\* A character does not occur.
Free(s, c) == \A i \in DOMAIN s : s[i] # c

LEMMA FreeAppended ==
  ASSUME NEW s \in Seq(Char), NEW d \in Char, NEW c, Free(s, c), d # c
  PROVE  Free(Append(s, d), c) /\ Append(s, d) \in Seq(Char)
BY DEF Free

LEMMA FreeJoined ==
  ASSUME NEW s \in Seq(Char), NEW t \in Seq(Char), NEW c, Free(s, c), Free(t, c)
  PROVE  Free(s \o t, c) /\ s \o t \in Seq(Char)
BY DEF Free

LEMMA FreeEmpty == \A c : Free(<<>>, c)
BY DEF Free

LEMMA EscapedTypes ==
  ASSUME NEW id \in Seq(Char)
  PROVE  /\ EscapeSegment(id) \in Seq(Char)
         /\ Free(EscapeSegment(id), "/") /\ Free(EscapeSegment(id), "#")
<1> DEFINE T == {s \in Seq(Char) : Free(EscapeSegment(s), "/") /\ Free(EscapeSegment(s), "#")}
<1>1. <<>> \in T
  <2>1. <<>> \in Seq(Char) /\ "%" \in Char
    BY Codes
  <2>2. EscapeSegment(<<>>) = <<>>
    BY <2>1, EscapedInTurn
  <2> QED BY <2>1, <2>2, FreeEmpty
<1>2. ASSUME NEW s \in Seq(Char), s \in T, NEW c \in Char
      PROVE  Append(s, c) \in T
  <2> DEFINE e == EscapeSegment(s)
             to == EscapeSegment(Append(s, c))
  <2>1. e \in Seq(Char) /\ Free(e, "/") /\ Free(e, "#")
    BY <1>2, EscapedInTurn
  <2>2. c \in Special => to = AddCode(e, Code(c))
    BY EscapedInTurn
  <2>3. c \notin Special => to = Append(e, c)
    BY EscapedInTurn
  <2>4. Append(s, c) \in Seq(Char)
    OBVIOUS
  <2> HIDE DEF e, to
  <2>5. CASE c \in Special
    <3>1. /\ "%" \in Char /\ "2" \in Char /\ Code(c) \in Char
          /\ "%" # "/" /\ "%" # "#" /\ "2" # "/" /\ "2" # "#"
          /\ Code(c) # "/" /\ Code(c) # "#"
      BY <2>5, Codes
    <3> DEFINE a == Append(e, "%")
               b == Append(a, "2")
    <3>2. a \in Seq(Char) /\ Free(a, "/") /\ Free(a, "#")
      BY <2>1, <3>1, FreeAppended
    <3> HIDE DEF a
    <3>3. b \in Seq(Char) /\ Free(b, "/") /\ Free(b, "#")
      BY <3>1, <3>2, FreeAppended
    <3> HIDE DEF b
    <3>4. Free(Append(b, Code(c)), "/") /\ Free(Append(b, Code(c)), "#")
      BY <3>1, <3>3, FreeAppended
    <3>5. to = Append(b, Code(c))
      BY <2>2, <2>5 DEF AddCode, a, b
    <3> QED BY <2>4, <3>4, <3>5 DEF to
  <2>6. CASE c \notin Special
    <3>1. c # "/" /\ c # "#"
      BY <2>6, Codes
    <3>2. Free(to, "/") /\ Free(to, "#")
      BY <2>1, <2>3, <2>6, <3>1, FreeAppended
    <3> QED BY <2>4, <3>2 DEF to
  <2> QED BY <2>5, <2>6
<1>3. Seq(Char) \subseteq T
  <2> HIDE DEF T
  <2> QED BY <1>1, <1>2, AllSequences
<1>4. \A c \in Char : EscapeSegment(id) \in Seq(Char)
  BY EscapedInTurn
<1> QED BY <1>3, <1>4, Codes

LEMMA Appends ==
  ASSUME NEW s \in Seq(Char), NEW t \in Seq(Char), NEW c \in Char, NEW d \in Char
  PROVE  /\ Append(s, c) = Append(t, d) => s = t /\ c = d
         /\ Append(s, c) \in Seq(Char) /\ Append(s, c) # <<>>
BY AppendInjective, AppendProperties

\* The escape character never ends an escaped id, nor does a code cut short.
LEMMA NoCodeCut ==
  ASSUME NEW id \in Seq(Char), NEW t \in Seq(Char)
  PROVE  /\ EscapeSegment(id) # Append(t, "%")
         /\ EscapeSegment(id) # Append(Append(t, "%"), "2")
<1> DEFINE T == {s \in Seq(Char) : \A u \in Seq(Char) :
                   /\ EscapeSegment(s) # Append(u, "%")
                   /\ EscapeSegment(s) # Append(Append(u, "%"), "2")}
<1>1. <<>> \in T
  <2>1. <<>> \in Seq(Char) /\ "%" \in Char /\ "2" \in Char
    BY Codes
  <2>2. EscapeSegment(<<>>) = <<>>
    BY <2>1, EscapedInTurn
  <2> QED BY <2>1, <2>2, Appends
<1>2. ASSUME NEW s \in Seq(Char), s \in T, NEW c \in Char
      PROVE  Append(s, c) \in T
  <2> DEFINE e == EscapeSegment(s)
             to == EscapeSegment(Append(s, c))
  <2>1. e \in Seq(Char) /\ \A u \in Seq(Char) : e # Append(u, "%")
    BY <1>2, EscapedInTurn
  <2>2. c \in Special => to = AddCode(e, Code(c))
    BY EscapedInTurn
  <2>3. c \notin Special => to = Append(e, c)
    BY EscapedInTurn
  <2>4. Append(s, c) \in Seq(Char)
    OBVIOUS
  <2>5. /\ "%" \in Char /\ "2" \in Char /\ "%" \in Special /\ "%" # "2"
        /\ c \in Special => Code(c) \in Char /\ Code(c) # "%" /\ Code(c) # "2"
    BY Codes
  <2> HIDE DEF e, to
  <2>6. ASSUME NEW u \in Seq(Char)
        PROVE  to # Append(u, "%") /\ to # Append(Append(u, "%"), "2")
    <3>1. Append(u, "%") \in Seq(Char)
      BY <2>5, Appends
    <3>2. CASE c \in Special
      <4> DEFINE b == Append(Append(e, "%"), "2")
      <4>1. b \in Seq(Char)
        BY <2>1, <2>5, Appends
      <4>2. to = Append(b, Code(c))
        BY <2>2, <3>2 DEF AddCode
      <4> HIDE DEF b
      <4> QED BY <2>5, <3>1, <3>2, <4>1, <4>2, Appends
    <3>3. CASE c \notin Special
      <4>1. to = Append(e, c) /\ c # "%"
        BY <2>3, <2>5, <3>3
      <4>2. e # Append(u, "%")
        BY <2>1
      <4> QED BY <2>1, <2>5, <3>1, <4>1, <4>2, Appends
    <3> QED BY <3>2, <3>3
  <2> QED BY <2>4, <2>6 DEF to
<1>3. Seq(Char) \subseteq T
  <2> HIDE DEF T
  <2> QED BY <1>1, <1>2, AllSequences
<1> QED BY <1>3

\* Two ids escape to the same characters only if they are the same.
LEMMA EscapeInjective ==
  ASSUME NEW id \in Seq(Char), NEW other \in Seq(Char),
         EscapeSegment(id) = EscapeSegment(other)
  PROVE  id = other
<1> DEFINE T == {s \in Seq(Char) : \A t \in Seq(Char) :
                   EscapeSegment(s) = EscapeSegment(t) => s = t}
<1>1. /\ EscapeSegment(<<>>) = <<>>
      /\ \A s \in Seq(Char), c \in Char :
           EscapeSegment(s) \in Seq(Char) /\ EscapeSegment(Append(s, c)) # <<>>
  <2>1. <<>> \in Seq(Char) /\ "%" \in Char /\ "2" \in Char
    BY Codes
  <2>2. EscapeSegment(<<>>) = <<>>
    BY <2>1, EscapedInTurn
  <2>3. ASSUME NEW s \in Seq(Char), NEW c \in Char
        PROVE  EscapeSegment(s) \in Seq(Char) /\ EscapeSegment(Append(s, c)) # <<>>
    <3>1. EscapeSegment(s) \in Seq(Char)
      BY EscapedInTurn
    <3>2. CASE c \in Special
      <4> DEFINE b == Append(Append(EscapeSegment(s), "%"), "2")
      <4>1. b \in Seq(Char)
        BY <2>1, <3>1, Appends
      <4>2. EscapeSegment(Append(s, c)) = Append(b, Code(c)) /\ Code(c) \in Char
        BY <3>2, EscapedInTurn, Codes DEF AddCode
      <4> HIDE DEF b
      <4> QED BY <3>1, <4>1, <4>2, Appends
    <3>3. CASE c \notin Special
      <4>1. EscapeSegment(Append(s, c)) = Append(EscapeSegment(s), c)
        BY <3>3, EscapedInTurn
      <4> QED BY <3>1, <4>1, Appends
    <3> QED BY <3>2, <3>3
  <2> QED BY <2>2, <2>3
<1>2. <<>> \in T
  <2>1. ASSUME NEW t \in Seq(Char), EscapeSegment(<<>>) = EscapeSegment(t) PROVE <<>> = t
    <3> SUFFICES ASSUME t # <<>> PROVE FALSE
      OBVIOUS
    <3>1. PICK u \in Seq(Char), d \in Char : t = Append(u, d)
      BY SequenceEmptyOrAppend
    <3> QED BY <1>1, <2>1, <3>1
  <2> QED BY <2>1
<1>3. ASSUME NEW s \in Seq(Char), s \in T, NEW c \in Char
      PROVE  Append(s, c) \in T
  <2>1. ASSUME NEW t \in Seq(Char), EscapeSegment(Append(s, c)) = EscapeSegment(t)
        PROVE  Append(s, c) = t
    <3>1. t # <<>>
      BY <1>1, <2>1
    <3>2. PICK u \in Seq(Char), d \in Char : t = Append(u, d)
      BY <3>1, SequenceEmptyOrAppend
    <3> DEFINE e == EscapeSegment(s)
               f == EscapeSegment(u)
    <3>3. /\ e \in Seq(Char) /\ f \in Seq(Char)
          /\ "%" \in Char /\ "2" \in Char
          /\ Append(e, "%") \in Seq(Char) /\ Append(f, "%") \in Seq(Char)
      BY <1>1, Codes, Appends
    <3>4. /\ Append(Append(e, "%"), "2") \in Seq(Char)
          /\ Append(Append(f, "%"), "2") \in Seq(Char)
      BY <3>3, Appends
    <3>5. /\ c \in Special => EscapeSegment(Append(s, c)) = AddCode(e, Code(c))
          /\ c \notin Special => EscapeSegment(Append(s, c)) = Append(e, c)
          /\ d \in Special => EscapeSegment(t) = AddCode(f, Code(d))
          /\ d \notin Special => EscapeSegment(t) = Append(f, d)
      BY <3>2, EscapedInTurn
    <3>6. /\ c \in Special => Code(c) \in Char
          /\ d \in Special => Code(d) \in Char
          /\ c \in Special /\ d \in Special /\ Code(c) = Code(d) => c = d
      BY Codes
    <3>7. e = f => s = u
      BY <1>3
    <3>8. /\ e # Append(Append(f, "%"), "2") /\ f # Append(Append(e, "%"), "2")
      BY <3>3, NoCodeCut
    <3> HIDE DEF e, f
    <3> DEFINE ee == Append(Append(e, "%"), "2")
               ff == Append(Append(f, "%"), "2")
    <3>9. ee \in Seq(Char) /\ ff \in Seq(Char) /\ e # ff /\ f # ee
      BY <3>4, <3>8
    <3>10. /\ AddCode(e, Code(c)) = Append(ee, Code(c))
          /\ AddCode(f, Code(d)) = Append(ff, Code(d))
      BY DEF AddCode
    <3>11. ee = ff => e = f
      <4> DEFINE e1 == Append(e, "%")
                 f1 == Append(f, "%")
      <4>1. e1 \in Seq(Char) /\ f1 \in Seq(Char) /\ (e1 = f1 => e = f)
        BY <3>3, Appends
      <4>2. (ee = ff) = (Append(e1, "2") = Append(f1, "2"))
        OBVIOUS
      <4> HIDE DEF e1, f1, ee, ff
      <4> QED BY <3>3, <4>1, <4>2, Appends
    <3> HIDE DEF ee, ff
    <3>12. CASE c \in Special /\ d \in Special
      <4>1. Append(ee, Code(c)) = Append(ff, Code(d))
        BY <2>1, <3>5, <3>12, <3>10
      <4>2. ee = ff /\ Code(c) = Code(d)
        BY <3>6, <3>12, <3>9, <4>1, Appends
      <4> QED BY <3>2, <3>6, <3>7, <3>12, <3>11, <4>2
    <3>13. CASE c \in Special /\ d \notin Special
      <4>1. Append(ee, Code(c)) = Append(f, d)
        BY <2>1, <3>5, <3>13, <3>10
      <4> QED BY <3>3, <3>6, <3>13, <3>9, <4>1, Appends
    <3>14. CASE c \notin Special /\ d \in Special
      <4>1. Append(e, c) = Append(ff, Code(d))
        BY <2>1, <3>5, <3>14, <3>10
      <4> QED BY <3>3, <3>6, <3>14, <3>9, <4>1, Appends
    <3>15. CASE c \notin Special /\ d \notin Special
      <4>1. e = f /\ c = d
        BY <2>1, <3>3, <3>5, <3>15, Appends
      <4> QED BY <3>2, <3>7, <4>1
    <3> QED BY <3>12, <3>13, <3>14, <3>15
  <2>2. Append(s, c) \in Seq(Char)
    OBVIOUS
  <2> QED BY <2>1, <2>2
<1>4. Seq(Char) \subseteq T
  <2> HIDE DEF T
  <2> QED BY <1>2, <1>3, AllSequences
<1> QED BY <1>4

-----------------------------------------------------------------------------
(* Numbers as they are printed. *)

Numeral(f, n) ==
  IF n < 10 THEN <<Digit[n + 1]>> ELSE Append(f[n \div 10], Digit[(n % 10) + 1])
Numerals(f, k) == f = [n \in 0..k |-> Numeral(f, n)]

LEMMA Tenths ==
  ASSUME NEW n \in Nat
  PROVE  /\ n \div 10 \in Nat /\ n % 10 \in 0..9
         /\ n >= 10 => n \div 10 < n /\ n \div 10 # 0
<1>1. n \div 10 \in Nat
  OBVIOUS
<1>2. n % 10 \in 0..9
  OBVIOUS
<1>3. n >= 10 => n \div 10 < n /\ n \div 10 # 0
  OBVIOUS
<1> QED BY <1>1, <1>2, <1>3

LEMMA TenthsAgree ==
  ASSUME NEW m \in Nat, NEW n \in Nat, m \div 10 = n \div 10, m % 10 = n % 10
  PROVE  m = n
OBVIOUS

LEMMA NumeralsAt ==
  ASSUME NEW f, NEW k \in Nat, Numerals(f, k), NEW n \in 0..k
  PROVE  f[n] = Numeral(f, n)
<1>1. f = [i \in 0..k |-> Numeral(f, i)]
  BY DEF Numerals
<1> QED BY <1>1, Zenon

\* A numeral rests on that of a smaller number.
LEMMA NumeralsAgree ==
  ASSUME NEW f, NEW g, NEW k \in Nat, NEW l \in Nat, k <= l,
         Numerals(f, k), Numerals(g, l)
  PROVE  \A n \in 0..k : f[n] = g[n]
<1> DEFINE Bad == {n \in 0..k : f[n] # g[n]}
<1> SUFFICES ASSUME Bad # {} PROVE FALSE
  OBVIOUS
<1>1. PICK n \in Bad : \A m \in Bad : n <= m
  <2>1. Bad \in SUBSET Nat
    OBVIOUS
  <2> HIDE DEF Bad
  <2> QED BY <2>1, LeastNatural
<1>2. n \in 0..k /\ n \in 0..l /\ f[n] # g[n] /\ n \in Nat
  BY <1>1
<1>3. f[n] = Numeral(f, n)
  BY <1>2, NumeralsAt
<1>4. g[n] = Numeral(g, n)
  BY <1>2, NumeralsAt
<1>5. n >= 10 /\ f[n \div 10] # g[n \div 10]
  BY <1>2, <1>3, <1>4 DEF Numeral
<1>6. n \div 10 \in 0..k /\ ~(n <= n \div 10)
  BY <1>2, <1>5, Tenths
<1>7. n \div 10 \in Bad
  BY <1>5, <1>6
<1> HIDE DEF Bad
<1> QED BY <1>1, <1>6, <1>7

LEMMA NumeralsExist == \A k \in Nat : \E f : Numerals(f, k)
<1> DEFINE Bad == {k \in Nat : ~\E f : Numerals(f, k)}
<1> SUFFICES ASSUME Bad # {} PROVE FALSE
  OBVIOUS
<1>1. PICK k \in Bad : \A l \in Bad : k <= l
  <2>1. Bad \in SUBSET Nat
    OBVIOUS
  <2> HIDE DEF Bad
  <2> QED BY <2>1, LeastNatural
<1>2. k \in Nat /\ ~\E f : Numerals(f, k)
  BY <1>1
<1>3. \E f : \A n \in 0..(k - 1) : f[n] = Numeral(f, n)
  <2>1. CASE k = 0
    BY <2>1
  <2>2. CASE k # 0
    <3>1. k - 1 \in Nat /\ ~(k <= k - 1)
      BY <1>2, <2>2
    <3>2. k - 1 \notin Bad
      <4> HIDE DEF Bad
      <4> QED BY <1>1, <3>1
    <3>3. PICK f : Numerals(f, k - 1)
      BY <3>1, <3>2
    <3>4. \A n \in 0..(k - 1) : f[n] = Numeral(f, n)
      BY <3>1, <3>3, NumeralsAt
    <3> QED BY <3>4
  <2> QED BY <2>1, <2>2
<1>4. PICK f : \A n \in 0..(k - 1) : f[n] = Numeral(f, n)
  BY <1>3
<1> DEFINE g == [n \in 0..k |-> Numeral(f, n)]
<1>5. ASSUME NEW n \in 0..k PROVE Numeral(f, n) = Numeral(g, n)
  <2>1. CASE n < 10
    BY <2>1 DEF Numeral
  <2>2. CASE ~(n < 10)
    <3>1. n \in Nat /\ n >= 10
      BY <1>2, <2>2
    <3>2. n \div 10 \in 0..(k - 1) /\ n \div 10 \in 0..k
      BY <1>2, <3>1, Tenths
    <3>3. f[n \div 10] = Numeral(f, n \div 10)
      BY <1>4, <3>2
    <3>4. g[n \div 10] = Numeral(f, n \div 10)
      BY <3>2
    <3> HIDE DEF g
    <3> QED BY <2>2, <3>3, <3>4 DEF Numeral
  <2> QED BY <2>1, <2>2
<1>6. [n \in 0..k |-> Numeral(f, n)] = [n \in 0..k |-> Numeral(g, n)]
  <2> HIDE DEF g
  <2> QED BY <1>5
<1>7. Numerals(g, k)
  BY <1>6, Zenon DEF Numerals
<1> QED BY <1>2, <1>7

\* Decimal is what its definition says it is.
LEMMA DecimalIsNumeral == \A n \in Nat : Decimal[n] = Numeral(Decimal, n)
<1> DEFINE Until(k) == CHOOSE f : Numerals(f, k)
           d == [n \in Nat |-> Until(n)[n]]
<1>1. \A k \in Nat : Numerals(Until(k), k)
  BY NumeralsExist, Zenon
<1> HIDE DEF Until
<1>2. ASSUME NEW n \in Nat PROVE d[n] = Numeral(d, n)
  <2>1. d[n] = Until(n)[n]
    OBVIOUS
  <2>2. n \in 0..n
    OBVIOUS
  <2>3. Until(n)[n] = Numeral(Until(n), n)
    BY <1>1, <2>2, NumeralsAt
  <2>4. CASE n < 10
    BY <2>1, <2>3, <2>4 DEF Numeral
  <2>5. CASE ~(n < 10)
    <3> DEFINE m == n \div 10
    <3>1. m \in Nat /\ m <= n /\ m \in 0..m
      BY <2>5, Tenths
    <3> HIDE DEF m
    <3>2. Until(m)[m] = Until(n)[m]
      BY <1>1, <3>1, NumeralsAgree
    <3>3. d[m] = Until(m)[m]
      BY <3>1
    <3> HIDE DEF d
    <3> QED BY <2>1, <2>3, <2>5, <3>2, <3>3 DEF Numeral, m
  <2> QED BY <2>4, <2>5
<1>3. d = [n \in Nat |-> Numeral(d, n)]
  <2>1. d = [n \in Nat |-> d[n]]
    OBVIOUS
  <2> HIDE DEF d
  <2>2. [n \in Nat |-> d[n]] = [n \in Nat |-> Numeral(d, n)]
    BY <1>2
  <2> QED BY <2>1, <2>2, Zenon
<1> HIDE DEF d
<1>4. Decimal = CHOOSE f : f = [n \in Nat |-> Numeral(f, n)]
  BY DEF Decimal, Numeral
<1>5. Decimal = [n \in Nat |-> Numeral(Decimal, n)]
  BY <1>3, <1>4, Zenon
<1> QED BY <1>5, Zenon

LEMMA Digits ==
  /\ \A i \in 0..9 : Digit[i + 1] \in Char \ Special
  /\ \A i, j \in 0..9 : Digit[i + 1] = Digit[j + 1] => i = j
<1>1. \A i \in 0..9 : i = 0 \/ i = 1 \/ i = 2 \/ i = 3 \/ i = 4 \/ i = 5 \/ i = 6
                      \/ i = 7 \/ i = 8 \/ i = 9
  OBVIOUS
<1> QED BY <1>1 DEF Digit, Char, Special

LEMMA Singleton ==
  ASSUME NEW c \in Char
  PROVE  <<c>> = Append(<<>>, c) /\ <<c>> \in Seq(Char) /\ <<>> \in Seq(Char)
OBVIOUS

LEMMA DecimalStep ==
  ASSUME NEW n \in Nat
  PROVE  /\ n < 10 => Decimal[n] = Append(<<>>, Digit[n + 1]) /\ Digit[n + 1] \in Char \ Special
         /\ n >= 10 => /\ Decimal[n] = Append(Decimal[n \div 10], Digit[(n % 10) + 1])
                       /\ Digit[(n % 10) + 1] \in Char \ Special
<1>1. Decimal[n] = Numeral(Decimal, n)
  BY DecimalIsNumeral
<1>2. ASSUME n < 10
      PROVE  Decimal[n] = Append(<<>>, Digit[n + 1]) /\ Digit[n + 1] \in Char \ Special
  <2>1. n \in 0..9
    BY <1>2
  <2>2. Digit[n + 1] \in Char \ Special
    BY <2>1, Digits
  <2>3. Decimal[n] = <<Digit[n + 1]>>
    BY <1>1, <1>2 DEF Numeral
  <2> QED BY <2>2, <2>3, Singleton
<1>3. ASSUME n >= 10
      PROVE  /\ Decimal[n] = Append(Decimal[n \div 10], Digit[(n % 10) + 1])
             /\ Digit[(n % 10) + 1] \in Char \ Special
  <2>1. n % 10 \in 0..9 /\ ~(n < 10)
    BY <1>3, Tenths
  <2>2. Digit[(n % 10) + 1] \in Char \ Special
    BY <2>1, Digits
  <2> QED BY <1>1, <2>1, <2>2 DEF Numeral
<1> QED BY <1>2, <1>3

LEMMA DecimalTypes ==
  ASSUME NEW n \in Nat
  PROVE  /\ Decimal[n] \in Seq(Char) /\ Decimal[n] # <<>>
         /\ Free(Decimal[n], "/") /\ Free(Decimal[n], "#")
<1> DEFINE Good(k) == /\ Decimal[k] \in Seq(Char) /\ Decimal[k] # <<>>
                      /\ Free(Decimal[k], "/") /\ Free(Decimal[k], "#")
           Bad == {k \in Nat : ~Good(k)}
<1> SUFFICES ASSUME Bad # {} PROVE FALSE
  OBVIOUS
<1>1. PICK k \in Bad : \A l \in Bad : k <= l
  <2>1. Bad \in SUBSET Nat
    OBVIOUS
  <2> HIDE DEF Bad
  <2> QED BY <2>1, LeastNatural
<1>2. k \in Nat /\ ~Good(k)
  BY <1>1
<1>3. \A c \in Char \ Special : c # "/" /\ c # "#"
  BY Codes
<1>4. CASE k < 10
  <2>1. Decimal[k] = Append(<<>>, Digit[k + 1]) /\ Digit[k + 1] \in Char \ Special
    BY <1>2, <1>4, DecimalStep
  <2> DEFINE x == Digit[k + 1]
  <2>2. x \in Char /\ x # "/" /\ x # "#" /\ Decimal[k] = Append(<<>>, x)
    BY <1>3, <2>1
  <2> HIDE DEF x
  <2>3. <<>> \in Seq(Char) /\ Append(<<>>, x) # <<>>
    OBVIOUS
  <2>4. Free(Append(<<>>, x), "/") /\ Free(Append(<<>>, x), "#")
        /\ Append(<<>>, x) \in Seq(Char)
    BY <2>2, <2>3, FreeAppended, FreeEmpty
  <2> QED BY <1>2, <2>2, <2>3, <2>4
<1>5. CASE k >= 10
  <2> DEFINE x == Digit[(k % 10) + 1]
             s == Decimal[k \div 10]
  <2>1. x \in Char \ Special /\ Decimal[k] = Append(s, x)
    BY <1>2, <1>5, DecimalStep
  <2>2. x \in Char /\ x # "/" /\ x # "#"
    BY <1>3, <2>1
  <2>3. s \in Seq(Char) /\ Free(s, "/") /\ Free(s, "#")
    <3>1. k \div 10 \in Nat /\ ~(k <= k \div 10)
      BY <1>2, <1>5, Tenths
    <3>2. k \div 10 \notin Bad
      <4> HIDE DEF Bad
      <4> QED BY <1>1, <3>1
    <3> QED BY <3>1, <3>2
  <2> HIDE DEF x, s
  <2>4. Free(Append(s, x), "/") /\ Free(Append(s, x), "#") /\ Append(s, x) \in Seq(Char)
        /\ Append(s, x) # <<>>
    BY <2>2, <2>3, FreeAppended, Appends
  <2> QED BY <1>2, <2>1, <2>4
<1> QED BY <1>2, <1>4, <1>5

\* Two numbers are printed alike only if they are the same.
LEMMA DecimalInjective ==
  ASSUME NEW m \in Nat, NEW n \in Nat, Decimal[m] = Decimal[n]
  PROVE  m = n
<1> DEFINE Bad == {k \in Nat : \E l \in Nat : Decimal[k] = Decimal[l] /\ k # l}
<1> SUFFICES ASSUME Bad # {} PROVE FALSE
  OBVIOUS
<1>1. PICK k \in Bad : \A l \in Bad : k <= l
  <2>1. Bad \in SUBSET Nat
    OBVIOUS
  <2> HIDE DEF Bad
  <2> QED BY <2>1, LeastNatural
<1>2. PICK l \in Nat : Decimal[k] = Decimal[l] /\ k # l
  BY <1>1
<1>3. k \in Nat
  BY <1>1
<1> DEFINE s(i) == IF i < 10 THEN <<>> ELSE Decimal[i \div 10]
           x(i) == IF i < 10 THEN Digit[i + 1] ELSE Digit[(i % 10) + 1]
<1>4. ASSUME NEW i \in Nat
      PROVE  /\ Decimal[i] = Append(s(i), x(i)) /\ s(i) \in Seq(Char) /\ x(i) \in Char
             /\ i < 10 <=> s(i) = <<>>
  <2>1. CASE i < 10
    <3>1. <<>> \in Seq(Char)
      OBVIOUS
    <3> QED BY <2>1, <3>1, DecimalStep
  <2>2. CASE ~(i < 10)
    <3>1. i >= 10 /\ i \div 10 \in Nat
      BY <2>2, Tenths
    <3> QED BY <2>2, <3>1, DecimalStep, DecimalTypes
  <2> QED BY <2>1, <2>2
<1>5. s(k) = s(l) /\ x(k) = x(l)
  <2> DEFINE sk == s(k)
             xk == x(k)
             sl == s(l)
             xl == x(l)
  <2> HIDE DEF s, x
  <2>1. Decimal[k] = Append(sk, xk) /\ sk \in Seq(Char) /\ xk \in Char
    BY <1>3, <1>4
  <2>2. Decimal[l] = Append(sl, xl) /\ sl \in Seq(Char) /\ xl \in Char
    BY <1>4
  <2> HIDE DEF sk, xk, sl, xl
  <2>3. Append(sk, xk) = Append(sl, xl)
    BY <1>2, <2>1, <2>2
  <2>4. sk = sl /\ xk = xl
    BY <2>1, <2>2, <2>3, Appends
  <2> QED BY <2>4 DEF sk, xk, sl, xl
<1>6. CASE k < 10
  <2>1. l < 10 /\ k \in 0..9 /\ l \in 0..9
    <3>1. l < 10
      <4> HIDE DEF s, x
      <4> QED BY <1>3, <1>4, <1>5, <1>6
    <3> QED BY <1>3, <1>6, <3>1
  <2>2. Digit[k + 1] = Digit[l + 1]
    BY <1>5, <2>1
  <2> QED BY <1>2, <2>1, <2>2, Digits
<1>7. CASE ~(k < 10)
  <2>1. ~(l < 10)
    <3> HIDE DEF s, x
    <3> QED BY <1>3, <1>4, <1>5, <1>7
  <2>2. /\ Decimal[k \div 10] = Decimal[l \div 10]
        /\ Digit[(k % 10) + 1] = Digit[(l % 10) + 1]
    BY <1>5, <1>7, <2>1
  <2>3. k \div 10 \in Nat /\ l \div 10 \in Nat /\ ~(k <= k \div 10)
    BY <1>3, <1>7, Tenths
  <2>4. k \div 10 \notin Bad
    <3> HIDE DEF Bad
    <3> QED BY <1>1, <2>3
  <2>5. k \div 10 = l \div 10
    BY <2>2, <2>3, <2>4
  <2>6. k % 10 = l % 10
    BY <1>3, <2>2, Tenths, Digits
  <2> QED BY <1>2, <1>3, <2>5, <2>6, TenthsAgree
<1> QED BY <1>6, <1>7

\* What follows the last separator of a text, and what precedes it.
LEMMA SplitAtLast ==
  ASSUME NEW c \in Char, NEW s \in Seq(Char), NEW t \in Seq(Char),
         NEW u \in Seq(Char), NEW v \in Seq(Char), Free(u, c), Free(v, c),
         Append(s, c) \o u = Append(t, c) \o v
  PROVE  s = t /\ u = v
<1> DEFINE l == Append(s, c) \o u
           r == Append(t, c) \o v
<1>1. /\ Len(s) \in Nat /\ Len(t) \in Nat /\ Len(u) \in Nat /\ Len(v) \in Nat
      /\ Append(s, c) \in Seq(Char) /\ Append(t, c) \in Seq(Char)
      /\ Len(Append(s, c)) = Len(s) + 1 /\ Len(Append(t, c)) = Len(t) + 1
      /\ Append(s, c)[Len(s) + 1] = c /\ Append(t, c)[Len(t) + 1] = c
  OBVIOUS
<1>2. /\ Len(l) = Len(s) + 1 + Len(u)
      /\ l[Len(s) + 1] = c
      /\ \A i \in 1..Len(u) : l[Len(s) + 1 + i] = u[i] /\ u[i] # c
  <2> DEFINE a == Append(s, c)
  <2>1. a \in Seq(Char) /\ Len(a) = Len(s) + 1 /\ a[Len(s) + 1] = c
    BY <1>1
  <2> HIDE DEF a
  <2>2. /\ Len(a \o u) = Len(a) + Len(u)
        /\ \A i \in 1..(Len(a) + Len(u)) :
             (a \o u)[i] = IF i <= Len(a) THEN a[i] ELSE u[i - Len(a)]
    BY <2>1, ConcatProperties
  <2>3. (a \o u)[Len(s) + 1] = c
    BY <1>1, <2>1, <2>2
  <2>4. ASSUME NEW i \in 1..Len(u) PROVE (a \o u)[Len(s) + 1 + i] = u[i] /\ u[i] # c
    BY <1>1, <2>1, <2>2 DEF Free
  <2> QED BY <2>1, <2>2, <2>3, <2>4 DEF a
<1>3. /\ Len(r) = Len(t) + 1 + Len(v)
      /\ r[Len(t) + 1] = c
      /\ \A i \in 1..Len(v) : r[Len(t) + 1 + i] = v[i] /\ v[i] # c
  <2> DEFINE a == Append(t, c)
  <2>1. a \in Seq(Char) /\ Len(a) = Len(t) + 1 /\ a[Len(t) + 1] = c
    BY <1>1
  <2> HIDE DEF a
  <2>2. /\ Len(a \o v) = Len(a) + Len(v)
        /\ \A i \in 1..(Len(a) + Len(v)) :
             (a \o v)[i] = IF i <= Len(a) THEN a[i] ELSE v[i - Len(a)]
    BY <2>1, ConcatProperties
  <2>3. (a \o v)[Len(t) + 1] = c
    BY <1>1, <2>1, <2>2
  <2>4. ASSUME NEW i \in 1..Len(v) PROVE (a \o v)[Len(t) + 1 + i] = v[i] /\ v[i] # c
    BY <1>1, <2>1, <2>2 DEF Free
  <2> QED BY <2>1, <2>2, <2>3, <2>4 DEF a
<1>4. l = r
  OBVIOUS
<1> HIDE DEF l, r
<1>5. Len(s) = Len(t)
  <2>1. ASSUME Len(s) < Len(t) PROVE FALSE
    <3> DEFINE i == Len(t) - Len(s)
    <3>1. i \in 1..Len(u) /\ Len(s) + 1 + i = Len(t) + 1
      BY <1>1, <1>2, <1>3, <1>4, <2>1
    <3> HIDE DEF i
    <3> QED BY <1>2, <1>3, <1>4, <3>1
  <2>2. ASSUME Len(t) < Len(s) PROVE FALSE
    <3> DEFINE i == Len(s) - Len(t)
    <3>1. i \in 1..Len(v) /\ Len(t) + 1 + i = Len(s) + 1
      BY <1>1, <1>2, <1>3, <1>4, <2>2
    <3> HIDE DEF i
    <3> QED BY <1>2, <1>3, <1>4, <3>1
  <2> QED BY <1>1, <2>1, <2>2
<1>6. u = v
  <2>1. Len(u) = Len(v)
    BY <1>1, <1>2, <1>3, <1>4, <1>5
  <2>2. \A i \in 1..Len(u) : u[i] = v[i]
    BY <1>2, <1>3, <1>4, <1>5, <2>1
  <2> QED BY <2>1, <2>2, SeqEqual
<1>7. Append(s, c) = Append(t, c)
  <2>1. Append(s, c) \o u = Append(t, c) \o u
    BY <1>6
  <2> QED BY <1>1, <2>1, ConcatSimplifications
<1> QED BY <1>6, <1>7, Appends

-----------------------------------------------------------------------------
(* Segments, and the keys made of them. *)

Segments == [id : Seq(STRING), occ : Nat \cup {None}]

LEMMA Spellings == Seq(STRING) \subseteq Seq(Char)
BY DEF Char

\* How a segment is rendered: the escaped id and, in a lane, its number.
LEMMA Rendered ==
  ASSUME NEW seg \in Segments
  PROVE  /\ seg.id \in Seq(Char) /\ EscapeSegment(seg.id) \in Seq(Char)
         /\ seg.occ = None => Render(seg) = EscapeSegment(seg.id)
         /\ seg.occ # None =>
              /\ seg.occ \in Nat
              /\ Append(EscapeSegment(seg.id), "#") \in Seq(Char)
              /\ Render(seg) = Append(EscapeSegment(seg.id), "#") \o Decimal[seg.occ]
<1> DEFINE e == EscapeSegment(seg.id)
<1>1. seg.id \in Seq(Char)
  BY Spellings DEF Segments
<1>2. e \in Seq(Char)
  BY <1>1, EscapedTypes
<1>3. "#" \in Char
  BY Codes DEF Special
<1>4. ASSUME seg.occ # None
      PROVE  /\ seg.occ \in Nat
             /\ Append(e, "#") \in Seq(Char)
             /\ Render(seg) = Append(e, "#") \o Decimal[seg.occ]
  <2>1. seg.occ \in Nat
    BY <1>4 DEF Segments
  <2>2. Render(seg) = (e \o <<"#">>) \o Decimal[seg.occ]
    BY <1>4 DEF Render
  <2> HIDE DEF e
  <2>3. e \o <<"#">> = Append(e, "#")
    BY <1>2, <1>3, AppendIsConcat
  <2>4. Append(e, "#") \in Seq(Char)
    BY <1>2, <1>3, Appends
  <2> QED BY <2>1, <2>2, <2>3, <2>4
<1>5. seg.occ = None => Render(seg) = e
  BY DEF Render
<1> QED BY <1>1, <1>2, <1>4, <1>5

LEMMA RenderTypes ==
  ASSUME NEW seg \in Segments
  PROVE  Render(seg) \in Seq(Char) /\ Free(Render(seg), "/")
<1> DEFINE e == EscapeSegment(seg.id)
           a == Append(e, "#")
           d == Decimal[seg.occ]
<1>1. seg.id \in Seq(Char)
  BY Rendered
<1>2. e \in Seq(Char) /\ Free(e, "/")
  BY <1>1, EscapedTypes
<1>3. CASE seg.occ = None
  BY <1>2, <1>3, Rendered
<1>4. CASE seg.occ # None
  <2>1. seg.occ \in Nat /\ Render(seg) = a \o d
    BY <1>4, Rendered
  <2>2. d \in Seq(Char) /\ Free(d, "/")
    BY <2>1, DecimalTypes
  <2>3. "#" \in Char /\ "#" # "/"
    BY Codes DEF Special
  <2> HIDE DEF e, d
  <2>4. a \in Seq(Char) /\ Free(a, "/")
    BY <1>2, <2>3, FreeAppended
  <2> HIDE DEF a
  <2> QED BY <2>1, <2>2, <2>4, FreeJoined
<1> QED BY <1>3, <1>4

LEMMA NotFree ==
  ASSUME NEW s \in Seq(Char), NEW t \in Seq(Char), NEW c \in Char
  PROVE  ~Free(Append(s, c) \o t, c)
<1> DEFINE a == Append(s, c)
<1>1. /\ a \in Seq(Char) /\ Len(a) = Len(s) + 1 /\ a[Len(s) + 1] = c
      /\ Len(s) \in Nat /\ Len(t) \in Nat
  OBVIOUS
<1> HIDE DEF a
<1>2. /\ a \o t \in Seq(Char) /\ Len(a \o t) = Len(a) + Len(t)
      /\ \A i \in 1..(Len(a) + Len(t)) :
           (a \o t)[i] = IF i <= Len(a) THEN a[i] ELSE t[i - Len(a)]
  BY <1>1, ConcatProperties
<1>3. (a \o t)[Len(s) + 1] = c
  BY <1>1, <1>2
<1>4. Len(s) + 1 \in DOMAIN (a \o t)
  BY <1>1, <1>2
<1> QED BY <1>3, <1>4 DEF Free, a

\* Two segments are rendered alike only if they are the same.
LEMMA RenderInjective ==
  ASSUME NEW seg \in Segments, NEW other \in Segments, Render(seg) = Render(other)
  PROVE  seg = other
<1> DEFINE e == EscapeSegment(seg.id)
           f == EscapeSegment(other.id)
<1>1. /\ seg.id \in Seq(Char) /\ other.id \in Seq(Char)
      /\ seg = [id |-> seg.id, occ |-> seg.occ]
      /\ other = [id |-> other.id, occ |-> other.occ]
  BY Rendered DEF Segments
<1>2. /\ e \in Seq(Char) /\ Free(e, "#") /\ f \in Seq(Char) /\ Free(f, "#")
      /\ "#" \in Char
  BY <1>1, EscapedTypes, Codes DEF Special
<1>3. e = f => seg.id = other.id
  BY <1>1, EscapeInjective
<1>4. CASE seg.occ = None /\ other.occ = None
  <2>1. e = f
    BY <1>4, Rendered
  <2> QED BY <1>1, <1>3, <1>4, <2>1
<1>5. CASE seg.occ # None /\ other.occ # None
  <2> DEFINE d == Decimal[seg.occ]
             g == Decimal[other.occ]
  <2>1. /\ seg.occ \in Nat /\ other.occ \in Nat
        /\ Append(e, "#") \o d = Append(f, "#") \o g
    BY <1>5, Rendered
  <2>2. d \in Seq(Char) /\ Free(d, "#") /\ g \in Seq(Char) /\ Free(g, "#")
    BY <2>1, DecimalTypes
  <2>3. e = f /\ d = g
    <3> HIDE DEF d, e, f, g
    <3> QED BY <1>2, <2>1, <2>2, SplitAtLast
  <2>4. seg.occ = other.occ
    BY <2>1, <2>3, DecimalInjective
  <2> QED BY <1>1, <1>3, <2>3, <2>4
<1>6. CASE seg.occ = None /\ other.occ # None
  <2>1. other.occ \in Nat /\ e = Append(f, "#") \o Decimal[other.occ]
    BY <1>6, Rendered
  <2>2. Decimal[other.occ] \in Seq(Char)
    BY <2>1, DecimalTypes
  <2> QED BY <1>2, <2>1, <2>2, NotFree
<1>7. CASE seg.occ # None /\ other.occ = None
  <2>1. seg.occ \in Nat /\ f = Append(e, "#") \o Decimal[seg.occ]
    BY <1>7, Rendered
  <2>2. Decimal[seg.occ] \in Seq(Char)
    BY <2>1, DecimalTypes
  <2> QED BY <1>2, <2>1, <2>2, NotFree
<1> QED BY <1>4, <1>5, <1>6, <1>7

Joint(seg) == Render(seg) \o <<"/">>
LaidOut(p) == [i \in DOMAIN p |-> Joint(p[i])]

LEMMA JointTypes ==
  ASSUME NEW seg \in Segments
  PROVE  /\ Joint(seg) \in Seq(Char) /\ Render(seg) \in Seq(Char)
         /\ Joint(seg) = Append(Render(seg), "/")
<1>1. "/" \in Char
  BY Codes DEF Special
<1> DEFINE r == Render(seg)
<1>2. r \in Seq(Char) /\ Joint(seg) = r \o <<"/">>
  BY RenderTypes DEF Joint
<1> HIDE DEF r
<1>3. r \o <<"/">> = Append(r, "/") /\ Append(r, "/") \in Seq(Char)
  BY <1>1, <1>2, AppendIsConcat, Appends
<1> QED BY <1>2, <1>3 DEF r

LEMMA LaidOutInTurn ==
  ASSUME NEW p \in Seq(Segments), NEW g \in Segments
  PROVE  /\ LaidOut(p) \in Seq(Seq(Char)) /\ LaidOut(<<>>) = <<>>
         /\ LaidOut(Append(p, g)) = Append(LaidOut(p), Joint(g))
<1> DEFINE b == Joint(g)
           u == Append(p, g)
           s == LaidOut(p)
           t == LaidOut(u)
           a == Append(s, b)
<1>1. /\ u \in Seq(Segments) /\ Len(p) \in Nat /\ Len(u) = Len(p) + 1
      /\ u[Len(p) + 1] = g /\ \A i \in 1..Len(p) : u[i] = p[i]
      /\ DOMAIN u = 1..(Len(p) + 1) /\ DOMAIN p = 1..Len(p)
  BY AppendProperties
<1>2. s \in Seq(Seq(Char)) /\ Len(s) = Len(p) /\ \A i \in 1..Len(p) : s[i] = Joint(p[i])
  <2>1. \A i \in 1..Len(p) : p[i] \in Segments /\ Joint(p[i]) \in Seq(Char)
    BY JointTypes
  <2>2. s \in [1..Len(p) -> Seq(Char)] /\ \A i \in 1..Len(p) : s[i] = Joint(p[i])
    BY <1>1, <2>1 DEF LaidOut
  <2>3. Len(p) \in Nat
    BY <1>1
  <2> HIDE DEF s
  <2> QED BY <2>2, <2>3
<1>3. t \in Seq(Seq(Char)) /\ Len(t) = Len(p) + 1 /\ \A i \in 1..(Len(p) + 1) : t[i] = Joint(u[i])
  <2> HIDE DEF u
  <2>1. \A i \in 1..(Len(p) + 1) : u[i] \in Segments /\ Joint(u[i]) \in Seq(Char)
    BY <1>1, JointTypes
  <2>2. t \in [1..(Len(p) + 1) -> Seq(Char)] /\ \A i \in 1..(Len(p) + 1) : t[i] = Joint(u[i])
    BY <1>1, <2>1 DEF LaidOut
  <2> HIDE DEF t
  <2>3. Len(p) + 1 \in Nat
    BY <1>1
  <2> QED BY <1>1, <2>2, <2>3
<1>4. /\ a \in Seq(Seq(Char)) /\ Len(a) = Len(p) + 1 /\ a[Len(p) + 1] = b
      /\ \A i \in 1..Len(p) : a[i] = s[i]
  <2> HIDE DEF s
  <2>1. b \in Seq(Char)
    BY JointTypes
  <2> HIDE DEF b
  <2>2. Append(s, b) \in Seq(Seq(Char)) /\ Len(Append(s, b)) = Len(p) + 1
        /\ Append(s, b)[Len(p) + 1] = b /\ \A i \in 1..Len(p) : Append(s, b)[i] = s[i]
    BY <1>2, <2>1, AppendProperties
  <2> QED BY <2>2
<1>5. \A i \in 1..(Len(p) + 1) : t[i] = a[i]
  <2> HIDE DEF t, a, s, u
  <2>1. PICK k \in Nat : k = Len(p)
    BY <1>1
  <2>2. t[k + 1] = a[k + 1]
    <3>1. k + 1 \in 1..(Len(p) + 1)
      BY <2>1
    <3> QED BY <1>1, <1>3, <1>4, <2>1, <3>1
  <2>3. ASSUME NEW i \in 1..k PROVE t[i] = a[i]
    <3>1. i \in 1..Len(p) /\ i \in 1..(Len(p) + 1)
      BY <2>1
    <3> QED BY <1>1, <1>2, <1>3, <1>4, <3>1
  <2>4. \A i \in 1..(k + 1) : i = k + 1 \/ i \in 1..k
    OBVIOUS
  <2> QED BY <2>1, <2>2, <2>3, <2>4
<1>6. t = a
  <2> HIDE DEF t, a
  <2> QED BY <1>3, <1>4, <1>5, SeqEqual
<1>7. LaidOut(<<>>) = <<>>
  BY DEF LaidOut
<1> QED BY <1>2, <1>6, <1>7

\* The part of a key that stands for the path.
Prefix(path) == FlattenSeq([i \in DOMAIN path |-> Render(path[i]) \o <<"/">>])

LEMMA PrefixInTurn ==
  ASSUME NEW path \in Seq(Segments), NEW seg \in Segments
  PROVE  /\ Prefix(<<>>) = <<>> /\ Prefix(path) \in Seq(Char)
         /\ Prefix(Append(path, seg)) = Append(Prefix(path) \o Render(seg), "/")
         /\ Prefix(path) \o Render(seg) \in Seq(Char)
<1>1. "/" \in Char
  BY Codes DEF Special
<1> DEFINE s == LaidOut(path)
           t == Joint(seg)
           r == Render(seg)
<1>2. Append(path, seg) \in Seq(Segments) /\ <<>> \in Seq(Segments)
  OBVIOUS
<1>3. /\ s \in Seq(Seq(Char)) /\ LaidOut(<<>>) = <<>>
      /\ LaidOut(Append(path, seg)) = Append(s, t)
      /\ t \in Seq(Char)
  BY LaidOutInTurn, JointTypes
<1>4. t = r \o <<"/">> /\ r \in Seq(Char)
  BY RenderTypes DEF Joint
<1>5. \A p : Prefix(p) = FlattenSeq(LaidOut(p))
  BY DEF Prefix, LaidOut, Joint
<1>6. /\ Prefix(path) = FlattenSeq(s) /\ Prefix(<<>>) = FlattenSeq(<<>>)
      /\ Prefix(Append(path, seg)) = FlattenSeq(Append(s, t))
  BY <1>5, <1>3
<1> HIDE DEF s, t, r
<1>7. /\ FlattenSeq(<<>>) = <<>> /\ FlattenSeq(s) \in Seq(Char)
      /\ FlattenSeq(Append(s, t)) = FlattenSeq(s) \o t
  BY <1>3, Flattened
<1> DEFINE f == FlattenSeq(s)
<1> HIDE DEF f
<1>8. f \in Seq(Char) /\ <<"/">> \in Seq(Char)
  BY <1>1, <1>7, Singleton DEF f
<1>9. f \o (r \o <<"/">>) = (f \o r) \o <<"/">> /\ f \o r \in Seq(Char)
  BY <1>4, <1>8, ConcatAssociative, ConcatProperties
<1>10. (f \o r) \o <<"/">> = Append(f \o r, "/")
  <2> DEFINE x == f \o r
  <2>1. x \in Seq(Char)
    BY <1>9
  <2> HIDE DEF x
  <2>2. x \o <<"/">> = Append(x, "/")
    BY <1>1, <2>1, AppendIsConcat
  <2> QED BY <2>2 DEF x
<1> QED BY <1>4, <1>6, <1>7, <1>9, <1>10 DEF f, r

\* A key is read back from its end, segment by segment.
LEMMA KeySplits ==
  ASSUME NEW path \in Seq(Segments), NEW other \in Seq(Segments),
         NEW seg \in Segments, NEW last \in Segments,
         Prefix(path) \o Render(seg) = Prefix(other) \o Render(last)
  PROVE  path = other /\ seg = last
<1> DEFINE T == {p \in Seq(Segments) : \A q \in Seq(Segments), g, h \in Segments :
                   Prefix(p) \o Render(g) = Prefix(q) \o Render(h) => p = q /\ g = h}
<1>1. "/" \in Char /\ <<>> \in Seq(Segments)
  BY Codes DEF Special
<1>2. Prefix(<<>>) = <<>>
  BY PrefixInTurn
<1>3. ASSUME NEW h \in Segments PROVE Prefix(<<>>) \o Render(h) = Render(h)
  <2>1. Render(h) \in Seq(Char)
    BY RenderTypes
  <2> QED BY <1>2, <2>1, ConcatEmptySeq
<1>4. <<>> \in T
  <2>1. ASSUME NEW q \in Seq(Segments), NEW g \in Segments, NEW h \in Segments,
               Prefix(<<>>) \o Render(g) = Prefix(q) \o Render(h)
        PROVE  <<>> = q /\ g = h
    <3>1. Render(g) = Prefix(q) \o Render(h)
      BY <1>3, <2>1
    <3>2. CASE q = <<>>
      <4>1. Render(g) = Render(h)
        BY <1>3, <3>1, <3>2
      <4> QED BY <3>2, <4>1, RenderInjective
    <3>3. CASE q # <<>>
      <4>1. PICK p \in Seq(Segments), k \in Segments : q = Append(p, k)
        BY <3>3, SequenceEmptyOrAppend
      <4> DEFINE x == Prefix(p) \o Render(k)
                 r == Render(h)
                 y == Render(g)
      <4>2. x \in Seq(Char) /\ r \in Seq(Char) /\ y \in Seq(Char) /\ Free(y, "/")
        BY PrefixInTurn, RenderTypes
      <4>3. y = Append(x, "/") \o r
        BY <3>1, <4>1, PrefixInTurn
      <4> HIDE DEF x, r, y
      <4> QED BY <1>1, <4>2, <4>3, NotFree
    <3> QED BY <3>2, <3>3
  <2> QED BY <1>1, <2>1
<1>5. ASSUME NEW p \in Seq(Segments), p \in T, NEW k \in Segments
      PROVE  Append(p, k) \in T
  <2>1. ASSUME NEW q \in Seq(Segments), NEW g \in Segments, NEW h \in Segments,
               Prefix(Append(p, k)) \o Render(g) = Prefix(q) \o Render(h)
        PROVE  Append(p, k) = q /\ g = h
    <3> DEFINE x == Prefix(p) \o Render(k)
               r == Render(g)
               y == Render(h)
    <3>1. /\ x \in Seq(Char) /\ r \in Seq(Char) /\ y \in Seq(Char)
          /\ Free(r, "/") /\ Free(y, "/")
          /\ Prefix(Append(p, k)) = Append(x, "/")
      BY PrefixInTurn, RenderTypes
    <3>2. CASE q = <<>>
      <4>1. y = Append(x, "/") \o r
        BY <1>3, <2>1, <3>1, <3>2
      <4> HIDE DEF x, r, y
      <4> QED BY <1>1, <3>1, <4>1, NotFree
    <3>3. CASE q # <<>>
      <4>1. PICK u \in Seq(Segments), l \in Segments : q = Append(u, l)
        BY <3>3, SequenceEmptyOrAppend
      <4> DEFINE z == Prefix(u) \o Render(l)
      <4>2. z \in Seq(Char) /\ Prefix(q) = Append(z, "/")
        BY <4>1, PrefixInTurn
      <4>3. Append(x, "/") \o r = Append(z, "/") \o y
        BY <2>1, <3>1, <4>2
      <4>4. x = z /\ r = y
        <5> HIDE DEF x, r, y, z
        <5> QED BY <1>1, <3>1, <4>2, <4>3, SplitAtLast
      <4>5. g = h
        BY <4>4, RenderInjective
      <4>6. p = u /\ k = l
        <5>1. Prefix(p) \o Render(k) = Prefix(u) \o Render(l)
          BY <4>4
        <5> HIDE DEF x, r, y, z
        <5>2. \A v \in Seq(Segments), i, j \in Segments :
                Prefix(p) \o Render(i) = Prefix(v) \o Render(j) => p = v /\ i = j
          BY <1>5, Zenon
        <5> QED BY <5>1, <5>2, Zenon
      <4> QED BY <4>1, <4>5, <4>6
    <3> QED BY <3>2, <3>3
  <2>2. Append(p, k) \in Seq(Segments)
    OBVIOUS
  <2> QED BY <2>1, <2>2
<1>6. Seq(Segments) \subseteq T
  <2> HIDE DEF T
  <2>1. \A p \in Seq(Segments) : p \in T => \A k \in Segments : Append(p, k) \in T
    BY <1>5
  <2> QED BY <1>4, <2>1, AllSequences
<1>7. path \in T
  BY <1>6
<1>8. \A q \in Seq(Segments), g, h \in Segments :
        Prefix(path) \o Render(g) = Prefix(q) \o Render(h) => path = q /\ g = h
  BY <1>7, Zenon
<1> QED BY <1>8, Zenon

\* Two steps have the same key only if they are the same step: the same path,
\* and nodes whose ids are spelled alike (step_key "so the composition is
\* injective").
LEMMA StepKeyInjective ==
  ASSUME NEW path \in Seq(Segments), NEW other \in Seq(Segments),
         NEW id \in Seq(STRING), NEW last \in Seq(STRING),
         StepKey(path, id) = StepKey(other, last)
  PROVE  path = other /\ id = last
<1>1. Segment(id, None) \in Segments /\ Segment(last, None) \in Segments
  BY DEF Segment, Segments
<1>2. Prefix(path) \o Render(Segment(id, None)) = Prefix(other) \o Render(Segment(last, None))
  BY DEF StepKey, Prefix
<1>3. \A g, h \in Segments :
        Prefix(path) \o Render(g) = Prefix(other) \o Render(h) => path = other /\ g = h
  BY KeySplits
<1>4. path = other /\ Segment(id, None) = Segment(last, None)
  BY <1>1, <1>2, <1>3, Zenon
<1> QED BY <1>4 DEF Segment

-----------------------------------------------------------------------------
(* The invariant of keys. *)

\* What makes KeysAreSteps inductive: the path of every walk, and of every step
\* logged, is made of segments, and the steps are finitely many.
KeyedWalk(w) == w.identity.path \in Seq(Segments) /\ w.item \in Nat
KeyedStack(s) == \A i \in 1..Len(s) : KeyedWalk(s[i])
KeyedCalls ==
  /\ IsFiniteSet(DOMAIN log)
  /\ \A s \in DOMAIN log : /\ s = [path |-> s.path, node |-> s.node]
                           /\ s.path \in Seq(Segments) /\ s.node \in NodeId
KeyInv == KeyedStack(stack) /\ KeyedCalls

LEMMA TopMovesKeyed ==
  ASSUME NEW s, IsSeq(s), s # <<>>, KeyedStack(s), NEW w, KeyedWalk(w)
  PROVE  KeyedStack([s EXCEPT ![Len(s)] = w])
<1> DEFINE t == [s EXCEPT ![Len(s)] = w]
<1>1. /\ Len(s) \in Nat \ {0} /\ Len(t) = Len(s) /\ t[Len(s)] = w
      /\ \A i \in 1..Len(s) : i # Len(s) => t[i] = s[i]
  BY LastReplaced
<1> HIDE DEF t
<1>2. KeyedStack(t)
  BY <1>1 DEF KeyedStack
<1> QED BY <1>2 DEF t

LEMMA PassKeepsKeys ==
  ASSUME NEW s, IsSeq(s), s # <<>>, KeyedStack(s), IsWalk(s[Len(s)]),
         NEW n, NEW ports, NEW ran
  PROVE  KeyedStack([s EXCEPT ![Len(s)] = Passed(s[Len(s)], n, ports, ran)])
<1> DEFINE w == s[Len(s)]
           p == Passed(w, n, ports, ran)
<1>1. p.identity = w.identity /\ p.item = w.item
  BY DEF Passed, IsWalk, WalkFields
<1>2. KeyedWalk(w)
  BY EmptyOnly DEF KeyedStack
<1>3. KeyedWalk(p)
  BY <1>1, <1>2 DEF KeyedWalk
<1> HIDE DEF p
<1>4. KeyedStack([s EXCEPT ![Len(s)] = p])
  BY <1>3, TopMovesKeyed
<1> QED BY <1>4 DEF p

LEMMA CallKeepsKeys ==
  ASSUME NEW s, IsSeq(s), s # <<>>, KeyedStack(s), NEW n \in NodeId,
         NEW graph, NEW durable, NEW occ \in Nat \cup {None}, NEW item \in Nat, NEW failed
  PROVE  KeyedStack(Append(s, Walk(graph, durable,
                                   Descend(s[Len(s)].identity, Spelled[n], occ),
                                   n, item, failed)))
<1> DEFINE path == s[Len(s)].identity.path
           id == Descend(s[Len(s)].identity, Spelled[n], occ)
           w  == Walk(graph, durable, id, n, item, failed)
           t  == Append(s, w)
           g  == Segment(Spelled[n], occ)
<1>1. path \in Seq(Segments)
  BY EmptyOnly DEF KeyedStack, KeyedWalk
<1>2. g \in Segments
  BY NestedAssumption DEF NestedAssumption, Segment, Segments
<1>3. id.path = Append(path, g)
  BY DEF Descend
<1> HIDE DEF path, g
<1>4. id.path \in Seq(Segments)
  BY <1>1, <1>2, <1>3
<1>5. w.identity = id /\ w.item = item
  BY DEF Walk
<1> HIDE DEF id, w
<1>6. KeyedWalk(w)
  BY <1>4, <1>5 DEF KeyedWalk
<1>7. /\ Len(s) \in Nat /\ Len(t) = Len(s) + 1 /\ t[Len(s) + 1] = w
      /\ \A i \in 1..Len(s) : t[i] = s[i]
  BY Appended
<1> HIDE DEF t
<1>8. ASSUME NEW i \in 1..Len(t) PROVE KeyedWalk(t[i])
  <2>1. i \in 1..Len(s) \/ i = Len(s) + 1
    BY <1>7
  <2> QED BY <1>6, <1>7, <2>1 DEF KeyedStack
<1> QED BY <1>8 DEF KeyedStack, t, w, id

LEMMA LoggedKeepsKeys ==
  ASSUME JobInv, KeyInv, stack # <<>>, NEW n \in NodeId, Logged(n)
  PROVE  KeyedCalls'
<1> DEFINE step == [path |-> Top.identity.path, node |-> n]
<1>1. DOMAIN log' = DOMAIN log \cup {step}
  BY LoggedMakes
<1>2. Top.identity.path \in Seq(Segments)
  BY EmptyOnly DEF KeyInv, KeyedStack, KeyedWalk, Top, JobInv, StackInv, StackOK
<1>3. step = [path |-> step.path, node |-> step.node]
      /\ step.path \in Seq(Segments) /\ step.node \in NodeId
  BY <1>2
<1> HIDE DEF step
<1>4. IsFiniteSet(DOMAIN log')
  BY <1>1, FS_AddElement DEF KeyInv, KeyedCalls
<1> QED BY <1>1, <1>3, <1>4 DEF KeyInv, KeyedCalls, NodeId

LEMMA VisitKeepsKeys ==
  ASSUME JobInv, KeyInv, Visiting, NEW n \in Top.todo, Visit(n)
  PROVE  KeyInv'
<1>1. /\ stack # <<>> /\ IsSeq(stack) /\ KeyedStack(stack) /\ n \in NodeId
      /\ IsWalk(stack[Len(stack)])
  BY VisitedIsNode, TopIsWalk DEF Visiting, JobInv, StackInv, StackOK, KeyInv, Top
<1>2. KeyedCalls'
  <2>1. CASE Logged(n)
    BY <1>1, <2>1, LoggedKeepsKeys
  <2>2. CASE log' = log
    BY <2>2 DEF KeyInv, KeyedCalls, NodeId
  <2> QED BY <2>1, <2>2 DEF Visit, VisitDead, RunStep, PassGate, ParkGate,
                            RunForEach, RunSubgraph, RunSubflow
<1> SUFFICES KeyedStack(stack')
  BY <1>2 DEF KeyInv, KeyedStack, KeyedWalk
<1>3. ASSUME NEW ports, Publish(n, ports) PROVE KeyedStack(stack')
  BY <1>1, <1>3, PassKeepsKeys DEF Publish, SetTop, Top
<1>4. ASSUME UNCHANGED stack PROVE KeyedStack(stack')
  BY <1>1, <1>4
<1>5. CASE VisitDead(n)
  BY <1>1, <1>5, PassKeepsKeys DEF VisitDead, SetTop, Top
<1>6. CASE RunStep(n) \/ PassGate(n) \/ ParkGate(n)
  BY <1>3, <1>4, <1>6 DEF RunStep, PassGate, ParkGate, Abort
<1>7. CASE RunForEach(n)
  <2>1. CASE Publish(n, {"item", "done"}) \/ Publish(n, {"done"})
    BY <1>3, <2>1
  <2>2. CASE \E why : Abort(why)
    BY <1>4, <2>2 DEF Abort
  <2>3. ASSUME NEW lane, stack' = Append(stack, LaneWalk(lane, Top, n, 0, Empty))
        PROVE  KeyedStack(stack')
    <3>1. 0 \in Nat /\ 0 \in Nat \cup {None}
      OBVIOUS
    <3> QED BY <1>1, <2>3, <3>1, CallKeepsKeys DEF LaneWalk, Top
  <2> QED BY <1>7, <2>1, <2>2, <2>3 DEF RunForEach
<1>8. CASE RunSubgraph(n) \/ RunSubflow(n)
  <2>1. CASE Publish(n, {"out"})
    BY <1>3, <2>1
  <2>2. CASE Abort(Failure)
    BY <1>4, <2>2 DEF Abort
  <2>3. CASE CallChild(n)
    <3>1. 0 \in Nat /\ None \in Nat \cup {None}
      OBVIOUS
    <3> QED BY <1>1, <2>3, <3>1, CallKeepsKeys DEF CallChild, Top
  <2> QED BY <1>8, <2>1, <2>2, <2>3 DEF RunSubgraph, RunSubflow
<1> QED BY <1>5, <1>6, <1>7, <1>8 DEF Visit

LEMMA EndKeepsKeys ==
  ASSUME JobInv, KeyInv, EndLane \/ EndChild
  PROVE  KeyInv'
<1>1. UNCHANGED log /\ Len(stack) > 1
  BY DEF EndLane, EndChild, Ended
<1>2. /\ StackOK(Below, job, rows) /\ IsSeq(Below) /\ Below # <<>>
      /\ Len(stack) \in Nat /\ Len(Below) = Len(stack) - 1
      /\ \A i \in 1..Len(Below) : Below[i] = stack[i]
  BY <1>1, WalkPopped DEF JobInv, StackInv, Below, StackOK
<1>3. /\ Under = Below[Len(Below)] /\ Top.holder \in NodeId
      /\ IsWalk(Below[Len(Below)])
  <2>1. Len(stack) \in 2..Len(stack) /\ Len(Below) \in 1..Len(Below)
    BY <1>1, <1>2
  <2>2. Top.holder \in stack[Len(stack) - 1].todo
    BY <2>1 DEF JobInv, StackInv, StackOK, Top
  <2>3. IsWalk(Below[Len(Below)])
    BY <1>2, <2>1 DEF StackOK
  <2>4. Under = Below[Len(Below)]
    BY <1>2, <2>1 DEF Under
  <2> QED BY <2>2, <2>3, <2>4 DEF IsWalk, Under
<1>4. KeyedStack(Below)
  BY <1>1, <1>2 DEF KeyInv, KeyedStack
<1>5. Top.item \in Nat /\ Top.item + 1 \in Nat
  <2>1. Len(stack) \in 1..Len(stack)
    BY <1>1, <1>2
  <2>2. Top.item \in Nat
    BY <2>1 DEF KeyInv, KeyedStack, KeyedWalk, Top
  <2> QED BY <2>2
<1>6. KeyedCalls'
  BY <1>1 DEF KeyInv, KeyedCalls, NodeId
<1> SUFFICES KeyedStack(stack')
  BY <1>6 DEF KeyInv, KeyedStack, KeyedWalk
<1>7. ASSUME NEW ports, Return(ports) PROVE KeyedStack(stack')
  <2>1. stack' = [Below EXCEPT ![Len(Below)] =
                    Passed(Below[Len(Below)], Top.holder, ports, {Top.holder})]
    BY <1>2, <1>7 DEF Return
  <2> QED BY <1>2, <1>3, <1>4, <2>1, PassKeepsKeys
<1>8. ASSUME NEW failed,
             stack' = Append(Below, LaneWalk(Top.graph, Under, Top.holder,
                                             Top.item + 1, failed))
      PROVE  KeyedStack(stack')
  <2> DEFINE item == Top.item + 1
  <2>1. item \in Nat /\ item \in Nat \cup {None}
    BY <1>5
  <2>2. stack' = Append(Below, LaneWalk(Top.graph, Under, Top.holder, item, failed))
    BY <1>8
  <2> HIDE DEF item
  <2> QED BY <1>2, <1>3, <1>4, <2>1, <2>2, CallKeepsKeys DEF LaneWalk
<1>9. ASSUME stack' = Below PROVE KeyedStack(stack')
  BY <1>4, <1>9
<1>10. CASE EndLane
  BY <1>7, <1>8, <1>9, <1>10 DEF EndLane, NextItem
<1>11. CASE EndChild
  BY <1>7, <1>9, <1>11 DEF EndChild
<1> QED BY <1>10, <1>11

LEMMA StartKeepsKeys ==
  ASSUME JobInv, KeyInv, Drive, ~\E m \in Drops(rows, {}) : SettleSkip(m)
  PROVE  KeyInv'
<1>1. PICK n \in Node, row \in Row : stack' = <<ReplayOf(n, row)>> /\ log' = log
  BY StartMoves DEF JobInv
<1> DEFINE w == ReplayOf(n, row)
<1>2. w.identity.path = <<>> /\ w.item = 0
  BY DEF ReplayOf, Walk, TopIdentity
<1> HIDE DEF w
<1>3. KeyedWalk(w)
  BY <1>2 DEF KeyedWalk
<1>4. stack' = <<w>>
  BY <1>1 DEF w
<1>5. KeyedStack(<<w>>)
  <2>1. 1..Len(<<w>>) = {1} /\ <<w>>[1] = w
    OBVIOUS
  <2> QED BY <1>3, <2>1 DEF KeyedStack
<1> QED BY <1>1, <1>4, <1>5 DEF KeyInv, KeyedStack, KeyedWalk, KeyedCalls, NodeId

LEMMA NoStackKeyed == KeyedStack(<<>>)
<1>1. 1..Len(<<>>) = {}
  OBVIOUS
<1> QED BY <1>1 DEF KeyedStack

LEMMA KeysKept == JobInv /\ KeyInv /\ [Next]_vars => KeyInv'
<1> SUFFICES ASSUME JobInv, KeyInv, [Next]_vars PROVE KeyInv'
  OBVIOUS
<1>1. CASE Visiting /\ \E n \in Top.todo : Visit(n)
  BY <1>1, VisitKeepsKeys
<1>2. CASE EndLane \/ EndChild
  BY <1>2, EndKeepsKeys
<1>3. ASSUME UNCHANGED log, stack' = <<>> \/ UNCHANGED stack PROVE KeyInv'
  <2>1. KeyedStack(stack')
    BY <1>3, NoStackKeyed DEF KeyInv
  <2> QED BY <1>3, <2>1 DEF KeyInv, KeyedStack, KeyedWalk, KeyedCalls, NodeId
<1>4. CASE Finishes
  BY <1>3, <1>4 DEF Finishes, FinishOutput, FinishSkip, FinishPause, FinishError, Finish
<1>5. CASE Drive
  BY <1>3, <1>5, StartKeepsKeys DEF SettleSkip
<1>6. ASSUME NEW g \in GateId, Record(g) PROVE KeyInv'
  BY <1>3, <1>6 DEF Record
<1>7. CASE Crash \/ UNCHANGED vars
  BY <1>3, <1>7 DEF Crash, vars
<1> QED BY <1>1, <1>2, <1>4, <1>5, <1>6, <1>7 DEF Next, JobSteps, Finishes

\* No two steps of a run share a key: a key is read back, from its end, to the
\* path and the node it was made of, whatever characters the ids are spelled
\* with and however deep the lanes and children run.
THEOREM KeysNeverShared == Spec => []KeysAreSteps
<1>1. Init => KeyInv
  <2> SUFFICES ASSUME Init PROVE KeyInv
    OBVIOUS
  <2>1. DOMAIN log = {} /\ stack = <<>>
    BY DEF Init, Empty
  <2> QED BY <2>1, NoStackKeyed, FS_EmptySet DEF KeyInv, KeyedCalls
<1>2. KeyInv => KeysAreSteps
  <2> SUFFICES ASSUME KeyInv PROVE KeysAreSteps
    OBVIOUS
  <2> DEFINE S == DOMAIN log
             K(s) == StepKey(s.path, Spelled[s.node])
             T == {K(s) : s \in S}
             f == [s \in S |-> K(s)]
  <2>1. ASSUME NEW s \in S, NEW t \in S, K(s) = K(t) PROVE s = t
    <3>1. /\ s.path \in Seq(Segments) /\ t.path \in Seq(Segments)
          /\ s.node \in NodeId /\ t.node \in NodeId
          /\ s = [path |-> s.path, node |-> s.node]
          /\ t = [path |-> t.path, node |-> t.node]
      BY DEF KeyInv, KeyedCalls
    <3>2. Spelled[s.node] \in Seq(STRING) /\ Spelled[t.node] \in Seq(STRING)
      BY <3>1, NestedAssumption DEF NestedAssumption
    <3>3. s.path = t.path /\ Spelled[s.node] = Spelled[t.node]
      BY <2>1, <3>1, <3>2, StepKeyInjective
    <3>4. s.node = t.node
      BY <3>1, <3>3, NestedAssumption DEF NestedAssumption
    <3> QED BY <3>1, <3>3, <3>4
  <2> HIDE DEF K
  <2>2. f \in Bijection(S, T)
    BY <2>1 DEF Bijection, Injection, Surjection, IsInjective
  <2>3. IsFiniteSet(S)
    BY DEF KeyInv, KeyedCalls
  <2>4. Cardinality(T) = Cardinality(S)
    <3> HIDE DEF f, T, S
    <3>1. ExistsBijection(S, T)
      BY <2>2 DEF ExistsBijection
    <3> QED BY <2>3, <3>1, FS_Bijection
  <2> QED BY <2>4 DEF KeysAreSteps, K
<1> QED BY <1>1, <1>2, InitJob, JobKept, KeysKept, PTL DEF Spec

=============================================================================

--------------------------- MODULE AuthoringProofs ---------------------------
(***************************************************************************)
(* What a host may rely on holds for any kinds, bindings and documents of  *)
(* its own, and for any number of calls in any order.                      *)
(***************************************************************************)
EXTENDS AuthoringProps, FiniteSetTheorems, WellFoundedInduction, TLAPS

-----------------------------------------------------------------------------
(* Naturals and sequences. *)

LEMMA LessWellFounded ==
  IsWellFoundedOn({pair \in Nat \X Nat : pair[1] < pair[2]}, Nat)
BY NatLessThanWellFounded DEF OpToRel

\* A non-empty set of naturals has a least element.
LEMMA LeastNatural ==
  ASSUME NEW T \in SUBSET Nat, T # {}
  PROVE  \E x \in T : \A y \in T : x <= y
<1> DEFINE Less == {pair \in Nat \X Nat : pair[1] < pair[2]}
<1>1. \A x, y \in Nat : y < x => <<y, x>> \in Less
  OBVIOUS
<1>2. IsWellFoundedOn(Less, Nat)
  BY LessWellFounded
<1>3. PICK x \in T : \A y \in T : ~(<<y, x>> \in Less)
  <2> HIDE DEF Less
  <2> QED BY <1>2, WFMin
<1>4. \A y \in T : ~(y < x)
  BY <1>1, <1>3
<1> QED BY <1>4

LEMMA Joined ==
  ASSUME NEW S, NEW s \in Seq(S), NEW t \in Seq(S)
  PROVE  s \o t \in Seq(S) /\ ToSet(s \o t) = ToSet(s) \cup ToSet(t)
<1>1. s \o t \in Seq(S) /\ Len(s \o t) = Len(s) + Len(t)
  OBVIOUS
<1>2. \A i \in 1..Len(s) : (s \o t)[i] = s[i]
  OBVIOUS
<1>3. \A i \in 1..Len(t) : (s \o t)[i + Len(s)] = t[i]
  OBVIOUS
<1>4. \A i \in 1..Len(s \o t) : (s \o t)[i] \in ToSet(s) \cup ToSet(t)
  <2> TAKE i \in 1..Len(s \o t)
  <2>1. CASE i <= Len(s)
    BY <1>2, <2>1 DEF ToSet
  <2>2. CASE i > Len(s)
    <3>1. i - Len(s) \in 1..Len(t) /\ (i - Len(s)) + Len(s) = i
      BY <1>1, <2>2
    <3>2. (s \o t)[i] = t[i - Len(s)]
      BY <1>3, <3>1
    <3> QED BY <3>1, <3>2 DEF ToSet
  <2> QED BY <2>1, <2>2
<1>5. \A i \in 1..Len(s) : s[i] \in ToSet(s \o t)
  BY <1>1, <1>2 DEF ToSet
<1>6. \A i \in 1..Len(t) : t[i] \in ToSet(s \o t)
  <2> TAKE i \in 1..Len(t)
  <2>1. i + Len(s) \in 1..Len(s \o t)
    BY <1>1
  <2>2. (s \o t)[i + Len(s)] = t[i]
    BY <1>3
  <2> DEFINE u == s \o t
  <2>3. u[i + Len(s)] \in ToSet(u)
    <3>1. DOMAIN u = 1..Len(u)
      BY <1>1
    <3> HIDE DEF u
    <3> QED BY <2>1, <3>1 DEF ToSet, u
  <2> QED BY <2>2, <2>3
<1> DEFINE u == s \o t
<1>7. DOMAIN u = 1..Len(u) /\ DOMAIN s = 1..Len(s) /\ DOMAIN t = 1..Len(t)
  BY <1>1
<1>8. ToSet(u) \subseteq ToSet(s) \cup ToSet(t)
  <2> SUFFICES ASSUME NEW x \in ToSet(u) PROVE x \in ToSet(s) \cup ToSet(t)
    OBVIOUS
  <2>1. PICK i \in 1..Len(u) : x = u[i]
    <3> HIDE DEF u
    <3> QED BY <1>7 DEF ToSet
  <2> QED BY <1>4, <2>1
<1>9. ToSet(s) \cup ToSet(t) \subseteq ToSet(u)
  <2> HIDE DEF u
  <2>1. ToSet(s) \subseteq ToSet(u)
    BY <1>5, <1>7 DEF ToSet, u
  <2>2. ToSet(t) \subseteq ToSet(u)
    BY <1>6, <1>7 DEF ToSet, u
  <2> QED BY <2>1, <2>2
<1> QED BY <1>1, <1>8, <1>9

\* The first place at which a sequence passes a test.
LEMMA FirstPlace ==
  ASSUME NEW S, NEW s \in Seq(S), NEW D
  PROVE  LET at == SelectInSeq(s, LAMBDA v : v \in D)
         IN  /\ at = 0 <=> ToSet(s) \cap D = {}
             /\ at # 0 => at \in 1..Len(s) /\ s[at] \in D
             /\ s # <<>> /\ s[1] \in D => at = 1
<1> DEFINE I == {i \in 1..Len(s) : s[i] \in D}
           at == SelectInSeq(s, LAMBDA v : v \in D)
<1>1. at = IF I # {} THEN Min(I) ELSE 0
  BY DEF SelectInSeq
<1>2. I # {} => Min(I) \in I /\ \A j \in I : Min(I) <= j
  <2>1. I \in SUBSET Nat
    OBVIOUS
  <2> HIDE DEF I
  <2> QED BY <2>1, LeastNatural DEF Min
<1>3. I = {} <=> ToSet(s) \cap D = {}
  BY DEF ToSet
<1>4. s # <<>> /\ s[1] \in D => 1 \in I
  OBVIOUS
<1>5. \A i \in I : i \in 1..Len(s) /\ s[i] \in D
  OBVIOUS
<1>6. 0 \notin I
  OBVIOUS
<1> HIDE DEF I, at
<1>7. I \in SUBSET Nat /\ \A i \in I : i >= 1
  BY <1>5
<1>8. 1 \in I => Min(I) = 1
  <2> SUFFICES ASSUME 1 \in I PROVE Min(I) = 1
    OBVIOUS
  <2>1. Min(I) \in Nat /\ Min(I) <= 1 /\ Min(I) >= 1
    BY <1>2, <1>7
  <2> QED BY <2>1
<1> QED BY <1>1, <1>2, <1>3, <1>4, <1>5, <1>6, <1>8 DEF at

-----------------------------------------------------------------------------
(* The built-in library. *)

Spaces == {Unspaced, Namespace, Legacy}

\* The names a built-in had, and every spelling of every one of them.
Bares(name)   == IF name = "llm_router" THEN {name, "llm_branch"} ELSE {name}
Spelled(name) == {Id(ns, bare) : ns \in Spaces, bare \in Bares(name)}

LEMMA VariantsOf ==
  ASSUME NEW id
  PROVE  /\ Variants(id) \in Seq(ToSet(Variants(id))) /\ Variants(id) # <<>>
         /\ Variants(id)[1] = id
         /\ ToSet(Variants(id)) = {id} \cup {Id(ns, BareName(id)) : ns \in Spaces}
BY DEF Variants, ToSet, Spaces

LEMMA IdsOf ==
  ASSUME NEW kind, NEW S, kind.aliases \in Seq(S)
  PROVE  /\ Ids(kind) \in Seq({kind.name} \cup S)
         /\ ToSet(Ids(kind)) = {kind.name} \cup ToSet(kind.aliases)
         /\ Ids(kind) # <<>>
<1> DEFINE T == {kind.name} \cup S
<1>1. <<kind.name>> \in Seq(T) /\ kind.aliases \in Seq(T)
  OBVIOUS
<1>2. ToSet(<<kind.name>>) = {kind.name}
  BY DEF ToSet
<1> DEFINE first == <<kind.name>>
           rest  == kind.aliases
<1>5. first \o rest = Ids(kind)
  BY DEF Ids
<1>6. first \in Seq(T) /\ rest \in Seq(T)
  BY <1>1
<1> HIDE DEF T
<1>3. /\ Ids(kind) \in Seq(T)
      /\ ToSet(Ids(kind)) = ToSet(<<kind.name>>) \cup ToSet(kind.aliases)
  <2> HIDE DEF first, rest
  <2>1. first \o rest \in Seq(T) /\ ToSet(first \o rest) = ToSet(first) \cup ToSet(rest)
    BY <1>6, Joined
  <2> QED BY <1>5, <2>1 DEF first, rest
<1>4. Ids(kind) # <<>>
  BY <1>1 DEF Ids
<1> QED BY <1>2, <1>3, <1>4 DEF T

\* A sequence of kinds written out, and one joined of two.
LEMMA JoinedKinds ==
  ASSUME NEW s, NEW t, s \in Seq(ToSet(s)), t \in Seq(ToSet(t))
  PROVE  /\ s \o t \in Seq(ToSet(s \o t))
         /\ ToSet(s \o t) = ToSet(s) \cup ToSet(t)
<1> DEFINE S == ToSet(s) \cup ToSet(t)
<1>1. s \in Seq(S) /\ t \in Seq(S)
  <2> HIDE DEF S
  <2>1. ToSet(s) \subseteq S /\ ToSet(t) \subseteq S
    BY DEF S
  <2> DEFINE A == ToSet(s)
             B == ToSet(t)
  <2>2. s \in Seq(A) /\ t \in Seq(B) /\ A \subseteq S /\ B \subseteq S
    BY <2>1
  <2> HIDE DEF A, B
  <2> QED BY <2>2
<1> HIDE DEF S
<1>2. s \o t \in Seq(S) /\ ToSet(s \o t) = ToSet(s) \cup ToSet(t)
  BY <1>1, Joined
<1> QED BY <1>2 DEF S

\* What every built-in kind has: the canonical name, every spelling of every
\* name it had among its ids, and ports of its own unless it is a note.
RoutingPorts(name, outputs) ==
  /\ name = "branch"                      => outputs = {"true", "false"}
  /\ name = "human_approval"              => outputs = {"approved", "denied"}
  /\ name = "for_each"                    => outputs = {"item", "done"}
  /\ name \in {"switch_case", "llm_router"} => outputs = {"default"}
  /\ name = "subflow"                     => outputs = {"out"}

BuiltinShape(kind) ==
  LET name == BareName(kind.name)
  IN  /\ kind.name = Id(Namespace, name) /\ name \notin {"llm_branch", "*"}
      /\ kind.aliases \in Seq(ToSet(kind.aliases))
      /\ ToSet(Ids(kind)) = Spelled(name)
      /\ kind.category # "annotation" => kind.outputs # Undeclared
      /\ RoutingPorts(name, kind.outputs)

LEMMA KindShape ==
  ASSUME NEW name, name \notin {"llm_branch", "*", "llm_router"},
         NEW category, NEW outputs, NEW fields,
         category # "annotation" => outputs # Undeclared,
         RoutingPorts(name, outputs)
  PROVE  BuiltinShape(Kind(name, category, outputs, fields))
<1> DEFINE kind == Kind(name, category, outputs, fields)
           old  == BuiltinAliases(name)
           none == <<>>
<1>1. old \in Seq(ToSet(old)) /\ ToSet(old) = {Id(Unspaced, name), Id(Legacy, name)}
  <2>1. \A a, b : <<a, b>> \in Seq({a, b}) /\ ToSet(<<a, b>>) = {a, b}
    BY DEF ToSet
  <2> QED BY <2>1 DEF BuiltinAliases
<1>2. old \o none = old
  <2> DEFINE S == ToSet(old)
  <2>1. old \in Seq(S)
    BY <1>1
  <2> HIDE DEF old, S
  <2> QED BY <2>1
<1>3. kind.aliases = old /\ kind.name = Id(Namespace, name)
  BY <1>2 DEF Kind, Canonicalized
<1>4. kind.category = category /\ kind.outputs = outputs
  BY DEF Kind, Canonicalized
<1>5. BareName(kind.name) = name
  BY <1>3 DEF Id, BareName
<1> HIDE DEF kind, old
<1>6. ToSet(Ids(kind)) = {Id(Namespace, name), Id(Unspaced, name), Id(Legacy, name)}
  BY <1>1, <1>3, IdsOf
<1>7. Spelled(name) = {Id(Namespace, name), Id(Unspaced, name), Id(Legacy, name)}
  BY DEF Spelled, Bares, Spaces
<1>8. BuiltinShape(kind)
  BY <1>1, <1>3, <1>4, <1>5, <1>6, <1>7 DEF BuiltinShape
<1> QED BY <1>8 DEF kind

LEMMA AgentShape == BuiltinShape(AgentKind)
<1>1. BuiltinShape(Kind("agent", "ai", {"out"},
        {Defaulted("max_steps", Value("number", {}))}
          \cup Fields({"model", "instructions", "tools"})))
  <2>1. {"out"} # Undeclared
    BY NoneAssumption
  <2> QED BY <2>1, KindShape DEF RoutingPorts
<1> QED BY <1>1 DEF AgentKind

LEMMA TriggersShape ==
  Triggers \in Seq(ToSet(Triggers)) /\ \A k \in ToSet(Triggers) : BuiltinShape(k)
<1>1. {"out"} # Undeclared
  BY NoneAssumption
<1>2. \A k \in ToSet(Triggers) : BuiltinShape(k)
  BY <1>1, KindShape DEF RoutingPorts, Triggers, ToSet
<1>3. Triggers \in Seq(ToSet(Triggers))
  BY DEF Triggers, ToSet
<1> QED BY <1>2, <1>3

LEMMA HumansShape ==
  Humans \in Seq(ToSet(Humans)) /\ \A k \in ToSet(Humans) : BuiltinShape(k)
<1>1. {"out"} # Undeclared /\ {"approved", "denied"} # Undeclared
  BY NoneAssumption
<1>2. \A k \in ToSet(Humans) : BuiltinShape(k)
  BY <1>1, KindShape DEF RoutingPorts, Humans, ToSet
<1>3. Humans \in Seq(ToSet(Humans))
  BY DEF Humans, ToSet
<1> QED BY <1>2, <1>3

LEMMA RoutingShape ==
  Routing \in Seq(ToSet(Routing)) /\ \A k \in ToSet(Routing) : BuiltinShape(k)
<1>1. Undeclared \notin {{"out"}, {"default"}, {"true", "false"}, {"item", "done"}}
  BY NoneAssumption
<1>2. \A k \in ToSet(Routing) : BuiltinShape(k)
  BY <1>1, KindShape DEF RoutingPorts, Routing, ToSet
<1>3. Routing \in Seq(ToSet(Routing))
  BY DEF Routing, ToSet
<1> QED BY <1>2, <1>3

LEMMA ShapingShape ==
  Shaping \in Seq(ToSet(Shaping)) /\ \A k \in ToSet(Shaping) : BuiltinShape(k)
<1>1. {"out"} # Undeclared
  BY NoneAssumption
<1>2. \A k \in ToSet(Shaping) : BuiltinShape(k)
  BY <1>1, KindShape DEF RoutingPorts, Shaping, ToSet
<1>3. Shaping \in Seq(ToSet(Shaping))
  BY DEF Shaping, ToSet
<1> QED BY <1>2, <1>3

LEMMA DataShape ==
  Data \in Seq(ToSet(Data)) /\ \A k \in ToSet(Data) : BuiltinShape(k)
<1>1. {"out"} # Undeclared
  BY NoneAssumption
<1>2. \A k \in ToSet(Data) : BuiltinShape(k)
  BY <1>1, KindShape DEF RoutingPorts, Data, ToSet
<1>3. Data \in Seq(ToSet(Data))
  BY DEF Data, ToSet
<1> QED BY <1>2, <1>3

LEMMA TransportsShape ==
  Transports \in Seq(ToSet(Transports)) /\ \A k \in ToSet(Transports) : BuiltinShape(k)
<1>1. {"out"} # Undeclared
  BY NoneAssumption
<1>2. \A k \in ToSet(Transports) : BuiltinShape(k)
  BY <1>1, KindShape DEF RoutingPorts, Transports, ToSet
<1>3. Transports \in Seq(ToSet(Transports))
  BY DEF Transports, ToSet
<1> QED BY <1>2, <1>3

LEMMA TerminalsShape ==
  Terminals \in Seq(ToSet(Terminals)) /\ \A k \in ToSet(Terminals) : BuiltinShape(k)
<1>1. {} # Undeclared
  BY NoneAssumption
<1>2. \A k \in ToSet(Terminals) : BuiltinShape(k)
  BY <1>1, KindShape DEF RoutingPorts, Terminals, ToSet
<1>3. Terminals \in Seq(ToSet(Terminals))
  BY DEF Terminals, ToSet
<1> QED BY <1>2, <1>3

LEMMA StructuralKindsShape ==
  StructuralKinds \in Seq(ToSet(StructuralKinds)) /\ \A k \in ToSet(StructuralKinds) : BuiltinShape(k)
<1>1. {"out"} # Undeclared
  BY NoneAssumption
<1>2. \A k \in ToSet(StructuralKinds) : BuiltinShape(k)
  BY <1>1, KindShape DEF RoutingPorts, StructuralKinds, ToSet
<1>3. StructuralKinds \in Seq(ToSet(StructuralKinds))
  BY DEF StructuralKinds, ToSet
<1> QED BY <1>2, <1>3

LEMMA RouterShape ==
  ASSUME NEW fields, {"default"} # Undeclared
  PROVE  BuiltinShape(Canonicalized("llm_router",
           <<Id(Unspaced, "llm_branch"), Id(Namespace, "llm_branch"),
             Id(Legacy, "llm_branch")>>, "ai", {"default"}, fields))
<1> DEFINE old     == BuiltinAliases("llm_router")
           renamed == <<Id(Unspaced, "llm_branch"), Id(Namespace, "llm_branch"),
                        Id(Legacy, "llm_branch")>>
           kind    == Canonicalized("llm_router", renamed, "ai", {"default"}, fields)
<1>1. /\ old \in Seq(ToSet(old))
      /\ ToSet(old) = {Id(Unspaced, "llm_router"), Id(Legacy, "llm_router")}
  <2>1. \A a, b : <<a, b>> \in Seq({a, b}) /\ ToSet(<<a, b>>) = {a, b}
    BY DEF ToSet
  <2> QED BY <2>1 DEF BuiltinAliases
<1>2. /\ renamed \in Seq(ToSet(renamed))
      /\ ToSet(renamed) = {Id(Unspaced, "llm_branch"), Id(Namespace, "llm_branch"),
                           Id(Legacy, "llm_branch")}
  <2>1. \A a, b, c : <<a, b, c>> \in Seq({a, b, c}) /\ ToSet(<<a, b, c>>) = {a, b, c}
    BY DEF ToSet
  <2> QED BY <2>1
<1>3. /\ kind.aliases = old \o renamed /\ kind.name = Id(Namespace, "llm_router")
      /\ kind.category = "ai" /\ kind.outputs = {"default"}
  BY DEF Canonicalized
<1> HIDE DEF old, renamed, kind
<1>4. /\ kind.aliases \in Seq(ToSet(kind.aliases))
      /\ ToSet(kind.aliases) = ToSet(old) \cup ToSet(renamed)
  BY <1>1, <1>2, <1>3, JoinedKinds
<1>5. ToSet(Ids(kind)) = {Id(Namespace, "llm_router")} \cup ToSet(kind.aliases)
  BY <1>3, <1>4, IdsOf
<1>6. Spelled("llm_router") = {Id(ns, bare) : ns \in Spaces, bare \in {"llm_router", "llm_branch"}}
  BY DEF Spelled, Bares
<1>7. ToSet(Ids(kind)) = Spelled("llm_router")
  BY <1>1, <1>2, <1>4, <1>5, <1>6 DEF Spaces
<1>8. BareName(kind.name) = "llm_router"
  BY <1>3 DEF Id, BareName
<1>9. BuiltinShape(kind)
  BY <1>3, <1>4, <1>7, <1>8 DEF BuiltinShape, RoutingPorts
<1> QED BY <1>9 DEF kind, renamed

LEMMA ModelsShape ==
  Models \in Seq(ToSet(Models)) /\ \A k \in ToSet(Models) : BuiltinShape(k)
<1>1. {"out"} # Undeclared /\ {"default"} # Undeclared
  BY NoneAssumption
<1>2. \A k \in ToSet(Models) : BuiltinShape(k)
  <2> DEFINE call   == Kind("llm_call", "ai", {"out"},
                {Required("prompt")} \cup Fields({"model", "temperature"}))
             router == Canonicalized("llm_router",
                <<Id(Unspaced, "llm_branch"), Id(Namespace, "llm_branch"),
                  Id(Legacy, "llm_branch")>>, "ai", {"default"}, Fields({"routes"}))
             tool   == Kind("tool_use", "ai", {"out"}, {Required("tool"), Field("args")})
             search == Kind("embed_search", "ai", {"out"},
                {Required("query"), Defaulted("topK", Value("number", {}))})
  <2>1. BuiltinShape(call) /\ BuiltinShape(tool) /\ BuiltinShape(search)
    BY <1>1, KindShape DEF RoutingPorts
  <2>2. BuiltinShape(router)
    BY <1>1, RouterShape
  <2>3. Models = <<call, router, tool, search>>
    BY DEF Models
  <2> HIDE DEF call, router, tool, search
  <2> QED BY <2>1, <2>2, <2>3 DEF ToSet
<1>3. Models \in Seq(ToSet(Models))
  BY DEF Models, ToSet
<1> QED BY <1>2, <1>3

LEMMA Builtins ==
  /\ \A kind \in AllBuiltins : BuiltinShape(kind)
  /\ \A structural \in BOOLEAN : Library(structural) \in Seq(AllBuiltins)
  /\ Executable \subseteq BuiltinName
<1> DEFINE a1 == Triggers \o Humans
           a2 == a1 \o Routing
           a3 == a2 \o Shaping
           a4 == a3 \o Data
           a5 == a4 \o Models
           a6 == a5 \o Transports
           agent == <<AgentKind>>
<1>1. a1 \in Seq(ToSet(a1)) /\ ToSet(a1) = ToSet(Triggers) \cup ToSet(Humans)
  BY TriggersShape, HumansShape, JoinedKinds
<1> HIDE DEF a1
<1>2. a2 \in Seq(ToSet(a2)) /\ ToSet(a2) = ToSet(a1) \cup ToSet(Routing)
  BY <1>1, RoutingShape, JoinedKinds
<1> HIDE DEF a2
<1>3. a3 \in Seq(ToSet(a3)) /\ ToSet(a3) = ToSet(a2) \cup ToSet(Shaping)
  BY <1>2, ShapingShape, JoinedKinds
<1> HIDE DEF a3
<1>4. a4 \in Seq(ToSet(a4)) /\ ToSet(a4) = ToSet(a3) \cup ToSet(Data)
  BY <1>3, DataShape, JoinedKinds
<1> HIDE DEF a4
<1>5. a5 \in Seq(ToSet(a5)) /\ ToSet(a5) = ToSet(a4) \cup ToSet(Models)
  BY <1>4, ModelsShape, JoinedKinds
<1> HIDE DEF a5
<1>6. a6 \in Seq(ToSet(a6)) /\ ToSet(a6) = ToSet(a5) \cup ToSet(Transports)
  BY <1>5, TransportsShape, JoinedKinds
<1> HIDE DEF a6
<1>7. Kinds = a6 \o Terminals
  BY DEF Kinds, a1, a2, a3, a4, a5, a6
<1>8. Kinds \in Seq(ToSet(Kinds)) /\ ToSet(Kinds) = ToSet(a6) \cup ToSet(Terminals)
  BY <1>6, <1>7, TerminalsShape, JoinedKinds
<1> DEFINE b == Kinds \o StructuralKinds
<1>9. b \in Seq(ToSet(b)) /\ ToSet(b) = ToSet(Kinds) \cup ToSet(StructuralKinds)
  BY <1>8, StructuralKindsShape, JoinedKinds
<1>10. agent \in Seq(ToSet(agent)) /\ ToSet(agent) = {AgentKind}
  <2>1. \A x : <<x>> \in Seq({x}) /\ ToSet(<<x>>) = {x}
    BY DEF ToSet
  <2> QED BY <2>1
<1>11. AllBuiltins = ToSet(b \o agent)
  BY DEF AllBuiltins
<1> HIDE DEF b, agent
<1>12. AllBuiltins = ToSet(Kinds) \cup ToSet(StructuralKinds) \cup {AgentKind}
  BY <1>9, <1>10, <1>11, JoinedKinds
<1>13. \A kind \in AllBuiltins : BuiltinShape(kind)
  BY <1>1, <1>2, <1>3, <1>4, <1>5, <1>6, <1>8, <1>12, TriggersShape, HumansShape,
     RoutingShape, ShapingShape, DataShape, ModelsShape, TransportsShape,
     TerminalsShape, StructuralKindsShape, AgentShape
<1>14. ASSUME NEW structural \in BOOLEAN
       PROVE  Library(structural) \in Seq(AllBuiltins)
  <2> DEFINE A == AllBuiltins
             K == ToSet(Kinds)
             B == ToSet(b)
  <2>1. Kinds \in Seq(K) /\ K \subseteq A
    BY <1>8, <1>12
  <2>2. Kinds \in Seq(A)
    <3> HIDE DEF A, K
    <3> QED BY <2>1
  <2>3. b \in Seq(B) /\ B \subseteq A
    BY <1>9, <1>12
  <2>4. b \in Seq(A)
    <3> HIDE DEF A, B
    <3> QED BY <2>3
  <2>5. Kinds \o <<>> = Kinds
    <3>1. \A s \in Seq(A) : s \o <<>> = s
      OBVIOUS
    <3> HIDE DEF A
    <3> QED BY <2>2, <3>1
  <2> QED BY <2>2, <2>4, <2>5 DEF Library, b
<1>15. Executable \subseteq BuiltinName
  <2> DEFINE group == Kind("subgraph", "structural", {"out"}, Fields({"graph"}))
  <2>1. group \in ToSet(StructuralKinds)
    <3>1. \A x, y : y \in ToSet(<<x, y>>)
      BY DEF ToSet
    <3> QED BY <3>1 DEF StructuralKinds
  <2>2. BareName(group.name) = "subgraph"
    BY DEF Kind, Canonicalized, BareName, Id
  <2> HIDE DEF group
  <2> QED BY <1>12, <2>1, <2>2 DEF Executable, BuiltinName
<1> QED BY <1>13, <1>14, <1>15

-----------------------------------------------------------------------------
(* The catalogue: what registering does to it, and what it answers. *)

\* A catalogue holds kinds somebody registered, and its index leads into them.
IsCatalogue(c) ==
  /\ c.kinds \in Seq(AnyKind)
  /\ \A id \in DOMAIN c.index : c.index[id] \in 1..Len(c.kinds)

\* RegisterAll registers one kind after the other.
LEMMA RegisteredInTurn ==
  ASSUME NEW c, NEW kinds \in Seq(AnyKind)
  PROVE  \E after :
           /\ after[0] = c
           /\ \A i \in 1..Len(kinds) : after[i] = Register(after[i - 1], kinds[i])
           /\ RegisterAll(c, kinds) = after[Len(kinds)]
<1> DEFINE Turn(f, i) == IF i = 0 THEN c ELSE Register(f[i - 1], kinds[i])
           IsRun(f, n) == f = [i \in 0..n |-> Turn(f, i)]
           Bad == {n \in Nat : ~(\E f : IsRun(f, n))}
<1>1. Bad = {}
  <2> SUFFICES ASSUME Bad # {} PROVE FALSE
    OBVIOUS
  <2>1. PICK n \in Bad : \A k \in Bad : n <= k
    <3>1. Bad \in SUBSET Nat
      OBVIOUS
    <3> HIDE DEF Bad
    <3> QED BY <3>1, LeastNatural
  <2>2. n \in Nat /\ ~(\E f : IsRun(f, n))
    BY <2>1
  <2>3. CASE n = 0
    <3> DEFINE f == [i \in 0..0 |-> c]
    <3>1. IsRun(f, 0)
      OBVIOUS
    <3> HIDE DEF f, IsRun
    <3> QED BY <2>2, <2>3, <3>1
  <2>4. CASE n # 0
    <3>1. n - 1 \in Nat /\ n - 1 \notin Bad
      <4>1. n - 1 \in Nat /\ ~(n <= n - 1)
        BY <2>2, <2>4
      <4> HIDE DEF Bad
      <4> QED BY <2>1, <4>1
    <3>2. PICK f : IsRun(f, n - 1)
      <4> HIDE DEF IsRun
      <4> QED BY <3>1
    <3> DEFINE last == Turn(f, n)
               g    == [i \in 0..n |-> IF i = n THEN last ELSE f[i]]
    <3>3. \A i \in 0..(n - 1) : g[i] = f[i] /\ f[i] = Turn(f, i)
      <4>1. \A i \in 0..(n - 1) : i \in 0..n /\ i # n
        BY <2>2
      <4>2. \A i \in 0..(n - 1) : g[i] = f[i]
        <5> HIDE DEF last
        <5> QED BY <4>1
      <4> HIDE DEF Turn, last, g
      <4> QED BY <3>2, <4>2
    <3>4. \A i \in 0..n : Turn(g, i) = Turn(f, i)
      <4> TAKE i \in 0..n
      <4>1. CASE i = 0
        BY <4>1
      <4>2. CASE i # 0
        <5>1. i - 1 \in 0..(n - 1)
          BY <2>2, <4>2
        <5>2. g[i - 1] = f[i - 1]
          BY <3>3, <5>1
        <5> HIDE DEF g
        <5> QED BY <5>2
      <4> QED BY <4>1, <4>2
    <3>5. \A i \in 0..n : g[i] = Turn(f, i)
      <4>1. n \in 0..n /\ \A i \in 0..n : i # n => i \in 0..(n - 1)
        BY <2>2
      <4>2. g[n] = last
        <5> HIDE DEF last
        <5> QED BY <4>1
      <4> HIDE DEF g
      <4> QED BY <3>3, <4>1, <4>2
    <3>6. IsRun(g, n)
      <4>1. g = [i \in 0..n |-> g[i]]
        OBVIOUS
      <4> HIDE DEF g, Turn
      <4> QED BY <3>4, <3>5, <4>1
    <3> HIDE DEF IsRun, g, last
    <3> QED BY <2>2, <3>6
  <2> QED BY <2>3, <2>4
<1> DEFINE run == CHOOSE f : IsRun(f, Len(kinds))
<1>2. IsRun(run, Len(kinds))
  <2>1. Len(kinds) \in Nat
    OBVIOUS
  <2>2. \E f : IsRun(f, Len(kinds))
    <3>1. Len(kinds) \notin Bad
      BY <1>1
    <3> HIDE DEF IsRun
    <3> QED BY <2>1, <3>1
  <2> HIDE DEF IsRun
  <2> QED BY <2>2
<1>3. RegisterAll(c, kinds) = run[Len(kinds)]
  BY DEF RegisterAll
<1>4. Len(kinds) \in Nat
  OBVIOUS
<1> HIDE DEF run
<1>5. run[0] = c /\ \A i \in 1..Len(kinds) : run[i] = Register(run[i - 1], kinds[i])
  <2>1. \A i \in 0..Len(kinds) : run[i] = Turn(run, i)
    <3> HIDE DEF Turn
    <3> QED BY <1>2, <1>4
  <2> QED BY <1>4, <2>1
<1> QED BY <1>3, <1>5

\* The two shapes a registration has.
LEMMA Registered ==
  ASSUME NEW c, IsCatalogue(c), NEW kind \in AnyKind
  PROVE  LET d  == Register(c, kind)
             at == IF kind.name \in DOMAIN c.index THEN c.index[kind.name]
                   ELSE Len(c.kinds) + 1
         IN  /\ IsCatalogue(d)
             /\ DOMAIN d.index = DOMAIN c.index \cup Spellings(kind)
             /\ \A id \in Spellings(kind) : d.index[id] = at
             /\ \A id \in DOMAIN c.index \ Spellings(kind) : d.index[id] = c.index[id]
             /\ d.kinds[at] = kind
             /\ \A i \in 1..Len(c.kinds) : i # at => d.kinds[i] = c.kinds[i]
<1> DEFINE all == Spellings(kind)
           at  == IF kind.name \in DOMAIN c.index THEN c.index[kind.name]
                  ELSE Len(c.kinds) + 1
           d   == Register(c, kind)
           s   == c.kinds
<1>1. s \in Seq(AnyKind) /\ Len(s) \in Nat /\ DOMAIN s = 1..Len(s)
  <2>1. s \in Seq(AnyKind)
    BY DEF IsCatalogue
  <2> HIDE DEF s
  <2> QED BY <2>1
<1>2. at \in 1..(Len(s) + 1) /\ (at \in DOMAIN s \/ at = Len(s) + 1)
  BY <1>1 DEF IsCatalogue
<1>3. /\ d.kinds = IF at \in DOMAIN s THEN [s EXCEPT ![at] = kind] ELSE Append(s, kind)
      /\ d.index = [id \in DOMAIN c.index \cup all |-> IF id \in all THEN at ELSE c.index[id]]
  BY DEF Register
<1>4. \A id \in DOMAIN c.index : c.index[id] \in 1..Len(s)
  BY DEF IsCatalogue
<1> HIDE DEF at, d, s, all
<1>5. /\ d.kinds \in Seq(AnyKind) /\ at \in 1..Len(d.kinds) /\ Len(s) <= Len(d.kinds)
      /\ d.kinds[at] = kind
      /\ \A i \in 1..Len(s) : i # at => d.kinds[i] = s[i]
  <2>1. CASE at \in DOMAIN s
    BY <1>1, <1>3, <2>1
  <2>2. CASE at \notin DOMAIN s
    BY <1>1, <1>2, <1>3, <2>2
  <2> QED BY <2>1, <2>2
<1>6. /\ DOMAIN d.index = DOMAIN c.index \cup all
      /\ \A id \in all : d.index[id] = at
      /\ \A id \in DOMAIN c.index \ all : d.index[id] = c.index[id]
  BY <1>3
<1>7. \A id \in DOMAIN d.index : d.index[id] \in 1..Len(d.kinds)
  <2>1. Len(d.kinds) \in Nat
    BY <1>5
  <2> QED BY <1>1, <1>4, <1>5, <1>6, <2>1
<1>8. IsCatalogue(d)
  BY <1>5, <1>7 DEF IsCatalogue
<1> QED BY <1>5, <1>6, <1>8 DEF at, d, s, all

LEMMA EmptyIsCatalogue == IsCatalogue(Empty)
BY DEF IsCatalogue, Empty

LEMMA RegisteredAll ==
  ASSUME NEW c, IsCatalogue(c), NEW kinds \in Seq(AnyKind)
  PROVE  IsCatalogue(RegisterAll(c, kinds))
<1>1. PICK after :
        /\ after[0] = c
        /\ \A i \in 1..Len(kinds) : after[i] = Register(after[i - 1], kinds[i])
        /\ RegisterAll(c, kinds) = after[Len(kinds)]
  BY RegisteredInTurn
<1> DEFINE Bad == {i \in 0..Len(kinds) : ~IsCatalogue(after[i])}
<1>2. Len(kinds) \in Nat /\ \A i \in 1..Len(kinds) : kinds[i] \in AnyKind
  OBVIOUS
<1>3. Bad = {}
  <2> SUFFICES ASSUME Bad # {} PROVE FALSE
    OBVIOUS
  <2>1. PICK n \in Bad : \A k \in Bad : n <= k
    <3>1. Bad \in SUBSET Nat
      BY <1>2
    <3> HIDE DEF Bad
    <3> QED BY <3>1, LeastNatural
  <2>2. n \in 1..Len(kinds) /\ n - 1 \in 0..Len(kinds) /\ ~(n <= n - 1)
    BY <1>1, <1>2, <2>1
  <2>3. IsCatalogue(after[n - 1])
    BY <2>1, <2>2
  <2>4. IsCatalogue(after[n])
    <3> DEFINE before == after[n - 1]
               kind   == kinds[n]
    <3>1. kind \in AnyKind /\ IsCatalogue(before)
      BY <1>2, <2>2, <2>3
    <3>2. after[n] = Register(before, kind)
      BY <1>1, <2>2
    <3> HIDE DEF before, kind
    <3>3. IsCatalogue(Register(before, kind))
      BY <3>1, Registered
    <3> QED BY <3>2, <3>3
  <2> QED BY <2>1, <2>4
<1> QED BY <1>1, <1>2, <1>3

\* What get answers is what the index leads to, under a spelling it knows.
LEMMA Gotten ==
  ASSUME NEW c, IsCatalogue(c), NEW id
  PROVE  LET known == ToSet(Variants(id)) \cap DOMAIN c.index
         IN  /\ known = {} => Get(c, id) = NoKind
             /\ known # {} => /\ Get(c, id) \in AnyKind
                              /\ \E v \in known : Get(c, id) = c.kinds[c.index[v]]
             /\ Has(c, id) <=> known # {}
<1> DEFINE tried == Variants(id)
           D     == DOMAIN c.index
           hit   == SelectInSeq(tried, LAMBDA v : v \in D)
           V     == ToSet(tried)
<1>1. tried \in Seq(V)
  BY VariantsOf
<1>2. Get(c, id) = IF hit = 0 THEN NoKind ELSE c.kinds[c.index[tried[hit]]]
  BY DEF Get
<1>3. /\ hit = 0 <=> V \cap D = {}
      /\ hit # 0 => hit \in 1..Len(tried) /\ tried[hit] \in D
  <2> HIDE DEF tried, D, V
  <2> QED BY <1>1, FirstPlace DEF V
<1>4. hit # 0 => tried[hit] \in V
  <2> HIDE DEF hit, V, tried
  <2> QED BY <1>1, <1>3
<1> HIDE DEF hit, V, tried
<1>5. hit # 0 => c.kinds[c.index[tried[hit]]] \in AnyKind
  BY <1>3 DEF IsCatalogue
<1>6. NoKind \notin AnyKind
  BY AuthoringAssumption
<1> QED BY <1>2, <1>3, <1>4, <1>5, <1>6 DEF V, tried, Has

-----------------------------------------------------------------------------
(* Documents: what an import makes of one. *)

\* What an imported graph is made of: nodes with an id, a config and a port
\* list without malformed entries, and edges between them.
IsImported(n) ==
  /\ n = [id |-> n.id, kind |-> n.kind, config |-> n.config, outputs |-> n.outputs]
  /\ n.id # NoId /\ n.config # Undeclared
  /\ n.outputs # Undeclared => n.outputs # Malformed /\ Malformed \notin n.outputs

IsConnected(e, nodes) ==
  /\ e = [source |-> e.source, handle |-> e.handle, target |-> e.target]
  /\ Handle(e.handle) = e.handle
  /\ {e.source, e.target} \subseteq NodeIds(nodes)

IsGraph(g) ==
  /\ IsFiniteSet(g.nodes)
  /\ \A n \in g.nodes : IsImported(n)
  /\ \A e \in g.edges : IsConnected(e, g.nodes)

\* What an error stands for is not there.
IsSound(c, g, lenient) ==
  /\ \A n \in g.nodes : lenient \/ Has(c, n.kind)
  /\ Disconnected(c, g.nodes, g.edges) = {}

LEMMA NodeErrors ==
  ASSUME NEW c, NEW raws, NEW lenient \in BOOLEAN
  PROVE  (\A i \in NodeIssues(c, raws, lenient) : ~i.error)
           <=> \A r \in raws : r.id # NoId /\ (lenient \/ Has(c, r.kind))
<1> DEFINE unknown(r) == {Issue(~lenient, "unknown kind", <<r.id>>) : k \in {NoKind} \cap {KindOf(c, r)}}
           fields(r)  == {Issue(FALSE, key, <<r.id>>) : key \in
                            IF Has(c, r.kind) THEN Issues(KindOf(c, r), ImportedNode(c, r).config) ELSE {}}
           bare       == {Issue(TRUE, "no id", <<>>) : r \in {s \in raws : s.id = NoId}}
           named      == {s \in raws : s.id # NoId}
           all        == UNION {unknown(r) \cup fields(r) : r \in named}
<1>1. NodeIssues(c, raws, lenient) = bare \cup all
  BY DEF NodeIssues
<1>2. (\A i \in bare : ~i.error) <=> \A r \in raws : r.id # NoId
  <2> DEFINE x == Issue(TRUE, "no id", <<>>)
  <2>1. x.error = TRUE
    BY DEF Issue
  <2>2. \A i \in bare : i = x
    OBVIOUS
  <2>3. \A r \in raws : r.id = NoId => x \in bare
    OBVIOUS
  <2>4. (\E i \in bare : TRUE) => \E r \in raws : r.id = NoId
    OBVIOUS
  <2> HIDE DEF x, bare
  <2> QED BY <2>1, <2>2, <2>3, <2>4
<1>3. ASSUME NEW r
      PROVE  (\A i \in unknown(r) : ~i.error) <=> (lenient \/ Has(c, r.kind))
  <2> DEFINE x == Issue(~lenient, "unknown kind", <<r.id>>)
  <2>1. x.error = ~lenient
    BY DEF Issue
  <2>2. Has(c, r.kind) <=> NoKind # KindOf(c, r)
    BY DEF Has, KindOf
  <2>3. \A i \in unknown(r) : i = x /\ NoKind = KindOf(c, r)
    OBVIOUS
  <2>4. NoKind = KindOf(c, r) => x \in unknown(r)
    OBVIOUS
  <2> HIDE DEF x, unknown
  <2> QED BY <2>1, <2>2, <2>3, <2>4
<1>4. ASSUME NEW r, NEW i \in fields(r)
      PROVE  ~i.error
  <2>1. PICK key : i = Issue(FALSE, key, <<r.id>>)
    OBVIOUS
  <2> QED BY <2>1 DEF Issue
<1> HIDE DEF unknown, fields, bare
<1>5. (\A i \in all : ~i.error) <=> \A r \in named : \A i \in unknown(r) : ~i.error
  BY <1>4
<1> QED BY <1>1, <1>2, <1>3, <1>5

LEMMA DisconnectedErrors ==
  ASSUME NEW c, NEW nodes, NEW edges
  PROVE  (\A i \in Disconnected(c, nodes, edges) : ~i.error)
           <=> Disconnected(c, nodes, edges) = {}
<1>1. \A i \in Disconnected(c, nodes, edges) : i.error = TRUE
  <2>1. \A what, at : Issue(TRUE, what, at).error = TRUE
    BY DEF Issue
  <2> QED BY <2>1 DEF Disconnected
<1> QED BY <1>1

ImportedNodes(c, doc) == {ImportedNode(c, r) : r \in {s \in doc.nodes : s.id # NoId}}
ImportedEdges(c, doc) ==
  {[e EXCEPT !.handle = Handle(@)] : e \in KeptEdges(NodeIds(ImportedNodes(c, doc)), doc.edges)}

\* An import is refused, or it keeps the nodes that have an id and the edges
\* between them; then it succeeds if and only if nothing was left out for want
\* of an id or a kind, and nothing is disconnected.
LEMMA ImportIs ==
  ASSUME NEW c, NEW doc, NEW lenient \in BOOLEAN,
         doc # NoDocument, doc.version = SchemaVersion \/ lenient
  PROVE  LET result == Import(c, doc, lenient)
         IN  /\ result.graph.nodes = ImportedNodes(c, doc)
             /\ result.graph.edges = ImportedEdges(c, doc)
             /\ result.ok <=>
                  /\ \A r \in doc.nodes : r.id # NoId /\ (lenient \/ Has(c, r.kind))
                  /\ Disconnected(c, ImportedNodes(c, doc), ImportedEdges(c, doc)) = {}
<1> DEFINE raws   == {s \in doc.nodes : s.id # NoId}
           nodes  == {ImportedNode(c, r) : r \in raws}
           kept   == KeptEdges(NodeIds(nodes), doc.edges)
           edges  == {[e EXCEPT !.handle = Handle(@)] : e \in kept}
           older  == {Issue(FALSE, "version", <<>>) : v \in {doc.version} \ {SchemaVersion}}
           lost   == {Issue(FALSE, "dangling", Ends(e)) : e \in doc.edges \ kept}
           issues == older \cup NodeIssues(c, doc.nodes, lenient) \cup lost
                       \cup Disconnected(c, nodes, edges)
           result == Import(c, doc, lenient)
<1>1. result = [ok     |-> \A i \in issues : ~i.error,
                graph  |-> [nodes |-> nodes, edges |-> edges],
                issues |-> issues]
  BY Zenon DEF Import
<1>2. \A i \in older \cup lost : ~i.error
  <2>1. \A what, at : ~Issue(FALSE, what, at).error
    BY DEF Issue
  <2> QED BY <2>1
<1> HIDE DEF nodes, edges, older, lost, result
<1>3. (\A i \in issues : ~i.error) <=>
        /\ \A i \in NodeIssues(c, doc.nodes, lenient) : ~i.error
        /\ \A i \in Disconnected(c, nodes, edges) : ~i.error
  BY <1>2
<1>4. (\A i \in issues : ~i.error) <=>
        /\ \A r \in doc.nodes : r.id # NoId /\ (lenient \/ Has(c, r.kind))
        /\ Disconnected(c, nodes, edges) = {}
  BY <1>3, NodeErrors, DisconnectedErrors
<1> HIDE DEF issues
<1>5. /\ result.graph.nodes = nodes /\ result.graph.edges = edges
      /\ result.ok <=> \A i \in issues : ~i.error
  BY <1>1
<1>6. nodes = ImportedNodes(c, doc) /\ edges = ImportedEdges(c, doc)
  BY DEF nodes, edges, ImportedNodes, ImportedEdges
<1> QED BY <1>4, <1>5, <1>6 DEF result

LEMMA ImportedNodeIs ==
  ASSUME NEW c, IsCatalogue(c), NEW raw, raw.id # NoId,
         \/ raw.outputs \in {Undeclared, Malformed}
         \/ raw.outputs \ {Malformed} \notin {Undeclared, Malformed}
  PROVE  /\ IsImported(ImportedNode(c, raw))
         /\ ImportedNode(c, raw).id = raw.id /\ ImportedNode(c, raw).kind = raw.kind
<1> DEFINE n == ImportedNode(c, raw)
<1>1. /\ n = [id |-> n.id, kind |-> n.kind, config |-> n.config, outputs |-> n.outputs]
      /\ n.id = raw.id /\ n.kind = raw.kind /\ n.outputs = PortsFrom(raw.outputs)
      /\ n.config = IF raw.config # Undeclared THEN raw.config
                    ELSE IF Has(c, raw.kind) THEN ResolvedDefaults(KindOf(c, raw))
                    ELSE EmptyConfig
  BY DEF ImportedNode
<1> HIDE DEF n
<1>2. n.config # Undeclared
  <2>1. Has(c, raw.kind) => KindOf(c, raw) \in AnyKind
    BY Gotten DEF KindOf
  <2> QED BY <1>1, <2>1, NoneAssumption
<1>3. n.outputs # Undeclared => n.outputs # Malformed /\ Malformed \notin n.outputs
  BY <1>1 DEF PortsFrom
<1> QED BY <1>1, <1>2, <1>3 DEF IsImported, n

LEMMA ImportGives ==
  ASSUME NEW c, IsCatalogue(c), NEW doc \in Documents, NEW lenient \in BOOLEAN
  PROVE  LET result == Import(c, doc, lenient)
         IN  /\ IsGraph(result.graph)
             /\ result.ok => IsSound(c, result.graph, lenient)
<1> DEFINE result == Import(c, doc, lenient)
<1>1. ASSUME NEW what
      PROVE  IsGraph(Refused(what).graph) /\ ~Refused(what).ok
  <2>1. Refused(what).graph.nodes = {} /\ Refused(what).graph.edges = {} /\ ~Refused(what).ok
    BY DEF Refused, NoGraph
  <2> QED BY <2>1, FS_EmptySet DEF IsGraph
<1>2. CASE doc = NoDocument \/ ~(doc.version = SchemaVersion \/ lenient)
  <2>1. \E what : result = Refused(what)
    BY <1>2 DEF Import
  <2> HIDE DEF result
  <2>2. IsGraph(result.graph) /\ ~result.ok
    BY <1>1, <2>1
  <2> QED BY <2>2 DEF result
<1>3. CASE doc # NoDocument /\ (doc.version = SchemaVersion \/ lenient)
  <2> DEFINE raws   == {r \in doc.nodes : r.id # NoId}
             nodes  == ImportedNodes(c, doc)
             kept   == KeptEdges(NodeIds(nodes), doc.edges)
             edges  == ImportedEdges(c, doc)
  <2>1. /\ result.graph.nodes = nodes /\ result.graph.edges = edges
        /\ result.ok <=>
             /\ \A r \in doc.nodes : r.id # NoId /\ (lenient \/ Has(c, r.kind))
             /\ Disconnected(c, nodes, edges) = {}
    BY <1>3, ImportIs
  <2>2. IsFiniteSet(nodes)
    <3> DEFINE f == [r \in raws |-> ImportedNode(c, r)]
               T == {f[r] : r \in raws}
    <3>1. IsFiniteSet(raws)
      BY DocumentsAssumption, FS_Subset
    <3>2. nodes = T
      BY DEF ImportedNodes
    <3>3. f \in Surjection(raws, T)
      BY DEF Surjection
    <3> HIDE DEF raws, f, T, nodes
    <3> QED BY <3>1, <3>2, <3>3, FS_Surjection
  <2>3. ASSUME NEW n \in nodes
        PROVE  IsImported(n) /\ \E r \in doc.nodes : n.kind = r.kind
    <3>1. PICK r \in raws : n = ImportedNode(c, r)
      BY DEF ImportedNodes
    <3>2. /\ r \in doc.nodes /\ r.id # NoId
          /\ r.outputs \in {Undeclared, Malformed}
               \/ r.outputs \ {Malformed} \notin {Undeclared, Malformed}
      BY <3>1, DocumentsAssumption
    <3> HIDE DEF nodes, raws
    <3> QED BY <3>1, <3>2, ImportedNodeIs
  <2>4. ASSUME NEW e \in edges
        PROVE  IsConnected(e, nodes)
    <3>1. PICK d \in kept : e = [d EXCEPT !.handle = Handle(@)]
      BY DEF ImportedEdges
    <3>2. /\ d \in doc.edges /\ {d.source, d.target} \subseteq NodeIds(nodes)
      BY DEF KeptEdges
    <3>3. d = [source |-> d.source, handle |-> d.handle, target |-> d.target]
      BY <3>2, DocumentsAssumption
    <3> HIDE DEF nodes, edges, kept
    <3>4. e = [source |-> d.source, handle |-> Handle(d.handle), target |-> d.target]
      BY <3>1, <3>3
    <3>5. Handle(Handle(d.handle)) = Handle(d.handle)
      BY DEF Handle
    <3> QED BY <3>2, <3>4, <3>5 DEF IsConnected
  <2> HIDE DEF nodes, edges, result
  <2>5. IsGraph(result.graph)
    BY <2>1, <2>2, <2>3, <2>4 DEF IsGraph
  <2>6. result.ok => IsSound(c, result.graph, lenient)
    BY <2>1, <2>3 DEF IsSound
  <2> QED BY <2>5, <2>6 DEF result
<1> QED BY <1>2, <1>3

\* What a round trip makes of a config.
Config(c, n) ==
  IF n.config # EmptyConfig THEN n.config
  ELSE IF Has(c, n.kind) THEN ResolvedDefaults(KindOf(c, n)) ELSE EmptyConfig

\* A round trip: an imported graph comes back with its edges and its nodes, of
\* which only an empty config may have been filled in, and what was sound is
\* accepted again.
LEMMA ImportsAgain ==
  ASSUME NEW c, IsCatalogue(c), NEW g, IsGraph(g), NEW lenient \in BOOLEAN
  PROVE  LET again == Import(c, Export(g), lenient)
             back(n) == ImportedNode(c, ExportedNode(n))
         IN  /\ again.graph.nodes = {back(n) : n \in g.nodes}
             /\ again.graph.edges = g.edges
             /\ \A n \in g.nodes : /\ back(n) = [n EXCEPT !.config = back(n).config]
                                   /\ back(n).config = Config(c, n)
                                   /\ back(n).id = n.id
             /\ IsSound(c, g, lenient) => again.ok
<1> DEFINE again   == Import(c, Export(g), lenient)
           back(n) == ImportedNode(c, ExportedNode(n))
<1>1. ASSUME NEW n \in g.nodes
      PROVE  /\ back(n) = [n EXCEPT !.config = back(n).config]
             /\ back(n).config = Config(c, n)
             /\ back(n).id = n.id /\ back(n).kind = n.kind /\ back(n).outputs = n.outputs
             /\ ExportedNode(n).id = n.id /\ ExportedNode(n).kind = n.kind /\ n.id # NoId
  <2> DEFINE x == ExportedNode(n)
             config == IF n.config = EmptyConfig THEN Undeclared ELSE n.config
             filled == IF config # Undeclared THEN config
                       ELSE IF Has(c, n.kind) THEN ResolvedDefaults(KindOf(c, n)) ELSE EmptyConfig
  <2>1. IsImported(n)
    BY DEF IsGraph
  <2>2. x = [id |-> n.id, kind |-> n.kind, config |-> config, outputs |-> n.outputs]
    BY <2>1 DEF ExportedNode, IsImported
  <2>3. PortsFrom(n.outputs) = n.outputs
    BY <2>1 DEF PortsFrom, IsImported
  <2>4. KindOf(c, x) = KindOf(c, n)
    <3> HIDE DEF x
    <3> QED BY <2>2 DEF KindOf
  <2> HIDE DEF config
  <2>5. back(n) = [id |-> n.id, kind |-> n.kind, config |-> filled, outputs |-> n.outputs]
    <3> HIDE DEF x
    <3>1. back(n) = ImportedNode(c, x)
      BY DEF x
    <3> QED BY <2>2, <2>3, <2>4, <3>1 DEF ImportedNode
  <2>6. filled = Config(c, n)
    BY <2>1 DEF config, IsImported, Config
  <2> HIDE DEF filled, x
  <2>7. n = [id |-> n.id, kind |-> n.kind, config |-> n.config, outputs |-> n.outputs]
    BY <2>1 DEF IsImported
  <2> HIDE DEF back
  <2> QED BY <2>1, <2>2, <2>5, <2>6, <2>7 DEF IsImported, x
<1> DEFINE doc   == Export(g)
           raws  == {r \in doc.nodes : r.id # NoId}
           nodes == ImportedNodes(c, doc)
           kept  == KeptEdges(NodeIds(nodes), doc.edges)
           edges == ImportedEdges(c, doc)
           backs == {back(n) : n \in g.nodes}
<1>2. /\ doc.version = SchemaVersion /\ doc.edges = g.edges
      /\ doc.nodes = {ExportedNode(n) : n \in g.nodes}
  BY DEF Export
<1>3. doc # NoDocument
  <2>1. NoDocument.version # SchemaVersion
    BY DEF NoDocument, SchemaVersion
  <2> HIDE DEF doc
  <2> QED BY <1>2, <2>1
<1>4. /\ again.graph.nodes = nodes /\ again.graph.edges = edges
      /\ again.ok <=>
           /\ \A r \in doc.nodes : r.id # NoId /\ (lenient \/ Has(c, r.kind))
           /\ Disconnected(c, nodes, edges) = {}
  BY <1>2, <1>3, ImportIs
<1>5. raws = doc.nodes
  BY <1>1, <1>2
<1>6. nodes = backs
  <2> HIDE DEF doc
  <2> QED BY <1>2, <1>5 DEF ImportedNodes
<1>7. NodeIds(nodes) = NodeIds(g.nodes)
  <2> HIDE DEF nodes, back
  <2> QED BY <1>1, <1>6 DEF NodeIds
<1> HIDE DEF nodes, raws, doc
<1>8. kept = g.edges
  BY <1>2, <1>7 DEF KeptEdges, IsGraph, IsConnected
<1>9. \A e \in g.edges : [e EXCEPT !.handle = Handle(@)] = e
  <2> TAKE e \in g.edges
  <2>1. e = [source |-> e.source, handle |-> e.handle, target |-> e.target] /\ Handle(e.handle) = e.handle
    BY DEF IsGraph, IsConnected
  <2> HIDE DEF back
  <2> QED BY <2>1
<1>10. edges = g.edges
  <2>1. edges = {[e EXCEPT !.handle = Handle(@)] : e \in kept}
    BY DEF ImportedEdges, nodes
  <2> HIDE DEF kept, edges
  <2> QED BY <1>8, <1>9, <2>1
<1>11. ASSUME IsSound(c, g, lenient)
       PROVE  again.ok
  <2>1. \A r \in doc.nodes : r.id # NoId /\ (lenient \/ Has(c, r.kind))
    BY <1>1, <1>2, <1>11 DEF IsSound
  <2> HIDE DEF edges, back
  <2>2. Disconnected(c, nodes, g.edges) = {}
    <3>1. Cardinality(g.nodes) = 1 => Cardinality(nodes) = 1
      <4> SUFFICES ASSUME Cardinality(g.nodes) = 1 PROVE Cardinality(nodes) = 1
        OBVIOUS
      <4>1. PICK n : g.nodes = {n}
        BY FS_Singleton DEF IsGraph
      <4>2. nodes = {back(n)}
        BY <1>6, <4>1
      <4> QED BY <4>2, FS_Singleton
    <3>2. ASSUME NEW n \in g.nodes
          PROVE  /\ Cardinality(g.nodes) = 1 \/ MayFloat(c, n)
                      \/ \E e \in g.edges : n.id \in {e.source, e.target}
                 /\ \A e \in g.edges : ~(n.id = e.source /\ IsTerminator(c, n))
      <4>1. Disconnected(c, g.nodes, g.edges) = {}
        BY <1>11 DEF IsSound
      <4> QED BY <4>1 DEF Disconnected
    <3>3. ASSUME NEW n \in g.nodes
          PROVE  /\ MayFloat(c, back(n)) <=> MayFloat(c, n)
                 /\ IsTerminator(c, back(n)) <=> IsTerminator(c, n)
      BY <1>1 DEF MayFloat, IsTerminator, KindOf
    <3>4. ASSUME NEW m \in nodes
          PROVE  /\ Cardinality(nodes) = 1 \/ MayFloat(c, m)
                      \/ \E e \in g.edges : m.id \in {e.source, e.target}
                 /\ \A e \in g.edges : ~(m.id = e.source /\ IsTerminator(c, m))
      BY <1>1, <1>6, <3>1, <3>2, <3>3
    <3> QED BY <3>4 DEF Disconnected
  <2> QED BY <1>4, <1>10, <2>1, <2>2
<1> QED BY <1>1, <1>4, <1>6, <1>10, <1>11

-----------------------------------------------------------------------------
(* The inductive invariant of what a host opens.  Every catalogue the calls *)
(* make is one, every graph a file holds came through the importer, and     *)
(* while no later registration changed what it means, an accepted one is    *)
(* sound under the catalogue as it is.                                      *)

FileInv ==
  file # NotOpen =>
    /\ file.lenient \in BOOLEAN
    /\ IsGraph(Graph)
    /\ file.result.ok /\ ~stale => IsSound(cat, Graph, file.lenient)

OpenInv == IsCatalogue(cat) /\ FileInv

LEMMA OpenInvInit == Init => OpenInv
BY EmptyIsCatalogue DEF Init, OpenInv, FileInv

LEMMA CataloguedKeeps ==
  ASSUME NEW next, IsCatalogue(next), OpenInv, Catalogued(next)
  PROVE  OpenInv'
<1>1. cat' = next /\ file' = file
  BY DEF Catalogued
<1>2. file # NotOpen /\ ~stale' => ~stale /\ cat' = cat
  BY DEF Catalogued
<1>3. FileInv'
  BY <1>1, <1>2 DEF OpenInv, FileInv, Graph
<1> QED BY <1>1, <1>3 DEF OpenInv

LEMMA OpenInvNext ==
  ASSUME OpenInv, [Next]_vars
  PROVE  OpenInv'
<1>1. IsCatalogue(cat)
  BY DEF OpenInv
<1>2. ASSUME cat' = cat, file' = file, stale' = stale
      PROVE  OpenInv'
  BY <1>2 DEF OpenInv, FileInv, Graph
<1>3. ASSUME NEW structural \in BOOLEAN, InstallKinds(structural)
      PROVE  OpenInv'
  <2> DEFINE A == AllBuiltins
             K == AnyKind
             L == Library(structural)
  <2>1. L \in Seq(A) /\ A \subseteq K
    BY Builtins DEF AnyKind
  <2>2. L \in Seq(K)
    <3> HIDE DEF A, K, L
    <3> QED BY <2>1
  <2>3. IsCatalogue(RegisterAll(cat, L))
    <3> HIDE DEF L
    <3> QED BY <1>1, <2>2, RegisteredAll
  <2> QED BY <1>3, <2>3, CataloguedKeeps DEF InstallKinds
<1>4. ASSUME NEW kind \in HostKinds, RegisterKind(kind)
      PROVE  OpenInv'
  <2>1. kind \in AnyKind
    BY DEF AnyKind
  <2>2. IsCatalogue(Register(cat, kind))
    BY <1>1, <2>1, Registered
  <2> QED BY <1>4, <2>2, CataloguedKeeps DEF RegisterKind
<1>5. ASSUME NEW doc \in Documents, NEW lenient \in BOOLEAN, Open(doc, lenient)
      PROVE  OpenInv'
  <2> DEFINE result == Import(cat, doc, lenient)
  <2>1. IsGraph(result.graph) /\ (result.ok => IsSound(cat, result.graph, lenient))
    BY <1>1, ImportGives
  <2>2. file' = [result |-> result, lenient |-> lenient] /\ cat' = cat
    BY <1>5 DEF Open
  <2> HIDE DEF result
  <2>3. FileInv'
    BY <2>1, <2>2 DEF FileInv, Graph
  <2> QED BY <1>1, <2>2, <2>3 DEF OpenInv
<1>6. CASE Next
  <2>1. CASE InstallExecutors \/ AttachKinds
    BY <1>2, <2>1 DEF InstallExecutors, AttachKinds
  <2>2. ASSUME NEW id \in HostBinds, NEW executor \in Executor, BindKind(id, executor)
        PROVE  OpenInv'
    BY <1>2, <2>2 DEF BindKind
  <2> QED BY <1>3, <1>4, <1>5, <1>6, <2>1, <2>2 DEF Next
<1>7. CASE UNCHANGED vars
  BY <1>2, <1>7 DEF vars
<1> QED BY <1>6, <1>7

LEMMA OpenInvHolds == Spec => []OpenInv
BY OpenInvInit, OpenInvNext, PTL DEF Spec

-----------------------------------------------------------------------------
(* What follows of an open document. *)

LEMMA RoundTripsFollow == OpenInv => RoundTrips
<1> SUFFICES ASSUME OpenInv, file # NotOpen
             PROVE  RoundTrips
  BY DEF RoundTrips
<1> DEFINE again   == Import(cat, Export(Graph), file.lenient)
           back(n) == ImportedNode(cat, ExportedNode(n))
<1>1. /\ IsCatalogue(cat) /\ IsGraph(Graph) /\ file.lenient \in BOOLEAN
      /\ file.result.ok /\ ~stale => IsSound(cat, Graph, file.lenient)
  BY DEF OpenInv, FileInv
<1>2. /\ again.graph.nodes = {back(n) : n \in Graph.nodes}
      /\ again.graph.edges = Graph.edges
      /\ \A n \in Graph.nodes : /\ back(n) = [n EXCEPT !.config = back(n).config]
                                /\ back(n).config = Config(cat, n)
      /\ IsSound(cat, Graph, file.lenient) => again.ok
  BY <1>1, ImportsAgain
<1> HIDE DEF again, back
<1>3. ASSUME NEW n \in Graph.nodes
      PROVE  back(n) = Refilled(n)
  <2>1. back(n) = [n EXCEPT !.config = Config(cat, n)]
    BY <1>2
  <2>2. n = [id |-> n.id, kind |-> n.kind, config |-> n.config, outputs |-> n.outputs]
    BY <1>1 DEF IsGraph, IsImported
  <2>3. [n EXCEPT !.config = n.config] = n
    BY <2>2
  <2> QED BY <2>1, <2>3 DEF Refilled, Config
<1>4. again.graph.nodes = {Refilled(n) : n \in Graph.nodes}
  BY <1>2, <1>3
<1>5. file.result.ok /\ ~stale => again.ok
  BY <1>1, <1>2
<1> QED BY <1>2, <1>4, <1>5 DEF RoundTrips, again

\* A port a built-in may publish, of a node with outputs to publish on, is one
\* that its executor lights for some input, but for those named in NeverLit.
LEMMA OfferedIsLit ==
  ASSUME NEW n, NEW kind \in AllBuiltins,
         kind.category # "annotation", ~Overrules(n, kind),
         NEW port \in PossiblePorts(n, kind), port \notin NeverLit(kind, n.config)
  PROVE  MayDeliver(n, kind, port)
<1> DEFINE name    == BareName(kind.name)
           derived == DerivedPorts(kind, n.config, kind.outputs)
           lit(result) == port \in ActivatedPorts(n, kind, result)
<1>1. BuiltinShape(kind) /\ kind # NoKind
  BY Builtins, AuthoringAssumption DEF AnyKind
<1>2. kind.outputs # Undeclared /\ RoutingPorts(name, kind.outputs)
  BY <1>1 DEF BuiltinShape
<1>3. Plain.named = FALSE /\ \A S : Lights(S).named = TRUE /\ Lights(S).ports = S
  BY DEF Plain, Lights
<1>4. ASSUME NEW p, Lights({p}) \in Results(name, n.config), port = p
      PROVE  MayDeliver(n, kind, port)
  <2>1. lit(Lights({p}))
    BY <1>3, <1>4 DEF ActivatedPorts
  <2> QED BY <1>4, <2>1 DEF MayDeliver
<1>5. ASSUME Plain \in Results(name, n.config), port \in n.outputs \/ n.outputs = Undeclared,
             n.outputs = Undeclared => port \in kind.outputs
      PROVE  MayDeliver(n, kind, port)
  <2>1. lit(Plain)
    BY <1>1, <1>2, <1>3, <1>5 DEF ActivatedPorts
  <2> QED BY <1>5, <2>1 DEF MayDeliver
<1>6. \/ n.outputs # Undeclared /\ port \in n.outputs
      \/ n.outputs = Undeclared /\ port \in (IF derived # {} THEN derived ELSE kind.outputs)
  BY <1>1, <1>2 DEF PossiblePorts
<1>7. CASE name \in {"branch", "human_approval"}
  <2>1. n.outputs = Undeclared /\ derived = {}
    BY <1>7 DEF Overrules, NamesPorts, DerivedPorts
  <2>2. port \in kind.outputs
    BY <1>6, <2>1
  <2>3. CASE name = "branch"
    <3>1. port \in {"true", "false"}
      BY <1>2, <2>2, <2>3 DEF RoutingPorts
    <3>2. Results(name, n.config) = {Lights({"true"}), Lights({"false"})}
      BY <2>3 DEF Results
    <3> QED BY <1>4, <3>1, <3>2
  <2>4. CASE name = "human_approval"
    <3>1. port \in {"approved", "denied"}
      BY <1>2, <2>2, <2>4 DEF RoutingPorts
    <3>2. Results(name, n.config) = {Lights({"approved"}), Lights({"denied"})}
      BY <2>4 DEF Results
    <3> QED BY <1>4, <3>1, <3>2
  <2> QED BY <1>7, <2>3, <2>4
<1>8. CASE name = "for_each"
  <2>1. n.outputs = Undeclared /\ derived = {}
    BY <1>8 DEF Overrules, NamesPorts, DerivedPorts
  <2>2. port \in kind.outputs
    BY <1>6, <2>1
  <2>3. Plain \in Results(name, n.config)
    BY <1>8 DEF Results
  <2> QED BY <1>5, <2>1, <2>2, <2>3
<1>9. CASE name = "switch_case"
  <2> DEFINE cases == IF "cases" \in DOMAIN n.config /\ n.config["cases"].tag = "texts"
                      THEN n.config["cases"].of ELSE {}
  <2>1. n.outputs = Undeclared
    BY <1>9 DEF Overrules, NamesPorts
  <2>2. derived = IF cases \ {""} = {} THEN {} ELSE (cases \ {""}) \cup {"default"}
    BY <1>9 DEF DerivedPorts, SwitchPorts
  <2>3. kind.outputs = {"default"}
    BY <1>2, <1>9 DEF RoutingPorts
  <2>4. Results(name, n.config) = {Lights({p}) : p \in {"default"} \cup cases}
    BY <1>9 DEF Results
  <2> HIDE DEF derived, cases
  <2>5. port \in {"default"} \cup cases
    BY <1>6, <2>1, <2>2, <2>3
  <2>6. Lights({port}) \in Results(name, n.config)
    BY <2>4, <2>5
  <2> QED BY <1>4, <2>6
<1>10. CASE name = "llm_router"
  <2> DEFINE texts == IF "routes" \in DOMAIN n.config /\ n.config["routes"].tag = "texts"
                      THEN n.config["routes"].of ELSE {}
             lights == IF texts # {} THEN texts ELSE {"default"}
             named == IF "routes" \in DOMAIN n.config
                           /\ n.config["routes"].tag \in {"texts", "records"}
                      THEN n.config["routes"].of \ {""} ELSE {}
  <2>1. n.outputs = Undeclared
    BY <1>10 DEF Overrules, NamesPorts
  <2>2. /\ derived = {} \/ derived \subseteq named \cup {"fallback"}
        /\ named # {} => derived # {}
    BY <1>10 DEF DerivedPorts, RouterPorts
  <2>3. kind.outputs = {"default"}
    BY <1>2, <1>10 DEF RoutingPorts
  <2>4. Results(name, n.config) = {Lights({p}) : p \in lights}
    BY <1>10 DEF Results
  <2>5. /\ port # "fallback" /\ (PeerRoutes(n.config) => port \notin n.config["routes"].of)
        /\ UnnamedRoute(n.config) => port # "default"
    BY <1>10 DEF NeverLit, RouterNeverLit
  <2>6. port \in lights
    <3>1. CASE PeerRoutes(n.config)
      <4>1. texts = {} /\ port \notin named
        BY <2>5, <3>1 DEF PeerRoutes
      <4> HIDE DEF derived, named
      <4>2. port = "default"
        BY <1>6, <2>1, <2>2, <2>3, <2>5, <4>1
      <4> QED BY <4>1, <4>2
    <3>2. CASE ~PeerRoutes(n.config)
      <4>1. named = texts \ {""}
        BY <3>2 DEF PeerRoutes
      <4>2. texts = {""} => UnnamedRoute(n.config)
        BY DEF UnnamedRoute
      <4> HIDE DEF derived, named, texts
      <4>3. CASE derived # {}
        <5>1. port \in named
          BY <1>6, <2>1, <2>2, <2>5, <4>3
        <5> QED BY <4>1, <5>1
      <4>4. CASE derived = {}
        <5>1. port = "default"
          BY <1>6, <2>1, <2>3, <4>4
        <5>2. named = {}
          BY <2>2, <4>4
        <5>3. texts = {} \/ texts = {""}
          BY <4>1, <5>2
        <5> QED BY <2>5, <4>2, <5>1, <5>3
      <4> QED BY <4>3, <4>4
    <3> QED BY <3>1, <3>2
  <2> HIDE DEF lights
  <2>7. Lights({port}) \in Results(name, n.config)
    BY <2>4, <2>6
  <2> QED BY <1>4, <2>7
<1>11. CASE name \notin NamesPorts
  <2>1. Results(name, n.config) = {Plain}
    BY <1>11 DEF Results, NamesPorts
  <2>2. n.outputs # Undeclared => port \in n.outputs
    BY <1>6
  <2>3. ASSUME n.outputs = Undeclared
        PROVE  port \in kind.outputs
    <3>1. port \in (IF derived # {} THEN derived ELSE kind.outputs)
      BY <1>6, <2>3
    <3>2. CASE name = "subflow"
      <4>1. kind.outputs = {"out"}
        BY <1>2, <3>2 DEF RoutingPorts
      <4>2. derived \subseteq {"stream", "out"}
        BY <3>2, <4>1 DEF DerivedPorts, SubflowPorts
      <4>3. port # "stream"
        BY <3>2 DEF NeverLit
      <4> HIDE DEF derived
      <4> QED BY <3>1, <4>1, <4>2, <4>3
    <3>3. CASE name # "subflow"
      <4>1. derived = {}
        BY <1>11, <3>3 DEF DerivedPorts, NamesPorts
      <4> QED BY <3>1, <4>1
    <3> QED BY <3>2, <3>3
  <2>4. Plain \in Results(name, n.config)
    BY <2>1
  <2> QED BY <1>5, <2>2, <2>3, <2>4
<1> QED BY <1>7, <1>8, <1>9, <1>10, <1>11 DEF NamesPorts

LEMMA SoundIsTold == OpenInv => UndeliveredIsTold
<1> SUFFICES ASSUME OpenInv, file # NotOpen, file.result.ok, ~stale
             PROVE  UndeliveredIsTold
  BY DEF UndeliveredIsTold
<1>1. IsGraph(Graph) /\ Disconnected(cat, Graph.nodes, Graph.edges) = {}
  BY DEF OpenInv, FileInv, IsSound
<1>2. ASSUME NEW e \in Graph.edges, NEW n \in Graph.nodes,
             NEW kind \in AllBuiltins \cap {KindOf(cat, n)},
             n.id = e.source, kind.category # "annotation", ~Overrules(n, kind)
      PROVE  \/ MayDeliver(n, kind, SourcePort(e))
             \/ SourcePort(e) \notin PossiblePorts(n, kind)
             \/ SourcePort(e) \in NeverLit(kind, n.config)
  BY <1>2, OfferedIsLit
<1>3. ASSUME NEW n \in Graph.nodes
      PROVE  \/ \E e \in Graph.edges : n.id \in {e.source, e.target}
             \/ Graph.nodes = {n}
             \/ ~Has(cat, n.kind)
             \/ VisualOnly(n)
  <2>1. \/ Cardinality(Graph.nodes) = 1 \/ MayFloat(cat, n)
        \/ \E e \in Graph.edges : n.id \in {e.source, e.target}
    BY <1>1 DEF Disconnected
  <2>2. ASSUME Cardinality(Graph.nodes) = 1
        PROVE  Graph.nodes = {n}
    <3>1. \E x : Graph.nodes = {x}
      BY <1>1, <2>2, FS_Singleton DEF IsGraph
    <3> QED BY <3>1
  <2> QED BY <2>1, <2>2 DEF MayFloat, VisualOnly
<1> QED BY <1>2, <1>3 DEF UndeliveredIsTold

LEMMA LightsOffered ==
  ASSUME NEW n, NEW kind \in AllBuiltins,
         n.outputs = Undeclared, kind.category # "annotation", ~PeerRoutes(n.config),
         NEW result \in Results(BareName(kind.name), n.config)
  PROVE  Published(n, kind, result) \subseteq PossiblePorts(n, kind)
<1> DEFINE name    == BareName(kind.name)
           derived == DerivedPorts(kind, n.config, kind.outputs)
<1>1. BuiltinShape(kind) /\ kind # NoKind
  BY Builtins, AuthoringAssumption DEF AnyKind
<1>2. kind.outputs # Undeclared /\ RoutingPorts(name, kind.outputs)
  BY <1>1 DEF BuiltinShape
<1>3. PossiblePorts(n, kind) = IF derived # {} THEN derived ELSE kind.outputs
  BY <1>1, <1>2 DEF PossiblePorts
<1>4. Published(n, kind, result) = (IF result.named THEN result.ports ELSE kind.outputs) \ {""}
  BY <1>1, <1>2 DEF Published, ActivatedPorts
<1>5. Plain.named = FALSE /\ \A S : Lights(S).named = TRUE /\ Lights(S).ports = S
  BY DEF Plain, Lights
<1> DEFINE Lit(S) == result.named = TRUE /\ \E p \in S : result.ports = {p}
<1>6. CASE name \in {"branch", "human_approval", "for_each"}
  <2>1. derived = {}
    BY <1>6 DEF DerivedPorts
  <2>2. Lit(kind.outputs) \/ result.named = FALSE
    <3>1. CASE name = "branch"
      <4>1. result \in {Lights({"true"}), Lights({"false"})} /\ kind.outputs = {"true", "false"}
        BY <1>2, <3>1 DEF Results, RoutingPorts
      <4> QED BY <1>5, <4>1
    <3>2. CASE name = "human_approval"
      <4>1. result \in {Lights({"approved"}), Lights({"denied"})}
              /\ kind.outputs = {"approved", "denied"}
        BY <1>2, <3>2 DEF Results, RoutingPorts
      <4> QED BY <1>5, <4>1
    <3>3. CASE name = "for_each"
      <4>1. result \in {Plain, Lights({"done"})} /\ kind.outputs = {"item", "done"}
        BY <1>2, <3>3 DEF Results, RoutingPorts
      <4> QED BY <1>5, <4>1
    <3> QED BY <1>6, <3>1, <3>2, <3>3
  <2> HIDE DEF derived
  <2> QED BY <1>3, <1>4, <2>1, <2>2
<1>7. CASE name = "switch_case"
  <2> DEFINE cases == IF "cases" \in DOMAIN n.config /\ n.config["cases"].tag = "texts"
                      THEN n.config["cases"].of ELSE {}
  <2>1. derived = IF cases \ {""} = {} THEN {} ELSE (cases \ {""}) \cup {"default"}
    BY <1>7 DEF DerivedPorts, SwitchPorts
  <2>2. Lit({"default"} \cup cases)
    <3>1. result \in {Lights({p}) : p \in {"default"} \cup cases}
      BY <1>7 DEF Results
    <3> HIDE DEF cases
    <3> QED BY <1>5, <3>1
  <2>3. kind.outputs = {"default"}
    BY <1>2, <1>7 DEF RoutingPorts
  <2> HIDE DEF derived, cases
  <2> QED BY <1>3, <1>4, <2>1, <2>2, <2>3
<1>8. CASE name = "llm_router"
  <2> DEFINE texts == IF "routes" \in DOMAIN n.config /\ n.config["routes"].tag = "texts"
                      THEN n.config["routes"].of ELSE {}
             lit   == IF texts # {} THEN texts ELSE {"default"}
  <2>1. \/ texts \ {""} = {} /\ derived = {}
        \/ texts \ {""} # {} /\ texts \ {""} \subseteq derived
    BY <1>8 DEF DerivedPorts, RouterPorts, PeerRoutes
  <2>2. Lit(lit)
    <3>1. result \in {Lights({p}) : p \in lit}
      BY <1>8 DEF Results
    <3> HIDE DEF lit
    <3> QED BY <1>5, <3>1
  <2>3. kind.outputs = {"default"}
    BY <1>2, <1>8 DEF RoutingPorts
  <2> HIDE DEF derived, texts
  <2> QED BY <1>3, <1>4, <2>1, <2>2, <2>3
<1>9. CASE name \notin {"branch", "human_approval", "for_each", "switch_case", "llm_router"}
  <2>1. result = Plain
    BY <1>9 DEF Results
  <2>2. derived = {} \/ kind.outputs \subseteq derived
    BY <1>9 DEF DerivedPorts, SubflowPorts
  <2> HIDE DEF derived
  <2> QED BY <1>3, <1>4, <1>5, <2>1, <2>2
<1> QED BY <1>6, <1>7, <1>8, <1>9

\* In an accepted document an edge out of a built-in delivers on some run, or is
\* warned of, or is one of the silent ones UndeliveredIsTold names; and what is
\* left unwired is no step: whatever kinds a host registers, in whatever order,
\* and whatever it opens (graph_connectivity.rs, undelivered_edges.rs).
THEOREM UndeliveredIsToldHolds == Spec => []UndeliveredIsTold
BY OpenInvHolds, SoundIsTold, PTL

\* Export and import change nothing of a graph but the configs that are empty
\* (workflow.rs).
THEOREM RoundTripsHold == Spec => []RoundTrips
BY OpenInvHolds, RoundTripsFollow, PTL

\* Whatever a built-in executor publishes on was offered, routes written as
\* records aside: for those it is not so (port_resolution.rs).
THEOREM ExecutorsLightPossiblePortsHolds == Spec => []ExecutorsLightPossiblePorts
<1>1. ExecutorsLightPossiblePorts
  BY LightsOffered DEF ExecutorsLightPossiblePorts
<1> QED BY <1>1, PTL

-----------------------------------------------------------------------------
(* Ids: every one belongs to one built-in at most. *)

LEMMA SpelledIs ==
  ASSUME NEW name
  PROVE  /\ \A id \in Spelled(name) : BareName(id) \in Bares(name)
         /\ \A bare \in Bares(name), ns \in Spaces : Id(ns, bare) \in Spelled(name)
         /\ \A id \in Spelled(name) : ToSet(Variants(id)) \subseteq Spelled(name)
         /\ {BareName(id) : id \in Spelled(name)} = Bares(name)
         /\ name \in Bares(name)
<1>1. \A bare \in Bares(name), ns \in Spaces :
        Id(ns, bare) \in Spelled(name) /\ BareName(Id(ns, bare)) = bare
  BY DEF Spelled, Id, BareName
<1>2. \A id \in Spelled(name) :
        \E bare \in Bares(name), ns \in Spaces : id = Id(ns, bare)
  BY DEF Spelled
<1>3. \A id \in Spelled(name) : BareName(id) \in Bares(name)
  BY <1>1, <1>2
<1>4. \A id \in Spelled(name) : ToSet(Variants(id)) \subseteq Spelled(name)
  BY <1>1, <1>3, VariantsOf
<1>5. Unspaced \in Spaces
  BY DEF Spaces
<1>6. {BareName(id) : id \in Spelled(name)} = Bares(name)
  BY <1>1, <1>3, <1>5
<1>7. name \in Bares(name)
  BY DEF Bares
<1> QED BY <1>1, <1>3, <1>4, <1>6, <1>7

LEMMA BuiltinNames ==
  /\ \A kind \in AllBuiltins : BareName(kind.name) \in BuiltinName
  /\ \A name \in BuiltinName : name \notin {"llm_branch", "*"}
  /\ \A name, other \in BuiltinName :
       name # other => Bares(name) \cap Bares(other) = {}
                         /\ Spelled(name) \cap Spelled(other) = {}
<1>1. \A kind \in AllBuiltins : BareName(kind.name) \in BuiltinName
  BY DEF BuiltinName
<1>2. \A name \in BuiltinName : name \notin {"llm_branch", "*"}
  BY Builtins DEF BuiltinName, BuiltinShape
<1>3. ASSUME NEW name \in BuiltinName, NEW other \in BuiltinName, name # other
      PROVE  Bares(name) \cap Bares(other) = {} /\ Spelled(name) \cap Spelled(other) = {}
  <2>1. Bares(name) \cap Bares(other) = {}
    BY <1>2, <1>3 DEF Bares
  <2> QED BY <2>1, SpelledIs
<1> QED BY <1>1, <1>2, <1>3

LEMMA SpellingsAre ==
  ASSUME NEW kind \in AllBuiltins
  PROVE  Spellings(kind) = Spelled(BareName(kind.name))
<1> DEFINE S == Spelled(BareName(kind.name))
<1>1. ToSet(Ids(kind)) = S
  BY Builtins DEF BuiltinShape
<1>2. \A id \in S : ToSet(Variants(id)) \subseteq S /\ id \in ToSet(Variants(id))
  BY SpelledIs, VariantsOf
<1> HIDE DEF S
<1>3. Spellings(kind) = S
  BY <1>1, <1>2 DEF Spellings
<1> QED BY <1>3 DEF S

LEMMA BuiltinIdsAre ==
  ASSUME NEW name
  PROVE  BuiltinIds(name) = IF name \in BuiltinName THEN Spelled(name) ELSE {}
<1>1. \A kind \in AllBuiltins : ToSet(Ids(kind)) = Spelled(BareName(kind.name))
  BY Builtins DEF BuiltinShape
<1>2. name \in BuiltinName <=> \E kind \in AllBuiltins : BareName(kind.name) = name
  BY DEF BuiltinName
<1> QED BY <1>1, <1>2 DEF BuiltinIds

LEMMA ForeignIs ==
  ASSUME NEW id
  PROVE  IsForeign(id) <=> \A name \in BuiltinName : BareName(id) \notin Bares(name)
<1>1. \A kind \in AllBuiltins :
        {BareName(other) : other \in Spellings(kind)} = Bares(BareName(kind.name))
  BY SpellingsAre, SpelledIs
<1> QED BY <1>1 DEF IsForeign, BuiltinName

\* A foreign id is spelled like no built-in in any way.
LEMMA ForeignSpellings ==
  ASSUME NEW id, IsForeign(id), NEW name \in BuiltinName
  PROVE  /\ ToSet(Variants(id)) \cap Spelled(name) = {}
         /\ BareName(id) \notin BuiltinName
         /\ ~Matches(id, name)
<1>1. \A other \in BuiltinName : BareName(id) \notin Bares(other)
  BY ForeignIs
<1>2. \A v \in ToSet(Variants(id)) : BareName(v) = BareName(id)
  <2>1. \A ns : BareName(Id(ns, BareName(id))) = BareName(id)
    BY DEF BareName, Id
  <2> QED BY <2>1, VariantsOf
<1>3. ToSet(Variants(id)) \cap Spelled(name) = {}
  BY <1>1, <1>2, SpelledIs
<1>4. BareName(id) \notin BuiltinName
  BY <1>1, SpelledIs
<1>5. \A ns : BareName(Id(ns, name)) = name
  BY DEF BareName, Id
<1>6. Matches(id, name) => BareName(id) = name
  BY <1>5 DEF Matches
<1> QED BY <1>3, <1>4, <1>6

-----------------------------------------------------------------------------
(* Kinds that keep to their own. *)

Stands(kind, name) ==
  /\ Matches(kind.name, name)
  /\ ToSet(Ids(kind)) \subseteq Spelled(name)
  /\ \A id \in Spelled(name) : Spelled(name) \subseteq ToSet(Ids(kind)) \cup ToSet(Variants(id))

LEMMA MatchesIs ==
  ASSUME NEW id, NEW name
  PROVE  Matches(id, name) => id \in Spelled(name) /\ BareName(id) = name
<1>1. \A ns \in Spaces : Id(ns, name) \in Spelled(name) /\ BareName(Id(ns, name)) = name
  BY SpelledIs DEF BareName, Id
<1> QED BY <1>1 DEF Matches, Spaces

LEMMA IdsAre ==
  ASSUME NEW kind \in AnyKind
  PROVE  Ids(kind) # <<>> /\ kind.name \in ToSet(Ids(kind))
<1>1. kind.aliases \in Seq(ToSet(kind.aliases))
  BY Builtins, AuthoringAssumption DEF AnyKind, BuiltinShape
<1> QED BY <1>1, IdsOf

LEMMA KindKeeps ==
  ASSUME KeepsToItsOwn, NEW kind \in AnyKind, NEW name \in BuiltinName
  PROVE  /\ kind.name \in Spelled(name) <=> Stands(kind, name)
         /\ \A id \in Spellings(kind) : id \in Spelled(name) <=> Stands(kind, name)
<1>1. \/ \E other \in BuiltinName : Stands(kind, other)
      \/ \A id \in ToSet(Ids(kind)) : IsForeign(id)
  <2>1. CASE kind \in AllBuiltins
    <3>1. /\ ToSet(Ids(kind)) = Spelled(BareName(kind.name))
          /\ kind.name = Id(Namespace, BareName(kind.name))
          /\ BareName(kind.name) \in BuiltinName
      BY <2>1, Builtins, BuiltinNames DEF BuiltinShape
    <3>2. Matches(kind.name, BareName(kind.name))
      BY <3>1 DEF Matches
    <3> QED BY <3>1, <3>2 DEF Stands
  <2>2. CASE kind \in HostKinds
    <3>1. \A builtin \in AllBuiltins : StandsFor(kind, builtin) =>
            Stands(kind, BareName(builtin.name)) /\ BareName(builtin.name) \in BuiltinName
      BY SpellingsAre, BuiltinNames DEF StandsFor, Stands
    <3> QED BY <2>2, <3>1 DEF KeepsToItsOwn
  <2> QED BY <2>1, <2>2 DEF AnyKind
<1>2. kind.name \in ToSet(Ids(kind))
  BY IdsAre
<1>3. \A id \in Spellings(kind) : \E own \in ToSet(Ids(kind)) : id \in ToSet(Variants(own))
  BY DEF Spellings
<1>4. Stands(kind, name) => kind.name \in Spelled(name) /\ Spellings(kind) \subseteq Spelled(name)
  <2> SUFFICES ASSUME Stands(kind, name)
               PROVE  kind.name \in Spelled(name) /\ Spellings(kind) \subseteq Spelled(name)
    OBVIOUS
  <2>1. \A own \in ToSet(Ids(kind)) : own \in Spelled(name) /\ ToSet(Variants(own)) \subseteq Spelled(name)
    BY SpelledIs DEF Stands
  <2> QED BY <1>2, <1>3, <2>1
<1>5. CASE \E other \in BuiltinName : Stands(kind, other)
  <2>1. PICK other \in BuiltinName : Stands(kind, other)
    BY <1>5
  <2>2. kind.name \in Spelled(other) /\ Spellings(kind) \subseteq Spelled(other)
    <3>1. \A own \in ToSet(Ids(kind)) : own \in Spelled(other) /\ ToSet(Variants(own)) \subseteq Spelled(other)
      BY <2>1, SpelledIs DEF Stands
    <3> QED BY <1>2, <1>3, <3>1
  <2>3. other # name => Spelled(other) \cap Spelled(name) = {}
    BY BuiltinNames
  <2> QED BY <1>4, <2>1, <2>2, <2>3
<1>6. CASE \A id \in ToSet(Ids(kind)) : IsForeign(id)
  <2>1. \A own \in ToSet(Ids(kind)) :
          ToSet(Variants(own)) \cap Spelled(name) = {} /\ own \in ToSet(Variants(own))
    BY <1>6, ForeignSpellings, VariantsOf
  <2>2. kind.name \notin Spelled(name) /\ Spellings(kind) \cap Spelled(name) = {}
    BY <1>2, <1>3, <2>1
  <2> QED BY <1>4, <2>2
<1> QED BY <1>1, <1>5, <1>6

\* A catalogue in which an id is a built-in's exactly when what it leads to
\* stands for that built-in.
IsKept(c) ==
  /\ IsCatalogue(c)
  /\ \A id \in DOMAIN c.index, name \in BuiltinName :
       id \in Spelled(name) <=> Stands(c.kinds[c.index[id]], name)

LEMMA RegisterKeeps ==
  ASSUME KeepsToItsOwn, NEW c, IsKept(c), NEW kind \in AnyKind
  PROVE  IsKept(Register(c, kind))
<1> DEFINE d   == Register(c, kind)
           all == Spellings(kind)
           at  == IF kind.name \in DOMAIN c.index THEN c.index[kind.name]
                  ELSE Len(c.kinds) + 1
<1>1. /\ IsCatalogue(d)
      /\ DOMAIN d.index = DOMAIN c.index \cup all
      /\ \A id \in all : d.index[id] = at
      /\ \A id \in DOMAIN c.index \ all : d.index[id] = c.index[id]
      /\ d.kinds[at] = kind
      /\ \A i \in 1..Len(c.kinds) : i # at => d.kinds[i] = c.kinds[i]
  BY Registered DEF IsKept
<1>2. Len(c.kinds) \in Nat /\ \A id \in DOMAIN c.index : c.index[id] \in 1..Len(c.kinds)
  <2> DEFINE s == c.kinds
  <2>1. s \in Seq(AnyKind)
    BY DEF IsKept, IsCatalogue
  <2>2. Len(s) \in Nat
    <3> HIDE DEF s
    <3> QED BY <2>1
  <2> QED BY <2>2 DEF IsKept, IsCatalogue
<1>3. at \in 1..Len(c.kinds) => kind.name \in DOMAIN c.index /\ c.index[kind.name] = at
  BY <1>2
<1> HIDE DEF d, all, at
<1>4. ASSUME NEW id \in DOMAIN d.index, NEW name \in BuiltinName
      PROVE  id \in Spelled(name) <=> Stands(d.kinds[d.index[id]], name)
  <2>1. CASE id \in all
    <3>1. d.kinds[d.index[id]] = kind
      BY <1>1, <2>1
    <3> QED BY <2>1, <3>1, KindKeeps DEF all
  <2>2. CASE id \notin all /\ c.index[id] # at
    <3>1. id \in DOMAIN c.index /\ d.kinds[d.index[id]] = c.kinds[c.index[id]]
      BY <1>1, <1>2, <2>2
    <3> QED BY <3>1 DEF IsKept
  <2>3. CASE id \notin all /\ c.index[id] = at
    <3>1. id \in DOMAIN c.index /\ d.kinds[d.index[id]] = kind
      BY <1>1, <2>3
    <3>2. kind.name \in DOMAIN c.index /\ c.index[kind.name] = at
      BY <1>2, <1>3, <2>3, <3>1
    <3>3. kind.name \in Spelled(name) <=> Stands(c.kinds[at], name)
      BY <3>2 DEF IsKept
    <3>4. id \in Spelled(name) <=> Stands(c.kinds[at], name)
      BY <2>3, <3>1 DEF IsKept
    <3> QED BY <3>1, <3>3, <3>4, KindKeeps
  <2> QED BY <2>1, <2>2, <2>3
<1>5. IsKept(d)
  BY <1>1, <1>4 DEF IsKept
<1> QED BY <1>5 DEF d

LEMMA RegisterAllKeeps ==
  ASSUME KeepsToItsOwn, NEW c, IsKept(c), NEW kinds \in Seq(AnyKind)
  PROVE  IsKept(RegisterAll(c, kinds))
<1>1. PICK after :
        /\ after[0] = c
        /\ \A i \in 1..Len(kinds) : after[i] = Register(after[i - 1], kinds[i])
        /\ RegisterAll(c, kinds) = after[Len(kinds)]
  BY RegisteredInTurn
<1> DEFINE Bad == {i \in 0..Len(kinds) : ~IsKept(after[i])}
<1>2. Len(kinds) \in Nat /\ \A i \in 1..Len(kinds) : kinds[i] \in AnyKind
  OBVIOUS
<1>3. Bad = {}
  <2> SUFFICES ASSUME Bad # {} PROVE FALSE
    OBVIOUS
  <2>1. PICK n \in Bad : \A k \in Bad : n <= k
    <3>1. Bad \in SUBSET Nat
      BY <1>2
    <3> HIDE DEF Bad
    <3> QED BY <3>1, LeastNatural
  <2>2. n \in 1..Len(kinds) /\ n - 1 \in 0..Len(kinds) /\ ~(n <= n - 1)
    BY <1>1, <1>2, <2>1
  <2>3. IsKept(after[n - 1])
    BY <2>1, <2>2
  <2> DEFINE before == after[n - 1]
             kind   == kinds[n]
  <2>4. kind \in AnyKind /\ IsKept(before)
    BY <1>2, <2>2, <2>3
  <2>5. after[n] = Register(before, kind)
    BY <1>1, <2>2
  <2> HIDE DEF before, kind
  <2>6. IsKept(after[n])
    BY <2>4, <2>5, RegisterKeeps
  <2> QED BY <2>1, <2>6
<1> QED BY <1>1, <1>2, <1>3

-----------------------------------------------------------------------------
(* Bindings: which ids one call reaches. *)

\* The registry has no catalogue, or one that keeps to its own.
Knows(x) == x.kinds = NoCatalogue \/ IsKept(x.kinds)

LEMMA Declares ==
  ASSUME NEW x, Knows(x), NEW id
  PROVE  \/ DeclaredIds(x, id) = <<>>
         \/ \E v \in ToSet(Variants(id)), kind \in AnyKind :
              /\ Get(x.kinds, id) = kind
              /\ DeclaredIds(x, id) = Ids(kind) /\ Ids(kind) # <<>>
              /\ kind.name \in ToSet(Ids(kind))
              /\ \A name \in BuiltinName : v \in Spelled(name) <=> Stands(kind, name)
<1> SUFFICES ASSUME x.kinds # NoCatalogue, Has(x.kinds, id)
             PROVE  \E v \in ToSet(Variants(id)), kind \in AnyKind :
                      /\ Get(x.kinds, id) = kind
                      /\ DeclaredIds(x, id) = Ids(kind) /\ Ids(kind) # <<>>
                      /\ kind.name \in ToSet(Ids(kind))
                      /\ \A name \in BuiltinName : v \in Spelled(name) <=> Stands(kind, name)
  BY DEF DeclaredIds, IdsFor
<1> DEFINE c    == x.kinds
           kind == Get(c, id)
<1>1. IsKept(c) /\ IsCatalogue(c)
  BY DEF Knows, IsKept
<1>2. kind \in AnyKind
        /\ \E v \in ToSet(Variants(id)) \cap DOMAIN c.index : kind = c.kinds[c.index[v]]
  <2> HIDE DEF c
  <2> QED BY <1>1, Gotten DEF c
<1>3. DeclaredIds(x, id) = Ids(kind)
  BY DEF DeclaredIds, IdsFor
<1> HIDE DEF c, kind
<1>4. PICK v \in ToSet(Variants(id)) \cap DOMAIN c.index : kind = c.kinds[c.index[v]]
  BY <1>2
<1>5. \A name \in BuiltinName : v \in Spelled(name) <=> Stands(kind, name)
  BY <1>1, <1>4 DEF IsKept
<1>6. Ids(kind) # <<>> /\ kind.name \in ToSet(Ids(kind))
  BY <1>2, IdsAre
<1> QED BY <1>2, <1>3, <1>4, <1>5, <1>6 DEF c, kind

\* The built-ins a registry takes an id for.
NamedBy(x, id) ==
  {name \in BuiltinName :
     IF DeclaredIds(x, id) # <<>>
     THEN Matches(Get(x.kinds, id).name, name)
     ELSE Matches(id, name)}

\* A built-in's id reaches the whole kind or only itself, and what it reaches
\* is what it is taken for.
LEMMA OwnReach ==
  ASSUME NEW x, Knows(x), NEW name \in BuiltinName, NEW id \in Spelled(name)
  PROVE  \/ Reach(x, id) = Spelled(name) /\ NamedBy(x, id) = {name}
         \/ Reach(x, id) = {id} /\ NamedBy(x, id) = {}
<1>1. /\ BareName(id) \in Bares(name) /\ ToSet(Variants(id)) \subseteq Spelled(name)
      /\ id # Star
  <2>1. BareName(Star) = "*"
    BY DEF Star, BareName, Id
  <2>2. "*" \notin Bares(name)
    BY BuiltinNames DEF Bares
  <2> QED BY <2>1, <2>2, SpelledIs
<1>2. \E ns \in Spaces, bare \in Bares(name) : id = Id(ns, bare)
  BY DEF Spelled
<1>3. ToSet(<<>>) = {}
  BY DEF ToSet
<1>4. ASSUME NEW other
      PROVE  Matches(id, other) <=> BareName(id) = other
  <2>1. \A ns, bare : Id(ns, bare) = <<ns, bare>> /\ BareName(Id(ns, bare)) = bare
    BY DEF Id, BareName
  <2> QED BY <1>2, <2>1 DEF Matches, Spaces
<1>5. CASE DeclaredIds(x, id) = <<>> /\ BareName(id) = name
  <2>1. BuiltinIds(BareName(id)) = Spelled(name)
    BY <1>5, BuiltinIdsAre
  <2>2. AliasIds(x, id) = Spelled(name) \ {id}
    BY <1>1, <1>3, <1>5, <2>1 DEF AliasIds
  <2>3. Reach(x, id) = Spelled(name)
    BY <1>1, <2>2 DEF Reach
  <2>4. NamedBy(x, id) = {name}
    BY <1>4, <1>5 DEF NamedBy
  <2> QED BY <2>3, <2>4
<1>6. CASE DeclaredIds(x, id) = <<>> /\ BareName(id) # name
  <2>1. BareName(id) \notin BuiltinName
    BY <1>1, <1>6, BuiltinNames DEF Bares
  <2>2. BuiltinIds(BareName(id)) = {}
    BY <2>1, BuiltinIdsAre
  <2>3. AliasIds(x, id) = {}
    BY <1>3, <1>6, <2>2 DEF AliasIds
  <2>4. Reach(x, id) = {id}
    BY <2>3 DEF Reach
  <2>5. NamedBy(x, id) = {}
    BY <1>4, <1>6, <2>1 DEF NamedBy
  <2> QED BY <2>4, <2>5
<1>7. CASE DeclaredIds(x, id) # <<>>
  <2>1. PICK v \in ToSet(Variants(id)), kind \in AnyKind :
              /\ Get(x.kinds, id) = kind
              /\ DeclaredIds(x, id) = Ids(kind) /\ Ids(kind) # <<>>
              /\ kind.name \in ToSet(Ids(kind))
              /\ \A other \in BuiltinName : v \in Spelled(other) <=> Stands(kind, other)
    BY <1>7, Declares
  <2>2. Stands(kind, name)
    BY <1>1, <2>1
  <2>3. AliasIds(x, id) = (ToSet(Ids(kind)) \cup ToSet(Variants(id))) \ {id}
    BY <2>1 DEF AliasIds
  <2>4. ToSet(Ids(kind)) \cup ToSet(Variants(id)) = Spelled(name)
    BY <1>1, <2>2 DEF Stands
  <2>5. Reach(x, id) = Spelled(name)
    BY <1>1, <2>3, <2>4 DEF Reach
  <2>6. \A other \in BuiltinName : Matches(kind.name, other) <=> other = name
    BY <2>2, MatchesIs DEF Stands
  <2>7. NamedBy(x, id) = {name}
    BY <1>7, <2>1, <2>6 DEF NamedBy
  <2> QED BY <2>5, <2>7
<1> QED BY <1>5, <1>6, <1>7

\* A foreign id reaches no id of any built-in, and is taken for none.
LEMMA ForeignReach ==
  ASSUME KeepsToItsOwn, NEW x, Knows(x), NEW id, IsForeign(id)
  PROVE  /\ NamedBy(x, id) = {}
         /\ \A name \in BuiltinName : Reach(x, id) \cap Spelled(name) = {}
         /\ DeclaredIds(x, id) = <<>> => Reach(x, id) = {id}
<1>1. id \in ToSet(Variants(id)) /\ ToSet(<<>>) = {}
  <2>1. ToSet(<<>>) = {}
    BY DEF ToSet
  <2> QED BY <2>1, VariantsOf
<1>2. \A name \in BuiltinName :
        /\ ToSet(Variants(id)) \cap Spelled(name) = {} /\ ~Matches(id, name)
        /\ BareName(id) \notin BuiltinName
  BY ForeignSpellings
<1>3. CASE DeclaredIds(x, id) = <<>>
  <2>1. BuiltinIds(BareName(id)) = {}
    BY <1>2, BuiltinIdsAre
  <2>2. AliasIds(x, id) = {}
    BY <1>1, <1>3, <2>1 DEF AliasIds
  <2>3. Reach(x, id) = {id}
    BY <2>2 DEF Reach
  <2>4. NamedBy(x, id) = {}
    BY <1>2, <1>3 DEF NamedBy
  <2> QED BY <1>1, <1>2, <2>3, <2>4
<1>4. CASE DeclaredIds(x, id) # <<>>
  <2>1. PICK v \in ToSet(Variants(id)), kind \in AnyKind :
              /\ Get(x.kinds, id) = kind
              /\ DeclaredIds(x, id) = Ids(kind) /\ Ids(kind) # <<>>
              /\ kind.name \in ToSet(Ids(kind))
              /\ \A other \in BuiltinName : v \in Spelled(other) <=> Stands(kind, other)
    BY <1>4, Declares
  <2>2. \A name \in BuiltinName : ~Stands(kind, name)
    BY <1>2, <2>1
  <2>3. AliasIds(x, id) = (ToSet(Ids(kind)) \cup ToSet(Variants(id))) \ {id}
    BY <2>1 DEF AliasIds
  <2>4. ToSet(Ids(kind)) \subseteq Spellings(kind)
    BY VariantsOf DEF Spellings
  <2>5. \A name \in BuiltinName : ToSet(Ids(kind)) \cap Spelled(name) = {}
    BY <2>2, <2>4, KindKeeps
  <2>6. \A name \in BuiltinName : Reach(x, id) \cap Spelled(name) = {}
    BY <1>1, <1>2, <2>3, <2>5 DEF Reach
  <2>7. \A name \in BuiltinName : ~Matches(kind.name, name)
    BY <2>1, <2>5, MatchesIs
  <2>8. NamedBy(x, id) = {}
    BY <1>4, <2>1, <2>7 DEF NamedBy
  <2> QED BY <1>4, <2>6, <2>8
<1> QED BY <1>3, <1>4

-----------------------------------------------------------------------------
(* The inductive invariant of what a host binds.  Every catalogue keeps its *)
(* ids apart, the one the registry was given included, and every id of a    *)
(* built-in that was bound as a kind holds what was last asked for.         *)

AskedIsBound ==
  \A name \in BuiltinName : asked[name] # NoExecutor =>
    \A id \in Spelled(name) \ literal :
      id \in DOMAIN execs.byKind /\ execs.byKind[id] = asked[name]

BindInv ==
  /\ IsKept(cat)
  /\ execs = [byKind |-> execs.byKind, kinds |-> execs.kinds] /\ Knows(execs)
  /\ AskedIsBound

LEMMA BindInvInit == Init => BindInv
<1> SUFFICES ASSUME Init PROVE BindInv
  OBVIOUS
<1>1. IsKept(Empty)
  BY EmptyIsCatalogue DEF IsKept, Empty
<1>2. execs = [byKind |-> execs.byKind, kinds |-> NoCatalogue]
  BY DEF Init, NoBindings
<1>3. \A name \in BuiltinName : asked[name] = NoExecutor
  BY DEF Init
<1> QED BY <1>1, <1>2, <1>3 DEF Init, BindInv, Knows, AskedIsBound

\* The default executors: each reaches all of its kind.
LEMMA DefaultsAre ==
  /\ DefaultExecutors = [byKind |-> DefaultExecutors.byKind, kinds |-> NoCatalogue]
  /\ \A name \in Executable : \A id \in Spelled(name) :
       id \in DOMAIN DefaultExecutors.byKind /\ DefaultExecutors.byKind[id] = name
<1> DEFINE reached(name) == Reach(NoBindings, Id(Unspaced, name))
           byKind == [id \in UNION {reached(name) : name \in Executable} |->
                        CHOOSE name \in Executable : id \in reached(name)]
<1>1. NoBindings.kinds = NoCatalogue /\ Knows(NoBindings)
  BY DEF NoBindings, Knows
<1>2. DefaultExecutors = [byKind |-> byKind, kinds |-> NoCatalogue]
  <2>1. DefaultExecutors = [NoBindings EXCEPT !.byKind = byKind]
    BY Zenon DEF DefaultExecutors
  <2> HIDE DEF byKind
  <2> QED BY <2>1 DEF NoBindings
<1>3. ASSUME NEW name \in Executable
      PROVE  reached(name) = Spelled(name) /\ name \in BuiltinName
  <2> DEFINE id == Id(Unspaced, name)
  <2>1. name \in BuiltinName
    BY Builtins
  <2>2. id \in Spelled(name) /\ BareName(id) = name
    BY SpelledIs DEF Spaces, Id, BareName
  <2>3. DeclaredIds(NoBindings, id) = <<>>
    BY <1>1 DEF DeclaredIds
  <2>4. Matches(id, name)
    BY DEF Matches
  <2>5. name \in NamedBy(NoBindings, id)
    BY <2>1, <2>3, <2>4 DEF NamedBy
  <2> HIDE DEF id
  <2>6. Reach(NoBindings, id) = Spelled(name)
    BY <1>1, <2>1, <2>2, <2>5, OwnReach
  <2> QED BY <2>1, <2>6 DEF id
<1>4. ASSUME NEW name \in Executable, NEW id \in Spelled(name)
      PROVE  id \in DOMAIN byKind /\ byKind[id] = name
  <2>1. \A other \in Executable : id \in reached(other) <=> other = name
    BY <1>3, BuiltinNames
  <2> HIDE DEF reached
  <2>2. id \in UNION {reached(other) : other \in Executable}
    BY <2>1
  <2>3. (CHOOSE other \in Executable : id \in reached(other)) = name
    BY <2>1
  <2> QED BY <2>2, <2>3
<1> HIDE DEF byKind
<1> QED BY <1>2, <1>4

\* Binding an id a host may bind keeps every kind together.
LEMMA BindKeeps ==
  ASSUME KeepsToItsOwn, BindInv, NEW id \in HostBinds, NEW executor \in Executor,
         BindKind(id, executor)
  PROVE  BindInv'
<1> DEFINE reached == Reach(execs, id)
           old     == execs.byKind
           new     == [i \in DOMAIN old \cup reached |->
                         IF i \in reached THEN executor ELSE old[i]]
<1>1. Knows(execs) /\ IsKept(cat) /\ AskedIsBound
        /\ execs = [byKind |-> execs.byKind, kinds |-> execs.kinds]
  BY DEF BindInv
<1>2. /\ execs' = [byKind |-> new, kinds |-> execs.kinds]
      /\ cat' = cat
      /\ literal' = IF reached = {id} THEN literal \cup {id} ELSE literal \ reached
  BY <1>1 DEF BindKind, Bind
<1>3. NamedBy(execs, id) = Named(id)
  BY DEF NamedBy, Named
<1>4. asked' = [name \in BuiltinName |->
                  IF name \in NamedBy(execs, id) THEN executor ELSE asked[name]]
  BY <1>3 DEF BindKind
<1>5. IsForeign(id) \/ \E name \in BuiltinName : id \in Spelled(name)
  <2>1. \A builtin \in AllBuiltins : id \in Spellings(builtin) =>
          \E name \in BuiltinName : id \in Spelled(name)
    BY SpellingsAre, BuiltinNames
  <2> QED BY <2>1 DEF KeepsToItsOwn
<1>6. ASSUME NEW name \in BuiltinName
      PROVE  \/ reached = Spelled(name) /\ name \in NamedBy(execs, id)
             \/ reached \cap Spelled(name) = {} /\ name \notin NamedBy(execs, id)
             \/ reached = {id} /\ name \notin NamedBy(execs, id)
  <2>1. CASE IsForeign(id)
    BY <1>1, <2>1, ForeignReach
  <2>2. ASSUME NEW other \in BuiltinName, id \in Spelled(other)
        PROVE  \/ reached = Spelled(name) /\ name \in NamedBy(execs, id)
               \/ reached \cap Spelled(name) = {} /\ name \notin NamedBy(execs, id)
               \/ reached = {id} /\ name \notin NamedBy(execs, id)
    <3>1. \/ reached = Spelled(other) /\ NamedBy(execs, id) = {other}
          \/ reached = {id} /\ NamedBy(execs, id) = {}
      BY <1>1, <2>2, OwnReach
    <3>2. other # name => Spelled(other) \cap Spelled(name) = {}
      BY BuiltinNames
    <3> QED BY <3>1, <3>2
  <2> QED BY <1>5, <2>1, <2>2
<1> HIDE DEF reached
<1>7. execs'.byKind = new /\ execs'.kinds = execs.kinds
        /\ execs' = [byKind |-> execs'.byKind, kinds |-> execs'.kinds]
  BY <1>2
<1>8. /\ DOMAIN new = DOMAIN old \cup reached
      /\ \A i \in reached : new[i] = executor
      /\ \A i \in DOMAIN old \ reached : new[i] = old[i]
  OBVIOUS
<1> HIDE DEF new
<1>9. ASSUME NEW name \in BuiltinName, asked'[name] # NoExecutor,
             NEW i \in Spelled(name), i \notin literal'
      PROVE  i \in DOMAIN new /\ new[i] = asked'[name]
  <2>1. CASE reached = Spelled(name) /\ name \in NamedBy(execs, id)
    BY <1>4, <1>8, <2>1
  <2>2. CASE reached \cap Spelled(name) = {} /\ name \notin NamedBy(execs, id)
    <3>1. asked'[name] = asked[name] /\ i \notin reached /\ i \notin literal
      BY <1>2, <1>4, <1>9, <2>2
    <3>2. i \in DOMAIN old /\ old[i] = asked[name]
      BY <1>1, <1>9, <3>1 DEF AskedIsBound
    <3> QED BY <1>8, <3>1, <3>2
  <2>3. CASE reached = {id} /\ name \notin NamedBy(execs, id)
    <3>1. asked'[name] = asked[name] /\ i \notin reached /\ i \notin literal
      BY <1>2, <1>4, <1>9, <2>3
    <3>2. i \in DOMAIN old /\ old[i] = asked[name]
      BY <1>1, <1>9, <3>1 DEF AskedIsBound
    <3> QED BY <1>8, <3>1, <3>2
  <2> QED BY <1>6, <2>1, <2>2, <2>3
<1>10. AskedIsBound'
  BY <1>7, <1>9 DEF AskedIsBound
<1>11. Knows(execs)'
  BY <1>1, <1>7 DEF Knows
<1> QED BY <1>1, <1>2, <1>7, <1>10, <1>11 DEF BindInv

LEMMA BindInvNext ==
  ASSUME KeepsToItsOwn, BindInv, [Next]_vars
  PROVE  BindInv'
<1>1. IsKept(cat) /\ Knows(execs) /\ AskedIsBound
        /\ execs = [byKind |-> execs.byKind, kinds |-> execs.kinds]
  BY DEF BindInv
<1>2. ASSUME IsKept(cat'), execs' = execs, asked' = asked, literal' = literal
      PROVE  BindInv'
  BY <1>1, <1>2 DEF BindInv, AskedIsBound, Knows
<1>3. ASSUME NEW structural \in BOOLEAN, InstallKinds(structural)
      PROVE  BindInv'
  <2> DEFINE A == AllBuiltins
             K == AnyKind
             L == Library(structural)
  <2>1. L \in Seq(A) /\ A \subseteq K
    BY Builtins DEF AnyKind
  <2>2. L \in Seq(K)
    <3> HIDE DEF A, K, L
    <3> QED BY <2>1
  <2>3. IsKept(RegisterAll(cat, L))
    <3> HIDE DEF L
    <3> QED BY <1>1, <2>2, RegisterAllKeeps
  <2> QED BY <1>2, <1>3, <2>3 DEF InstallKinds, Catalogued
<1>4. ASSUME NEW kind \in HostKinds, RegisterKind(kind)
      PROVE  BindInv'
  <2>1. kind \in AnyKind
    BY DEF AnyKind
  <2>2. IsKept(Register(cat, kind))
    BY <1>1, <2>1, RegisterKeeps
  <2> QED BY <1>2, <1>4, <2>2 DEF RegisterKind, Catalogued
<1>5. CASE InstallExecutors
  <2>1. /\ execs' = DefaultExecutors /\ cat' = cat /\ literal' = {}
        /\ asked' = [name \in BuiltinName |-> IF name \in Executable THEN name ELSE NoExecutor]
    BY <1>5 DEF InstallExecutors
  <2>2. execs' = [byKind |-> execs'.byKind, kinds |-> execs'.kinds] /\ execs'.kinds = NoCatalogue
    BY <2>1, DefaultsAre
  <2>3. AskedIsBound'
    BY <2>1, DefaultsAre DEF AskedIsBound
  <2> QED BY <1>1, <2>1, <2>2, <2>3 DEF BindInv, Knows
<1>6. CASE AttachKinds
  <2>1. /\ execs' = [execs EXCEPT !.kinds = cat] /\ cat' = cat
        /\ asked' = asked /\ literal' = literal
    BY <1>6 DEF AttachKinds
  <2>2. execs' = [byKind |-> execs.byKind, kinds |-> cat]
    BY <1>1, <2>1
  <2>3. execs'.byKind = execs.byKind /\ execs'.kinds = cat
    BY <2>2
  <2>4. AskedIsBound'
    BY <1>1, <2>1, <2>3 DEF AskedIsBound
  <2> QED BY <1>1, <2>1, <2>2, <2>3, <2>4 DEF BindInv, Knows
<1>7. ASSUME NEW id \in HostBinds, NEW executor \in Executor, BindKind(id, executor)
      PROVE  BindInv'
  BY <1>7, BindKeeps
<1>8. ASSUME NEW doc \in Documents, NEW lenient \in BOOLEAN, Open(doc, lenient)
      PROVE  BindInv'
  BY <1>1, <1>2, <1>8 DEF Open
<1>9. CASE UNCHANGED vars
  BY <1>1, <1>2, <1>9 DEF vars
<1> QED BY <1>3, <1>4, <1>5, <1>6, <1>7, <1>8, <1>9 DEF Next

LEMMA ResolvesItself ==
  ASSUME NEW x, NEW id, id \in DOMAIN x.byKind,
         Knows(x)
  PROVE  Resolve(x, id) = x.byKind[id]
<1> DEFINE tried == Candidates(x, id)
           T     == ToSet(tried)
           D     == DOMAIN x.byKind
           hit   == SelectInSeq(tried, LAMBDA c : c \in D)
           own   == <<id>>
           more  == DeclaredIds(x, id)
           other == Variants(id)
<1>1. own \in Seq(ToSet(own)) /\ other \in Seq(ToSet(other))
  <2>1. \A y : <<y>> \in Seq({y}) /\ ToSet(<<y>>) = {y}
    BY DEF ToSet
  <2> QED BY <2>1, VariantsOf
<1>2. more \in Seq(ToSet(more))
  <2>1. CASE more = <<>>
    BY <2>1
  <2>2. CASE more # <<>>
    <3>1. PICK kind \in AnyKind : more = Ids(kind)
      BY <2>2, Declares
    <3>2. kind.aliases \in Seq(ToSet(kind.aliases))
      BY Builtins, AuthoringAssumption DEF AnyKind, BuiltinShape
    <3>3. Ids(kind) \in Seq({kind.name} \cup ToSet(kind.aliases))
            /\ ToSet(Ids(kind)) = {kind.name} \cup ToSet(kind.aliases)
      BY <3>2, IdsOf
    <3> QED BY <3>1, <3>3
  <2> QED BY <2>1, <2>2
<1>3. tried = (own \o more) \o other
  BY DEF Candidates
<1>4. tried \in Seq(T)
  <2> HIDE DEF own, more, other
  <2>1. own \o more \in Seq(ToSet(own \o more))
    BY <1>1, <1>2, JoinedKinds
  <2> DEFINE two == own \o more
  <2>2. two \in Seq(ToSet(two)) /\ tried = two \o other
    BY <1>3, <2>1
  <2> HIDE DEF two, tried
  <2> QED BY <1>1, <2>2, JoinedKinds
<1>5. tried # <<>> /\ tried[1] = id
  <2> DEFINE S == {id} \cup ToSet(more) \cup ToSet(other)
  <2>1. more \in Seq(S) /\ other \in Seq(S)
    <3> DEFINE A == ToSet(more)
               B == ToSet(other)
    <3>1. more \in Seq(A) /\ other \in Seq(B) /\ A \subseteq S /\ B \subseteq S
      BY <1>1, <1>2
    <3> HIDE DEF A, B, S, more, other
    <3> QED BY <3>1
  <2> HIDE DEF S, more, other, tried
  <2>2. \A p, q \in Seq(S) : (<<id>> \o p) \o q # <<>> /\ ((<<id>> \o p) \o q)[1] = id
    <3>1. id \in S
      BY DEF S
    <3> QED BY <3>1
  <2> QED BY <1>3, <2>1, <2>2
<1> HIDE DEF tried, T, D
<1>6. hit = 1
  BY <1>4, <1>5, FirstPlace DEF D
<1>7. Resolve(x, id) = IF hit # 0 THEN x.byKind[tried[hit]]
                       ELSE IF Star \in DOMAIN x.byKind THEN x.byKind[Star] ELSE NoExecutor
  BY DEF Resolve, tried, D
<1> HIDE DEF hit
<1> QED BY <1>5, <1>6, <1>7

LEMMA BoundReaches == BindInv => OverrideReachesEveryNode
<1> SUFFICES ASSUME BindInv, NEW kind \in AllBuiltins,
                    NEW id \in Spellings(kind) \ literal,
                    asked[BareName(kind.name)] # NoExecutor
             PROVE  Resolve(execs, id) = asked[BareName(kind.name)]
  BY DEF OverrideReachesEveryNode
<1>1. BareName(kind.name) \in BuiltinName /\ id \in Spelled(BareName(kind.name))
  BY SpellingsAre, BuiltinNames
<1>2. id \in DOMAIN execs.byKind /\ execs.byKind[id] = asked[BareName(kind.name)]
  BY <1>1 DEF BindInv, AskedIsBound
<1> QED BY <1>2, ResolvesItself DEF BindInv

\* An override reaches every node of its kind, whatever the order of the calls,
\* for every host that keeps to its own names (ExecutorRegistry::bind).
THEOREM OverrideReachesEveryNodeHolds ==
  ASSUME KeepsToItsOwn
  PROVE  Spec => []OverrideReachesEveryNode
<1>1. Init => BindInv
  BY BindInvInit
<1>2. BindInv /\ [Next]_vars => BindInv'
  BY BindInvNext
<1>3. BindInv => OverrideReachesEveryNode
  BY BoundReaches
<1> QED BY <1>1, <1>2, <1>3, PTL DEF Spec

=============================================================================

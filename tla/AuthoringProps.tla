---------------------------- MODULE AuthoringProps ----------------------------
(***************************************************************************)
(* What a host may rely on, in whatever order it set itself up: that the   *)
(* executor it bound is the one that runs, and that a document it accepted *)
(* is one that can run.                                                    *)
(***************************************************************************)
EXTENDS Authoring

Graph == file.result.graph

\* Overriding a built-in reaches every node of it, under every id a document
\* may have been saved with, a name from before a rename included: "a caller
\* overriding one means the kind" (ExecutorRegistry::bind).  Only an id bound
\* literally, while nothing knew it as a kind, keeps what was bound to it.
OverrideReachesEveryNode ==
  \A kind \in AllBuiltins : \A id \in Spellings(kind) \ literal :
    LET wanted == asked[BareName(kind.name)]
    IN  wanted # NoExecutor => Resolve(execs, id) = wanted

\* What that takes of a host: a kind it registers stands for a built-in, under
\* the built-in's own ids, of which every one leads to all the others, or has
\* a bare name of its own; and so has every id it binds.
StandsFor(kind, builtin) ==
  /\ Matches(kind.name, BareName(builtin.name))
  /\ ToSet(Ids(kind)) \subseteq Spellings(builtin)
  /\ \A id \in Spellings(builtin) :
       Spellings(builtin) \subseteq ToSet(Ids(kind)) \cup ToSet(Variants(id))

IsForeign(id) ==
  \A builtin \in AllBuiltins :
    BareName(id) \notin {BareName(other) : other \in Spellings(builtin)}

KeepsToItsOwn ==
  /\ \A kind \in HostKinds :
       \/ \E builtin \in AllBuiltins : StandsFor(kind, builtin)
       \/ \A id \in ToSet(Ids(kind)) : IsForeign(id)
  /\ \A id \in HostBinds :
       IsForeign(id) \/ \E builtin \in AllBuiltins : id \in Spellings(builtin)

\* What the built-in executor of a kind may return for a config.
Results(name, config) ==
  CASE name = "branch"         -> {Lights({"true"}), Lights({"false"})}
    [] name = "human_approval" -> {Lights({"approved"}), Lights({"denied"})}
    [] name = "for_each"       -> {Plain, Lights({"done"})}
    [] name = "switch_case"    ->
         {Lights({p}) : p \in {"default"} \cup
            IF "cases" \in DOMAIN config /\ config["cases"].tag = "texts"
            THEN config["cases"].of ELSE {}}
    [] name = "llm_router"     ->
         {Lights({p}) : p \in
            IF /\ "routes" \in DOMAIN config
               /\ config["routes"].tag = "texts" /\ config["routes"].of # {}
            THEN config["routes"].of ELSE {"default"}}
    [] OTHER                   -> {Plain}

\* Routes as records are read by possible_ports and not by the offline router.
PeerRoutes(config) == "routes" \in DOMAIN config /\ config["routes"].tag = "records"

\* The kinds whose executor names the ports it lights, and so overrules what
\* the document declared for the node.
NamesPorts ==
  {"branch", "human_approval", "switch_case", "llm_router", "for_each"}
Overrules(n, kind) == n.outputs # Undeclared /\ BareName(kind.name) \in NamesPorts

MayDeliver(n, kind, port) ==
  \E result \in Results(BareName(kind.name), n.config) :
    port \in ActivatedPorts(n, kind, result)

\* A single route without a name is taken, and is no port.
UnnamedRoute(config) ==
  /\ "routes" \in DOMAIN config
  /\ config["routes"].tag = "texts" /\ config["routes"].of = {""}

RouterNeverLit(config) ==
  {"fallback"}
    \cup (IF PeerRoutes(config) THEN config["routes"].of ELSE {})
    \cup (IF UnnamedRoute(config) THEN {"default"} ELSE {})

\* Ports offered to the author that the built-in executor does not light: the
\* router's fallback and the routes written as records, which it cannot read,
\* the subflow's stream, and the loop's items, which it walks itself.
NeverLit(kind, config) ==
  CASE BareName(kind.name) = "llm_router" -> RouterNeverLit(config)
    [] BareName(kind.name) = "subflow"  -> {"stream"}
    [] BareName(kind.name) = "for_each" -> {"item"}
    [] OTHER -> {}

\* visual_only: what the engine walks straight past.
VisualOnly(n) ==
  \/ Matches(n.kind, "note")
  \/ Has(cat, n.kind) /\ KindOf(cat, n).category \in {"layout", "annotation"}

\* "An edge that delivers nothing must say so" (undelivered_edges.rs), and a
\* graph whose nodes take no part is refused (graph_connectivity.rs).  In an
\* accepted document an edge out of a built-in either delivers on some run or
\* is warned of on every run that completes its source, as possible_ports does
\* not list its port; and a step left unwired is one the engine walks past, or
\* one nobody knows.  Silent all the same, and set aside: edges out of a note,
\* which never completes; the ports of NeverLit; and ports the document
\* declares for a kind that names its own.
UndeliveredIsTold ==
  file # NotOpen /\ file.result.ok /\ ~stale =>
    /\ \A e \in Graph.edges, n \in Graph.nodes :
         \A kind \in AllBuiltins \cap {KindOf(cat, n)} :
           n.id = e.source /\ kind.category # "annotation" /\ ~Overrules(n, kind) =>
             \/ MayDeliver(n, kind, SourcePort(e))
             \/ SourcePort(e) \notin PossiblePorts(n, kind)
             \/ SourcePort(e) \in NeverLit(kind, n.config)
    /\ \A n \in Graph.nodes :
         \/ \E e \in Graph.edges : n.id \in {e.source, e.target}
         \/ Graph.nodes = {n}
         \/ ~Has(cat, n.kind)
         \/ VisualOnly(n)

\* An edge refused because "nothing can ever travel this edge" is one that
\* nothing can travel: no result of its source's built-in executor lights the
\* port.  A kind that names its ports can light one the document denied it,
\* and is set aside.
RefusedEdgesAreDead ==
  file # NotOpen /\ ~stale =>
    \A e \in Graph.edges, n \in Graph.nodes :
      \A kind \in AllBuiltins \cap {KindOf(cat, n)} :
        /\ n.id = e.source /\ ~Overrules(n, kind)
        /\ Issue(TRUE, "terminal", Ends(e)) \in file.result.issues
        => ~MayDeliver(n, kind, SourcePort(e))

\* An empty config is left out by export and filled in by import.
Refilled(n) ==
  IF n.config = EmptyConfig /\ Has(cat, n.kind)
  THEN [n EXCEPT !.config = ResolvedDefaults(KindOf(cat, n))]
  ELSE n

\* What export and import do to a graph, whatever was registered in between.
\* It does not "round-trip unchanged" (workflow.rs): a config the author left
\* empty on purpose comes back as the defaults of its kind.  All the rest comes
\* back as it was: ports that were declared, empty lists included, stay
\* declared, every other config is kept, and what was accepted is accepted
\* again.
RoundTrips ==
  file # NotOpen =>
    LET again == Import(cat, Export(Graph), file.lenient)
    IN  /\ again.ok \/ file.lenient =>
             /\ again.graph.edges = Graph.edges
             /\ again.graph.nodes = {Refilled(n) : n \in Graph.nodes}
        /\ file.result.ok /\ ~stale => again.ok

\* No edge leaves on a port without a name: "a half-typed route, not a real one".
Published(n, kind, result) == ActivatedPorts(n, kind, result) \ {""}

\* What a built-in executor publishes on is a port possible_ports offered to
\* the author, and the undelivered-edge warning to the engine: "the one
\* answer, for everybody" (port_resolution.rs).  A note is never executed.
ExecutorsLightPossiblePorts ==
  file # NotOpen =>
    \A n \in Graph.nodes : \A kind \in AllBuiltins \cap {KindOf(cat, n)} :
      n.outputs = Undeclared /\ kind.category # "annotation" /\ ~PeerRoutes(n.config) =>
        \A result \in Results(BareName(kind.name), n.config) :
          Published(n, kind, result) \subseteq PossiblePorts(n, kind)

-----------------------------------------------------------------------------
\* "An UNKNOWN kind is still bound literally" (ExecutorRegistry::bind): an id
\* no kind answers to is bound under that id alone.
UnknownKindsStayLiteral ==
  [][\A id \in HostBinds :
       (\A kind \in AllBuiltins : id \notin ToSet(Ids(kind)))
         /\ DeclaredIds(execs, id) = <<>>
         /\ (\E executor \in Executor : execs' = Bind(execs, id, executor))
       => \A other \in DOMAIN execs.byKind \ {id} :
            execs'.byKind[other] = execs.byKind[other]]_vars

=============================================================================

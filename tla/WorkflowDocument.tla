--------------------------- MODULE WorkflowDocument ---------------------------
(***************************************************************************)
(* Workflow documents: import_workflow with the connectivity analysis it   *)
(* ends with, export_workflow, and which ports a node can publish.         *)
(*                                                                         *)
(* A document is [version, nodes, edges].  Its nodes are a set of records  *)
(* [id, kind, config, outputs], ids distinct where there are any; its      *)
(* edges a set of records [source, handle, target].  Order, positions,     *)
(* labels and input ports are carried along and decide nothing.            *)
(***************************************************************************)
EXTENDS BuiltinKinds

CONSTANTS
  NoId,         \* a node without an id
  Malformed     \* in a port list: an entry that names no port

SchemaVersion == 1
NoGraph == [nodes |-> {}, edges |-> {}]

\* A JSON text that is no object, under a version no document has.
NoDocument == [version |-> -1, nodes |-> {}, edges |-> {}]

KindOf(cat, n) == Get(cat, n.kind)
NodeIds(nodes) == {n.id : n \in nodes}

-----------------------------------------------------------------------------
\* possible_ports, the kinds that derive their ports from their config.
SwitchPorts(config) ==
  LET named == IF "cases" \in DOMAIN config /\ config["cases"].tag = "texts"
               THEN config["cases"].of \ {""} ELSE {}
  IN  IF named = {} THEN {} ELSE named \cup {"default"}

\* A route is a text or a record with a port.
RouterPorts(config) ==
  LET named == IF "routes" \in DOMAIN config /\ config["routes"].tag \in {"texts", "records"}
               THEN config["routes"].of \ {""} ELSE {}
      last  == IF "fallback" \in DOMAIN config /\ config["fallback"] = False
               THEN {} ELSE {"fallback"}
  IN  IF named = {} THEN {} ELSE named \cup last

SubflowPorts(config, declared) ==
  IF "mode" \in DOMAIN config /\ config["mode"] \in {Text("stream"), Text("both")}
  THEN {"stream"} \cup IF declared = {} THEN {"out"} ELSE declared
  ELSE {}

DerivedPorts(kind, config, declared) ==
  CASE BareName(kind.name) = "switch_case" -> SwitchPorts(config)
    [] BareName(kind.name) = "llm_router"  -> RouterPorts(config)
    [] BareName(kind.name) = "subflow"     -> SubflowPorts(config, declared)
    [] OTHER -> {}

\* Mutant of PossiblePorts: the kind's declaration alone, as the PHP twin's
\* engine once read it.
MutantPossiblePorts(n, kind) ==
  IF n.outputs # Undeclared THEN n.outputs
  ELSE IF kind = NoKind THEN {"out"}
  ELSE IF kind.outputs = Undeclared THEN {} ELSE kind.outputs

PossiblePorts(n, kind) ==
  IF n.outputs # Undeclared THEN n.outputs
  ELSE IF kind = NoKind THEN {"out"}
  ELSE LET declared == IF kind.outputs = Undeclared THEN {} ELSE kind.outputs
           derived  == DerivedPorts(kind, n.config, declared)
       IN  IF derived # {} THEN derived ELSE declared

\* activated_ports: a result that names ports lights those; any other lights
\* the node's own outputs, else its kind's, else "out".
Plain       == [named |-> FALSE, ports |-> {}]
Lights(S)   == [named |-> TRUE, ports |-> S]

ActivatedPorts(n, kind, result) ==
  IF result.named THEN result.ports
  ELSE IF n.outputs # Undeclared THEN n.outputs
  ELSE IF kind # NoKind /\ kind.outputs # Undeclared THEN kind.outputs
  ELSE {"out"}

-----------------------------------------------------------------------------
\* may_float: notes, whatever the catalogue files as annotation or layout,
\* and kinds it has never heard of.
MayFloat(cat, n) ==
  /\ n.kind # Id(Unspaced, "")
  /\ \/ Matches(n.kind, "note")
     \/ ~Has(cat, n.kind)
     \/ KindOf(cat, n).category \in {"annotation", "layout"}

\* Mutant of IsTerminator: only the kind is asked, never the node itself.
MutantIsTerminator(cat, n) == Has(cat, n.kind) /\ KindOf(cat, n).outputs = {}

IsTerminator(cat, n) ==
  IF n.outputs # Undeclared THEN n.outputs = {}
  ELSE Has(cat, n.kind) /\ KindOf(cat, n).outputs = {}

\* An issue concerns a node, an edge or neither: <<id>>, its ends, or <<>>.
Issue(error, what, at) == [error |-> error, what |-> what, at |-> at]
Ends(e) == <<e.source, e.handle, e.target>>

\* check_graph_connectivity over the nodes and edges the importer kept.
Disconnected(cat, nodes, edges) ==
  {Issue(TRUE, "floats", <<n.id>>) : n \in
     {m \in nodes : /\ Cardinality(nodes) # 1 /\ ~MayFloat(cat, m)
                    /\ \A e \in edges : m.id \notin {e.source, e.target}}}
    \cup
  {Issue(TRUE, "terminal", Ends(e)) : e \in
     {d \in edges : \E n \in nodes : n.id = d.source /\ IsTerminator(cat, n)}}

-----------------------------------------------------------------------------
\* ports_from: no list is no declaration, an empty list is one, and an entry
\* that names no port is skipped.
PortsFrom(raw) ==
  IF raw \in {Undeclared, Malformed} THEN Undeclared ELSE raw \ {Malformed}

Handle(raw) == IF raw = "" THEN Undeclared ELSE raw

\* The port an edge reads.
SourcePort(e) == IF e.handle = Undeclared THEN "out" ELSE e.handle

ImportedNode(cat, raw) ==
  [id      |-> raw.id,
   kind    |-> raw.kind,
   config  |-> IF raw.config # Undeclared THEN raw.config
               ELSE IF Has(cat, raw.kind) THEN ResolvedDefaults(KindOf(cat, raw))
               ELSE EmptyConfig,
   outputs |-> PortsFrom(raw.outputs)]

\* A dangling edge is dropped.
KeptEdges(ids, edges) == {e \in edges : e.source \in ids /\ e.target \in ids}

\* What is reported of the document's nodes and edges, before the wiring.
NodeIssues(cat, raws, lenient) ==
  {Issue(TRUE, "no id", <<>>) : r \in {s \in raws : s.id = NoId}}
    \cup
  UNION {{Issue(~lenient, "unknown kind", <<r.id>>) : k \in {NoKind} \cap {KindOf(cat, r)}}
           \cup
         {Issue(FALSE, key, <<r.id>>) : key \in
            IF Has(cat, r.kind)
            THEN Issues(KindOf(cat, r), ImportedNode(cat, r).config) ELSE {}}
         : r \in {s \in raws : s.id # NoId}}

Refused(what) ==
  [ok |-> FALSE, graph |-> NoGraph, issues |-> {Issue(TRUE, what, <<>>)}]

\* import_workflow.  Only a wrong version and an unknown kind are forgiven.
Import(cat, doc, lenient) ==
  IF doc = NoDocument THEN Refused("no object")
  ELSE IF doc.version # SchemaVersion /\ ~lenient THEN Refused("version")
  ELSE
    LET raws   == {r \in doc.nodes : r.id # NoId}
        nodes  == {ImportedNode(cat, r) : r \in raws}
        ids    == NodeIds(nodes)
        kept   == KeptEdges(ids, doc.edges)
        edges  == {[e EXCEPT !.handle = Handle(@)] : e \in kept}
        issues ==
          {Issue(FALSE, "version", <<>>) : v \in {doc.version} \ {SchemaVersion}}
            \cup NodeIssues(cat, doc.nodes, lenient)
            \cup {Issue(FALSE, "dangling", Ends(e)) : e \in doc.edges \ kept}
            \cup Disconnected(cat, nodes, edges)
    IN  [ok     |-> \A i \in issues : ~i.error,
         graph  |-> [nodes |-> nodes, edges |-> edges],
         issues |-> issues]

\* Mutant of ExportedNode: an empty list of outputs left out like an absent one.
MutantExportedNode(n) ==
  [n EXCEPT !.config = IF @ = EmptyConfig THEN Undeclared ELSE @,
            !.outputs = IF @ = {} THEN Undeclared ELSE @]

\* export_workflow: an empty config is left out, an empty port list is not.
ExportedNode(n) ==
  [n EXCEPT !.config = IF @ = EmptyConfig THEN Undeclared ELSE @]

Export(graph) ==
  [version |-> SchemaVersion,
   nodes   |-> {ExportedNode(n) : n \in graph.nodes},
   edges   |-> graph.edges]

=============================================================================

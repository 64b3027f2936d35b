----------------------------- MODULE MCAuthoring -----------------------------
(***************************************************************************)
(* A host and the documents it opens, for TLC.                             *)
(***************************************************************************)
EXTENDS AuthoringProps

First(name) == Id(Unspaced, name)
Full(name)  == Id(Namespace, name)
Old(name)   == Id(Legacy, name)
Crm         == Id("@acme", "crm")

\* A kind of the host's own, and its replacement for a built-in.
MCHostKinds ==
  {[name |-> Crm, aliases |-> <<First("crm_v1")>>, category |-> "io",
    outputs |-> {}, config |-> [key \in {"mode"} |-> Text("live")],
    fields |-> {Defaulted("mode", Text("test")), Required("list")}],
   [Kind("user_input", "human", {"submitted"}, {}) EXCEPT !.aliases = <<>>]}

\* Every spelling of a gate, both names of a renamed kind, a kind of the
\* host's own, and the fallback.
MCHostBinds ==
  {First("user_input"), Old("user_input"), First("llm_branch"),
   Full("llm_router"), Crm, Star}

\* Somebody else's kind that has a built-in's bare name.
MCForeignBinds == {Id("@acme", "user_input")}

ASSUME HostOfItsOwn == HostBinds = MCHostBinds => KeepsToItsOwn

Raw(id, kind, config, outputs) ==
  [id |-> id, kind |-> kind, config |-> config, outputs |-> outputs]
Bare(id, kind) == Raw(id, kind, Undeclared, Undeclared)
With(id, kind, key, value) == Raw(id, kind, [k \in {key} |-> value], Undeclared)
Edge(s, h, t) == [source |-> s, handle |-> h, target |-> t]
Doc(nodes, edges) == [version |-> 1, nodes |-> nodes, edges |-> edges]

MCDocuments ==
  {NoDocument,
   [version |-> 2, nodes |-> {Bare("a", First("merge"))}, edges |-> {}],
   \* a chain out of the host's kind, terminal once it is known
   Doc({Bare("a", Crm), Bare("b", Old("log"))}, {Edge("a", "", "b")}),
   \* a terminal that says otherwise, and a step that says it is terminal
   Doc({Raw("a", Full("output"), Undeclared, {"x", Malformed}),
        Raw("b", First("wait"), EmptyConfig, {}), Bare("c", First("note"))},
       {Edge("a", "x", "b")}),
   Doc({Raw("a", First("variable"), Undeclared, {}), Bare("b", First("log"))},
       {Edge("a", Undeclared, "b")}),
   \* routers, one under its old name, a lane that is not wired
   Doc({With("a", First("switch_case"), "cases", Texts({"x", "y"})),
        With("b", Old("llm_branch"), "routes", Texts({"r"})),
        With("c", First("subflow"), "mode", Text("both"))},
       {Edge("a", "x", "b"), Edge("b", "r", "c"), Edge("c", "stream", "z")}),
   \* a node without an id, and an edge that named it
   Doc({Bare(NoId, First("branch")), Bare("b", First("for_each")),
        Bare("c", First("human_approval"))},
       {Edge("a", "true", "b"), Edge("b", "item", "b")}),
   Doc({Bare("a", First("manual_trigger")), Bare("b", Full("transform"))},
       {Edge("a", Undeclared, "b"), Edge("b", "out", "zz")}),
   \* one step left behind, connected by a dangling edge only
   Doc({Bare("a", First("manual_trigger")), Bare("b", First("output")),
        Bare("c", First("merge"))},
       {Edge("a", Undeclared, "b"), Edge("zz", "out", "c")}),
   \* a route its router never takes, a port nobody has, a case without a rest
   Doc({With("a", First("llm_router"), "routes", Texts({"r"})),
        With("b", Full("switch_case"), "cases", Texts({"x"})),
        Bare("c", First("notify")), Bare("d", First("output"))},
       {Edge("a", "default", "b"), Edge("b", "default", "c"), Edge("c", "sent", "d")}),
   \* a half-typed case, routes as a peer writes them, an edge out of a note
   Doc({With("a", First("switch_case"), "cases", Texts({"", "x"})),
        With("b", Full("llm_router"), "routes", Value("records", {"r"})),
        With("d", First("llm_router"), "routes", Texts({""})),
        Bare("c", First("note"))},
       {Edge("a", "x", "b"), Edge("a", "default", "d"), Edge("d", "default", "b"),
        Edge("c", "", "b")})}

=============================================================================

----------------------------- MODULE BuiltinKinds -----------------------------
(***************************************************************************)
(* The built-in node library (registry/builtin.rs) as data: which kinds    *)
(* there are, what they publish, how they were once called and what their  *)
(* config must hold.                                                       *)
(***************************************************************************)
EXTENDS KindCatalogue

Field(key) ==
  [key |-> key, required |-> FALSE, options |-> {}, default |-> Undeclared,
   repeater |-> FALSE, skipBlank |-> FALSE]
Required(key)          == [Field(key) EXCEPT !.required = TRUE]
Defaulted(key, value)  == [Field(key) EXCEPT !.default = value]
Select(key, options, s) ==
  [Field(key) EXCEPT !.options = options, !.default = Text(s)]
Fields(keys) == {Field(key) : key \in keys}

\* canonicalize: the name under the package's namespace, every other spelling
\* an alias, the declared ones last.
Canonicalized(name, declared, category, outputs, fields) ==
  [name     |-> Id(Namespace, name),
   aliases  |-> BuiltinAliases(name) \o declared,
   category |-> category,
   outputs  |-> outputs,
   config   |-> EmptyConfig,
   fields   |-> fields]

Kind(name, category, outputs, fields) ==
  Canonicalized(name, <<>>, category, outputs, fields)

-----------------------------------------------------------------------------
Triggers ==
  <<Kind("manual_trigger", "trigger", {"out"}, {}),
    Kind("webhook_trigger", "trigger", {"out"}, Fields({"path"})),
    Kind("schedule_trigger", "trigger", {"out"},
         {Field("cron"), Defaulted("timezone", Text("UTC"))})>>

Humans ==
  <<Kind("user_input", "human", {"out"}, {}),
    Kind("human_approval", "human", {"approved", "denied"}, {}),
    Kind("notify", "human", {"out"},
         {Select("channel", {"slack", "email", "sms"}, "slack")}
           \cup Fields({"to", "message"}))>>

Routing ==
  <<Kind("branch", "logic", {"true", "false"}, {Required("condition")}),
    Kind("switch_case", "logic", {"default"}, {Required("value"), Field("cases")}),
    Kind("for_each", "logic", {"item", "done"}, Fields({"source"})),
    Kind("merge", "logic", {"out"}, {Select("mode", {"merge", "concat"}, "merge")}),
    Kind("wait", "logic", {"out"},
         {Select("mode", {"duration", "until"}, "duration"), Field("duration")})>>

Shaping ==
  <<Kind("transform", "logic", {"out"},
         {Select("mode", {"fields", "expression"}, "fields"),
          [Field("fields") EXCEPT !.repeater = TRUE, !.skipBlank = TRUE,
                                  !.default = Texts({"blank"})],
          Field("expression")}),
    Kind("subflow", "logic", {"out"}, {Required("workflow")})>>

Data ==
  <<Kind("memory_store", "data", {"out"},
         {Select("operation", {"read", "write", "append"}, "read"),
          Required("key"), Field("value")}),
    Kind("data_store", "data", {"out"},
         {Select("operation", {"get", "set", "delete", "query", "list"}, "get"),
          Defaulted("table", Text("default"))}
           \cup Fields({"key", "value", "where"})),
    Kind("variable", "data", {"out"}, Fields({"value"}))>>

Models ==
  <<Kind("llm_call", "ai", {"out"},
         {Required("prompt")} \cup Fields({"model", "temperature"})),
    Canonicalized("llm_router",
      <<Id(Unspaced, "llm_branch"), Id(Namespace, "llm_branch"),
        Id(Legacy, "llm_branch")>>,
      "ai", {"default"}, Fields({"routes"})),
    Kind("tool_use", "ai", {"out"}, {Required("tool"), Field("args")}),
    Kind("embed_search", "ai", {"out"},
         {Required("query"), Defaulted("topK", Value("number", {}))})>>

Transports ==
  <<Kind("api_request", "io", {"out"},
         {Select("method", {"GET", "POST", "PUT", "PATCH", "DELETE"}, "GET"),
          Required("url")} \cup Fields({"headers", "body"})),
    Kind("webhook_out", "io", {"out"},
         {Required("url")} \cup Fields({"headers", "payload"}))>>

\* A terminal kind declares that it has no outputs, which is not the same as
\* declaring nothing.
Terminals ==
  <<Kind("output", "output", {}, {}),
    Kind("log", "output", {},
         {Select("level", {"info", "warn", "error", "debug"}, "info"),
          Field("message")})>>

Kinds == Triggers \o Humans \o Routing \o Shaping \o Data \o Models
           \o Transports \o Terminals

StructuralKinds ==
  <<Kind("note", "annotation", Undeclared, Fields({"text"})),
    Kind("subgraph", "structural", {"out"}, Fields({"graph"}))>>

AgentKind ==
  Kind("agent", "ai", {"out"},
       {Defaulted("max_steps", Value("number", {}))}
         \cup Fields({"model", "instructions", "tools"}))

\* builtin::register, with or without the structural kinds.
Library(structural) == Kinds \o (IF structural THEN StructuralKinds ELSE <<>>)

AllBuiltins == ToSet(Kinds \o StructuralKinds \o <<AgentKind>>)

\* kind_ids_for: every id of the built-in of this name, none if there is none.
BuiltinIds(name) ==
  UNION {ToSet(Ids(k)) : k \in {b \in AllBuiltins : BareName(b.name) = name}}

\* The kinds builtin::executors binds a default executor to.
Executable == {BareName(k.name) : k \in ToSet(Kinds)} \cup {"subgraph"}

=============================================================================

------------------------------ MODULE Authoring ------------------------------
(***************************************************************************)
(* A host that sets itself up and opens workflow documents, in any order   *)
(* of the calls it may make: installing the built-in kinds and executors,  *)
(* registering kinds of its own, handing the catalogue to the executors,   *)
(* binding executors of its own, and importing.                            *)
(***************************************************************************)
EXTENDS ExecutorLookup, WorkflowDocument

CONSTANTS
  HostKinds,    \* the kinds a host registers
  HostBinds,    \* the ids a host binds an executor of its own under
  Executor,     \* the host's executors
  Documents,    \* what it opens
  NotOpen,      \* no document has been opened
  MaxCalls      \* bound: how many calls set it up

\* Every kind a catalogue may hold.
AnyKind == AllBuiltins \cup HostKinds

ASSUME AuthoringAssumption ==
  /\ MaxCalls \in Nat
  /\ NoExecutor \notin Executor
  /\ NoKind \notin AnyKind
  /\ \A kind \in HostKinds : kind.aliases \in Seq(ToSet(kind.aliases))

\* None is no value: no port list, no config.
ASSUME NoneAssumption ==
  /\ Undeclared \notin
       {{}, {"out"}, {"default"}, {"true", "false"}, {"item", "done"},
        {"approved", "denied"}, EmptyConfig}
  /\ \A kind \in AnyKind : ResolvedDefaults(kind) # Undeclared

\* What the parser makes of a JSON text.
ASSUME DocumentsAssumption ==
  \A doc \in Documents :
    /\ IsFiniteSet(doc.nodes)
    /\ \A raw \in doc.nodes :
         \/ raw.outputs \in {Undeclared, Malformed}
         \/ raw.outputs \ {Malformed} \notin {Undeclared, Malformed}
    /\ \A e \in doc.edges :
         e = [source |-> e.source, handle |-> e.handle, target |-> e.target]

VARIABLES
  cat,        \* the NodeKindRegistry
  execs,      \* the ExecutorRegistry
  file,       \* the ImportResult of the last import, and how it was asked for
  stale,      \* the catalogue changed since
  calls,      \* how many calls set this up
  asked,      \* history: the executor last bound for a built-in kind
  literal     \* history: ids bound that the registry did not know as a kind

vars == <<cat, execs, file, stale, calls, asked, literal>>

BuiltinName == {BareName(k.name) : k \in AllBuiltins}

Init ==
  /\ cat = Empty
  /\ execs = NoBindings
  /\ file = NotOpen
  /\ stale = FALSE
  /\ calls = 0
  /\ asked = [name \in BuiltinName |-> NoExecutor]
  /\ literal = {}

Call == calls < MaxCalls /\ calls' = calls + 1

\* Bound: one host binds executors or opens documents, not both.  An import
\* reads no binding and a binding no document; what they share is cat.
Runner == file = NotOpen
Editor == execs = NoBindings

\* Registering changes what an imported graph means.
Catalogued(next) ==
  /\ cat' = next
  /\ stale' = (file # NotOpen /\ (stale \/ next # cat))
  /\ UNCHANGED <<execs, file, asked, literal>>

\* builtin::register.
InstallKinds(structural) ==
  Call /\ Catalogued(RegisterAll(cat, Library(structural)))

RegisterKind(kind) == Call /\ Catalogued(Register(cat, kind))

\* builtin::executors.
InstallExecutors ==
  /\ Call /\ Runner
  /\ execs' = DefaultExecutors
  /\ asked' = [name \in BuiltinName |->
                 IF name \in Executable THEN name ELSE NoExecutor]
  /\ literal' = {}
  /\ UNCHANGED <<cat, file, stale>>

\* with_kinds: the executors keep the catalogue as it is now.
AttachKinds ==
  /\ Call /\ Runner
  /\ execs' = [execs EXCEPT !.kinds = cat]
  /\ UNCHANGED <<cat, file, stale, asked, literal>>

\* The built-ins an id names, as far as the registry it is bound in can tell.
Named(id) ==
  {name \in BuiltinName :
     IF DeclaredIds(execs, id) # <<>>
     THEN Matches(Get(execs.kinds, id).name, name)
     ELSE Matches(id, name)}

BindKind(id, executor) ==
  /\ Call /\ Runner
  /\ execs' = Bind(execs, id, executor)
  /\ asked' = [name \in BuiltinName |->
                 IF name \in Named(id) THEN executor ELSE asked[name]]
  /\ literal' = IF Reach(execs, id) = {id} THEN literal \cup {id}
                ELSE literal \ Reach(execs, id)
  /\ UNCHANGED <<cat, file, stale>>

\* import_workflow; an import does not change what it reads from.
Open(doc, lenient) ==
  /\ Editor
  /\ file' = [result |-> Import(cat, doc, lenient), lenient |-> lenient]
  /\ stale' = FALSE
  /\ UNCHANGED <<cat, execs, calls, asked, literal>>

Next ==
  \/ \E structural \in BOOLEAN : InstallKinds(structural)
  \/ \E kind \in HostKinds : RegisterKind(kind)
  \/ InstallExecutors
  \/ AttachKinds
  \/ \E id \in HostBinds, executor \in Executor : BindKind(id, executor)
  \/ \E doc \in Documents, lenient \in BOOLEAN : Open(doc, lenient)

Spec == Init /\ [][Next]_vars

=============================================================================

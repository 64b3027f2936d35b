---------------------------- MODULE ExecutorLookup ----------------------------
(***************************************************************************)
(* Which executor runs a node (executors.rs): the bindings by kind id, the *)
(* "*" fallback among them, and the catalogue the registry was given, if   *)
(* any.  Bindings by node id outrank these and belong to module            *)
(* FencedReplay, whose fences they are.                                    *)
(***************************************************************************)
EXTENDS BuiltinKinds

CONSTANTS
  NoCatalogue,  \* Option::None: the registry was given no catalogue
  NoExecutor    \* resolve_for found nothing

Star == Id(Unspaced, "*")

NoBindings == [byKind |-> [id \in {} |-> NoExecutor], kinds |-> NoCatalogue]

DeclaredIds(execs, id) ==
  IF execs.kinds = NoCatalogue THEN <<>> ELSE IdsFor(execs.kinds, id)

\* alias_ids_for: the other ids of a kind the registry knows, by its own
\* catalogue or else by the built-in of that bare name; none otherwise.
AliasIds(execs, id) ==
  LET own      == ToSet(DeclaredIds(execs, id))
      declared == IF own # {} THEN own ELSE BuiltinIds(BareName(id))
  IN  IF declared = {} THEN {} ELSE (declared \cup ToSet(Variants(id))) \ {id}

\* Mutant of Reach: the id as the caller spelled it, and nothing else.
MutantReach(execs, id) == {id}

\* The ids bind writes.  "*" is no kind and has no other spelling.
Reach(execs, id) == {id} \cup IF id = Star THEN {} ELSE AliasIds(execs, id)

Bind(execs, id, executor) ==
  LET reached == Reach(execs, id)
  IN  [execs EXCEPT !.byKind =
         [i \in DOMAIN @ \cup reached |-> IF i \in reached THEN executor ELSE @[i]]]

\* kind_candidates: the id itself, the ids its kind declares, its variants.
Candidates(execs, id) == <<id>> \o DeclaredIds(execs, id) \o Variants(id)

\* resolve_for, below the node-id bindings.
Resolve(execs, id) ==
  LET hit == SelectInSeq(Candidates(execs, id), LAMBDA c : c \in DOMAIN execs.byKind)
  IN  IF hit # 0 THEN execs.byKind[Candidates(execs, id)[hit]]
      ELSE IF Star \in DOMAIN execs.byKind THEN execs.byKind[Star]
      ELSE NoExecutor

\* builtin::executors: a default executor, named after its kind, bound under
\* the bare name of every kind that has one.  No two of them reach one id, so
\* the order they are bound in shows nowhere.
DefaultExecutors ==
  LET reached(name) == Reach(NoBindings, Id(Unspaced, name))
  IN  [NoBindings EXCEPT !.byKind =
         [id \in UNION {reached(name) : name \in Executable} |->
            CHOOSE name \in Executable : id \in reached(name)]]

=============================================================================

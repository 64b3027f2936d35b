---------------------------- MODULE KindCatalogue ----------------------------
(***************************************************************************)
(* The catalogue of node kinds (NodeKindRegistry): the kinds in order of   *)
(* registration and an index from every id a kind answers to, in every     *)
(* spelling, to its place.                                                 *)
(*                                                                         *)
(* A kind is a record of what decides anything: its name and aliases, its  *)
(* category, its outputs (Undeclared, or a set of port ids, the empty set  *)
(* included), its default config and its config fields.  Labels, inputs,   *)
(* output shapes and the other words of the editor are left out.           *)
(*                                                                         *)
(* A config is a function from keys to values, a value a record [tag, of]: *)
(* a null, a text, false, a list or map of texts, a list of records known  *)
(* by a text each, or something else.                                      *)
(***************************************************************************)
EXTENDS KindIds, Integers, FiniteSets, SequencesExt

CONSTANTS
  Undeclared,   \* Option::None: no outputs, no handle, no config, no default
  NoKind        \* Option::None: no such kind

Value(tag, of) == [tag |-> tag, of |-> of]
Null        == Value("null", {})
False       == Value("false", {})
Text(s)     == Value("text", {s})
Texts(S)    == Value("texts", S)
Present(config, key) == key \in DOMAIN config /\ config[key] # Null

EmptyConfig == [key \in {} |-> Null]

-----------------------------------------------------------------------------
\* NodeKind::ids, and every spelling of every one of them.
Ids(kind) == <<kind.name>> \o kind.aliases
Spellings(kind) ==
  UNION {ToSet(Variants(id)) : id \in ToSet(Ids(kind))}

\* The default config first, then the fields that declare a default.
ResolvedDefaults(kind) ==
  LET open == {f \in kind.fields : f.default # Undeclared}
  IN  [key \in DOMAIN kind.config \cup {f.key : f \in open} |->
         IF key \in DOMAIN kind.config THEN kind.config[key]
         ELSE (CHOOSE f \in open : f.key = key).default]

-----------------------------------------------------------------------------
Empty == [kinds |-> <<>>, index |-> [id \in {} |-> 0]]

\* register: a kind whose name is in the index replaces what is registered
\* there, and every spelling of its ids points to it from now on.  The old
\* kind's ids stay in the index.
Register(cat, kind) ==
  LET at == IF kind.name \in DOMAIN cat.index THEN cat.index[kind.name]
            ELSE Len(cat.kinds) + 1
      all == Spellings(kind)
  IN  [kinds |-> IF at \in DOMAIN cat.kinds THEN [cat.kinds EXCEPT ![at] = kind]
                 ELSE Append(cat.kinds, kind),
       index |-> [id \in DOMAIN cat.index \cup all |->
                    IF id \in all THEN at ELSE cat.index[id]]]

\* One registration after the other.
RegisterAll(cat, kinds) ==
  LET after[i \in 0..Len(kinds)] ==
        IF i = 0 THEN cat ELSE Register(after[i - 1], kinds[i])
  IN  after[Len(kinds)]

\* get: under the id itself or the first of its variants that is a key.
Get(cat, id) ==
  LET hit == SelectInSeq(Variants(id), LAMBDA v : v \in DOMAIN cat.index)
  IN  IF hit = 0 THEN NoKind ELSE cat.kinds[cat.index[Variants(id)[hit]]]

Has(cat, id)    == Get(cat, id) # NoKind
IdsFor(cat, id) == IF Has(cat, id) THEN Ids(Get(cat, id)) ELSE <<>>

-----------------------------------------------------------------------------
\* A repeater's rows are texts saying which of them they are: a "full" row,
\* a "blank" one, or one "missing" a required cell.
RowsLack(field, value) ==
  /\ value.tag = "texts"
  /\ "missing" \in value.of \/ ("blank" \in value.of /\ ~field.skipBlank)

\* The keys validate_config reports: a required field that is absent, a row
\* that lacks a required cell, a text that is not one of the options.
Issues(kind, config) ==
  {f.key : f \in {g \in kind.fields :
     \/ g.required /\ ~Present(config, g.key)
     \/ /\ Present(config, g.key)
        /\ IF g.repeater THEN RowsLack(g, config[g.key])
           ELSE /\ g.options # {}
                /\ config[g.key].tag = "text"
                /\ ~(config[g.key].of \subseteq g.options)}}

=============================================================================

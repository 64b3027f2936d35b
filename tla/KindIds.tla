------------------------------- MODULE KindIds -------------------------------
(***************************************************************************)
(* How the id of a node kind may be spelled (registry/kind_id.rs).  An id  *)
(* is a pair <<namespace, bare name>>: <<"", "log">> is written log, and *)
(* <<Namespace, "log">> is written @particle-academy/log.                  *)
(***************************************************************************)
EXTENDS Sequences

Unspaced  == ""                   \* the namespace of a bare name
Namespace == "@particle-academy"
Legacy    == "@fancy"

Id(ns, bare) == <<ns, bare>>
BareName(id) == id[2]

\* The aliases a built-in keeps: its bare name and the legacy namespace.
BuiltinAliases(name) == <<Id(Unspaced, name), Id(Legacy, name)>>

\* Whether an id names the built-in of this name: only under the package's
\* own namespaces, never under somebody else's.
Matches(id, name) == id \in {Id(ns, name) : ns \in {Unspaced, Namespace, Legacy}}

\* Every id this one could also be written as, in order of preference.  The
\* code drops repetitions, which no lookup tells apart.
Variants(id) ==
  <<id, Id(Namespace, BareName(id)), Id(Legacy, BareName(id)),
    Id(Unspaced, BareName(id))>>

=============================================================================

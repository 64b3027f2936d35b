----------------------------- MODULE RunIdentity -----------------------------
(***************************************************************************)
(* RunIdentity: the idempotency key of one execution of one node, and      *)
(* whether a retry may still reuse it.  An identity is a record            *)
(* [path, attempt, first]; a path is a sequence of segments [id, occ],     *)
(* outermost first.  An id is a sequence of characters, because whether    *)
(* two steps can share a key is a question about the spelling of ids; the  *)
(* run key, the same for every step of a run, is left out.                 *)
(***************************************************************************)
EXTENDS Integers, Sequences, SequencesExt

CONSTANT None       \* Option::None

Segment(id, occ) == [id |-> id, occ |-> occ]

\* str::replace of one character.
Replaced(id, char, by) ==
  FlattenSeq([i \in DOMAIN id |-> IF id[i] = char THEN by ELSE <<id[i]>>])

\* Mutant of EscapeSegment: the escape character is escaped last.
MutantEscapeSegment(id) ==
  Replaced(Replaced(Replaced(id, "/", <<"%", "2", "F">>),
                    "#", <<"%", "2", "3">>),
           "%", <<"%", "2", "5">>)

EscapeSegment(id) ==
  Replaced(Replaced(Replaced(id, "%", <<"%", "2", "5">>),
                    "/", <<"%", "2", "F">>),
           "#", <<"%", "2", "3">>)

Digit == <<"0", "1", "2", "3", "4", "5", "6", "7", "8", "9">>

\* A number as it is printed.
Decimal[n \in Nat] ==
  IF n < 10 THEN <<Digit[n + 1]>>
  ELSE Append(Decimal[n \div 10], Digit[(n % 10) + 1])

Render(seg) ==
  IF seg.occ = None THEN EscapeSegment(seg.id)
  ELSE EscapeSegment(seg.id) \o <<"#">> \o Decimal[seg.occ]

\* step_key: the rendered segments of the path and of the node, joined by "/".
StepKey(path, id) ==
  FlattenSeq([i \in DOMAIN path |-> Render(path[i]) \o <<"/">>])
    \o Render(Segment(id, None))

\* The identity of a node of the run itself, off the node's claim row.
TopIdentity(row) == [path |-> <<>>, attempt |-> row.attempts, first |-> row.first]

\* descend: one segment deeper, a first attempt on the same clock.
Descend(identity, id, occ) ==
  [path    |-> Append(identity.path, Segment(id, occ)),
   attempt |-> 1,
   first   |-> identity.first]

\* is_replay_safe, the window in the clock's unit: a first attempt always is,
\* a provider that remembers nothing (0) never is, one that never forgets
\* (None) always is.
IsReplaySafe(identity, now, window) ==
  \/ identity.attempt <= 1
  \/ window = None
  \/ window > 0 /\ now - identity.first <= window

=============================================================================

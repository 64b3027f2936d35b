----------------------------- MODULE Submissions -----------------------------
(***************************************************************************)
(* The answers a host records for the human gates of a run, and the one    *)
(* slot that says which gate the run is parked on (Submissions).  They are *)
(* shared by the host and the gates, in memory, and keyed by node id.      *)
(* An answer's value is left out: presence is all a gate tests.            *)
(***************************************************************************)
CONSTANTS
  GateId,       \* the node ids of gates
  NoNode        \* Option::None in the awaiting slot

ASSUME SubmissionsAssumption == NoNode \notin GateId

Submission == [answers : SUBSET GateId, awaiting : GateId \cup {NoNode}]

NoSubmissions == [answers |-> {}, awaiting |-> NoNode]

\* record is refused for a gate the run is not parked on.
CanRecord(subs, g) == subs.awaiting = g

Recorded(subs, g) == [subs EXCEPT !.answers = @ \cup {g}, !.awaiting = NoNode]

\* The gate that parks last takes the slot from the one before it.
Parked(subs, g) == [subs EXCEPT !.awaiting = g]

\* Mutant of Answers: a filled input is an answer, as both peers once had it.
MutantAnswers(subs, g, auto, filled) == g \in subs.answers \/ filled

\* What lets a gate pass: an answer recorded for it, or the explicit
\* autoAnswerFromInput with an input that holds a value.
Answers(subs, g, auto, filled) == g \in subs.answers \/ (auto /\ filled)

=============================================================================

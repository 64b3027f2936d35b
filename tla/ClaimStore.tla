----------------------------- MODULE ClaimStore ------------------------------
(***************************************************************************)
(* One row of the claim store and the six operations of NodeClaimStore, as *)
(* the reference InMemoryClaimStore implements them.  Each operation is    *)
(* atomic (the trait's contract), so each is an operator on one row:       *)
(* ClaimWins and SkipWins are the boolean results, Claimed .. Paused the   *)
(* row afterwards.                                                         *)
(*                                                                         *)
(* A missing row is the row Absent: every field at its NodeState::new      *)
(* value, so that with_entry's "create it as CLAIMED" needs no case of its *)
(* own.  A row's output and error text are left out: no rule reads them    *)
(* except through the status and the ports.                                *)
(***************************************************************************)
EXTENDS Integers

CONSTANTS
  Owner,      \* the owner tokens
  NoOwner,    \* Option::None in the owner field
  RowPort     \* the port ids a row can store

ASSUME OwnerAssumption == NoOwner \notin Owner

RunStatus == {"claimed", "completed", "skipped", "failed", "paused"}

Row == [status   : RunStatus \cup {"absent"},
        owner    : Owner \cup {NoOwner},
        attempts : Nat,
        first    : Nat,          \* first_attempt_at; 0 is None
        ports    : SUBSET RowPort]

Absent == [status |-> "absent", owner |-> NoOwner, attempts |-> 0,
           first |-> 0, ports |-> {}]

IsSettled(row) == row.status \in {"completed", "skipped", "failed"}
IsHeld(row)    == row.status \in {"claimed", "paused"}

\* Mutants of ClaimWins: any token re-enters; a settled row is re-entered;
\* nothing is re-entered.
MutantClaimByAnyone(row, owner) == row.status = "absent" \/ IsHeld(row)
MutantClaimSettled(row, owner)  == row.status = "absent" \/ row.owner = owner
MutantClaimOnce(row, owner)     == row.status = "absent"

\* The claim is won on a missing row, or re-entered by its own owner.
ClaimWins(row, owner) ==
  \/ row.status = "absent"
  \/ IsHeld(row) /\ row.owner = owner

\* Mutants of Claimed: a re-entry is not counted; it restamps the first
\* attempt.
MutantUncounted(row, owner, now) ==
  IF row.status = "absent"
  THEN [Absent EXCEPT !.status = "claimed", !.owner = owner,
                      !.attempts = 1, !.first = now]
  ELSE [row EXCEPT !.status = "claimed"]
MutantRestamped(row, owner, now) ==
  IF row.status = "absent"
  THEN [Absent EXCEPT !.status = "claimed", !.owner = owner,
                      !.attempts = 1, !.first = now]
  ELSE [row EXCEPT !.status = "claimed", !.attempts = @ + 1, !.first = now]

Claimed(row, owner, now) ==
  IF row.status = "absent"
  THEN [Absent EXCEPT !.status = "claimed", !.owner = owner,
                      !.attempts = 1, !.first = now]
  ELSE [row EXCEPT !.status = "claimed", !.attempts = @ + 1]

\* No owner check and no settled check: the last writer wins.
Completed(row, ports) == [row EXCEPT !.status = "completed", !.ports = ports]
Failed(row)           == [row EXCEPT !.status = "failed", !.ports = {}]
Paused(row)           == [row EXCEPT !.status = "paused", !.ports = {}]

\* Mutant of SkipWins: a second caller's skip counts too.
MutantSkipAlways(row) == TRUE

\* Skipping is the one checkpoint that is refused on a settled row.
SkipWins(row) == ~IsSettled(row)
Skipped(row)  == [row EXCEPT !.status = "skipped", !.ports = {}]

Released == Absent

=============================================================================

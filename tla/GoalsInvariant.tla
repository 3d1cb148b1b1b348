---------------------------- MODULE GoalsInvariant -----------------------------
(***************************************************************************)
(* The inductive invariant behind CompletedWhenReached.                    *)
(*                                                                         *)
(* A commit decides on the row as it was read, so the invariant says what  *)
(* a request in flight has read, and that a goal remembers the first       *)
(* request that completed it for as long as it exists.                     *)
(***************************************************************************)
EXTENDS Goals

\* What the arguments are, and what an update has read: an open goal.
Shapes ==
    \A r \in Requests : pc[r] # "idle" =>
        /\ call[r] \in Call /\ call[r].no <= begun
        /\ call[r].op = "update" => call[r].body \in Edits
        /\ pc[r] = "commit" => call[r].seen \in Goal
        /\ AtCommit(r, "update") => call[r].seen.status = "ACTIVE"

\* An id not drawn yet has no goal, and nobody has completed it.
Identities == \A g \in Ids : g > begun => goal[g] = Null /\ closedBy[g] = Null

\* Requests in flight have been so together.
InFlightTogether ==
    \A q, r \in Requests : q # r /\ pc[q] # "idle" /\ pc[r] # "idle" =>
        {call[q].no, call[r].no} \in overlapped

\* A goal is completed from the commit that closedBy names on: no update opens it again.
ClosedForGood ==
    \A g \in Ids : goal[g] # Null => (goal[g].status = "COMPLETED" <=> closedBy[g] # Null)

IInv ==
    TypeOK /\ Shapes /\ Identities /\ InFlightTogether /\ ClosedForGood /\ CompletedWhenReached
=============================================================================

----------------------------- MODULE MCAccounts ------------------------------
(***************************************************************************)
(* An instance of UserData for TLC.                                        *)
(***************************************************************************)
EXTENDS UserData, TLC

CONSTANTS a1, p1, p2, r1, r2, r3, q1, q2, u1, u2, g1, s1

\* A partial update of a goal.
Edit(target, current, expired) == [target |-> target, current |-> current, expired |-> expired]

MCEdits == {Edit(1, Null, Null), Edit(2, Null, Null), Edit(Null, 1, Null), Edit(Null, 2, FALSE)}

\* Requests and passwords are interchangeable, and all properties are invariants.
Symmetry ==
    Permutations({r1, r2, r3}) \cup Permutations({q1, q2}) \cup Permutations({p1, p2})
=============================================================================

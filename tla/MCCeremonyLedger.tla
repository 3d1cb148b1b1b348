-------------------------- MODULE MCCeremonyLedger ---------------------------
(***************************************************************************)
(* Instances of CeremonyLedger for TLC: two members of a family.           *)
(***************************************************************************)
EXTENDS CeremonyInvariant, TLC

CONSTANTS u1, u2, g, n

OneFamily == (u1 :> g) @@ (u2 :> g)

Sends == [name |-> n, direction |-> "SENT"]
Receives == [name |-> n, direction |-> "RECEIVED"]

\* An event, and a transaction without one.
TwoCreates ==
    {[amount |-> 3, discount |-> 0, area |-> "EVENT", event |-> Sends],
     [amount |-> 3, discount |-> 0, area |-> "OTHER", event |-> Null]}

Unsent == [amount |-> Null, discount |-> Null, area |-> Null, event |-> Null]

\* Partial updates: the amount, the discount and the area, the area and the event.
ThreeEdits ==
    {[Unsent EXCEPT !.amount = 4], [Unsent EXCEPT !.discount = 1, !.area = "EVENT"],
     [Unsent EXCEPT !.area = "OTHER", !.event = Receives]}

Symmetry == Permutations(Requests) \cup Permutations(Users)
=============================================================================

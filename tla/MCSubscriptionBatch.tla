------------------------- MODULE MCSubscriptionBatch -------------------------
(***************************************************************************)
(* Instances of SubscriptionBatch for TLC, around the end of February 2025:*)
(* the 28th is the last day of its month and a Friday.                     *)
(***************************************************************************)
EXTENDS SubscriptionBatch, TLC

On(y, m, d) == [year |-> y, month |-> m, day |-> d]

Feb27 == On(2025, 2, 27)

Mar1Ordinal == Ordinal(On(2025, 3, 1))

Mar7Ordinal == Ordinal(On(2025, 3, 7))

\* The 31st is clamped to 28 February; the weekly plan is billed on Fridays too.
EndOfMonth == [cycle |-> "MONTHLY", day |-> 31, start |-> On(2024, 12, 31), notify |-> 1]

Fridays == [cycle |-> "WEEKLY", day |-> 1, start |-> On(2025, 2, 21), notify |-> 0]

TwoPlans == {EndOfMonth, Fridays}

\* Announced a week ahead.
EarlyFridays == {[Fridays EXCEPT !.notify = 7]}

NoDates == {}

Symmetry == Permutations(Subs) \cup Permutations(Names) \cup Permutations(Batches)

LastOfFebruary == {On(2025, 2, 28)}
=============================================================================

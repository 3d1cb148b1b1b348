------------------------------- MODULE MCBooks -------------------------------
(***************************************************************************)
(* An instance of Books for TLC: fifteen months around a leap day, and     *)
(* partitions from the last month that the tables are made with, over a    *)
(* turn of the year.                                                       *)
(***************************************************************************)
EXTENDS Books, TLC

CONSTANTS u1, u2, u3, i1, i2, i3

On(y, m, d) == [year |-> y, month |-> m, day |-> d]

FirstDay == On(2023, 12, 1)

LastWalked == On(2025, 3, 2)

MCSchedules ==
    [cycle : {"MONTHLY", "YEARLY"}, day : {1, 15, 28, 29, 30, 31},
     start : {On(2023, m, 17) : m \in {1, 2, 4, 12}}]
    \cup [cycle : {"WEEKLY"}, day : {1}, start : {On(2024, 2, d) : d \in 22 .. 28}]

MCSettings == [payment : {1, 15, 28, 29, 30, 31}, start : {1, 2, 16, 28, 29, 30, 31}]

MCDates == {On(2024, 1, 31), On(2024, 2, 29), On(2024, 3, 1)}

\* Cycles by the start days 31 and 1, and days that are those of no cycle: out of order,
\* and a day too long.
MCFilings ==
    [start : {On(2024, 2, 29)}, end : {On(2024, 3, 30), On(2024, 1, 31)}]
    \cup [start : {On(2024, 2, 1)}, end : {On(2024, 2, 29), On(2024, 3, 1)}]

Kind(on, type, area, category, asset, amount, private) ==
    [date |-> on, type |-> type, area |-> area, category |-> category, asset |-> asset,
     amount |-> amount, private |-> private]

MCKinds ==
    {Kind(On(2024, 12, 31), "EXPENSE", "GENERAL", "food", "card", 5, FALSE),
     Kind(On(2025, 1, 1), "EXPENSE", "CAR", "food", "cash", 2, FALSE),
     Kind(On(2024, 12, 30), "EXPENSE", "SUBSCRIPTION", "media", "card", 2, TRUE),
     Kind(On(2024, 12, 31), "EXPENSE", "CAR", "media", "cash", 0 - 3, FALSE),
     Kind(On(2024, 12, 31), "INCOME", "GENERAL", "food", "cash", 4, FALSE)}

MCAmounts == {0 - 1, 3}

MCPlans == [year : {2024}, month : {12}, category : {"food", "media"}, amount : {3}]

MCRatios == {<<1>>, <<1, 1>>, <<1, 2>>, <<0, 1>>, <<2, 0, 1>>, <<1, 3, 3>>, <<3, 0 - 1>>}

Installed == On(2026, 8, 1)

MCPrepared == {Installed}

MCMonths == {On(2026, m, 1) : m \in 8 .. 12} \cup {On(2027, m, 1) : m \in 1 .. 4}

\* Users and ids of Household are interchangeable, and the properties are invariants.
Symmetry ==
    Permutations({u1, u2, u3}) \cup Permutations({i1, i2, i3})
=============================================================================

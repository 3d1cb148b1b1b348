-------------------------------- MODULE Books ---------------------------------
(***************************************************************************)
(* What is computed from dates and transactions: the schedules of          *)
(* subscriptions (BillingDates), the calendar of a card (BillingCycles),   *)
(* what is billed with it (CardBilling), the books of a family group       *)
(* (Household), and the partitions of the chat (Partitions).               *)
(*                                                                         *)
(* They share no variable, so that one run explores them together: each    *)
(* behaviour is one of a single part, chosen in its first state, and the   *)
(* others stay as they begin.  The parts "subscription" and "cycle" walk a *)
(* subscription schedule, or the setting of a card, through the days from  *)
(* From to To.                                                             *)
(***************************************************************************)
EXTENDS BillingCycles, FiniteSets, Sequences

CONSTANTS
    Schedules, Settings, Price, From, To,    \* the walks
    Holders, Days, Dates, Amounts,           \* CardBilling
    Discounts, Filings, CardIds,
    Users, Kinds, Plans, Ratios, Ids,        \* Household
    Tables, Prepared, Ahead, First,          \* Partitions
    ChatMonths,
    Null

ASSUME WalkAssumption ==
    /\ \A s \in Schedules : HasSchedule(s)
    /\ Settings \subseteq Setting
    /\ Price \in Nat
    /\ CalendarDay(From) /\ CalendarDay(To)
    /\ From.year > 1

ASSUME CardAssumption ==
    /\ IsFiniteSet(CardIds) /\ IsFiniteSet(Dates)
    /\ Days \subseteq 1 .. 31 /\ Amounts \subseteq Int /\ Discounts \subseteq Nat
    /\ \A d \in Dates \cup {filing.start : filing \in Filings} : CalendarDay(d) /\ d.year > 1

ASSUME BookAssumption ==
    /\ IsFiniteSet(Ids)
    /\ \A kind \in Kinds :
          /\ CalendarDay(kind.date) /\ kind.date.year > 1
          /\ kind.amount \in Int /\ Null \notin {kind.category, kind.area}
    /\ \A plan \in Plans : plan.amount \in Int

VARIABLES
    part, schedule, date,
    card, holders, charges, discounts,
    entries, budgets, members,
    month, partitions, strays, succeeded

billing == INSTANCE CardBilling WITH Users <- Holders, Ids <- CardIds

books == INSTANCE Household

\* parse_ratio divides by the sum of the parts.
ASSUME RatioAssumption == \A ratio \in Ratios : ratio \in Seq(Int) /\ books!SumOf(ratio) # 0

chat == INSTANCE Partitions WITH Months <- ChatMonths

ASSUME ChatAssumption == chat!PartitionsAssumption

walkVars == <<schedule, date>>
cardVars == <<card, holders, charges, discounts>>
bookVars == <<entries, budgets, members>>
chatVars == <<month, partitions, strays, succeeded>>
vars == <<part, walkVars, cardVars, bookVars, chatVars>>

Init ==
    /\ \/ part = "subscription" /\ schedule \in Schedules
       \/ part = "cycle" /\ schedule \in Settings
       \/ part \in {"card", "household", "partitions"} /\ schedule = Null
    /\ date = From
    /\ billing!Init
    /\ part # "card" => holders = {CHOOSE u \in Holders : TRUE}
    /\ books!Init
    /\ chat!Init

\* Midnight.
Walk ==
    /\ ~NotBefore(date, To)
    /\ date' = Tomorrow(date)
    /\ UNCHANGED schedule

Next ==
    /\ UNCHANGED part
    /\ \/ part \in {"subscription", "cycle"} /\ Walk
          /\ UNCHANGED <<cardVars, bookVars, chatVars>>
       \/ part = "card" /\ billing!Next /\ UNCHANGED <<walkVars, bookVars, chatVars>>
       \/ part = "household" /\ books!Next /\ UNCHANGED <<walkVars, cardVars, chatVars>>
       \/ part = "partitions" /\ chat!Next /\ UNCHANGED <<walkVars, cardVars, bookVars>>

Spec == Init /\ [][Next]_vars

-----------------------------------------------------------------------------
(* Properties.                                                             *)

DaysOf(y) == {d \in [year : {y}, month : 1 .. 12, day : 1 .. 31] : CalendarDay(d)}

\* What process_subscriptions charges in a year.
ChargedIn(y) == Price * Cardinality({d \in DaysOf(y) : IsBillingDay(schedule, d)})

\* On every date the detail view and the notices name, as the next payment, the first
\* date on which process_subscriptions will charge the subscription; the dates advance by one
\* day, through short months, leap days and turns of the year.  The yearly cost in the
\* summary is never more than a year charges, and less only by the rounding of a
\* twelfth, or by the weeks beyond four in each month.
DatesAgree ==
    part = "subscription" =>
        /\ NextIsFirstBillingDay(schedule, date)
        /\ date.month = 1 /\ date.day = 1 =>
              /\ YearlyTotal(schedule.cycle, Price) <= ChargedIn(date.year)
              /\ ChargedIn(date.year) - YearlyTotal(schedule.cycle, Price)
                    <= IF schedule.cycle = "WEEKLY" THEN 5 * Price ELSE 11
        /\ Ordinal(Tomorrow(date)) = Ordinal(date) + 1
        /\ Yesterday(Tomorrow(date)) = date

\* BillingCycles: billing cycles neither overlap nor leave a gap, whatever days they are
\* set to, and are paid in order; with the default start day, each on a date of its own.
CyclesTile == part = "cycle" => CyclesTileAt(schedule, date)

\* CardBilling: over its cycles a card bills every transaction once, and counts once every
\* discount that was filed under one of them.
BillsAddUp == part = "card" => billing!BillsAddUp

\* Household: statistics, budgets and the group's view add up to one another.
ViewsAgree == part = "household" => books!ViewsAgree

\* Household: settlements pay all that is owed, but for what members who left have spent.
\* Budgets do not matter to it: the states without one are all the cases there are.
SettlementBalances ==
    part = "household" /\ (\A i \in DOMAIN budgets : budgets[i] = Null) => books!SettlementBalances

\* Partitions: rows end outside of the partition of their month only when no run of the
\* script has succeeded in time, and only they can have a run refused.
PartitionsKeepUp == part = "partitions" => chat!PartitionsKeepUp
=============================================================================

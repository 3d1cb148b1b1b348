---------------------------- MODULE BillingDates -----------------------------
(***************************************************************************)
(* When a subscription is charged (app/services/subscription_batch_service *)
(* and subscription_service): the batch asks of one date whether it is a   *)
(* billing day, the detail view and the notices compute the next billing   *)
(* date.  The two are written separately and must agree.                   *)
(*                                                                         *)
(* A date is a record of the Gregorian calendar, as datetime.date is.      *)
(***************************************************************************)
EXTENDS Integers

Date == [year : Nat \ {0}, month : 1 .. 12, day : 1 .. 31]

\* The schedule of a subscription: cycle, billing_day, start_date.
HasSchedule(s) == s.cycle \in {"MONTHLY", "YEARLY", "WEEKLY"} /\ s.day \in 1 .. 31 /\ s.start \in Date

-----------------------------------------------------------------------------
(* The standard library: calendar.monthrange, timedelta, toordinal.        *)

IsLeap(y) == y % 4 = 0 /\ (y % 100 # 0 \/ y % 400 = 0)

LastDay(y, m) ==
    CASE m = 2 -> IF IsLeap(y) THEN 29 ELSE 28
      [] m \in {4, 6, 9, 11} -> 30
      [] OTHER -> 31

\* A date that exists.
CalendarDay(d) == d \in Date /\ d.day <= LastDay(d.year, d.month)

DaysBeforeMonth == <<0, 31, 59, 90, 120, 151, 181, 212, 243, 273, 304, 334>>

\* Days since 1 January of year 1, counted from 1.
Ordinal(d) ==
    LET y == d.year - 1
    IN  365 * y + y \div 4 - y \div 100 + y \div 400
        + DaysBeforeMonth[d.month] + (IF d.month > 2 /\ IsLeap(d.year) THEN 1 ELSE 0) + d.day

\* Monday is 0.
Weekday(d) == (Ordinal(d) + 6) % 7

NextMonth(d) ==
    IF d.month = 12 THEN [year |-> d.year + 1, month |-> 1, day |-> 1]
    ELSE [d EXCEPT !.month = @ + 1, !.day = 1]

\* d + timedelta(days=k), for k up to 28
Plus(d, k) ==
    IF d.day + k <= LastDay(d.year, d.month) THEN [d EXCEPT !.day = @ + k]
    ELSE [NextMonth(d) EXCEPT !.day = d.day + k - LastDay(d.year, d.month)]

Tomorrow(d) == Plus(d, 1)

Yesterday(d) ==
    CASE d.day > 1 -> [d EXCEPT !.day = @ - 1]
      [] d.day = 1 /\ d.month > 1 ->
            [d EXCEPT !.month = @ - 1, !.day = LastDay(d.year, d.month - 1)]
      [] d.day = 1 /\ d.month = 1 -> [year |-> d.year - 1, month |-> 12, day |-> 31]

NotBefore(d, e) ==
    \/ d.year > e.year
    \/ d.year = e.year /\ d.month > e.month
    \/ d.year = e.year /\ d.month = e.month /\ d.day >= e.day

-----------------------------------------------------------------------------
(* The code.                                                               *)

\* min(billing_day, last_day)
Clamped(s, y, m) == IF s.day > LastDay(y, m) THEN LastDay(y, m) ELSE s.day

InMonth(s, y, m) == [year |-> y, month |-> m, day |-> Clamped(s, y, m)]

\* _is_billing_day
IsBillingDay(s, d) ==
    CASE s.cycle = "MONTHLY" -> d.day = Clamped(s, d.year, d.month)
      [] s.cycle = "YEARLY" -> s.start.month = d.month /\ d.day = Clamped(s, d.year, d.month)
      [] s.cycle = "WEEKLY" -> Weekday(s.start) = Weekday(d)

NextMonthly(s, ref) ==
    LET candidate == InMonth(s, ref.year, ref.month)
        next == NextMonth(ref)
    IN  IF NotBefore(candidate, ref) THEN candidate ELSE InMonth(s, next.year, next.month)

NextYearly(s, ref) ==
    LET candidate == InMonth(s, ref.year, s.start.month)
    IN  IF NotBefore(candidate, ref) THEN candidate
        ELSE InMonth(s, ref.year + 1, s.start.month)

\* Mutant: on its own weekday the next billing date is a week ahead.
NextWeeklyStrict(s, ref) ==
    LET ahead == Weekday(s.start) - Weekday(ref)
    IN  Plus(ref, IF ahead <= 0 THEN ahead + 7 ELSE ahead)

NextWeekly(s, ref) ==
    LET ahead == Weekday(s.start) - Weekday(ref)
    IN  Plus(ref, IF ahead < 0 THEN ahead + 7 ELSE ahead)

\* _calculate_next_billing_date, calculate_next_billing_date
NextBillingDate(s, ref) ==
    CASE s.cycle = "MONTHLY" -> NextMonthly(s, ref)
      [] s.cycle = "YEARLY" -> NextYearly(s, ref)
      [] s.cycle = "WEEKLY" -> NextWeekly(s, ref)

\* calculate_monthly_amount
MonthlyAmount(cycle, amount) ==
    CASE cycle = "MONTHLY" -> amount
      [] cycle = "YEARLY" -> amount \div 12
      [] cycle = "WEEKLY" -> amount * 4

\* get_summary: what the active subscriptions cost in a year.
YearlyTotal(cycle, amount) == 12 * MonthlyAmount(cycle, amount)

\* What the two computations promise each other: the next billing date is the first
\* date from ref on that the batch recognises as a billing day.
NextIsFirstBillingDay(s, ref) ==
    LET next == NextBillingDate(s, ref)
    IN  /\ next.day <= LastDay(next.year, next.month)
        /\ NotBefore(next, ref)
        /\ IsBillingDay(s, next)
        /\ next = IF IsBillingDay(s, ref) THEN ref ELSE NextBillingDate(s, Tomorrow(ref))
=============================================================================

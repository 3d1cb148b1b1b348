---------------------------- MODULE BillingCycles ----------------------------
(***************************************************************************)
(* The calendar of a card (app/utils/billing_cycle_utils.py): the billing  *)
(* cycle a date belongs to, and its payment date, as they are shown by     *)
(* app/services/billing_cycle_service.py.                                  *)
(***************************************************************************)
EXTENDS BillingDates

\* The setting of a card: payment_day and billing_start_day.
Setting == [payment : 1 .. 31, start : 1 .. 31]

\* clamp_day_to_month
ClampDay(day, d) == InMonth([day |-> day], d.year, d.month)

PreviousMonth(d) ==
    IF d.month = 1 THEN [year |-> d.year - 1, month |-> 12, day |-> 1]
    ELSE [d EXCEPT !.month = @ - 1, !.day = 1]

\* get_default_billing_start_day: the day after the payment.
DefaultStart(payment) == (payment % 31) + 1

\* Mutant: the cycle runs to the day on which the next one starts.
CycleOverlapping(c, ref) ==
    LET candidate == ClampDay(c.start, ref)
    IN  IF NotBefore(ref, candidate)
        THEN [start |-> candidate, end |-> ClampDay(c.start, NextMonth(ref))]
        ELSE [start |-> ClampDay(c.start, PreviousMonth(ref)), end |-> candidate]

\* get_billing_cycle, without the payment date
CycleOf(c, ref) ==
    LET candidate == ClampDay(c.start, ref)
    IN  IF NotBefore(ref, candidate)
        THEN [start |-> candidate, end |-> Yesterday(ClampDay(c.start, NextMonth(ref)))]
        ELSE [start |-> ClampDay(c.start, PreviousMonth(ref)), end |-> Yesterday(candidate)]

\* _payment_date_for_cycle: the first payment day on or after the end.
PaymentDate(c, end) ==
    IF NotBefore(ClampDay(c.payment, end), end) THEN ClampDay(c.payment, end)
    ELSE ClampDay(c.payment, NextMonth(end))

\* get_next_payment_date: the first payment day after ref.
NextPaymentDate(c, ref) ==
    IF NotBefore(ref, ClampDay(c.payment, ref)) THEN ClampDay(c.payment, NextMonth(ref))
    ELSE ClampDay(c.payment, ref)

\* get_billing_cycle of the service: a cycle as it is shown.
ShownCycle(c, ref) ==
    LET cycle == CycleOf(c, ref)
    IN  [start |-> cycle.start, end |-> cycle.end, payment |-> PaymentDate(c, cycle.end)]

\* What the calendar promises of a date: it lies in its cycle, which is that of all its
\* days; the next cycle starts on the day after it ends, and is paid no earlier.  With the
\* default start day every cycle is paid on a date of its own, the last of its days
\* or the first after them.  The payment announced as the next one is no later than that
\* of the cycle, unless this one is due on the date itself.
CyclesTileAt(c, d) ==
    LET cycle == ShownCycle(c, d)
        tomorrow == ShownCycle(c, Tomorrow(d))
        next == NextPaymentDate(c, d)
    IN  /\ NotBefore(d, cycle.start) /\ NotBefore(cycle.end, d)
        /\ IF d = cycle.end THEN tomorrow.start = Tomorrow(d) ELSE tomorrow = cycle
        /\ NotBefore(cycle.payment, cycle.end)
        /\ NotBefore(tomorrow.payment, cycle.payment)
        /\ c.start = DefaultStart(c.payment) =>
              /\ cycle.payment \in {cycle.end, Tomorrow(cycle.end)}
              /\ tomorrow # cycle => tomorrow.payment # cycle.payment
        /\ ~NotBefore(d, next)
        /\ next \in {Tomorrow(d), NextPaymentDate(c, Tomorrow(d))}
        /\ cycle.payment = d \/ NotBefore(cycle.payment, next)
=============================================================================

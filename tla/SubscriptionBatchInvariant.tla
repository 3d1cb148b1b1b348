---------------------- MODULE SubscriptionBatchInvariant ----------------------
(***************************************************************************)
(* The inductive invariant behind the theorems of SubscriptionBatchProofs. *)
(***************************************************************************)
EXTENDS SubscriptionBatch

InFlight(b) == batch[b] # Null

SameCharge(c, d) == c.name = d.name /\ c.date = d.date

SameNotice(m, n) == m.sub = n.sub /\ m.date = n.date /\ m.plan = n.plan

\* Calls are numbered in the order they start, and any two in flight overlap.
Numbers ==
    /\ \A b \in Batches : InFlight(b) => batch[b].no \in 1 .. calls
    /\ \A a, b \in Batches :
          a # b /\ InFlight(a) /\ InFlight(b) => {batch[a].no, batch[b].no} \in overlapped

\* What a call is working on is in the rows it has loaded, and what it has inserted
\* carries its number.
Work ==
    \A b \in Batches : InFlight(b) =>
        /\ \A i \in batch[b].todo : batch[b].rows[i.sub] # Null
        /\ batch[b].kind = "process" => batch[b].made \subseteq Charge
        /\ batch[b].kind = "notify" => batch[b].made \subseteq Notice
        /\ \A x \in batch[b].made : x.no = batch[b].no

\* A call has not inserted a charge twice, and not one that was on record when it looked.
ChargesApart ==
    \A b \in Batches : InFlight(b) /\ batch[b].kind = "process" =>
        \A c \in batch[b].made :
            /\ \A d \in charges : SameCharge(c, d) => {c.no, d.no} \in overlapped
            /\ \A d \in batch[b].made : SameCharge(c, d) => c = d

\* A notice is written at most notify_before_days before its payment, and not in the
\* future: the period exists_for_subscription_period looks at contains it.
InPeriod(n) == n.on >= Ordinal(n.date) - n.plan.notify /\ n.on <= Ordinal(today)

Periods ==
    /\ \A n \in notices : InPeriod(n)
    /\ \A b \in Batches : InFlight(b) /\ batch[b].kind = "notify" =>
          /\ Ordinal(batch[b].day) <= Ordinal(today)
          /\ \A i \in batch[b].todo :
                Ordinal(i.date) - Ordinal(batch[b].day) <= batch[b].rows[i.sub].plan.notify
          /\ \A n \in batch[b].made : InPeriod(n)

NoticesApart ==
    \A b \in Batches : InFlight(b) /\ batch[b].kind = "notify" =>
        \A m \in batch[b].made :
            /\ \A n \in notices : SameNotice(m, n) => {m.no, n.no} \in overlapped
            /\ \A n \in batch[b].made : SameNotice(m, n) => m = n

\* What a call without target date has loaded and found due is still to be done, or is
\* charged, unless a user has deleted the charge.
Settled(b, s, d) ==
    LET row == batch[b].rows[s]
    IN  row # Null /\ row.active /\ IsBillingDay(row.plan, d) =>
            \/ \E i \in batch[b].todo : i.sub = s /\ i.date = d
            \/ \E c \in charges \cup batch[b].made : c.name = row.name /\ c.date = d
            \/ [name |-> row.name, date |-> d] \in removed

NothingMissed ==
    \A b \in Batches :
        InFlight(b) /\ batch[b].kind = "process" /\ batch[b].target = Null =>
            \A s \in Subs, d \in {Yesterday(batch[b].day), batch[b].day} : Settled(b, s, d)

BInv ==
    /\ TypeOK /\ today.year > 1 /\ Numbers /\ Work
    /\ ChargesApart /\ ChargedOnce
    /\ Periods /\ NoticesApart /\ AnnouncedOnce
==============================================================================

----------------------------- MODULE CardBilling -----------------------------
(***************************************************************************)
(* What is billed in the cycles of a card                                  *)
(* (app/services/billing_cycle_service.py).                                *)
(*                                                                         *)
(* One card, personal or shared: its setting, the transactions made with   *)
(* it and the discounts announced for a cycle of BillingCycles.            *)
(* A discount is filed under the two days the client sends, which nothing  *)
(* compares with a cycle; the summary of a cycle has the discounts filed   *)
(* under exactly its first and last day, whoever entered them, and the     *)
(* caller's own transactions.  A request writes one row, and what it has   *)
(* read only decides whether it may: each request is one step here.        *)
(***************************************************************************)
EXTENDS BillingCycles, FiniteSetsExt

CONSTANTS
    Users,     \* those who may come to share the card
    Days,      \* days of the month for payments and starts
    Dates,     \* the dates of transactions, and those a summary is asked for
    Amounts,   \* what transactions come to: less than 0 when the discount is larger
    Discounts, \* amounts of discounts
    Filings,   \* first and last days that clients file discounts under: not only cycles
    Ids,       \* bound: the ids of rows; one whose row is gone may be drawn again
    Null       \* None, a row that does not exist

VARIABLES
    card,       \* payment_day and billing_start_day of the card, Null until they are set
    holders,    \* the users who may use the card
    charges,    \* transactions made with the card
    discounts   \* rows of ledger.billing_discounts

vars == <<card, holders, charges, discounts>>

-----------------------------------------------------------------------------
(* Requests.                                                               *)

Init ==
    /\ card = Null
    /\ \E owner \in Users : holders = {owner}
    /\ charges = [i \in Ids |-> Null]
    /\ discounts = [i \in Ids |-> Null]

\* _check_permission: the owner of a personal card, the members of the group of a shared one.
Permitted(u) == u \in holders

\* update_billing_config: Null asks for the default start day.
UpdateConfig(u, payment, start) ==
    /\ Permitted(u)
    /\ card' = [payment |-> payment,
                start |-> IF start = Null THEN DefaultStart(payment) ELSE start]
    /\ UNCHANGED <<holders, charges, discounts>>

Unused == {i \in Ids : charges[i] = Null /\ discounts[i] = Null}

\* A transaction of the user with the card.
Charge(u, date, amount) ==
    /\ \E i \in Unused :
          charges' = [charges EXCEPT ![i] = [user |-> u, date |-> date, amount |-> amount]]
    /\ UNCHANGED <<card, holders, discounts>>

\* create_discount stores the days it is sent, also of a card that has no setting yet.
CreateDiscount(u, filing, amount) ==
    /\ Permitted(u)
    /\ \E i \in Unused :
          discounts' = [discounts EXCEPT ![i] =
              [user |-> u, amount |-> amount, start |-> filing.start, end |-> filing.end]]
    /\ UNCHANGED <<card, holders, charges>>

\* update_discount and delete_discount look at who entered it, not at who has the card.
UpdateDiscount(u, i, amount) ==
    /\ discounts[i] # Null /\ discounts[i].user = u
    /\ discounts' = [discounts EXCEPT ![i].amount = amount]
    /\ UNCHANGED <<card, holders, charges>>

DeleteDiscount(u, i) ==
    /\ discounts[i] # Null /\ discounts[i].user = u
    /\ discounts' = [discounts EXCEPT ![i] = Null]
    /\ UNCHANGED <<card, holders, charges>>

\* A member joins or leaves the group that shares the card.
Join(u) ==
    /\ holders' = holders \cup {u}
    /\ UNCHANGED <<card, charges, discounts>>

Leave(u) ==
    /\ u \in holders
    /\ holders' = holders \ {u}
    /\ UNCHANGED <<card, charges, discounts>>

Next ==
    \/ \E u \in Users :
        \/ \E payment \in Days, start \in Days \cup {Null} : UpdateConfig(u, payment, start)
        \/ \E date \in Dates, amount \in Amounts : Charge(u, date, amount)
        \/ \E filing \in Filings, amount \in Discounts : CreateDiscount(u, filing, amount)
        \/ \E i \in Ids : DeleteDiscount(u, i) \/ \E amount \in Discounts : UpdateDiscount(u, i, amount)
        \/ Join(u) \/ Leave(u)

Spec == Init /\ [][Next]_vars

-----------------------------------------------------------------------------
(* The summary of a cycle.                                                 *)

\* get_billing_transactions: the caller's, whoever shares the card.
Billed(u, cycle) ==
    {i \in Ids : /\ charges[i] # Null
                 /\ charges[i].user = u
                 /\ NotBefore(charges[i].date, cycle.start)
                 /\ NotBefore(cycle.end, charges[i].date)}

\* Mutant: a discount counts in every cycle that starts no earlier.
FiledUnderLater(cycle) ==
    {i \in Ids : discounts[i] # Null /\ NotBefore(cycle.start, discounts[i].start)}

\* sum_by_asset_and_cycle
FiledUnder(cycle) ==
    {i \in Ids : discounts[i] # Null /\ discounts[i].start = cycle.start
                                     /\ discounts[i].end = cycle.end}

Total(rows, S) == MapThenSumSet(LAMBDA i : rows[i].amount, S)

\* get_billing_summary
Summary(u, ref) ==
    LET cycle == ShownCycle(card, ref)
        usage == Total(charges, Billed(u, cycle))
        discount == Total(discounts, FiledUnder(cycle))
    IN  [cycle |-> cycle, usage |-> usage, discount |-> discount,
         payment |-> IF usage > discount THEN usage - discount ELSE 0]

-----------------------------------------------------------------------------

\* By the setting c, a cycle begins on the first day and ends on the last.
AreCycle(c, first, last) ==
    /\ first = ClampDay(c.start, first)
    /\ last = Yesterday(ClampDay(c.start, NextMonth(first)))

\* However the setting has changed, and whatever days discounts were filed under, the
\* cycles of a card bill each transaction of a user exactly once.  They count once each
\* discount whose days are those of a whole cycle by the setting the card has now, and no
\* other: such a discount is in no summary at all.  What is to be paid over the cycles is
\* at least what was used less what was discounted.
BillsAddUp ==
    card # Null => \A u \in holders :
        LET all == {i \in Ids : discounts[i] # Null}
            asked == Dates \cup {discounts[i].start : i \in all}
            bills == {Summary(u, d) : d \in asked}
            sum(field) == MapThenSumSet(LAMBDA b : b[field], bills)
            mine == {i \in Ids : charges[i] # Null /\ charges[i].user = u}
            kept == {i \in all : AreCycle(card, discounts[i].start, discounts[i].end)}
        IN  /\ sum("usage") = Total(charges, mine)
            /\ UNION {FiledUnder(b.cycle) : b \in bills} = kept
            /\ sum("discount") = Total(discounts, kept)
            /\ sum("payment") >= sum("usage") - sum("discount")
=============================================================================

----------------------------- MODULE Partitions ------------------------------
(***************************************************************************)
(* Monthly partitions of the tables of the AI chat.                        *)
(* scripts/create_tables.sql makes the tables with a DEFAULT partition and *)
(* one for each of some months; scripts/create_monthly_partitions.py, run  *)
(* by cron on the first of a month, makes those of that month and the next *)
(* ones, for both tables in one transaction.                               *)
(*                                                                         *)
(* A row goes to the partition of the month it was created in, and to the  *)
(* DEFAULT one when there is none.  PostgreSQL then refuses to create that *)
(* partition, so that a run which is late may never succeed again.  A      *)
(* month is the date of its first day; the clocks of the program and of    *)
(* the database are taken to agree on it.                                  *)
(***************************************************************************)
EXTENDS BillingDates

CONSTANTS
    Tables,   \* PARTITION_TABLES
    Prepared, \* the months that create_tables.sql makes partitions for
    Ahead,    \* months_ahead
    First,    \* the month in which the program is installed
    Months    \* bound: the months of a behaviour, and those a run in them prepares

\* What the constants are assumed to be; Books assumes it of its instance.
PartitionsAssumption == CalendarDay(First) /\ Ahead \in Nat

VARIABLES
    month,       \* the current month
    partitions,  \* the months that have a partition, by table
    strays,      \* the months of which DEFAULT has rows, by table
    succeeded    \* history: the months in which a run has succeeded

vars == <<month, partitions, strays, succeeded>>

Init ==
    /\ month = First
    /\ partitions = [t \in Tables |-> Prepared]
    /\ strays = [t \in Tables |-> {}]
    /\ succeeded = {}

\* m and the k months after it.
MonthsFrom(m, k) ==
    LET at[i \in 0 .. k] == IF i = 0 THEN m ELSE NextMonth(at[i - 1])
    IN  {at[i] : i \in 0 .. k}

\* Mutant: months_ahead months, the current one among them.
TargetsShort(m) == MonthsFrom(m, Ahead - 1)

\* The targets of create_partitions.
Targets(m) == MonthsFrom(m, Ahead)

\* A session or a message is created.
Insert(t) ==
    /\ strays' = IF month \in partitions[t] THEN strays
                 ELSE [strays EXCEPT ![t] = @ \cup {month}]
    /\ UNCHANGED <<month, partitions, succeeded>>

\* The last row of a month in DEFAULT is deleted, with its session.
Erase(t, m) ==
    /\ m \in strays[t]
    /\ strays' = [strays EXCEPT ![t] = @ \ {m}]
    /\ UNCHANGED <<month, partitions, succeeded>>

\* A statement of the run is refused, and with it the run.
Blocked(m) == \E t \in Tables : strays[t] \cap (Targets(m) \ partitions[t]) # {}

\* create_partitions: IF NOT EXISTS passes over the partitions that are there.
Run ==
    /\ ~Blocked(month)
    /\ partitions' = [t \in Tables |-> partitions[t] \cup Targets(month)]
    /\ succeeded' = succeeded \cup {month}
    /\ UNCHANGED <<month, strays>>

NextMonthComes ==
    /\ Targets(NextMonth(month)) \subseteq Months
    /\ month' = NextMonth(month)
    /\ UNCHANGED <<partitions, strays, succeeded>>

Next ==
    \/ \E t \in Tables :
        \/ Insert(t)
        \/ \E m \in strays[t] : Erase(t, m)
    \/ Run
    \/ NextMonthComes

Spec == Init /\ [][Next]_vars

\* Rows of a month end in DEFAULT only when no run has succeeded in that month or the
\* Ahead months before it: one run in time makes up for as many missed ones.  A run is
\* refused only for rows of its own month: on the first, before any, it would succeed.
\* A month with rows there has a partition in neither table.
PartitionsKeepUp ==
    /\ \A t \in Tables : \A m \in strays[t] :
          /\ NotBefore(month, m)
          /\ \A run \in succeeded : m \notin MonthsFrom(run, Ahead)
          /\ \A s \in Tables : m \notin partitions[s]
    /\ Blocked(month) => \E t \in Tables : month \in strays[t]
=============================================================================

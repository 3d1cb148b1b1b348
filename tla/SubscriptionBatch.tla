-------------------------- MODULE SubscriptionBatch --------------------------
(***************************************************************************)
(* The subscription batches (app/services/subscription_batch_service.py):  *)
(* POST /subscriptions/batch/process charges the subscriptions due         *)
(* yesterday and today, POST /subscriptions/batch/notify announces the     *)
(* payments to come.  A scheduler calls them once a day, may miss a day,   *)
(* may call again, and may call before the last call has ended.            *)
(*                                                                         *)
(* A batch loads the active subscriptions once, then checks and inserts    *)
(* row by row in one transaction that commits at the end.  What it inserts *)
(* is visible to itself only until then, and no constraint of the database *)
(* keeps two batches from inserting the same row.  Meanwhile the users     *)
(* edit their subscriptions and delete charges.                            *)
(*                                                                         *)
(* A name stands for a pair (user_id, service_name): rows of different     *)
(* users never meet in these statements.                                   *)
(***************************************************************************)
EXTENDS BillingDates

CONSTANTS
    Subs,         \* ids of subscriptions
    Names,        \* service names
    Plans,        \* the schedules and notify_before_days clients choose
    Targets,      \* the target_date values clients send
    Batches,      \* batch calls that may be in flight at the same time
    FirstDay,     \* the date a behaviour starts on
    LastOrdinal,  \* bound: the date it ends on
    MaxBatches,   \* bound: batch calls in a behaviour
    MaxEdits,     \* bound: edits of subscriptions, and deletions of charges
    Null

Plan == [cycle : {"MONTHLY", "YEARLY", "WEEKLY"}, day : 1 .. 31, start : Date,
         notify : 0 .. 30]

VARIABLES
    today,       \* date.today()
    sub,         \* committed subscriptions
    charges,     \* committed transactions with source SUBSCRIPTION_AUTO
    notices,     \* committed notifications
    batch,       \* the batch calls in flight
    calls,       \* batch calls so far: they number the calls
    edits,       \* edits so far
    overlapped,  \* history: pairs of calls that were in flight at the same time
    removed      \* history: names and dates of the charges users deleted

vars == <<today, sub, charges, notices, batch, calls, edits, overlapped, removed>>

Subscription == [name : Names, active : BOOLEAN, plan : Plans]

\* sub and no are history: the subscription charged and the call that did it.
Charge == [sub : Subs, name : Names, date : Date, no : Nat]

\* on: the day of created_at; date, plan and no are history: the payment announced.
Notice == [sub : Subs, on : Nat, date : Date, plan : Plans, no : Nat]

\* Work on one subscription for one date.
Item == [sub : Subs, date : Date]

\* day and target are what the call started with.
Batch == [kind : {"process", "notify"}, no : Nat, day : Date, target : Targets \cup {Null},
          rows : [Subs -> Subscription \cup {Null}], todo : SUBSET Item,
          made : SUBSET (Charge \cup Notice)]

\* date.min has no day before it, and is not today.
ASSUME BatchAssumption ==
    /\ Plans \subseteq Plan
    /\ Targets \subseteq Date
    /\ FirstDay \in Date /\ FirstDay.year > 1
    /\ MaxBatches \in Nat /\ MaxEdits \in Nat /\ LastOrdinal \in Nat
    /\ Null \notin Targets /\ Null \notin Subscription /\ Null \notin Batch

Init ==
    /\ today = FirstDay
    /\ sub = [s \in Subs |-> Null]
    /\ charges = {}
    /\ notices = {}
    /\ batch = [b \in Batches |-> Null]
    /\ calls = 0
    /\ edits = 0
    /\ overlapped = {}
    /\ removed = {}

-----------------------------------------------------------------------------
(* The users.  An update that changes nothing else still may.              *)

Edit ==
    /\ edits < MaxEdits
    /\ edits' = edits + 1
    /\ UNCHANGED <<today, notices, batch, calls, overlapped>>

\* create: the status may be anything from the start
Subscribe(s, name, active, plan) ==
    /\ sub[s] = Null
    /\ sub' = [sub EXCEPT ![s] = [name |-> name, active |-> active, plan |-> plan]]
    /\ UNCHANGED <<charges, removed>>
    /\ Edit

\* update: the fields the client sent
Update(s, name, active, plan) ==
    /\ sub[s] # Null
    /\ sub' = [sub EXCEPT ![s] = [name |-> name, active |-> active, plan |-> plan]]
    /\ UNCHANGED <<charges, removed>>
    /\ Edit

Unsubscribe(s) ==
    /\ sub[s] # Null
    /\ sub' = [sub EXCEPT ![s] = Null]
    /\ UNCHANGED <<charges, removed>>
    /\ Edit

\* DELETE /transactions/{id}.  A PUT with another date or description hides the charge
\* from exists_subscription_auto in the same way; that it may then pass for another
\* charge is left out.
DeleteCharge(c) ==
    /\ charges' = charges \ {c}
    /\ removed' = removed \cup {[name |-> c.name, date |-> c.date]}
    /\ UNCHANGED sub
    /\ Edit

-----------------------------------------------------------------------------
(* The batches.                                                            *)

Start(b, kind, target, todo) ==
    /\ batch[b] = Null
    /\ calls < MaxBatches
    /\ calls' = calls + 1
    /\ batch' = [batch EXCEPT ![b] =
           [kind |-> kind, no |-> calls + 1, day |-> today, target |-> target, rows |-> sub,
            todo |-> todo, made |-> {}]]
    /\ overlapped' = overlapped \cup
           {{batch[a].no, calls + 1} : a \in {a \in Batches : batch[a] # Null}}
    /\ UNCHANGED <<today, sub, charges, notices, edits, removed>>

\* get_active_subscriptions
Active == {s \in Subs : sub[s] # Null /\ sub[s].active}

\* Mutant: yesterday is not looked at again.
DatesToProcessToday(target) == IF target = Null THEN {today} ELSE {target}

DatesToProcess(target) == IF target = Null THEN {Yesterday(today), today} ELSE {target}

\* process_subscriptions: what is due on the dates to process
StartProcess(b, target) ==
    Start(b, "process", target,
          {i \in [sub : Active, date : DatesToProcess(target)] :
               IsBillingDay(sub[i.sub].plan, i.date)})

\* Mutant: nothing is looked up before the insert.
ChargeUnseen(b, i) ==
    LET name == batch[b].rows[i.sub].name
    IN  batch' = [batch EXCEPT ![b].todo = @ \ {i},
                  ![b].made = @ \cup
                      {[sub |-> i.sub, name |-> name, date |-> i.date, no |-> batch[b].no]}]

\* Mutant: the None of a skipped duplicate is kept with what was created.
ChargeKeepsNone(b, i) ==
    LET name == batch[b].rows[i.sub].name
        exists == \E c \in charges : c.name = name /\ c.date = i.date
    IN  batch' = [batch EXCEPT ![b].todo = @ \ {i},
                  ![b].made = @ \cup {IF exists THEN Null ELSE
                      [sub |-> i.sub, name |-> name, date |-> i.date, no |-> batch[b].no]}]

\* _create_transaction_for_subscription: exists_subscription_auto, then INSERT.  The
\* lookup sees what is committed and what this batch has inserted.
ChargeOnce(b, i) ==
    LET name == batch[b].rows[i.sub].name
        exists == \E c \in charges \cup batch[b].made : c.name = name /\ c.date = i.date
    IN  batch' = [batch EXCEPT ![b].todo = @ \ {i},
                  ![b].made = IF exists THEN @ ELSE @ \cup
                      {[sub |-> i.sub, name |-> name, date |-> i.date, no |-> batch[b].no]}]

\* The dates are processed in order.
ProcessOne(b, i) ==
    /\ batch[b] # Null /\ batch[b].kind = "process"
    /\ i \in batch[b].todo
    /\ \A j \in batch[b].todo : NotBefore(j.date, i.date)
    /\ ChargeOnce(b, i)
    /\ UNCHANGED <<today, sub, charges, notices, calls, edits, overlapped, removed>>

\* The payment is at most notify_before_days ahead (next_billing is never behind).
WithinNotice(plan, ref) ==
    Ordinal(NextBillingDate(plan, ref)) - Ordinal(ref) <= plan.notify

\* process_notifications
StartNotify(b) ==
    Start(b, "notify", Null,
          {[sub |-> s, date |-> NextBillingDate(sub[s].plan, today)] :
               s \in {s \in Active : WithinNotice(sub[s].plan, today)}})

\* Mutant: the period in which a notice counts starts after its first day.
PeriodStartLate(plan, date) == Ordinal(date) - plan.notify + 1

PeriodStart(plan, date) == Ordinal(date) - (plan.notify + 1)

\* exists_for_subscription_period, then INSERT; created_at is the transaction's now().
NotifyOne(b, i) ==
    LET plan == batch[b].rows[i.sub].plan
        exists == \E n \in notices \cup batch[b].made :
                     /\ n.sub = i.sub
                     /\ n.on \in PeriodStart(plan, i.date) .. Ordinal(today) + 1
    IN  /\ batch[b] # Null /\ batch[b].kind = "notify"
        /\ i \in batch[b].todo
        /\ batch' = [batch EXCEPT ![b].todo = @ \ {i},
                     ![b].made = IF exists THEN @ ELSE @ \cup
                         {[sub |-> i.sub, on |-> Ordinal(batch[b].day), date |-> i.date,
                           plan |-> plan, no |-> batch[b].no]}]
        /\ UNCHANGED <<today, sub, charges, notices, calls, edits, overlapped, removed>>

Commit(b) ==
    /\ batch[b] # Null /\ batch[b].todo = {}
    /\ batch' = [batch EXCEPT ![b] = Null]
    /\ IF batch[b].kind = "process"
       THEN charges' = charges \cup batch[b].made /\ UNCHANGED notices
       ELSE notices' = notices \cup batch[b].made /\ UNCHANGED charges
    /\ UNCHANGED <<today, sub, calls, edits, overlapped, removed>>

\* A statement fails or the process dies: the whole batch is rolled back.
Fail(b) ==
    /\ batch[b] # Null
    /\ batch' = [batch EXCEPT ![b] = Null]
    /\ UNCHANGED <<today, sub, charges, notices, calls, edits, overlapped, removed>>

\* Midnight.
Tick ==
    /\ Ordinal(today) < LastOrdinal
    /\ today' = Tomorrow(today)
    /\ UNCHANGED <<sub, charges, notices, batch, calls, edits, overlapped, removed>>

UserAction ==
    \/ \E s \in Subs, name \in Names, active \in BOOLEAN, plan \in Plans :
          Subscribe(s, name, active, plan) \/ Update(s, name, active, plan)
    \/ \E s \in Subs : Unsubscribe(s)
    \/ \E c \in charges : DeleteCharge(c)

BatchAction(b) ==
    \/ \E target \in Targets \cup {Null} : StartProcess(b, target)
    \/ StartNotify(b)
    \/ batch[b] # Null /\ \E i \in batch[b].todo : ProcessOne(b, i) \/ NotifyOne(b, i)
    \/ Commit(b) \/ Fail(b)

Next == UserAction \/ (\E b \in Batches : BatchAction(b)) \/ Tick

Spec == Init /\ [][Next]_vars

-----------------------------------------------------------------------------
(* Properties.                                                             *)

TypeOK ==
    /\ today \in Date
    /\ sub \in [Subs -> Subscription \cup {Null}]
    /\ charges \subseteq Charge
    /\ notices \subseteq Notice
    /\ batch \in [Batches -> Batch \cup {Null}]
    /\ calls \in 0 .. MaxBatches
    /\ edits \in 0 .. MaxEdits
    /\ overlapped \subseteq SUBSET (1 .. MaxBatches)
    /\ removed \subseteq [name : Names, date : Date]

\* A service is charged once for a date, however often the batch is called, whatever
\* target dates it is called with and whatever is renamed, paused or deleted meanwhile;
\* only two calls that were in flight at the same time can charge it twice.
ChargedOnce ==
    \A c, d \in charges :
        c # d /\ c.name = d.name /\ c.date = d.date => {c.no, d.no} \in overlapped

\* A payment is announced once: two notices for the same date of the same schedule
\* come from calls that were in flight at the same time.
AnnouncedOnce ==
    \A m, n \in notices :
        m # n /\ m.sub = n.sub /\ m.date = n.date /\ m.plan = n.plan =>
            {m.no, n.no} \in overlapped

\* "When the batch did not run, the next day's run makes up for yesterday": once a
\* call without target date has committed, everything that was due on its day or on the day
\* before has been charged, unless a user has deleted that very charge.
CatchesUp ==
    [][\A b \in Batches :
          Commit(b) /\ batch[b].kind = "process" /\ batch[b].target = Null =>
              \A s \in Subs, d \in {Yesterday(batch[b].day), batch[b].day} :
                  LET row == batch[b].rows[s]
                  IN  row # Null /\ row.active /\ IsBillingDay(row.plan, d) =>
                          \/ \E c \in charges' : c.name = row.name /\ c.date = d
                          \/ [name |-> row.name, date |-> d] \in removed]_vars

\* "A notice is created when the next billing date is within notify_before_days":
\* once a call has committed, every such payment has been announced.
EveryPaymentAnnounced ==
    [][\A b \in Batches : Commit(b) /\ batch[b].kind = "notify" =>
          \A s \in Subs :
              LET row == batch[b].rows[s]
              IN  row # Null /\ row.active /\ WithinNotice(row.plan, batch[b].day) =>
                      \E n \in notices' :
                          /\ n.sub = s
                          /\ n.date = NextBillingDate(row.plan, batch[b].day)]_vars
=============================================================================

------------------------ MODULE SubscriptionBatchProofs ------------------------
(***************************************************************************)
(* Theorems about SubscriptionBatch, for every value of its constants.     *)
(***************************************************************************)
EXTENDS SubscriptionBatchInvariant, Lemmas

LEMMA InitBInv == Init => BInv
  <1> SUFFICES ASSUME Init PROVE BInv
    OBVIOUS
  <1> USE BatchAssumption DEF Init, InFlight
  <1>1. TypeOK
    BY DEF TypeOK
  <1>2. today.year > 1 /\ Numbers /\ Work
    BY DEF Numbers, Work
  <1>3. ChargesApart /\ ChargedOnce /\ Periods /\ NoticesApart /\ AnnouncedOnce
    BY DEF ChargesApart, ChargedOnce, Periods, NoticesApart, AnnouncedOnce
  <1> QED BY <1>1, <1>2, <1>3 DEF BInv

LEMMA PlansHaveSchedules ==
  ASSUME NEW p \in Plans
  PROVE  HasSchedule(p) /\ p.notify \in 0 .. 30
  <1>1. p \in Plan
    BY BatchAssumption
  <1> QED BY <1>1 DEF Plan, HasSchedule

LEMMA RowFields ==
  ASSUME TypeOK, NEW b \in Batches, InFlight(b)
  PROVE  /\ batch[b] \in Batch
         /\ batch[b].no \in Nat /\ batch[b].day \in Date
         /\ batch[b].rows \in [Subs -> Subscription \cup {Null}]
         /\ batch[b].todo \subseteq Item
         /\ batch[b].made \subseteq Charge \cup Notice
  <1>1. batch[b] \in Batch
    BY DEF TypeOK, InFlight
  <1> QED BY <1>1 DEF Batch

\* The item a call is working on is on a subscription that the call has loaded.
LEMMA ItemFields ==
  ASSUME TypeOK, Work, NEW b \in Batches, InFlight(b), NEW i \in batch[b].todo
  PROVE  /\ i.sub \in Subs /\ i.date \in Date
         /\ batch[b].rows[i.sub] \in Subscription
         /\ batch[b].rows[i.sub].name \in Names /\ batch[b].rows[i.sub].plan \in Plans
  <1>1. i \in Item /\ batch[b].rows \in [Subs -> Subscription \cup {Null}]
    BY RowFields
  <1>2. i.sub \in Subs /\ i.date \in Date
    BY <1>1 DEF Item
  <1>3. batch[b].rows[i.sub] # Null
    BY DEF Work
  <1>4. batch[b].rows[i.sub] \in Subscription
    BY <1>1, <1>2, <1>3
  <1> QED BY <1>2, <1>4 DEF Subscription

-----------------------------------------------------------------------------
(* What a step makes of the calls in flight.                               *)

\* The call b goes on with the items todo and the inserted rows made.
RowAfter(b, todo, made) ==
    /\ batch' \in [Batches -> Batch \cup {Null}]
    /\ \A a \in Batches : a # b => batch'[a] = batch[a]
    /\ batch'[b] # Null
    /\ batch'[b].kind = batch[b].kind /\ batch'[b].no = batch[b].no
    /\ batch'[b].day = batch[b].day /\ batch'[b].rows = batch[b].rows
    /\ batch'[b].target = batch[b].target
    /\ batch'[b].todo = todo /\ batch'[b].made = made

LEMMA WorkOnRow ==
  ASSUME TypeOK, NEW b \in Batches, InFlight(b),
         NEW todo \in SUBSET Item, NEW made \in SUBSET (Charge \cup Notice),
         batch' = [batch EXCEPT ![b].todo = todo, ![b].made = made]
  PROVE  RowAfter(b, todo, made)
  <1> DEFINE row == batch[b]
             new == [row EXCEPT !.todo = todo, !.made = made]
  <1>1. row \in Batch /\ batch \in [Batches -> Batch \cup {Null}]
    BY RowFields DEF TypeOK
  <1>2. batch' = [batch EXCEPT ![b] = new]
    BY <1>1 DEF TypeOK
  <1>3. row = [kind |-> row.kind, no |-> row.no, day |-> row.day, target |-> row.target,
               rows |-> row.rows, todo |-> row.todo, made |-> row.made]
    BY <1>1 DEF Batch
  <1> HIDE DEF row
  <1>4. new = [kind |-> row.kind, no |-> row.no, day |-> row.day, target |-> row.target,
               rows |-> row.rows, todo |-> todo, made |-> made]
    <2> DEFINE mid == [row EXCEPT !.todo = todo]
    <2>1. mid = [kind |-> row.kind, no |-> row.no, day |-> row.day, target |-> row.target,
                 rows |-> row.rows, todo |-> todo, made |-> row.made]
      BY <1>3
    <2>2. new = [mid EXCEPT !.made = made]
      OBVIOUS
    <2> HIDE DEF mid, new
    <2> QED BY <2>1, <2>2
  <1>5. new \in Batch
    <2>1. /\ row.kind \in {"process", "notify"} /\ row.no \in Nat /\ row.day \in Date
          /\ row.target \in Targets \cup {Null}
          /\ row.rows \in [Subs -> Subscription \cup {Null}]
      BY <1>1 DEF Batch
    <2> HIDE DEF new
    <2> QED BY <1>4, <2>1 DEF Batch
  <1>6. new # Null
    BY <1>5, BatchAssumption
  <1>7. /\ new.kind = row.kind /\ new.no = row.no /\ new.day = row.day /\ new.rows = row.rows
        /\ new.target = row.target /\ new.todo = todo /\ new.made = made
    BY <1>4
  <1> HIDE DEF new
  <1>8. /\ batch' \in [Batches -> Batch \cup {Null}] /\ batch'[b] = new
        /\ \A a \in Batches : a # b => batch'[a] = batch[a]
    BY <1>1, <1>2, <1>5
  <1> QED BY <1>6, <1>7, <1>8 DEF RowAfter, row

\* The call b ends.
RowGone(b) ==
    /\ batch' \in [Batches -> Batch \cup {Null}]
    /\ \A a \in Batches : a # b => batch'[a] = batch[a]
    /\ batch'[b] = Null

LEMMA EndOfRow ==
  ASSUME TypeOK, NEW b \in Batches, batch' = [batch EXCEPT ![b] = Null]
  PROVE  RowGone(b)
  BY DEF TypeOK, RowGone

-----------------------------------------------------------------------------
(* Users, midnight and failures.                                           *)

\* What users change: their subscriptions, and charges that they delete.
UserChanges ==
    /\ UNCHANGED <<today, notices, batch, calls, overlapped>>
    /\ charges' \subseteq charges
    /\ sub' \in [Subs -> Subscription \cup {Null}]
    /\ edits' \in 0 .. MaxEdits
    /\ removed' \subseteq [name : Names, date : Date] /\ removed \subseteq removed'
    /\ \A c \in charges \ charges' : [name |-> c.name, date |-> c.date] \in removed'

LEMMA UsersOnlyEdit ==
  ASSUME TypeOK, UserAction
  PROVE  UserChanges
  <1>1. ASSUME Edit
        PROVE  edits' \in 0 .. MaxEdits /\ UNCHANGED <<today, notices, batch, calls, overlapped>>
    BY <1>1, BatchAssumption DEF Edit, TypeOK
  <1>2. ASSUME NEW s \in Subs, NEW name \in Names, NEW active \in BOOLEAN, NEW plan \in Plans,
               sub' = [sub EXCEPT ![s] = [name |-> name, active |-> active, plan |-> plan]]
        PROVE  sub' \in [Subs -> Subscription \cup {Null}]
    BY <1>2 DEF TypeOK, Subscription
  <1>3. ASSUME NEW s \in Subs, NEW name \in Names, NEW active \in BOOLEAN, NEW plan \in Plans,
               Subscribe(s, name, active, plan) \/ Update(s, name, active, plan)
        PROVE  UserChanges
    BY <1>1, <1>2, <1>3 DEF Subscribe, Update, TypeOK, UserChanges
  <1>4. ASSUME NEW s \in Subs, Unsubscribe(s) PROVE UserChanges
    BY <1>1, <1>4 DEF Unsubscribe, TypeOK, UserChanges
  <1>5. ASSUME NEW c \in charges, DeleteCharge(c) PROVE UserChanges
    <2>1. [name |-> c.name, date |-> c.date] \in [name : Names, date : Date]
      BY DEF TypeOK, Charge
    <2> QED BY <1>1, <1>5, <2>1 DEF DeleteCharge, TypeOK, UserChanges
  <1> QED BY <1>3, <1>4, <1>5 DEF UserAction

LEMMA UserKeepsBInv ==
  ASSUME BInv, UserAction
  PROVE  BInv'
  <1>1. UserChanges
    BY UsersOnlyEdit DEF BInv
  <1> USE DEF UserChanges
  <1>2. TypeOK'
    BY <1>1 DEF BInv, TypeOK
  <1>3. today'.year > 1 /\ Numbers' /\ Work'
    BY <1>1 DEF BInv, Numbers, Work, InFlight
  <1>4. ChargesApart' /\ ChargedOnce'
    BY <1>1 DEF BInv, ChargesApart, ChargedOnce, InFlight, SameCharge
  <1>5. Periods' /\ NoticesApart' /\ AnnouncedOnce'
    BY <1>1 DEF BInv, Periods, InPeriod, NoticesApart, AnnouncedOnce, InFlight, SameNotice
  <1> QED BY <1>2, <1>3, <1>4, <1>5 DEF BInv

LEMMA TickKeepsBInv ==
  ASSUME BInv, Tick
  PROVE  BInv'
  <1>1. UNCHANGED <<sub, charges, notices, batch, calls, edits, overlapped, removed>>
    BY DEF Tick
  <1>2. today \in Date /\ today.year > 1 /\ today' = Tomorrow(today)
    BY DEF BInv, TypeOK, Tick
  <1>3. today' \in Date /\ today'.year >= today.year
    BY <1>2, PlusIsDate DEF Tomorrow
  <1>4. Ordinal(today') = Ordinal(today) + 1 /\ Ordinal(today) \in Nat
    BY <1>2, OrdinalOfPlus, OrdinalIsNatural DEF Tomorrow
  <1>5. TypeOK'
    BY <1>1, <1>3 DEF BInv, TypeOK
  <1>6. today'.year > 1
    BY <1>2, <1>3, DateFields
  <1>7. Numbers' /\ Work' /\ ChargesApart' /\ ChargedOnce' /\ NoticesApart' /\ AnnouncedOnce'
    BY <1>1 DEF BInv, Numbers, Work, ChargesApart, ChargedOnce, NoticesApart, AnnouncedOnce,
                InFlight, SameCharge, SameNotice
  <1>8. ASSUME NEW n \in Notice, InPeriod(n) PROVE InPeriod(n)'
    <2>1. n.on \in Nat
      BY DEF Notice
    <2> QED BY <1>4, <1>8, <2>1 DEF InPeriod
  <1>9. Periods'
    <2>1. \A n \in notices' : InPeriod(n)'
      BY <1>1, <1>8 DEF BInv, TypeOK, Periods
    <2>2. ASSUME NEW b \in Batches, InFlight(b)', batch'[b].kind = "notify"
          PROVE  /\ Ordinal(batch'[b].day) <= Ordinal(today')
                 /\ \A i \in batch'[b].todo :
                       Ordinal(i.date) - Ordinal(batch'[b].day)
                           <= batch'[b].rows[i.sub].plan.notify
                 /\ \A n \in batch'[b].made : InPeriod(n)'
      <3>1. InFlight(b) /\ batch[b].kind = "notify" /\ batch' = batch
        BY <1>1, <2>2 DEF InFlight
      <3>2. Ordinal(batch[b].day) \in Nat /\ batch[b].made \subseteq Notice
        BY <3>1, RowFields, OrdinalIsNatural DEF BInv, Work
      <3>3. /\ Ordinal(batch[b].day) <= Ordinal(today)
            /\ \A i \in batch[b].todo :
                  Ordinal(i.date) - Ordinal(batch[b].day) <= batch[b].rows[i.sub].plan.notify
            /\ \A n \in batch[b].made : InPeriod(n)
        BY <3>1 DEF BInv, Periods
      <3> QED BY <1>4, <1>8, <3>1, <3>2, <3>3
    <2> QED BY <2>1, <2>2 DEF Periods
  <1> QED BY <1>5, <1>6, <1>7, <1>9 DEF BInv

LEMMA FailKeepsBInv ==
  ASSUME BInv, NEW b \in Batches, Fail(b)
  PROVE  BInv'
  <1>1. RowGone(b) /\ UNCHANGED <<today, sub, charges, notices, calls, edits, overlapped, removed>>
    BY EndOfRow DEF Fail, BInv
  <1>2. TypeOK' /\ today'.year > 1
    BY <1>1 DEF BInv, TypeOK, RowGone
  <1>3. \A a \in Batches : InFlight(a)' => InFlight(a) /\ batch'[a] = batch[a]
    BY <1>1 DEF InFlight, RowGone
  <1>4. Numbers' /\ Work' /\ ChargesApart' /\ ChargedOnce' /\ NoticesApart' /\ AnnouncedOnce'
    BY <1>1, <1>3 DEF BInv, Numbers, Work, ChargesApart, ChargedOnce, NoticesApart, AnnouncedOnce,
                      SameCharge, SameNotice
  <1>5. Periods'
    BY <1>1, <1>3 DEF BInv, Periods, InPeriod
  <1> QED BY <1>2, <1>4, <1>5 DEF BInv

-----------------------------------------------------------------------------
(* A call starts.                                                          *)

\* The new call b is in flight with the next number and has inserted nothing.
Started(b, kind, target, todo) ==
    /\ batch[b] = Null /\ batch' \in [Batches -> Batch \cup {Null}]
    /\ \A a \in Batches : a # b => batch'[a] = batch[a]
    /\ batch'[b] # Null
    /\ batch'[b].kind = kind /\ batch'[b].no = calls + 1 /\ batch'[b].day = today
    /\ batch'[b].rows = sub /\ batch'[b].target = target
    /\ batch'[b].todo = todo /\ batch'[b].made = {}
    /\ calls \in Nat /\ calls + 1 <= MaxBatches /\ calls' = calls + 1
    /\ overlapped' = overlapped \cup
           {{batch[a].no, calls + 1} : a \in {a \in Batches : batch[a] # Null}}
    /\ UNCHANGED <<today, sub, charges, notices, edits, removed>>

LEMMA StartStarts ==
  ASSUME TypeOK, NEW b \in Batches, NEW kind \in {"process", "notify"},
         NEW target \in Targets \cup {Null}, NEW todo \in SUBSET Item,
         Start(b, kind, target, todo)
  PROVE  Started(b, kind, target, todo)
  <1> DEFINE new == [kind |-> kind, no |-> calls + 1, day |-> today, target |-> target,
                     rows |-> sub, todo |-> todo, made |-> {}]
  <1>1. calls \in Nat /\ calls + 1 <= MaxBatches
    BY BatchAssumption DEF TypeOK, Start
  <1>2. new \in Batch
    <2>1. calls + 1 \in Nat /\ today \in Date /\ sub \in [Subs -> Subscription \cup {Null}]
      BY <1>1 DEF TypeOK
    <2> QED BY <2>1 DEF Batch
  <1>3. new # Null
    BY <1>2, BatchAssumption
  <1>4. batch' = [batch EXCEPT ![b] = new] /\ batch \in [Batches -> Batch \cup {Null}]
    BY DEF Start, TypeOK
  <1>5. /\ new.kind = kind /\ new.no = calls + 1 /\ new.day = today
        /\ new.rows = sub /\ new.target = target /\ new.todo = todo /\ new.made = {}
    OBVIOUS
  <1> HIDE DEF new
  <1>6. /\ batch' \in [Batches -> Batch \cup {Null}] /\ batch'[b] = new
        /\ \A a \in Batches : a # b => batch'[a] = batch[a]
    BY <1>2, <1>4
  <1>7. batch'[b] # Null
    BY <1>3, <1>6
  <1> QED BY <1>1, <1>5, <1>6, <1>7 DEF Start, Started

LEMMA StartKeepsBInv ==
  ASSUME BInv, NEW b \in Batches, NEW kind \in {"process", "notify"},
         NEW target \in Targets \cup {Null}, NEW todo \in SUBSET Item,
         \A i \in todo : sub[i.sub] # Null,
         kind = "notify" =>
             \A i \in todo : Ordinal(i.date) - Ordinal(today) <= sub[i.sub].plan.notify,
         Start(b, kind, target, todo)
  PROVE  BInv'
  <1>1. Started(b, kind, target, todo)
    BY StartStarts DEF BInv
  <1> USE DEF Started
  <1>2. \A a \in Batches : a # b => batch'[a] = batch[a]
    BY <1>1
  <1>3. \A a \in Batches : InFlight(a) => batch[a].no \in 1 .. calls
    BY DEF BInv, Numbers
  <1>4. TypeOK'
    <2>1. overlapped' \subseteq SUBSET (1 .. MaxBatches)
      <3>1. ASSUME NEW a \in Batches, batch[a] # Null
            PROVE  {batch[a].no, calls + 1} \subseteq 1 .. MaxBatches
        <4>1. batch[a].no \in 1 .. calls
          BY <1>3, <3>1 DEF InFlight
        <4> QED BY <1>1, <4>1, BatchAssumption
      <3>2. ASSUME NEW x \in overlapped' PROVE x \subseteq 1 .. MaxBatches
        <4>1. CASE x \in overlapped
          BY <4>1 DEF BInv, TypeOK
        <4>2. CASE x \notin overlapped
          <5>1. PICK a \in Batches : batch[a] # Null /\ x = {batch[a].no, calls + 1}
            BY <1>1, <3>2, <4>2
          <5> QED BY <3>1, <5>1
        <4> QED BY <4>1, <4>2
      <3> QED BY <3>2
    <2>2. calls' \in 0 .. MaxBatches
      BY <1>1, BatchAssumption
    <2> QED BY <1>1, <2>1, <2>2 DEF BInv, TypeOK
  <1>5. Numbers'
    <2>1. \A a \in Batches : InFlight(a)' => batch'[a].no \in 1 .. calls'
      <3>1. ASSUME NEW a \in Batches, InFlight(a)' PROVE batch'[a].no \in 1 .. calls'
        <4>1. CASE a = b
          BY <1>1, <4>1
        <4>2. CASE a # b
          <5>1. batch'[a] = batch[a] /\ batch[a].no \in 1 .. calls
            BY <1>2, <1>3, <3>1, <4>2 DEF InFlight
          <5> QED BY <1>1, <5>1
        <4> QED BY <4>1, <4>2
      <3> QED BY <3>1
    <2>2. ASSUME NEW a \in Batches, NEW c \in Batches, a # c, InFlight(a)', InFlight(c)'
          PROVE  {batch'[a].no, batch'[c].no} \in overlapped'
      <3>1. ASSUME NEW x \in Batches, x # b, InFlight(x)'
            PROVE  InFlight(x) /\ batch'[x] = batch[x] /\ {batch[x].no, calls + 1} \in overlapped'
        BY <1>1, <1>2, <3>1 DEF InFlight
      <3>2. CASE a = b
        <4>1. batch'[a].no = calls + 1 /\ {batch'[c].no, calls + 1} \in overlapped'
          BY <1>1, <2>2, <3>1, <3>2
        <4> QED BY <4>1
      <3>3. CASE c = b
        BY <1>1, <2>2, <3>1, <3>3
      <3>4. CASE a # b /\ c # b
        <4>1. {batch[a].no, batch[c].no} \in overlapped
          BY <2>2, <3>1, <3>4 DEF BInv, Numbers
        <4> QED BY <1>1, <2>2, <3>1, <3>4, <4>1
      <3> QED BY <3>2, <3>3, <3>4
    <2> QED BY <2>1, <2>2 DEF Numbers
  <1>6. \A a \in Batches : InFlight(a)' => a = b \/ (InFlight(a) /\ batch'[a] = batch[a])
    BY <1>2 DEF InFlight
  <1>7. Work'
    BY <1>1, <1>6 DEF BInv, Work
  <1>8. ChargesApart' /\ ChargedOnce'
    BY <1>1, <1>6 DEF BInv, ChargesApart, ChargedOnce, SameCharge
  <1>9. NoticesApart' /\ AnnouncedOnce'
    BY <1>1, <1>6 DEF BInv, NoticesApart, AnnouncedOnce, SameNotice
  <1>10. Periods'
    <2>1. Ordinal(today) \in Nat
      BY OrdinalIsNatural DEF BInv, TypeOK
    <2> QED BY <1>1, <1>6, <2>1 DEF BInv, Periods, InPeriod
  <1> QED BY <1>1, <1>4, <1>5, <1>7, <1>8, <1>9, <1>10 DEF BInv

LEMMA ActiveAreSubs == \A s \in Active : s \in Subs /\ sub[s] # Null
  BY DEF Active

LEMMA StartProcessKeepsBInv ==
  ASSUME BInv, NEW b \in Batches, NEW target \in Targets \cup {Null}, StartProcess(b, target)
  PROVE  BInv'
  <1> DEFINE todo == {i \in [sub : Active, date : DatesToProcess(target)] :
                          IsBillingDay(sub[i.sub].plan, i.date)}
  <1>1. today \in Date /\ Yesterday(today) \in Date
    BY YesterdayIsDate DEF BInv, TypeOK
  <1>2. DatesToProcess(target) \subseteq Date
    BY <1>1, BatchAssumption DEF DatesToProcess
  <1>3. todo \in SUBSET Item
    BY <1>2, ActiveAreSubs DEF Item
  <1>4. \A i \in todo : sub[i.sub] # Null
    BY ActiveAreSubs
  <1>5. Start(b, "process", target, todo)
    BY DEF StartProcess
  <1> HIDE DEF todo
  <1> QED BY <1>3, <1>4, <1>5, StartKeepsBInv

\* What a call of process_notifications starts with.
LEMMA NotifyStarts ==
  ASSUME TypeOK, NEW b \in Batches, StartNotify(b)
  PROVE  \E todo \in SUBSET Item :
            /\ Start(b, "notify", Null, todo)
            /\ \A i \in todo :
                  /\ sub[i.sub] # Null
                  /\ Ordinal(i.date) - Ordinal(today) <= sub[i.sub].plan.notify
  <1> DEFINE Due == {s \in Active : WithinNotice(sub[s].plan, today)}
             todo == {[sub |-> s, date |-> NextBillingDate(sub[s].plan, today)] : s \in Due}
  <1>1. \A s \in Due : s \in Subs /\ sub[s] # Null
    BY ActiveAreSubs
  <1>2. ASSUME NEW s \in Due PROVE NextBillingDate(sub[s].plan, today) \in Date
    <2>1. sub[s] \in Subscription
      BY <1>1 DEF TypeOK
    <2>2. HasSchedule(sub[s].plan)
      BY <2>1, PlansHaveSchedules DEF Subscription
    <2> QED BY <2>2, NextIsDate DEF TypeOK
  <1>3. todo \in SUBSET Item
    BY <1>1, <1>2 DEF Item
  <1>4. \A i \in todo : sub[i.sub] # Null
    BY <1>1
  <1>5. \A i \in todo : Ordinal(i.date) - Ordinal(today) <= sub[i.sub].plan.notify
    BY DEF WithinNotice
  <1>6. Start(b, "notify", Null, todo)
    BY DEF StartNotify
  <1> HIDE DEF todo
  <1> QED BY <1>3, <1>4, <1>5, <1>6

LEMMA StartNotifyKeepsBInv ==
  ASSUME BInv, NEW b \in Batches, StartNotify(b)
  PROVE  BInv'
  BY NotifyStarts, StartKeepsBInv DEF BInv

-----------------------------------------------------------------------------
(* A call works on an item.                                                *)

\* What the call b inserts carries its number and is of its kind.
Inserts(b, i, new) ==
    /\ InFlight(b)
    /\ RowAfter(b, batch[b].todo \ {i}, batch[b].made \cup new)
    /\ \A x \in new : x.no = batch[b].no
    /\ UNCHANGED <<today, sub, charges, notices, calls, edits, overlapped, removed>>

LEMMA InsertKeepsNumbers ==
  ASSUME BInv, NEW b \in Batches, NEW i, NEW new, Inserts(b, i, new)
  PROVE  TypeOK' /\ today'.year > 1 /\ Numbers' /\ ChargedOnce' /\ AnnouncedOnce'
  <1>1. TypeOK' /\ today'.year > 1 /\ ChargedOnce' /\ AnnouncedOnce'
    BY DEF BInv, TypeOK, Inserts, RowAfter, ChargedOnce, AnnouncedOnce
  <1>2. \A a \in Batches : InFlight(a)' => InFlight(a) /\ batch'[a].no = batch[a].no
    BY DEF Inserts, RowAfter, InFlight
  <1>3. Numbers'
    BY <1>2 DEF BInv, Numbers, Inserts
  <1> QED BY <1>1, <1>3

\* The item i of the call b is done: there is a charge for it.
Charged(b, i) ==
    /\ RowAfter(b, batch[b].todo \ {i}, batch'[b].made)
    /\ batch[b].made \subseteq batch'[b].made
    /\ \E c \in charges \cup batch'[b].made :
          c.name = batch[b].rows[i.sub].name /\ c.date = i.date

LEMMA ProcessKeepsBInv ==
  ASSUME BInv, NEW b \in Batches, NEW i, ProcessOne(b, i)
  PROVE  BInv' /\ Charged(b, i)
  <1> DEFINE name == batch[b].rows[i.sub].name
             exists == \E c \in charges \cup batch[b].made : c.name = name /\ c.date = i.date
             charge == [sub |-> i.sub, name |-> name, date |-> i.date, no |-> batch[b].no]
             new == IF exists THEN {} ELSE {charge}
             todo == batch[b].todo \ {i}
             made == batch[b].made \cup new
  <1>1. InFlight(b) /\ batch[b].kind = "process" /\ i \in batch[b].todo
    BY DEF ProcessOne, InFlight
  <1>2. TypeOK /\ Work
    BY DEF BInv
  <1>3. batch[b].todo \subseteq Item /\ batch[b].made \subseteq Charge /\ batch[b].no \in Nat
    BY <1>1, <1>2, RowFields DEF Work
  <1>4. charge \in Charge
    BY <1>1, <1>2, <1>3, ItemFields DEF Charge
  <1>5. batch' = [batch EXCEPT ![b].todo = todo, ![b].made = made]
    <2>1. ChargeOnce(b, i)
      BY DEF ProcessOne
    <2>2. CASE exists
      BY <2>1, <2>2 DEF ChargeOnce
    <2>3. CASE ~exists
      BY <2>1, <2>3 DEF ChargeOnce
    <2> QED BY <2>2, <2>3
  <1>6. todo \in SUBSET Item /\ made \in SUBSET (Charge \cup Notice) /\ new \subseteq Charge
    BY <1>3, <1>4
  <1>7. charge.no = batch[b].no /\ charge.name = name /\ charge.date = i.date
    OBVIOUS
  <1> HIDE DEF charge
  <1>8. /\ \A x \in new : x = charge
        /\ \A x \in new, c \in charges \cup batch[b].made : ~SameCharge(x, c) /\ ~SameCharge(c, x)
    BY <1>7 DEF SameCharge
  <1>17. \E c \in charges \cup made : c.name = name /\ c.date = i.date
    BY <1>7
  <1> HIDE DEF todo, made, new
  <1>9. RowAfter(b, todo, made)
    BY <1>1, <1>2, <1>5, <1>6, WorkOnRow
  <1>10. Inserts(b, i, new)
    BY <1>1, <1>7, <1>8, <1>9 DEF Inserts, ProcessOne, todo, made
  <1>11. \A a \in Batches : a # b => batch'[a] = batch[a]
    BY <1>9 DEF RowAfter
  <1>12. UNCHANGED <<today, charges, notices, overlapped>>
    BY <1>10 DEF Inserts
  <1>13. /\ batch'[b].kind = "process" /\ batch'[b].rows = batch[b].rows
         /\ batch'[b].no = batch[b].no
         /\ batch'[b].todo = batch[b].todo \ {i} /\ batch'[b].made = batch[b].made \cup new
    BY <1>1, <1>9 DEF RowAfter, todo, made
  <1>14. Work'
    BY <1>1, <1>6, <1>3, <1>7, <1>8, <1>11, <1>13 DEF BInv, Work, InFlight
  <1>15. ChargesApart'
    <2> SUFFICES ASSUME NEW a \in Batches, InFlight(a)', batch'[a].kind = "process",
                        NEW c \in batch'[a].made
                 PROVE  /\ \A d \in charges' : SameCharge(c, d) => {c.no, d.no} \in overlapped'
                        /\ \A d \in batch'[a].made : SameCharge(c, d) => c = d
      BY DEF ChargesApart, SameCharge
    <2>1. CASE a # b
      BY <1>11, <1>12, <2>1 DEF BInv, ChargesApart, InFlight
    <2>2. CASE a = b
      <3>1. /\ \A x \in batch[b].made :
                  /\ \A d \in charges : SameCharge(x, d) => {x.no, d.no} \in overlapped
                  /\ \A d \in batch[b].made : SameCharge(x, d) => x = d
        BY <1>1 DEF BInv, ChargesApart
      <3> QED BY <1>8, <1>12, <1>13, <2>2, <3>1
    <2> QED BY <2>1, <2>2
  <1>16. Periods' /\ NoticesApart'
    <2>1. \A a \in Batches : InFlight(a)' /\ batch'[a].kind = "notify" =>
              InFlight(a) /\ batch'[a] = batch[a]
      BY <1>11, <1>13 DEF InFlight
    <2> QED BY <1>12, <2>1 DEF BInv, Periods, InPeriod, NoticesApart, SameNotice
  <1>18. Charged(b, i)
    <2>1. batch'[b].made = made
      BY <1>9 DEF RowAfter
    <2> QED BY <1>9, <1>17, <2>1 DEF Charged, todo, made
  <1> QED BY <1>10, <1>14, <1>15, <1>16, <1>18, InsertKeepsNumbers DEF BInv

LEMMA NotifyKeepsBInv ==
  ASSUME BInv, NEW b \in Batches, NEW i, NotifyOne(b, i)
  PROVE  BInv' /\ batch'[b].kind = "notify"
  <1> DEFINE plan == batch[b].rows[i.sub].plan
             exists == \E n \in notices \cup batch[b].made :
                           /\ n.sub = i.sub
                           /\ n.on \in PeriodStart(plan, i.date) .. Ordinal(today) + 1
             notice == [sub |-> i.sub, on |-> Ordinal(batch[b].day), date |-> i.date,
                        plan |-> plan, no |-> batch[b].no]
             new == IF exists THEN {} ELSE {notice}
             todo == batch[b].todo \ {i}
             made == batch[b].made \cup new
  <1>1. InFlight(b) /\ batch[b].kind = "notify" /\ i \in batch[b].todo
    BY DEF NotifyOne, InFlight
  <1>2. TypeOK /\ Work
    BY DEF BInv
  <1>3. batch[b].todo \subseteq Item /\ batch[b].made \subseteq Notice /\ batch[b].no \in Nat
        /\ batch[b].day \in Date
    BY <1>1, <1>2, RowFields DEF Work
  <1>4. i.sub \in Subs /\ i.date \in Date /\ plan \in Plans
    BY <1>1, <1>2, ItemFields
  <1>5. Ordinal(batch[b].day) \in Nat /\ Ordinal(i.date) \in Nat /\ Ordinal(today) \in Nat
        /\ plan.notify \in Int
    BY <1>2, <1>3, <1>4, OrdinalIsNatural, PlansHaveSchedules DEF TypeOK
  <1>6. notice \in Notice
    BY <1>3, <1>4, <1>5 DEF Notice
  <1>7. batch' = [batch EXCEPT ![b].todo = todo, ![b].made = made]
    <2>1. CASE exists
      BY <2>1 DEF NotifyOne
    <2>2. CASE ~exists
      BY <2>2 DEF NotifyOne
    <2> QED BY <2>1, <2>2
  <1>8. todo \in SUBSET Item /\ made \in SUBSET (Charge \cup Notice) /\ new \subseteq Notice
    BY <1>3, <1>6
  <1>9. /\ notice.no = batch[b].no /\ notice.sub = i.sub /\ notice.date = i.date
        /\ notice.plan = plan /\ notice.on = Ordinal(batch[b].day)
    OBVIOUS
  <1> HIDE DEF notice
  <1>10. InPeriod(notice)
    <2>1. Ordinal(batch[b].day) <= Ordinal(today)
          /\ Ordinal(i.date) - Ordinal(batch[b].day) <= plan.notify
      BY <1>1 DEF BInv, Periods
    <2> HIDE DEF plan
    <2> QED BY <1>5, <1>9, <2>1 DEF InPeriod
  <1>11. \A n \in notices \cup batch[b].made : n \in Notice /\ InPeriod(n)
    BY <1>1, <1>3 DEF BInv, TypeOK, Periods
  <1>12. ASSUME NEW n \in notices \cup batch[b].made, SameNotice(notice, n)
         PROVE  exists
    <2>1. n.sub = i.sub /\ n.date = i.date /\ n.plan = plan /\ n.on \in Nat
      BY <1>9, <1>11, <1>12 DEF SameNotice, Notice
    <2>2. n.on >= Ordinal(i.date) - plan.notify /\ n.on <= Ordinal(today)
      BY <1>11, <2>1 DEF InPeriod
    <2> HIDE DEF plan
    <2>3. n.on \in PeriodStart(plan, i.date) .. Ordinal(today) + 1
      BY <1>5, <2>1, <2>2 DEF PeriodStart
    <2> QED BY <2>1, <2>3
  <1>13. /\ \A x \in new : x = notice
         /\ \A x \in new, n \in notices \cup batch[b].made :
                ~SameNotice(x, n) /\ ~SameNotice(n, x)
    <2>1. \A x \in new : x = notice /\ ~exists
      OBVIOUS
    <2> HIDE DEF new, exists
    <2>2. \A x \in new, n \in notices \cup batch[b].made : ~SameNotice(x, n)
      BY <1>12, <2>1
    <2> QED BY <2>1, <2>2 DEF SameNotice
  <1> HIDE DEF todo, made, new, exists, plan
  <1>14. RowAfter(b, todo, made)
    BY <1>1, <1>2, <1>7, <1>8, WorkOnRow
  <1>15. Inserts(b, i, new)
    BY <1>1, <1>9, <1>13, <1>14 DEF Inserts, NotifyOne, todo, made
  <1>16. \A a \in Batches : a # b => batch'[a] = batch[a]
    BY <1>14 DEF RowAfter
  <1>17. UNCHANGED <<today, charges, notices, overlapped>>
    BY <1>15 DEF Inserts
  <1>18. /\ batch'[b].kind = "notify" /\ batch'[b].rows = batch[b].rows
         /\ batch'[b].no = batch[b].no /\ batch'[b].day = batch[b].day
         /\ batch'[b].todo = batch[b].todo \ {i} /\ batch'[b].made = batch[b].made \cup new
    BY <1>1, <1>14 DEF RowAfter, todo, made
  <1>19. Work'
    BY <1>1, <1>3, <1>8, <1>9, <1>13, <1>16, <1>18 DEF BInv, Work, InFlight
  <1>20. NoticesApart'
    <2> SUFFICES ASSUME NEW a \in Batches, InFlight(a)', batch'[a].kind = "notify",
                        NEW m \in batch'[a].made
                 PROVE  /\ \A n \in notices' : SameNotice(m, n) => {m.no, n.no} \in overlapped'
                        /\ \A n \in batch'[a].made : SameNotice(m, n) => m = n
      BY DEF NoticesApart, SameNotice
    <2>1. CASE a # b
      BY <1>16, <1>17, <2>1 DEF BInv, NoticesApart, InFlight
    <2>2. CASE a = b
      <3>1. /\ \A x \in batch[b].made :
                  /\ \A n \in notices : SameNotice(x, n) => {x.no, n.no} \in overlapped
                  /\ \A n \in batch[b].made : SameNotice(x, n) => x = n
        BY <1>1 DEF BInv, NoticesApart
      <3> QED BY <1>13, <1>17, <1>18, <2>2, <3>1
    <2> QED BY <2>1, <2>2
  <1>21. ChargesApart'
    <2>1. \A a \in Batches : InFlight(a)' /\ batch'[a].kind = "process" =>
              InFlight(a) /\ batch'[a] = batch[a]
      BY <1>16, <1>18 DEF InFlight
    <2> QED BY <1>17, <2>1 DEF BInv, ChargesApart, SameCharge
  <1>22. Periods'
    <2>1. ASSUME NEW a \in Batches, InFlight(a)', batch'[a].kind = "notify"
          PROVE  /\ Ordinal(batch'[a].day) <= Ordinal(today')
                 /\ \A j \in batch'[a].todo :
                       Ordinal(j.date) - Ordinal(batch'[a].day)
                           <= batch'[a].rows[j.sub].plan.notify
                 /\ \A n \in batch'[a].made : InPeriod(n)'
      <3>1. CASE a # b
        BY <1>16, <1>17, <2>1, <3>1 DEF BInv, Periods, InPeriod, InFlight
      <3>2. CASE a = b
        <4>1. /\ Ordinal(batch[b].day) <= Ordinal(today)
              /\ \A j \in batch[b].todo :
                    Ordinal(j.date) - Ordinal(batch[b].day) <= batch[b].rows[j.sub].plan.notify
              /\ \A n \in batch[b].made : InPeriod(n)
          BY <1>1 DEF BInv, Periods
        <4>2. \A n \in batch'[b].made : InPeriod(n)
          BY <1>10, <1>13, <1>18, <4>1
        <4> QED BY <1>17, <1>18, <3>2, <4>1, <4>2 DEF InPeriod
      <3> QED BY <3>1, <3>2
    <2>2. \A n \in notices' : InPeriod(n)'
      BY <1>17 DEF BInv, Periods, InPeriod
    <2> QED BY <2>1, <2>2 DEF Periods, InFlight
  <1> QED BY <1>15, <1>18, <1>19, <1>20, <1>21, <1>22, InsertKeepsNumbers DEF BInv

-----------------------------------------------------------------------------
(* A call commits.                                                         *)

LEMMA CommitKeepsBInv ==
  ASSUME BInv, NEW b \in Batches, Commit(b)
  PROVE  BInv'
  <1>1. RowGone(b) /\ InFlight(b) /\ UNCHANGED <<today, sub, calls, edits, overlapped, removed>>
    BY EndOfRow DEF Commit, BInv, InFlight
  <1>2. TypeOK /\ Work /\ batch[b].kind \in {"process", "notify"}
    <2>1. TypeOK /\ Work
      BY DEF BInv
    <2>2. batch[b] \in Batch
      BY <1>1, <2>1, RowFields
    <2> QED BY <2>1, <2>2 DEF Batch
  <1>3. \A a \in Batches : InFlight(a)' => InFlight(a) /\ batch'[a] = batch[a] /\ a # b
    BY <1>1 DEF InFlight, RowGone
  <1>4. today'.year > 1 /\ Numbers' /\ Work'
    BY <1>1, <1>3 DEF BInv, Numbers, Work
  \* What another call has inserted does not meet what this one commits, but for overlaps.
  <1>5. ASSUME NEW a \in Batches, InFlight(a)', NEW x \in batch[a].made, NEW y \in batch[b].made
        PROVE  {x.no, y.no} \in overlapped
    <2>1. x.no = batch[a].no /\ y.no = batch[b].no
      BY <1>1, <1>2, <1>3, <1>5 DEF Work
    <2>2. {batch[a].no, batch[b].no} \in overlapped
      BY <1>1, <1>3, <1>5 DEF BInv, Numbers
    <2> QED BY <2>1, <2>2
  <1>6. CASE batch[b].kind = "process"
    <2>1. charges' = charges \cup batch[b].made /\ notices' = notices
      BY <1>6 DEF Commit
    <2>2. batch[b].made \subseteq Charge
      BY <1>1, <1>2, <1>6 DEF Work
    <2>3. TypeOK'
      BY <1>1, <1>2, <2>1, <2>2 DEF TypeOK, RowGone
    <2>4. \A x \in batch[b].made :
             /\ \A d \in charges : SameCharge(x, d) => {x.no, d.no} \in overlapped
             /\ \A d \in batch[b].made : SameCharge(x, d) => x = d
      BY <1>1, <1>6 DEF BInv, ChargesApart
    <2>5. ChargedOnce'
      <3> SUFFICES ASSUME NEW c \in charges', NEW d \in charges',
                          c # d, c.name = d.name, c.date = d.date
                   PROVE  {c.no, d.no} \in overlapped
        BY <1>1 DEF ChargedOnce
      <3>1. SameCharge(c, d) /\ SameCharge(d, c)
        BY DEF SameCharge
      <3>2. CASE c \in charges /\ d \in charges
        BY <3>2 DEF BInv, ChargedOnce
      <3>3. CASE c \in batch[b].made
        BY <2>1, <2>4, <3>1, <3>3
      <3>4. CASE c \in charges /\ d \in batch[b].made
        <4>1. {d.no, c.no} \in overlapped
          BY <2>4, <3>1, <3>4
        <4>2. {d.no, c.no} = {c.no, d.no}
          OBVIOUS
        <4> QED BY <4>1, <4>2
      <3> QED BY <2>1, <3>2, <3>3, <3>4
    <2>6. ChargesApart'
      <3> SUFFICES ASSUME NEW a \in Batches, InFlight(a)', batch'[a].kind = "process",
                          NEW c \in batch'[a].made
                   PROVE  /\ \A d \in charges' : SameCharge(c, d) => {c.no, d.no} \in overlapped'
                          /\ \A d \in batch'[a].made : SameCharge(c, d) => c = d
        BY DEF ChargesApart, SameCharge
      <3>1. /\ \A d \in charges : SameCharge(c, d) => {c.no, d.no} \in overlapped
            /\ \A d \in batch[a].made : SameCharge(c, d) => c = d
        BY <1>3 DEF BInv, ChargesApart
      <3> QED BY <1>1, <1>3, <1>5, <2>1, <3>1
    <2>7. NoticesApart' /\ AnnouncedOnce' /\ Periods'
      BY <1>1, <1>3, <2>1 DEF BInv, NoticesApart, AnnouncedOnce, Periods, InPeriod, SameNotice
    <2> QED BY <1>4, <2>3, <2>5, <2>6, <2>7 DEF BInv
  <1>7. CASE batch[b].kind = "notify"
    <2>1. notices' = notices \cup batch[b].made /\ charges' = charges
      BY <1>7 DEF Commit
    <2>2. batch[b].made \subseteq Notice
      BY <1>1, <1>2, <1>7 DEF Work
    <2>3. TypeOK'
      BY <1>1, <1>2, <2>1, <2>2 DEF TypeOK, RowGone
    <2>4. \A x \in batch[b].made :
             /\ InPeriod(x)
             /\ \A n \in notices : SameNotice(x, n) => {x.no, n.no} \in overlapped
             /\ \A n \in batch[b].made : SameNotice(x, n) => x = n
      BY <1>1, <1>7 DEF BInv, NoticesApart, Periods
    <2>5. AnnouncedOnce'
      <3> SUFFICES ASSUME NEW m \in notices', NEW n \in notices',
                          m # n, m.sub = n.sub, m.date = n.date, m.plan = n.plan
                   PROVE  {m.no, n.no} \in overlapped
        BY <1>1 DEF AnnouncedOnce
      <3>1. SameNotice(m, n) /\ SameNotice(n, m)
        BY DEF SameNotice
      <3>2. CASE m \in notices /\ n \in notices
        BY <3>2 DEF BInv, AnnouncedOnce
      <3>3. CASE m \in batch[b].made
        BY <2>1, <2>4, <3>1, <3>3
      <3>4. CASE m \in notices /\ n \in batch[b].made
        <4>1. {n.no, m.no} \in overlapped
          BY <2>4, <3>1, <3>4
        <4>2. {n.no, m.no} = {m.no, n.no}
          OBVIOUS
        <4> QED BY <4>1, <4>2
      <3> QED BY <2>1, <3>2, <3>3, <3>4
    <2>6. NoticesApart'
      <3> SUFFICES ASSUME NEW a \in Batches, InFlight(a)', batch'[a].kind = "notify",
                          NEW m \in batch'[a].made
                   PROVE  /\ \A n \in notices' : SameNotice(m, n) => {m.no, n.no} \in overlapped'
                          /\ \A n \in batch'[a].made : SameNotice(m, n) => m = n
        BY DEF NoticesApart, SameNotice
      <3>1. /\ \A n \in notices : SameNotice(m, n) => {m.no, n.no} \in overlapped
            /\ \A n \in batch[a].made : SameNotice(m, n) => m = n
        BY <1>3 DEF BInv, NoticesApart
      <3> QED BY <1>1, <1>3, <1>5, <2>1, <3>1
    <2>7. ChargesApart' /\ ChargedOnce'
      BY <1>1, <1>3, <2>1 DEF BInv, ChargesApart, ChargedOnce, SameCharge
    <2>8. Periods'
      <3>1. \A n \in notices' : InPeriod(n)'
        BY <1>1, <2>1, <2>4 DEF BInv, Periods, InPeriod
      <3>2. \A a \in Batches : InFlight(a)' /\ batch'[a].kind = "notify" =>
                /\ Ordinal(batch'[a].day) <= Ordinal(today')
                /\ \A i \in batch'[a].todo :
                      Ordinal(i.date) - Ordinal(batch'[a].day)
                          <= batch'[a].rows[i.sub].plan.notify
                /\ \A n \in batch'[a].made : InPeriod(n)'
        BY <1>1, <1>3 DEF BInv, Periods, InPeriod
      <3> QED BY <3>1, <3>2 DEF Periods
    <2> QED BY <1>4, <2>3, <2>5, <2>6, <2>7, <2>8 DEF BInv
  <1> QED BY <1>2, <1>6, <1>7

-----------------------------------------------------------------------------
(* Nothing is missed.                                                      *)

\* A call that its step leaves alone stays settled while nothing but a deletion of a charge,
\* which is on record, takes charges away.
LEMMA SettledStays ==
  ASSUME NEW b \in Batches, NEW s \in Subs, NEW d, Settled(b, s, d),
         batch'[b] = batch[b], removed \subseteq removed',
         \A c \in charges \ charges' : [name |-> c.name, date |-> c.date] \in removed'
  PROVE  Settled(b, s, d)'
  <1> SUFFICES ASSUME NEW row, row = batch[b].rows[s],
                      row # Null, row.active, IsBillingDay(row.plan, d)
               PROVE  \/ \E i \in batch[b].todo : i.sub = s /\ i.date = d
                      \/ \E c \in charges' \cup batch[b].made : c.name = row.name /\ c.date = d
                      \/ [name |-> row.name, date |-> d] \in removed'
    BY DEF Settled
  <1> QED BY DEF Settled

LEMMA NothingMissedInit == Init => NothingMissed
  BY DEF Init, NothingMissed, InFlight

\* Steps that change no call, or only end one.
LEMMA OthersStaySettled ==
  ASSUME TypeOK, NothingMissed, removed \subseteq removed',
         \A c \in charges \ charges' : [name |-> c.name, date |-> c.date] \in removed',
         \A a \in Batches : InFlight(a)' => batch'[a] = batch[a]
  PROVE  NothingMissed'
  <1> SUFFICES ASSUME NEW a \in Batches, InFlight(a)', batch'[a].kind = "process",
                      batch'[a].target = Null, NEW s \in Subs,
                      NEW d \in {Yesterday(batch'[a].day), batch'[a].day}
               PROVE  Settled(a, s, d)'
    BY DEF NothingMissed
  <1>1. batch'[a] = batch[a] /\ InFlight(a)
    BY DEF InFlight
  <1>2. Settled(a, s, d)
    BY <1>1 DEF NothingMissed
  <1> QED BY <1>1, <1>2, SettledStays

\* A call without target date begins with all that is due on the two days.
LEMMA StartSettles ==
  ASSUME BInv, NothingMissed, NEW b \in Batches, NEW kind \in {"process", "notify"},
         NEW target \in Targets \cup {Null}, NEW todo \in SUBSET Item,
         Start(b, kind, target, todo),
         kind = "process" /\ target = Null =>
             todo = {i \in [sub : Active, date : {Yesterday(today), today}] :
                         IsBillingDay(sub[i.sub].plan, i.date)}
  PROVE  NothingMissed'
  <1>1. Started(b, kind, target, todo)
    BY StartStarts DEF BInv
  <1> SUFFICES ASSUME NEW a \in Batches, InFlight(a)', batch'[a].kind = "process",
                      batch'[a].target = Null, NEW s \in Subs,
                      NEW d \in {Yesterday(batch'[a].day), batch'[a].day}
               PROVE  Settled(a, s, d)'
    BY DEF NothingMissed
  <1>2. CASE a # b
    <2>1. batch'[a] = batch[a] /\ InFlight(a) /\ UNCHANGED <<charges, removed>>
      BY <1>1, <1>2 DEF Started, InFlight
    <2>2. Settled(a, s, d)
      BY <2>1 DEF NothingMissed
    <2> QED BY <2>1, <2>2, SettledStays
  <1>3. CASE a = b
    <2>1. /\ batch'[b].rows = sub /\ batch'[b].todo = todo /\ kind = "process" /\ target = Null
          /\ d \in {Yesterday(today), today}
      BY <1>1, <1>3 DEF Started
    <2>2. ASSUME sub[s] # Null, sub[s].active, IsBillingDay(sub[s].plan, d)
          PROVE  \E i \in todo : i.sub = s /\ i.date = d
      <3>1. [sub |-> s, date |-> d] \in todo
        BY <2>1, <2>2 DEF Active
      <3> QED BY <3>1
    <2> QED BY <1>3, <2>1, <2>2 DEF Settled
  <1> QED BY <1>2, <1>3

\* An item done has its charge.
LEMMA ProcessSettles ==
  ASSUME BInv, NothingMissed, NEW b \in Batches, NEW i, ProcessOne(b, i)
  PROVE  NothingMissed'
  <1>1. Charged(b, i) /\ UNCHANGED <<charges, removed>> /\ InFlight(b)
    BY ProcessKeepsBInv DEF ProcessOne, InFlight
  <1> SUFFICES ASSUME NEW a \in Batches, InFlight(a)', batch'[a].kind = "process",
                      batch'[a].target = Null, NEW s \in Subs,
                      NEW d \in {Yesterday(batch'[a].day), batch'[a].day}
               PROVE  Settled(a, s, d)'
    BY DEF NothingMissed
  <1>2. CASE a # b
    <2>1. batch'[a] = batch[a] /\ InFlight(a)
      BY <1>1, <1>2 DEF Charged, RowAfter, InFlight
    <2>2. Settled(a, s, d)
      BY <2>1 DEF NothingMissed
    <2> QED BY <1>1, <2>1, <2>2, SettledStays
  <1>3. CASE a = b
    <2>1. /\ batch'[b].kind = batch[b].kind /\ batch'[b].target = batch[b].target
          /\ batch'[b].day = batch[b].day /\ batch'[b].rows = batch[b].rows
          /\ batch'[b].todo = batch[b].todo \ {i} /\ batch[b].made \subseteq batch'[b].made
      BY <1>1 DEF Charged, RowAfter
    <2>2. Settled(b, s, d)
      BY <1>1, <1>3, <2>1 DEF NothingMissed
    <2>3. PICK c \in charges \cup batch'[b].made :
             c.name = batch[b].rows[i.sub].name /\ c.date = i.date
      BY <1>1 DEF Charged
    <2> SUFFICES ASSUME NEW row, row = batch[b].rows[s],
                        row # Null, row.active, IsBillingDay(row.plan, d)
                 PROVE  \/ \E j \in batch'[b].todo : j.sub = s /\ j.date = d
                        \/ \E e \in charges \cup batch'[b].made : e.name = row.name /\ e.date = d
                        \/ [name |-> row.name, date |-> d] \in removed
      BY <1>1, <1>3, <2>1 DEF Settled
    <2>4. \/ \E j \in batch[b].todo : j.sub = s /\ j.date = d
          \/ \E e \in charges \cup batch[b].made : e.name = row.name /\ e.date = d
          \/ [name |-> row.name, date |-> d] \in removed
      BY <2>2 DEF Settled
    <2>5. CASE i.sub = s /\ i.date = d
      BY <2>3, <2>5
    <2>6. CASE ~(i.sub = s /\ i.date = d)
      BY <2>1, <2>4, <2>6
    <2> QED BY <2>5, <2>6
  <1> QED BY <1>2, <1>3

LEMMA NothingMissedStep ==
  ASSUME BInv, NothingMissed, [Next]_vars
  PROVE  NothingMissed'
  <1>0. TypeOK
    BY DEF BInv
  <1>1. CASE UserAction
    <2>1. UserChanges
      BY <1>0, <1>1, UsersOnlyEdit
    <2> QED BY <1>0, <2>1, OthersStaySettled DEF UserChanges
  <1>2. CASE Tick \/ UNCHANGED vars
    BY <1>0, <1>2, OthersStaySettled DEF Tick, vars
  <1>3. ASSUME NEW b \in Batches, NEW target \in Targets \cup {Null}, StartProcess(b, target)
        PROVE  NothingMissed'
    <2> DEFINE todo == {i \in [sub : Active, date : DatesToProcess(target)] :
                            IsBillingDay(sub[i.sub].plan, i.date)}
    <2>1. todo \in SUBSET Item
      <3>1. DatesToProcess(target) \subseteq Date
        BY <1>0, YesterdayIsDate, BatchAssumption DEF BInv, TypeOK, DatesToProcess
      <3> QED BY <3>1, ActiveAreSubs DEF Item
    <2>2. target = Null => todo = {i \in [sub : Active, date : {Yesterday(today), today}] :
                                       IsBillingDay(sub[i.sub].plan, i.date)}
      BY DEF DatesToProcess
    <2>3. Start(b, "process", target, todo)
      BY <1>3 DEF StartProcess
    <2> HIDE DEF todo
    <2> QED BY <2>1, <2>2, <2>3, StartSettles
  <1>4. ASSUME NEW b \in Batches, StartNotify(b) PROVE NothingMissed'
    <2>1. PICK todo \in SUBSET Item : Start(b, "notify", Null, todo)
      BY <1>4, NotifyStarts DEF BInv
    <2> QED BY <2>1, StartSettles
  <1>5. ASSUME NEW b \in Batches, NEW i, ProcessOne(b, i) PROVE NothingMissed'
    BY <1>5, ProcessSettles
  <1>6. ASSUME NEW b \in Batches, NEW i, NotifyOne(b, i) PROVE NothingMissed'
    <2>1. /\ InFlight(b) /\ batch[b].kind = "notify" /\ UNCHANGED <<charges, removed>>
          /\ \A a \in Batches : a # b => batch'[a] = batch[a]
      BY <1>0, <1>6 DEF NotifyOne, InFlight, TypeOK
    <2>2. batch'[b].kind = "notify"
      BY <1>6, NotifyKeepsBInv
    <2> SUFFICES ASSUME NEW a \in Batches, InFlight(a)', batch'[a].kind = "process",
                        batch'[a].target = Null, NEW s \in Subs,
                        NEW d \in {Yesterday(batch'[a].day), batch'[a].day}
                 PROVE  Settled(a, s, d)'
      BY DEF NothingMissed
    <2>3. batch'[a] = batch[a] /\ InFlight(a)
      BY <2>1, <2>2 DEF InFlight
    <2>4. Settled(a, s, d)
      BY <1>0, <2>3 DEF NothingMissed
    <2> QED BY <2>1, <2>3, <2>4, SettledStays
  <1>7. ASSUME NEW b \in Batches, Commit(b) \/ Fail(b) PROVE NothingMissed'
    <2>1. RowGone(b) /\ removed' = removed /\ charges \subseteq charges'
      BY <1>0, <1>7, EndOfRow DEF Commit, Fail
    <2>2. \A a \in Batches : InFlight(a)' => batch'[a] = batch[a]
      BY <2>1 DEF RowGone, InFlight
    <2> QED BY <1>0, <2>1, <2>2, OthersStaySettled
  <1> QED BY <1>1, <1>2, <1>3, <1>4, <1>5, <1>6, <1>7 DEF Next, BatchAction

-----------------------------------------------------------------------------
(* Theorems.                                                               *)

LEMMA NextKeepsBInv ==
  ASSUME BInv, Next
  PROVE  BInv'
  <1>1. ASSUME NEW b \in Batches, BatchAction(b)
        PROVE  BInv'
    <2>1. CASE \E target \in Targets \cup {Null} : StartProcess(b, target)
      BY <2>1, StartProcessKeepsBInv
    <2>2. CASE StartNotify(b)
      BY <2>2, StartNotifyKeepsBInv
    <2>3. CASE \E i \in batch[b].todo : ProcessOne(b, i) \/ NotifyOne(b, i)
      BY <2>3, ProcessKeepsBInv, NotifyKeepsBInv
    <2>4. CASE Commit(b)
      BY <2>4, CommitKeepsBInv
    <2>5. CASE Fail(b)
      BY <2>5, FailKeepsBInv
    <2> QED BY <1>1, <2>1, <2>2, <2>3, <2>4, <2>5 DEF BatchAction
  <1> QED BY <1>1, UserKeepsBInv, TickKeepsBInv DEF Next

LEMMA StutterKeepsBInv ==
  ASSUME BInv, UNCHANGED vars
  PROVE  BInv'
  <1> USE DEF vars
  <1>1. TypeOK' /\ today'.year > 1 /\ Numbers' /\ Work'
    BY DEF BInv, TypeOK, Numbers, Work, InFlight
  <1>2. ChargesApart' /\ ChargedOnce'
    BY DEF BInv, ChargesApart, ChargedOnce, SameCharge, InFlight
  <1>3. Periods' /\ NoticesApart' /\ AnnouncedOnce'
    BY DEF BInv, Periods, InPeriod, NoticesApart, AnnouncedOnce, SameNotice, InFlight
  <1> QED BY <1>1, <1>2, <1>3 DEF BInv

LEMMA Invariance == Spec => []BInv
  <1>1. Init => BInv
    BY InitBInv
  <1>2. BInv /\ [Next]_vars => BInv'
    BY NextKeepsBInv, StutterKeepsBInv
  <1> QED BY <1>1, <1>2, PTL DEF Spec

\* The state of the batches keeps its type, the dates they compute included.
THEOREM TypeCorrect == Spec => []TypeOK
  <1>1. BInv => TypeOK
    BY DEF BInv
  <1> QED BY <1>1, Invariance, PTL

\* A service is charged once for a date, unless two calls were in flight at the same time:
\* for any number of calls, target dates, edits and deletions
\* (_create_transaction_for_subscription).
THEOREM ServicesAreChargedOnce == Spec => []ChargedOnce
  <1>1. BInv => ChargedOnce
    BY DEF BInv
  <1> QED BY <1>1, Invariance, PTL

\* A payment of a schedule is announced once, unless two calls were in flight at the same
\* time: the period that exists_for_subscription_period looks at is never too short.
THEOREM PaymentsAreAnnouncedOnce == Spec => []AnnouncedOnce
  <1>1. BInv => AnnouncedOnce
    BY DEF BInv
  <1> QED BY <1>1, Invariance, PTL

\* A call without target date that commits has charged what was due on its day and the day
\* before, but for charges that a user has deleted (process_subscriptions).
THEOREM BatchesCatchUp == Spec => CatchesUp
  <1> DEFINE Complete ==
        \A b \in Batches :
            Commit(b) /\ batch[b].kind = "process" /\ batch[b].target = Null =>
                \A s \in Subs, d \in {Yesterday(batch[b].day), batch[b].day} :
                    LET row == batch[b].rows[s]
                    IN  row # Null /\ row.active /\ IsBillingDay(row.plan, d) =>
                            \/ \E c \in charges' : c.name = row.name /\ c.date = d
                            \/ [name |-> row.name, date |-> d] \in removed
  <1>1. NothingMissed => Complete
    <2> SUFFICES ASSUME NothingMissed, NEW b \in Batches, Commit(b),
                        batch[b].kind = "process", batch[b].target = Null,
                        NEW s \in Subs, NEW d \in {Yesterday(batch[b].day), batch[b].day},
                        NEW row, row = batch[b].rows[s],
                        row # Null, row.active, IsBillingDay(row.plan, d)
                 PROVE  \/ \E c \in charges' : c.name = row.name /\ c.date = d
                        \/ [name |-> row.name, date |-> d] \in removed
      OBVIOUS
    <2>1. batch[b].todo = {} /\ charges' = charges \cup batch[b].made
      BY DEF Commit
    <2>2. Settled(b, s, d)
      BY DEF NothingMissed, Commit, InFlight
    <2> QED BY <2>1, <2>2 DEF Settled
  <1>2. NothingMissed /\ [Next]_vars => [Complete]_vars
    BY <1>1
  <1>3. Spec => []BInv
    BY Invariance
  <1>4. Spec => []NothingMissed
    BY <1>3, NothingMissedInit, NothingMissedStep, PTL DEF Spec
  <1> QED BY <1>2, <1>4, PTL DEF Spec, CatchesUp
==============================================================================

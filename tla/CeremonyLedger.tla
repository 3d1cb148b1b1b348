---------------------------- MODULE CeremonyLedger ----------------------------
(***************************************************************************)
(* Transactions with ceremony events, and the running totals kept for the  *)
(* people they are about (app/services/transaction_service.py), under      *)
(* concurrent requests.                                                    *)
(*                                                                         *)
(* An EVENT transaction has a row in ceremony_events; creating it adds its *)
(* amount to the ceremony_persons row of its author and that person, and   *)
(* deleting it takes the amount off again.  Totals are moved by the        *)
(* database (total + delta); the person's row is found, or inserted, by a  *)
(* separate statement, and no constraint keeps two requests from inserting *)
(* it twice.  The database is the one of module Transfers.                 *)
(*                                                                         *)
(* A name stands for a person's name and relationship.  The details of CAR *)
(* transactions are left out: every area but EVENT is OTHER.               *)
(***************************************************************************)
EXTENDS Integers, FiniteSets, FiniteSetsExt

CONSTANTS
    Users,       \* rows of auth.users
    GroupOf,     \* the family group of each user, which does not change here
    Names,       \* people transactions are about
    Creates,     \* bodies of POST /transactions
    Edits,       \* bodies of PUT /transactions/{id}, Null where a field is not sent
    Requests,    \* requests that may be in flight at the same time
    Null,        \* None, a row that does not exist
    MaxRequests  \* bound: how many requests are started in a behaviour

VARIABLES
    tx,          \* committed transactions
    events,      \* committed ceremony events
    person,      \* committed ceremony persons
    held,        \* the rows each request has locked
    pc,          \* the statement each request is at
    call,        \* its arguments and what it has read
    begun,       \* requests started so far: they number the requests
    overlapped,  \* history: pairs of requests that were in flight at the same time
    mixed,       \* history: transactions edited on the strength of an outdated row
    off          \* history: whose totals a request has set off (see OffBy...)

vars == <<tx, events, person, held, pc, call, begun, overlapped, mixed, off>>

\* A new row has the number of the request that inserted it.
Ids == 1 .. MaxRequests

Areas == {"EVENT", "OTHER"}

Directions == {"SENT", "RECEIVED"}

About == [name : Names, direction : Directions]

\* The fields a client sends, and the row made of them.
Body == [amount : Int \cup {Null}, discount : Int \cup {Null}, area : Areas \cup {Null},
         event : About \cup {Null}]

Tx == [user : Users, area : Areas, amount : Int, discount : Int, actual : Int]

Event == [no : Ids, t : Ids, about : About]

Person == [user : Users, name : Names, sent : Int, received : Int, count : Int]

\* seen: the transaction as read; event: the event to change or to count; to: the
\* person whose totals move; gone: the events a delete removes.
Call == [op : {"create", "update", "delete"}, no : Ids, user : Users, t : Ids,
         body : Body \cup {Null}, seen : Tx \cup {Null}, event : Event \cup {Null},
         to : Ids \cup {Null}, gone : SUBSET Ids]

Points == {"idle", "readTx", "writeTx", "readEvent", "person", "total", "writeEvent", "commit"}

\* The validator of TransactionCreateRequest: an EVENT has its event.  None is neither
\* an id nor a row.
ASSUME CeremonyAssumption ==
    /\ Edits \subseteq Body
    /\ Creates \subseteq {b \in [amount : Int, discount : Int, area : Areas,
                                 event : About \cup {Null}] :
                             b.area = "EVENT" => b.event # Null}
    /\ MaxRequests \in Nat
    /\ Null \notin Ids /\ Null \notin Tx /\ Null \notin Event
    /\ Null \notin Person /\ Null \notin Call

Init ==
    /\ tx = [t \in Ids |-> Null]
    /\ events = {}
    /\ person = [p \in Ids |-> Null]
    /\ held = [r \in Requests |-> {}]
    /\ pc = [r \in Requests |-> "idle"]
    /\ call = [r \in Requests |-> Null]
    /\ begun = 0
    /\ overlapped = {}
    /\ mixed = {}
    /\ off = {}

stored == <<tx, events, person>>
known == <<begun, overlapped>>

Goto(r, p) == pc' = [pc EXCEPT ![r] = p]

EventsOf(t) == {e \in events : e.t = t}

-----------------------------------------------------------------------------
(* Row locks.                                                              *)

TxRow(t) == <<"transactions", t>>
EventRow(e) == <<"ceremony_events", e.no>>
PersonRow(p) == <<"ceremony_persons", p>>

\* The committed rows the pending statement has to lock.
Wanted(r) ==
    LET c == call[r]
    IN  CASE pc[r] = "writeTx" /\ tx[c.t] # Null -> {TxRow(c.t)}
          [] pc[r] = "total" /\ person[c.to] # Null -> {PersonRow(c.to)}
          [] pc[r] = "writeEvent" -> {EventRow(e) : e \in EventsOf(c.t)}
          [] OTHER -> {}

WaitsFor(p, q) == p # q /\ Wanted(p) \cap held[q] # {}

\* r is on a cycle of waits.
Deadlocked(r) ==
    \E S \in SUBSET Requests :
        /\ r \in S
        /\ \A p \in S : (\E q \in S : WaitsFor(p, q)) /\ (\E q \in S : WaitsFor(q, p))

Acquire(r) ==
    /\ \A q \in Requests : ~WaitsFor(r, q)
    /\ held' = [held EXCEPT ![r] = @ \cup Wanted(r)]

-----------------------------------------------------------------------------
(* Requests begin: get_current_user reads the caller.                      *)

Begin(r, p, op, u, t, body) ==
    /\ pc[r] = "idle"
    /\ begun < MaxRequests
    /\ begun' = begun + 1
    /\ call' = [call EXCEPT ![r] =
           [op |-> op, no |-> begun + 1, user |-> u, t |-> t, body |-> body, seen |-> Null,
            event |-> Null, to |-> Null, gone |-> {}]]
    /\ overlapped' = overlapped \cup
           {{call[q].no, begun + 1} : q \in {q \in Requests : pc[q] # "idle"}}
    /\ Goto(r, p)
    /\ UNCHANGED <<stored, held, mixed, off>>

\* The INSERTs of the transaction and of its event wait for nobody.
BeginCreate(r, u, body) ==
    Begin(r, IF body.area = "EVENT" THEN "person" ELSE "commit", "create", u, begun + 1, body)

BeginUpdate(r, u, t, body) == t <= begun /\ Begin(r, "readTx", "update", u, t, body)

BeginDelete(r, u, t) == t <= begun /\ Begin(r, "readTx", "delete", u, t, Null)

-----------------------------------------------------------------------------
(* The statements.                                                         *)

\* _check_permission: their own, or made by a member of their family group.
Permitted(c, row) ==
    \/ row.user = c.user
    \/ GroupOf[c.user] # Null /\ GroupOf[row.user] = GroupOf[c.user]

\* Mutant: the row is read with a shared lock (FOR SHARE), to be written later.
ReadTxShared(r) ==
    LET c == call[r]
        row == tx[c.t]
    IN  /\ pc[r] = "readTx"
        /\ row # Null
        /\ Permitted(c, row)
        /\ call' = [call EXCEPT ![r].seen = row]
        /\ held' = [held EXCEPT ![r] = @ \cup {TxRow(c.t)}]
        /\ Goto(r, IF c.op = "delete" /\ row.area = "EVENT" THEN "readEvent" ELSE "writeTx")
        /\ UNCHANGED <<stored, known, mixed, off>>

ReadTx(r) ==
    LET c == call[r]
        row == tx[c.t]
    IN  /\ pc[r] = "readTx"
        /\ row # Null
        /\ Permitted(c, row)
        /\ call' = [call EXCEPT ![r].seen = row]
        /\ Goto(r, IF c.op = "delete" /\ row.area = "EVENT" THEN "readEvent" ELSE "writeTx")
        /\ UNCHANGED <<stored, held, known, mixed, off>>

\* update: UPDATE ... RETURNING; delete: DELETE, the last statement.
WriteTx(r) ==
    LET c == call[r]
    IN  /\ pc[r] = "writeTx"
        /\ c.op = "update" => tx[c.t] # Null
        /\ Acquire(r)
        /\ Goto(r, IF c.op = "update" /\ c.body.event # Null THEN "readEvent" ELSE "commit")
        /\ UNCHANGED <<stored, call, known, mixed, off>>

\* Mutant: an update adds its event without looking for one.
AddEvent(r) ==
    LET c == call[r]
    IN  /\ pc[r] = "readEvent"
        /\ \/ /\ c.op = "update" \/ EventsOf(c.t) = {}
              /\ Goto(r, IF c.op = "update" THEN "commit" ELSE "writeTx")
              /\ UNCHANGED call
           \/ \E e \in EventsOf(c.t) :
              /\ c.op = "delete"
              /\ call' = [call EXCEPT ![r].event = e]
              /\ Goto(r, "person")
        /\ UNCHANGED <<stored, held, known, mixed, off>>

\* An update adds the event that is not there; a delete has nothing to take off.
ReadEvent(r) ==
    LET c == call[r]
        found == EventsOf(c.t)
    IN  /\ pc[r] = "readEvent"
        /\ \/ /\ found = {}
              /\ Goto(r, IF c.op = "update" THEN "commit" ELSE "writeTx")
              /\ UNCHANGED call
           \/ \E e \in found :
              /\ found = {e}
              /\ call' = [call EXCEPT ![r].event = e]
              /\ Goto(r, IF c.op = "update" THEN "writeEvent" ELSE "person")
        /\ UNCHANGED <<stored, held, known, mixed, off>>

\* Whom a create or a delete is about.
AboutOf(c) == IF c.op = "create" THEN c.body.event ELSE c.event.about

Rows(u, n) == {p \in Ids : person[p] # Null /\ person[p].user = u /\ person[p].name = n}

\* Mutant: the person is inserted without looking for it.
InsertPerson(r) ==
    /\ pc[r] = "person"
    /\ call' = [call EXCEPT ![r].to = call[r].no]
    /\ Goto(r, "total")
    /\ UNCHANGED <<stored, held, known, mixed, off>>

\* Mutant: of several rows, any will do.
FindAnyPerson(r) ==
    LET c == call[r]
        found == Rows(c.user, AboutOf(c).name)
    IN  /\ pc[r] = "person"
        /\ \/ found = {} /\ call' = [call EXCEPT ![r].to = c.no]
           \/ \E p \in found : call' = [call EXCEPT ![r].to = p]
        /\ Goto(r, "total")
        /\ UNCHANGED <<stored, held, known, mixed, off>>

\* get_or_create with the caller as the owner: the row found, or a row of its own.
FindPerson(r) ==
    LET c == call[r]
        found == Rows(c.user, AboutOf(c).name)
    IN  /\ pc[r] = "person"
        /\ \/ found = {} /\ call' = [call EXCEPT ![r].to = c.no]
           \/ \E p \in found : found = {p} /\ call' = [call EXCEPT ![r].to = p]
        /\ Goto(r, "total")
        /\ UNCHANGED <<stored, held, known, mixed, off>>

\* update_totals
WriteTotal(r) ==
    /\ pc[r] = "total"
    /\ Acquire(r)
    /\ Goto(r, IF call[r].op = "create" THEN "commit" ELSE "writeEvent")
    /\ UNCHANGED <<stored, call, known, mixed, off>>

\* Mutant: a delete moves the totals and leaves the event where it is.
WriteEventOfUpdate(r) ==
    LET c == call[r]
    IN  /\ pc[r] = "writeEvent"
        /\ c.op = "update" => EventsOf(c.t) # {}
        /\ Acquire(r)
        /\ call' = [call EXCEPT ![r].gone =
               IF c.op = "update" THEN {e.no : e \in EventsOf(c.t)} ELSE {}]
        /\ Goto(r, IF c.op = "update" THEN "commit" ELSE "writeTx")
        /\ UNCHANGED <<stored, known, mixed, off>>

\* The UPDATE of the event (RETURNING), or its DELETE, which may find nothing.
WriteEvent(r) ==
    LET c == call[r]
    IN  /\ pc[r] = "writeEvent"
        /\ c.op = "update" => EventsOf(c.t) # {}
        /\ Acquire(r)
        /\ call' = [call EXCEPT ![r].gone = {e.no : e \in EventsOf(c.t)}]
        /\ Goto(r, IF c.op = "update" THEN "commit" ELSE "writeTx")
        /\ UNCHANGED <<stored, known, mixed, off>>

-----------------------------------------------------------------------------
(* Commits.                                                                *)

End(r) ==
    /\ held' = [held EXCEPT ![r] = {}]
    /\ Goto(r, "idle")
    /\ call' = [call EXCEPT ![r] = Null]
    /\ UNCHANGED known

AtCommit(r, op) == pc[r] = "commit" /\ call[r].op = op

\* Mutant: the totals are those of a row read when the request began.
MovedFromZero(c, sign, amount) ==
    LET sent == AboutOf(c).direction = "SENT"
        was == [user |-> c.user, name |-> AboutOf(c).name, sent |-> 0, received |-> 0, count |-> 0]
    IN  [was EXCEPT !.sent = @ + (IF sent THEN sign * amount ELSE 0),
                    !.received = @ + (IF sent THEN 0 ELSE sign * amount),
                    !.count = @ + sign]

\* The person's row after update_totals: a new row starts from zero.
Moved(c, sign, amount) ==
    LET sent == AboutOf(c).direction = "SENT"
        was == IF person[c.to] # Null THEN person[c.to]
               ELSE [user |-> c.user, name |-> AboutOf(c).name,
                     sent |-> 0, received |-> 0, count |-> 0]
    IN  [was EXCEPT !.sent = @ + (IF sent THEN sign * amount ELSE 0),
                    !.received = @ + (IF sent THEN 0 ELSE sign * amount),
                    !.count = @ + sign]

CommitCreate(r) ==
    LET c == call[r]
        b == c.body
    IN  /\ AtCommit(r, "create")
        /\ tx' = [tx EXCEPT ![c.t] =
               [user |-> c.user, area |-> b.area, amount |-> b.amount, discount |-> b.discount,
                actual |-> b.amount - b.discount]]
        /\ IF b.area = "EVENT"
           THEN /\ events' = events \cup {[no |-> c.no, t |-> c.t, about |-> b.event]}
                /\ person' = [person EXCEPT ![c.to] = Moved(c, 1, b.amount - b.discount)]
           ELSE UNCHANGED <<events, person>>
        /\ UNCHANGED <<mixed, off>>
        /\ End(r)

Sent(new, old) == IF new = Null THEN old ELSE new

\* Mutant: an area that was not sent is stored.
RevisedToNoArea(c) ==
    LET b == c.body
        row == tx[c.t]
        actual == Sent(b.amount, c.seen.amount) - Sent(b.discount, c.seen.discount)
    IN  [row EXCEPT !.area = b.area,
                    !.amount = Sent(b.amount, @),
                    !.discount = Sent(b.discount, @),
                    !.actual = IF b.amount = Null /\ b.discount = Null THEN @ ELSE actual]

\* Mutant: the amount paid is not computed again when only the discount changes.
RevisedByAmount(c) ==
    LET b == c.body
        row == tx[c.t]
        actual == Sent(b.amount, c.seen.amount) - Sent(b.discount, c.seen.discount)
    IN  [row EXCEPT !.area = Sent(b.area, @),
                    !.amount = Sent(b.amount, @),
                    !.discount = Sent(b.discount, @),
                    !.actual = IF b.amount = Null THEN @ ELSE actual]

\* The row after an update: the fields sent, and the amount paid computed from those
\* and from what the request read.
Revised(c) ==
    LET b == c.body
        row == tx[c.t]
        actual == Sent(b.amount, c.seen.amount) - Sent(b.discount, c.seen.discount)
    IN  [row EXCEPT !.area = Sent(b.area, @),
                    !.amount = Sent(b.amount, @),
                    !.discount = Sent(b.discount, @),
                    !.actual = IF b.amount = Null /\ b.discount = Null THEN @ ELSE actual]

\* What the events of u about n add up to.
Counted(u, n, txs, evs) ==
    LET mine == {e \in evs : /\ e.about.name = n
                             /\ txs[e.t] # Null /\ txs[e.t].user = u /\ txs[e.t].area = "EVENT"}
        paid(d) == SumFunction([e \in {e \in mine : e.about.direction = d} |->
                                    txs[e.t].actual])
    IN  [sent |-> paid("SENT"), received |-> paid("RECEIVED"), count |-> Cardinality(mine)]

\* An edit that changes what the events add up to sets the totals off.
OffByEdit ==
    {p \in Users \X Names :
        Counted(p[1], p[2], tx', events') # Counted(p[1], p[2], tx, events)}

CommitUpdate(r) ==
    LET c == call[r]
    IN  /\ AtCommit(r, "update")
        /\ tx' = [tx EXCEPT ![c.t] = Revised(c)]
        /\ events' = IF c.body.event = Null THEN events
                     ELSE IF c.event = Null
                     THEN events \cup {[no |-> c.no, t |-> c.t, about |-> c.body.event]}
                     ELSE {IF e.no \in c.gone THEN [e EXCEPT !.about = c.body.event] ELSE e :
                               e \in events}
        /\ mixed' = IF tx[c.t] # c.seen THEN mixed \cup {c.t} ELSE mixed
        /\ off' = off \cup OffByEdit
        /\ UNCHANGED person
        /\ End(r)

\* So does a delete by another member of the family, and one on the strength of rows that
\* have been deleted or edited since.
OffByDelete(c) ==
    IF c.user # c.seen.user \/ tx[c.t] # c.seen \/ c.event \notin events
    THEN {c.user, c.seen.user} \X {c.event.about.name}
    ELSE {}

CommitDelete(r) ==
    LET c == call[r]
    IN  /\ AtCommit(r, "delete")
        /\ tx' = [tx EXCEPT ![c.t] = Null]
        /\ IF c.event # Null
           THEN /\ person' = [person EXCEPT ![c.to] = Moved(c, -1, c.seen.actual)]
                /\ events' = {e \in events : e.no \notin c.gone}
                /\ off' = off \cup OffByDelete(c)
           ELSE UNCHANGED <<person, events, off>>
        /\ UNCHANGED mixed
        /\ End(r)

-----------------------------------------------------------------------------
(* Other ends.                                                             *)

\* Not found, forbidden, more than one row (scalar_one_or_none), or no row (scalar_one).
Refused(r) ==
    LET c == call[r]
    IN  \/ pc[r] = "readTx" /\ (tx[c.t] # Null => ~Permitted(c, tx[c.t]))
        \/ pc[r] = "writeTx" /\ c.op = "update" /\ tx[c.t] = Null
        \/ pc[r] = "readEvent" /\ Cardinality(EventsOf(c.t)) > 1
        \/ pc[r] = "person" /\ Cardinality(Rows(c.user, AboutOf(c).name)) > 1
        \/ pc[r] = "writeEvent" /\ c.op = "update" /\ EventsOf(c.t) = {}

Rollback(r) ==
    /\ pc[r] # "idle"
    /\ UNCHANGED <<stored, mixed, off>>
    /\ End(r)

Refuse(r) == Refused(r) /\ Rollback(r)

\* A statement fails, the connection is lost, a deadlock is broken.
Crash(r) == Rollback(r)

-----------------------------------------------------------------------------

Arrive(r) ==
    \E u \in Users :
        \/ \E body \in Creates : BeginCreate(r, u, body)
        \/ \E t \in Ids : \/ \E body \in Edits : BeginUpdate(r, u, t, body)
                          \/ BeginDelete(r, u, t)

Execute(r) ==
    \/ ReadTx(r) \/ WriteTx(r) \/ ReadEvent(r) \/ FindPerson(r) \/ WriteTotal(r)
    \/ WriteEvent(r)

Commit(r) == CommitCreate(r) \/ CommitUpdate(r) \/ CommitDelete(r)

Next == \E r \in Requests : Arrive(r) \/ Execute(r) \/ Commit(r) \/ Refuse(r) \/ Crash(r)

Spec == Init /\ [][Next]_vars

-----------------------------------------------------------------------------
(* Properties.                                                             *)

TypeOK ==
    /\ tx \in [Ids -> Tx \cup {Null}]
    /\ events \subseteq Event
    /\ person \in [Ids -> Person \cup {Null}]
    /\ \A r \in Requests : held[r] \subseteq {"transactions", "ceremony_events",
                                              "ceremony_persons"} \X Ids
    /\ pc \in [Requests -> Points]
    /\ call \in [Requests -> Call \cup {Null}]
    /\ begun \in 0 .. MaxRequests
    /\ overlapped \subseteq SUBSET Ids
    /\ mixed \subseteq Ids
    /\ off \subseteq Users \X Names

\* What the rows of a person add up to.
Totals(u, n) ==
    [sent     |-> SumFunction([p \in Rows(u, n) |-> person[p].sent]),
     received |-> SumFunction([p \in Rows(u, n) |-> person[p].received]),
     count    |-> SumFunction([p \in Rows(u, n) |-> person[p].count])]

\* However creates and deletes interleave, and even when a person has got two rows,
\* the totals kept for a person are those of the events on record, until an edit
\* changes what an event counts for, another member of the family deletes it, or a
\* request deletes a transaction that, or the event of which, has been deleted or edited
\* since it was read.
PeopleAddUp ==
    \A u \in Users, n \in Names :
        <<u, n>> \notin off => Totals(u, n) = Counted(u, n, tx, events)

\* "total_sent: the total amount sent, event_count: the number of events" (the data
\* model): with no exception.
TotalsMatchEvents ==
    \A u \in Users, n \in Names : Totals(u, n) = Counted(u, n, tx, events)

\* A person has two rows only when two requests that were in flight together have
\* both looked for it in vain.
TwinsOnlyByRace ==
    \A u \in Users, n \in Names : \A p, q \in Rows(u, n) : p # q => {p, q} \in overlapped

\* Two rows, and no request that has yet to move the total of one.
Frozen(u, n) ==
    /\ Cardinality(Rows(u, n)) > 1
    /\ \A r \in Requests : call[r] # Null /\ call[r].to # Null =>
          call[r].user # u \/ AboutOf(call[r]).name # n

\* Once a person has two rows and the requests that had found one are over, the totals
\* are frozen for good: every later create or delete about that person is refused.
TwinsAreFrozen ==
    [][\A u \in Users, n \in Names : Frozen(u, n) =>
          Frozen(u, n)' /\ \A p \in Rows(u, n) : person'[p] = person[p]]_vars

\* Requests block each other for good in one way only: an update has the transaction and
\* waits for its event, and a delete, which takes the event first, waits for the
\* transaction.  People are locked before either, by nobody who has locked one of these.
OnlyEditsMeetDeletes ==
    \A r \in Requests : Deadlocked(r) =>
        \E q \in Requests :
            /\ WaitsFor(r, q) /\ WaitsFor(q, r)
            /\ {call[r].op, call[q].op} = {"update", "delete"}
            /\ call[r].t = call[q].t

\* The amount paid is the amount less the discount, unless an edit was computed from
\* a row that another edit had changed meanwhile.
NetAmounts ==
    \A t \in Ids \ mixed : tx[t] # Null => tx[t].actual = tx[t].amount - tx[t].discount

\* A transaction never gets a second event, which would make every later request about
\* it fail: an update inserts the missing event with the transaction's row locked.  And
\* a delete of an EVENT transaction leaves an event behind only when a request in flight
\* at the same time has added it.
EventsFollowTransactions ==
    /\ [](\A e, f \in events : e # f => e.t # f.t)
    /\ [][\A r \in Requests : CommitDelete(r) /\ call[r].seen.area = "EVENT" =>
             \A e \in events' : e.t = call[r].t => {e.no, call[r].no} \in overlapped]_vars
=============================================================================

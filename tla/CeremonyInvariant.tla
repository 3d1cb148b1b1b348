-------------------------- MODULE CeremonyInvariant ---------------------------
(***************************************************************************)
(* The inductive invariant behind the theorems of CeremonyProofs.          *)
(***************************************************************************)
EXTENDS CeremonyLedger

InFlight(r) == call[r] # Null

\* The statement a request is at goes with its operation and with what it has read.
CreateShape(p, c) ==
    /\ p \in {"person", "total", "commit"}
    /\ c.body \in Creates /\ c.t = c.no
    /\ p # "commit" => c.body.area = "EVENT"
    /\ p = "person" => c.to = Null
    /\ p # "person" /\ c.body.area = "EVENT" => c.to # Null

UpdateShape(p, c) ==
    /\ p \in {"readTx", "writeTx", "readEvent", "writeEvent", "commit"}
    /\ c.body \in Edits /\ c.to = Null
    /\ p # "readTx" => c.seen # Null
    /\ p \in {"readEvent", "writeEvent"} => c.body.event # Null
    /\ p = "writeEvent" => c.event # Null

DeleteShape(p, c) ==
    /\ p \in Points \ {"idle"}
    /\ p # "readTx" => c.seen # Null
    /\ p \in {"person", "total", "writeEvent"} => c.event # Null
    /\ p \in {"readTx", "readEvent"} => c.event = Null
    /\ p \in {"readTx", "readEvent", "person"} => c.to = Null
    /\ p \notin {"readTx", "readEvent", "person"} /\ c.event # Null => c.to # Null
    /\ c.event = Null => c.gone = {}

Shape(p, c) == CASE c.op = "create" -> CreateShape(p, c)
                 [] c.op = "update" -> UpdateShape(p, c)
                 [] c.op = "delete" -> DeleteShape(p, c)

Shapes ==
    \A r \in Requests : IF InFlight(r) THEN Shape(pc[r], call[r]) ELSE pc[r] = "idle"

\* Requests are numbered as they begin, and any two in flight overlap.
Numbers ==
    /\ \A r \in Requests : InFlight(r) => call[r].no <= begun
    /\ \A q, r \in Requests :
          q # r /\ InFlight(q) /\ InFlight(r) =>
              call[q].no # call[r].no /\ {call[q].no, call[r].no} \in overlapped

\* A number not given out yet, or given to a request that has not ended.
Reserved(i) == i > begun \/ \E r \in Requests : InFlight(r) /\ call[r].no = i

\* No row bears such a number, or refers to one.
Unborn ==
    \A i \in Ids : Reserved(i) =>
        /\ tx[i] = Null /\ person[i] = Null
        /\ \A e \in events : e.no # i /\ e.t # i

-----------------------------------------------------------------------------
(* Locks.                                                                  *)

PersonRows == {"ceremony_persons"} \X Ids
EventRows == {"ceremony_events"} \X Ids
TxRows == {"transactions"} \X Ids

\* What a request at p has locked: people first, then the event; an update takes the
\* transaction before its event, a delete after it.
LockShape(p, c, h) ==
    CASE c.op = "create" -> h \subseteq PersonRows /\ (p # "commit" => h = {})
      [] c.op = "update" -> /\ h \subseteq {TxRow(c.t)} \cup EventRows
                            /\ p \in {"readTx", "writeTx"} => h = {}
                            /\ p \in {"readEvent", "writeEvent"} => h = {TxRow(c.t)}
                            /\ p = "commit" => TxRow(c.t) \in h
      [] c.op = "delete" -> /\ p \in {"readTx", "readEvent", "person", "total"} => h = {}
                            /\ p = "writeEvent" => h \subseteq PersonRows
                            /\ p = "writeTx" =>
                                  h \subseteq PersonRows \cup ({"ceremony_events"} \X c.gone)

Locks ==
    /\ held \in [Requests -> SUBSET (PersonRows \cup EventRows \cup TxRows)]
    /\ \A r \in Requests : IF InFlight(r) THEN LockShape(pc[r], call[r], held[r])
                           ELSE held[r] = {}
    /\ \A q, r \in Requests : q # r => held[q] \cap held[r] = {}

\* The transaction a request has read was committed; an update that has locked it finds
\* it there, a delete that has not locked it has found it gone.
TargetOf(r) ==
    /\ call[r].op # "create" /\ call[r].seen # Null => ~Reserved(call[r].t)
    /\ call[r].op = "update" /\ pc[r] \in {"readEvent", "writeEvent", "commit"} =>
          tx[call[r].t] # Null
    /\ call[r].op = "delete" /\ pc[r] = "commit" =>
          tx[call[r].t] = Null \/ TxRow(call[r].t) \in held[r]

-----------------------------------------------------------------------------
(* Events and people.                                                      *)

\* A transaction has one event at most.
OneEvent == \A e, f \in events : e # f => e.no # f.no /\ e.t # f.t

\* The events a request has found are of its transaction.
GoneOf(r) ==
    /\ \A k \in call[r].gone : ~Reserved(k)
    /\ \A e \in events : e.no \in call[r].gone => e.t = call[r].t

\* An update that is to add an event has still none to change.
NoneYetOf(r) ==
    call[r].op = "update" /\ pc[r] = "commit" /\ call[r].body.event # Null
        /\ call[r].event = Null => \A e \in events : e.t # call[r].t

\* An event that a delete leaves was added by a request in flight with it.
LeftBehindOf(r) ==
    call[r].op = "delete" /\ pc[r] \in {"writeTx", "commit"} /\ call[r].seen.area = "EVENT" =>
        \A e \in events : e.t = call[r].t /\ e.no \notin call[r].gone =>
            {e.no, call[r].no} \in overlapped

\* The person a request has found is there; the person it is going to insert has no row
\* but those of requests in flight with it.
LookingOf(r) ==
    call[r].to # Null =>
        \/ call[r].to \in Rows(call[r].user, AboutOf(call[r]).name)
        \/ /\ call[r].to = call[r].no
           /\ \A p \in Rows(call[r].user, AboutOf(call[r]).name) :
                 {p, call[r].no} \in overlapped

Targets == \A r \in Requests : InFlight(r) => TargetOf(r)
Gone == \A r \in Requests : InFlight(r) => GoneOf(r)
NoneYet == \A r \in Requests : InFlight(r) => NoneYetOf(r)
LeftBehind == \A r \in Requests : InFlight(r) => LeftBehindOf(r)
Looking == \A r \in Requests : InFlight(r) => LookingOf(r)

LInv ==
    /\ TypeOK /\ Shapes /\ Numbers /\ Unborn /\ Locks /\ Targets
    /\ OneEvent /\ Gone /\ NoneYet /\ LeftBehind
    /\ Looking /\ TwinsOnlyByRace /\ NetAmounts

-----------------------------------------------------------------------------
(* The totals.                                                             *)

\* The event counts in the totals of the transaction's owner.
Counts(e) == tx[e.t] # Null /\ tx[e.t].area = "EVENT"

\* While its transaction is there, a delete has read whose it is; and once it has looked for
\* the event, that of its transaction is about whom it has found, or about nobody if it has
\* found none, unless an edit has set the totals off since.
ReadOf(r) ==
    call[r].op = "delete" /\ pc[r] # "readTx" =>
        /\ tx[call[r].t] # Null => tx[call[r].t].user = call[r].seen.user
        /\ pc[r] = "readEvent" \/ call[r].event # Null => call[r].seen.area = "EVENT"
        /\ call[r].event # Null => call[r].event.t = call[r].t
        /\ pc[r] # "readEvent" =>
              \A e \in events : e.t = call[r].t /\ Counts(e) =>
                  \/ <<tx[e.t].user, e.about.name>> \in off
                  \/ call[r].event # Null /\ e.about.name = call[r].event.about.name

TotalsInv ==
    /\ IsFiniteSet(events)
    /\ \A r \in Requests : InFlight(r) => ReadOf(r)
    /\ PeopleAddUp
==============================================================================

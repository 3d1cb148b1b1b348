---------------------------- MODULE CeremonyProofs ----------------------------
(***************************************************************************)
(* Theorems about CeremonyLedger, for every value of its constants.        *)
(***************************************************************************)
EXTENDS CeremonyInvariant, Lemmas

LEMMA InitLInv == Init => LInv
  <1> SUFFICES ASSUME Init PROVE LInv
    OBVIOUS
  <1> USE CeremonyAssumption DEF Init, InFlight
  <1>1. TypeOK
    BY DEF TypeOK, Points, Ids
  <1>2. Shapes /\ Numbers /\ Unborn /\ Locks
    BY DEF Shapes, Numbers, Unborn, Locks
  <1>3. Targets /\ OneEvent /\ Gone /\ NoneYet /\ LeftBehind /\ Looking
    BY DEF Targets, OneEvent, Gone, NoneYet, LeftBehind, Looking
  <1>4. TwinsOnlyByRace /\ NetAmounts
    BY DEF TwinsOnlyByRace, NetAmounts, Rows
  <1> QED BY <1>1, <1>2, <1>3, <1>4 DEF LInv

LEMMA CallFields ==
  ASSUME TypeOK, Shapes, NEW r \in Requests, InFlight(r) \/ pc[r] # "idle"
  PROVE  /\ InFlight(r) /\ call[r] \in Call
         /\ call[r].op \in {"create", "update", "delete"}
         /\ call[r].no \in Ids /\ call[r].user \in Users /\ call[r].t \in Ids
         /\ call[r].body \in Body \cup {Null} /\ call[r].seen \in Tx \cup {Null}
         /\ call[r].event \in Event \cup {Null} /\ call[r].to \in Ids \cup {Null}
         /\ call[r].gone \subseteq Ids
         /\ Shape(pc[r], call[r])
  <1>1. InFlight(r) /\ Shape(pc[r], call[r])
    BY DEF Shapes
  <1>2. call[r] \in Call
    BY <1>1 DEF TypeOK, InFlight
  <1> QED BY <1>1, <1>2 DEF Call

LEMMA Busy ==
  ASSUME TypeOK, Shapes, NEW r \in Requests
  PROVE  InFlight(r) <=> pc[r] # "idle"
  <1>1. ASSUME InFlight(r) PROVE pc[r] # "idle"
    <2>1. Shape(pc[r], call[r]) /\ call[r].op \in {"create", "update", "delete"}
      BY <1>1, CallFields
    <2> QED BY <2>1 DEF Shape, CreateShape, UpdateShape, DeleteShape
  <1> QED BY <1>1 DEF Shapes

-----------------------------------------------------------------------------
(* What a step makes of the requests in flight.                            *)

\* Only the request r moves.
OthersStay(r) ==
    /\ pc' \in [Requests -> Points]
    /\ call' \in [Requests -> Call \cup {Null}]
    /\ \A q \in Requests : q # r => pc'[q] = pc[q] /\ call'[q] = call[q]

\* A call goes on with the same arguments.
Continues(c, new) ==
    /\ new \in Call /\ new # Null
    /\ new.op = c.op /\ new.no = c.no /\ new.user = c.user /\ new.t = c.t
    /\ new.body = c.body

LEMMA WithSeen ==
  ASSUME NEW c \in Call, NEW x \in Tx \cup {Null}
  PROVE  LET new == [c EXCEPT !.seen = x]
         IN  /\ Continues(c, new)
             /\ new.seen = x /\ new.event = c.event /\ new.to = c.to /\ new.gone = c.gone
  <1> DEFINE new == [c EXCEPT !.seen = x]
  <1>1. c = [op |-> c.op, no |-> c.no, user |-> c.user, t |-> c.t, body |-> c.body,
             seen |-> c.seen, event |-> c.event, to |-> c.to, gone |-> c.gone]
    BY DEF Call
  <1>2. new = [op |-> c.op, no |-> c.no, user |-> c.user, t |-> c.t, body |-> c.body,
               seen |-> x, event |-> c.event, to |-> c.to, gone |-> c.gone]
    BY <1>1
  <1> HIDE DEF new
  <1>3. new \in Call
    BY <1>2 DEF Call
  <1>4. new # Null
    BY <1>3, CeremonyAssumption
  <1>5. /\ new.op = c.op /\ new.no = c.no /\ new.user = c.user /\ new.t = c.t
        /\ new.body = c.body
        /\ new.seen = x /\ new.event = c.event /\ new.to = c.to /\ new.gone = c.gone
    BY <1>2
  <1> QED BY <1>3, <1>4, <1>5 DEF Continues, new

LEMMA WithEvent ==
  ASSUME NEW c \in Call, NEW x \in Event \cup {Null}
  PROVE  LET new == [c EXCEPT !.event = x]
         IN  /\ Continues(c, new)
             /\ new.seen = c.seen /\ new.event = x /\ new.to = c.to /\ new.gone = c.gone
  <1> DEFINE new == [c EXCEPT !.event = x]
  <1>1. c = [op |-> c.op, no |-> c.no, user |-> c.user, t |-> c.t, body |-> c.body,
             seen |-> c.seen, event |-> c.event, to |-> c.to, gone |-> c.gone]
    BY DEF Call
  <1>2. new = [op |-> c.op, no |-> c.no, user |-> c.user, t |-> c.t, body |-> c.body,
               seen |-> c.seen, event |-> x, to |-> c.to, gone |-> c.gone]
    BY <1>1
  <1> HIDE DEF new
  <1>3. new \in Call
    BY <1>2 DEF Call
  <1>4. new # Null
    BY <1>3, CeremonyAssumption
  <1>5. /\ new.op = c.op /\ new.no = c.no /\ new.user = c.user /\ new.t = c.t
        /\ new.body = c.body
        /\ new.seen = c.seen /\ new.event = x /\ new.to = c.to /\ new.gone = c.gone
    BY <1>2
  <1> QED BY <1>3, <1>4, <1>5 DEF Continues, new

LEMMA WithTo ==
  ASSUME NEW c \in Call, NEW x \in Ids \cup {Null}
  PROVE  LET new == [c EXCEPT !.to = x]
         IN  /\ Continues(c, new)
             /\ new.seen = c.seen /\ new.event = c.event /\ new.to = x /\ new.gone = c.gone
  <1> DEFINE new == [c EXCEPT !.to = x]
  <1>1. c = [op |-> c.op, no |-> c.no, user |-> c.user, t |-> c.t, body |-> c.body,
             seen |-> c.seen, event |-> c.event, to |-> c.to, gone |-> c.gone]
    BY DEF Call
  <1>2. new = [op |-> c.op, no |-> c.no, user |-> c.user, t |-> c.t, body |-> c.body,
               seen |-> c.seen, event |-> c.event, to |-> x, gone |-> c.gone]
    BY <1>1
  <1> HIDE DEF new
  <1>3. new \in Call
    BY <1>2 DEF Call
  <1>4. new # Null
    BY <1>3, CeremonyAssumption
  <1>5. /\ new.op = c.op /\ new.no = c.no /\ new.user = c.user /\ new.t = c.t
        /\ new.body = c.body
        /\ new.seen = c.seen /\ new.event = c.event /\ new.to = x /\ new.gone = c.gone
    BY <1>2
  <1> QED BY <1>3, <1>4, <1>5 DEF Continues, new

LEMMA WithGone ==
  ASSUME NEW c \in Call, NEW x \in SUBSET Ids
  PROVE  LET new == [c EXCEPT !.gone = x]
         IN  /\ Continues(c, new)
             /\ new.seen = c.seen /\ new.event = c.event /\ new.to = c.to /\ new.gone = x
  <1> DEFINE new == [c EXCEPT !.gone = x]
  <1>1. c = [op |-> c.op, no |-> c.no, user |-> c.user, t |-> c.t, body |-> c.body,
             seen |-> c.seen, event |-> c.event, to |-> c.to, gone |-> c.gone]
    BY DEF Call
  <1>2. new = [op |-> c.op, no |-> c.no, user |-> c.user, t |-> c.t, body |-> c.body,
               seen |-> c.seen, event |-> c.event, to |-> c.to, gone |-> x]
    BY <1>1
  <1> HIDE DEF new
  <1>3. new \in Call
    BY <1>2 DEF Call
  <1>4. new # Null
    BY <1>3, CeremonyAssumption
  <1>5. /\ new.op = c.op /\ new.no = c.no /\ new.user = c.user /\ new.t = c.t
        /\ new.body = c.body
        /\ new.seen = c.seen /\ new.event = c.event /\ new.to = c.to /\ new.gone = x
    BY <1>2
  <1> QED BY <1>3, <1>4, <1>5 DEF Continues, new

\* The request r goes on at p, as new.
MovedTo(r, p, new) ==
    /\ OthersStay(r) /\ InFlight(r)
    /\ pc'[r] = p /\ call'[r] = new /\ Continues(call[r], new)

-----------------------------------------------------------------------------
(* Steps that leave the rows alone.                                        *)

\* q is in flight, and another request does the step.
Stays(q) ==
    InFlight(q) /\ call[q] # Null /\ pc'[q] = pc[q] /\ call'[q] = call[q] /\ held'[q] = held[q]

\* That request is r.
GoesOn(q, r) ==
    /\ q # r /\ Stays(q)
    /\ call[q].no # call[r].no /\ {call[q].no, call[r].no} \in overlapped
    /\ {call[r].no, call[q].no} \in overlapped

\* Numbers are given back, not handed out.
ReservedLess == \A i \in Ids : (i > begun' \/ \E s \in Requests : InFlight(s)' /\ call'[s].no = i)
                           => Reserved(i)

\* What is said of a request stays when nothing it is about has changed.
LEMMA OthersKept ==
  ASSUME LInv, NEW q \in Requests, Stays(q), ReservedLess,
         overlapped \subseteq overlapped', UNCHANGED stored
  PROVE  TargetOf(q)' /\ GoneOf(q)' /\ NoneYetOf(q)' /\ LeftBehindOf(q)' /\ LookingOf(q)'
  <1>0. /\ call[q].t \in Ids /\ call[q].gone \subseteq Ids
    BY CallFields DEF LInv, Stays
  <1> USE DEF Stays, stored
  <1>1. TargetOf(q)'
    BY <1>0 DEF LInv, Targets, TargetOf, ReservedLess, Reserved, InFlight
  <1>2. GoneOf(q)'
    BY <1>0 DEF LInv, Gone, GoneOf, ReservedLess, Reserved, InFlight
  <1>3. NoneYetOf(q)'
    BY DEF LInv, NoneYet, NoneYetOf
  <1>4. LeftBehindOf(q)'
    BY DEF LInv, LeftBehind, LeftBehindOf
  <1>5. LookingOf(q)'
    BY DEF LInv, Looking, LookingOf, Rows, AboutOf
  <1> QED BY <1>1, <1>2, <1>3, <1>4, <1>5

RowsInv == Unborn /\ OneEvent /\ TwinsOnlyByRace /\ NetAmounts

LEMMA RowsInvKept ==
  ASSUME RowsInv, UNCHANGED <<stored, mixed>>, overlapped \subseteq overlapped', ReservedLess
  PROVE  RowsInv'
  <1>1. Unborn'
    BY DEF RowsInv, stored, Unborn, ReservedLess, Reserved
  <1>2. OneEvent' /\ NetAmounts'
    BY DEF RowsInv, stored, OneEvent, NetAmounts
  <1>3. TwinsOnlyByRace'
    BY DEF RowsInv, stored, TwinsOnlyByRace, Rows
  <1> QED BY <1>1, <1>2, <1>3 DEF RowsInv

LockRows == PersonRows \cup EventRows \cup TxRows

LEMMA MoveKeepsLInv ==
  ASSUME LInv, NEW r \in Requests, NEW p \in Points, NEW new, MovedTo(r, p, new),
         UNCHANGED <<stored, known, mixed, off>>,
         NEW W \in SUBSET LockRows, held' = [held EXCEPT ![r] = held[r] \cup W],
         \A q \in Requests : q # r => W \cap held[q] = {},
         Shape(p, new), LockShape(p, new, held[r] \cup W),
         TargetOf(r)', GoneOf(r)', NoneYetOf(r)', LeftBehindOf(r)', LookingOf(r)'
  PROVE  LInv'
  <1>1. /\ held \in [Requests -> SUBSET LockRows] /\ held'[r] = held[r] \cup W
        /\ \A q \in Requests : q # r => held'[q] = held[q]
        /\ held' \in [Requests -> SUBSET LockRows]
    BY DEF LInv, Locks, LockRows
  <1>2. InFlight(r) /\ InFlight(r)' /\ call'[r].no = call[r].no
    BY DEF MovedTo, Continues, InFlight
  <1>3. \A q \in Requests : InFlight(q)' /\ q # r => GoesOn(q, r)
    <2>1. \A q \in Requests : InFlight(q)' /\ q # r =>
             InFlight(q) /\ pc'[q] = pc[q] /\ call'[q] = call[q]
      BY DEF MovedTo, Continues, OthersStay, InFlight
    <2> QED BY <1>1, <1>2, <2>1 DEF LInv, Numbers, GoesOn, Stays, InFlight
  <1>4. ReservedLess
    BY <1>2, <1>3 DEF ReservedLess, Reserved, GoesOn, Stays, known
  <1>5. \A q \in Requests : InFlight(q)' =>
            TargetOf(q)' /\ GoneOf(q)' /\ NoneYetOf(q)' /\ LeftBehindOf(q)' /\ LookingOf(q)'
    BY <1>3, <1>4, OthersKept DEF known, GoesOn
  <1>6. TypeOK'
    <2>1. held' \in [Requests -> SUBSET ({"transactions", "ceremony_events",
                                           "ceremony_persons"} \X Ids)]
      BY <1>1 DEF LockRows, PersonRows, EventRows, TxRows
    <2> QED BY <2>1 DEF LInv, TypeOK, MovedTo, Continues, OthersStay, stored, known
  <1>7. Shapes'
    <2>1. \A q \in Requests : ~InFlight(q)' => pc'[q] = "idle"
      BY <1>2 DEF MovedTo, Continues, OthersStay, LInv, Shapes, InFlight
    <2>2. \A q \in Requests : InFlight(q)' => Shape(pc'[q], call'[q])
      BY <1>3 DEF MovedTo, Continues, GoesOn, Stays, LInv, Shapes
    <2> QED BY <2>1, <2>2 DEF Shapes, Shape, CreateShape, UpdateShape, DeleteShape
  <1>8. Numbers'
    <2>1. \A q \in Requests : InFlight(q)' => InFlight(q) /\ call'[q].no = call[q].no
      BY <1>2, <1>3 DEF GoesOn, Stays
    <2>2. \A q \in Requests : InFlight(q)' => call'[q].no <= begun'
      BY <2>1 DEF LInv, Numbers, known
    <2>3. ASSUME NEW q \in Requests, NEW s \in Requests, q # s, InFlight(q)', InFlight(s)'
          PROVE  call'[q].no # call'[s].no /\ {call'[q].no, call'[s].no} \in overlapped'
      <3>1. InFlight(q) /\ InFlight(s) /\ call'[q].no = call[q].no /\ call'[s].no = call[s].no
        BY <2>1, <2>3
      <3>2. call[q].no # call[s].no /\ {call[q].no, call[s].no} \in overlapped
        BY <2>3, <3>1 DEF LInv, Numbers
      <3> QED BY <3>1, <3>2 DEF known
    <2> QED BY <2>2, <2>3 DEF Numbers
  <1>9. Locks'
    <2>1. \A q \in Requests : InFlight(q)' => LockShape(pc'[q], call'[q], held'[q])
      BY <1>1, <1>3 DEF MovedTo, Continues, GoesOn, Stays, LInv, Locks
    <2>2. \A q \in Requests : ~InFlight(q)' => held'[q] = {}
      BY <1>1, <1>2 DEF MovedTo, Continues, OthersStay, LInv, Locks, InFlight
    <2>3. \A q, s \in Requests : q # s => held'[q] \cap held'[s] = {}
      BY <1>1 DEF LInv, Locks
    <2> QED BY <1>1, <2>1, <2>2, <2>3
            DEF Locks, LockShape, LockRows, PersonRows, EventRows, TxRow
  <1>10. RowsInv'
    BY <1>4, RowsInvKept DEF LInv, RowsInv, known
  <1> QED BY <1>5, <1>6, <1>7, <1>8, <1>9, <1>10
          DEF LInv, RowsInv, Targets, Gone, NoneYet, LeftBehind, Looking

\* Where a request starts.
Opens(p, op, t, body) ==
    \/ /\ op = "create" /\ t = begun + 1 /\ body \in Creates
       /\ p = IF body.area = "EVENT" THEN "person" ELSE "commit"
    \/ op = "update" /\ p = "readTx" /\ t \in Ids /\ body \in Edits
    \/ op = "delete" /\ p = "readTx" /\ t \in Ids /\ body = Null

\* The bodies that are sent are bodies.
LEMMA Bodies == Creates \subseteq Body /\ Edits \subseteq Body
  <1> SUFFICES ASSUME NEW b \in Creates PROVE b \in Body
    BY CeremonyAssumption
  <1>1. b \in [amount : Int, discount : Int, area : Areas, event : About \cup {Null}]
    BY CeremonyAssumption
  <1> QED BY <1>1 DEF Body

LEMMA BeginKeepsLInv ==
  ASSUME LInv, NEW r \in Requests, NEW p, NEW op, NEW u \in Users, NEW t, NEW body,
         Opens(p, op, t, body), Begin(r, p, op, u, t, body)
  PROVE  LInv'
  <1> DEFINE new == [op |-> op, no |-> begun + 1, user |-> u, t |-> t, body |-> body,
                     seen |-> Null, event |-> Null, to |-> Null, gone |-> {}]
  <1>1. /\ pc \in [Requests -> Points] /\ call \in [Requests -> Call \cup {Null}]
        /\ begun \in 0 .. MaxRequests /\ MaxRequests \in Nat
        /\ held \in [Requests -> SUBSET LockRows]
    BY CeremonyAssumption DEF LInv, TypeOK, Locks, LockRows
  <1>2. begun + 1 \in Ids /\ begun' = begun + 1 /\ ~InFlight(r)
    BY <1>1, Busy DEF Begin, Ids, LInv
  <1>3. new \in Call /\ new # Null
    <2>1. op \in {"create", "update", "delete"} /\ t \in Ids /\ body \in Body \cup {Null}
      BY <1>2, Bodies DEF Opens
    <2>2. new \in Call
      BY <1>2, <2>1 DEF Call
    <2> QED BY <2>2, CeremonyAssumption
  <1>4. p \in Points \ {"idle"}
    BY DEF Opens, Points
  <1>5. OthersStay(r) /\ pc'[r] = p /\ call'[r] = new
    BY <1>1, <1>3, <1>4 DEF Begin, Goto, OthersStay
  <1>6. UNCHANGED <<stored, held, mixed, off>> /\ overlapped \subseteq overlapped'
    BY DEF Begin
  <1>7. /\ call'[r].op = op /\ call'[r].no = begun + 1 /\ call'[r].t = t /\ call'[r].body = body
        /\ call'[r].seen = Null /\ call'[r].event = Null /\ call'[r].to = Null
        /\ call'[r].gone = {} /\ call'[r] # Null
    BY <1>3, <1>5
  <1>8. \A q \in Requests : InFlight(q) => {call[q].no, begun + 1} \in overlapped'
    <2>1. \A q \in Requests : InFlight(q) => pc[q] # "idle"
      BY Busy DEF LInv
    <2> QED BY <2>1 DEF Begin
  <1> HIDE DEF new
  <1>9. \A q \in Requests : InFlight(q)' /\ q # r => Stays(q)
    BY <1>5, <1>6 DEF OthersStay, InFlight, Stays
  <1>10. ReservedLess
    BY <1>1, <1>2, <1>7, <1>9 DEF ReservedLess, Reserved, Stays, Ids
  <1>11. \A q \in Requests : InFlight(q)' =>
             TargetOf(q)' /\ GoneOf(q)' /\ NoneYetOf(q)' /\ LeftBehindOf(q)' /\ LookingOf(q)'
    <2>1. TargetOf(r)' /\ GoneOf(r)'
      BY <1>5, <1>7 DEF TargetOf, GoneOf, Opens
    <2>2. NoneYetOf(r)' /\ LeftBehindOf(r)' /\ LookingOf(r)'
      BY <1>5, <1>7 DEF NoneYetOf, LeftBehindOf, LookingOf, Opens
    <2> QED BY <1>6, <1>9, <1>10, <2>1, <2>2, OthersKept
  <1>12. TypeOK'
    <2>1. overlapped' \subseteq SUBSET Ids
      <3>1. \A q \in Requests : pc[q] # "idle" => call[q].no \in Ids
        BY CallFields DEF LInv
      <3> QED BY <1>2, <3>1 DEF Begin, LInv, TypeOK
    <2>2. begun' \in 0 .. MaxRequests
      BY <1>1, <1>2 DEF Begin
    <2> QED BY <1>5, <1>6, <2>1, <2>2 DEF LInv, TypeOK, OthersStay, stored
  <1>13. Shapes'
    <2>1. Shape(p, call'[r])
      BY <1>2, <1>4, <1>7 DEF Shape, CreateShape, UpdateShape, DeleteShape, Opens
    <2>2. \A q \in Requests : InFlight(q)' => Shape(pc'[q], call'[q])
      BY <1>5, <1>9, <2>1 DEF Stays, LInv, Shapes
    <2>3. \A q \in Requests : ~InFlight(q)' => pc'[q] = "idle"
      BY <1>5, <1>7 DEF OthersStay, LInv, Shapes, InFlight
    <2> QED BY <2>2, <2>3 DEF Shapes, Shape, CreateShape, UpdateShape, DeleteShape
  <1>14. Numbers'
    <2>1. \A q \in Requests : InFlight(q) => call[q].no <= begun /\ call[q].no \in Ids
      BY CallFields DEF LInv, Numbers
    <2>2. \A q \in Requests : InFlight(q)' => call'[q].no <= begun'
      BY <1>1, <1>2, <1>7, <1>9, <2>1 DEF Stays, Ids
    <2>3. ASSUME NEW q \in Requests, q # r, InFlight(q)'
          PROVE  /\ call'[q].no # call'[r].no /\ {call'[q].no, call'[r].no} \in overlapped'
                 /\ {call'[r].no, call'[q].no} \in overlapped'
      <3>1. InFlight(q) /\ call'[q].no = call[q].no /\ call'[r].no = begun + 1
        BY <1>7, <1>9, <2>3 DEF Stays
      <3>2. call[q].no # begun + 1
        BY <1>1, <2>1, <3>1 DEF Ids
      <3>3. {call[q].no, begun + 1} = {begun + 1, call[q].no}
        OBVIOUS
      <3> QED BY <1>8, <3>1, <3>2, <3>3
    <2>4. \A q, s \in Requests : q # s /\ q # r /\ s # r /\ InFlight(q)' /\ InFlight(s)' =>
              call'[q].no # call'[s].no /\ {call'[q].no, call'[s].no} \in overlapped'
      BY <1>6, <1>9 DEF LInv, Numbers, Stays
    <2>5. \A q, s \in Requests : q # s /\ InFlight(q)' /\ InFlight(s)' =>
              call'[q].no # call'[s].no /\ {call'[q].no, call'[s].no} \in overlapped'
      BY <2>3, <2>4 DEF InFlight
    <2> QED BY <2>2, <2>5 DEF Numbers
  <1>15. Locks'
    <2>1. held[r] = {}
      BY <1>2 DEF LInv, Locks
    <2>2. LockShape(p, call'[r], {})
      BY <1>7 DEF LockShape, Opens
    <2>3. \A q \in Requests : InFlight(q)' => LockShape(pc'[q], call'[q], held'[q])
      BY <1>5, <1>6, <1>9, <2>1, <2>2 DEF Stays, LInv, Locks
    <2>4. \A q \in Requests : ~InFlight(q)' => held'[q] = {}
      BY <1>5, <1>6, <1>7 DEF OthersStay, LInv, Locks, InFlight
    <2> QED BY <1>6, <2>3, <2>4
            DEF LInv, Locks, LockShape, PersonRows, EventRows, TxRow
  <1>16. RowsInv'
    BY <1>6, <1>10, RowsInvKept DEF LInv, RowsInv
  <1> QED BY <1>11, <1>12, <1>13, <1>14, <1>15, <1>16
          DEF LInv, RowsInv, Targets, Gone, NoneYet, LeftBehind, Looking

\* A statement that locks nothing.
LEMMA QuietKeepsLInv ==
  ASSUME LInv, NEW r \in Requests, NEW p \in Points, NEW new, MovedTo(r, p, new),
         UNCHANGED <<stored, held, known, mixed, off>>,
         Shape(p, new), LockShape(p, new, held[r]),
         TargetOf(r)', GoneOf(r)', NoneYetOf(r)', LeftBehindOf(r)', LookingOf(r)'
  PROVE  LInv'
  <1> DEFINE W == {}
  <1>1. W \in SUBSET LockRows /\ \A q \in Requests : q # r => W \cap held[q] = {}
    OBVIOUS
  <1>2. held[r] \cup W = held[r]
    OBVIOUS
  <1>3. held' = [held EXCEPT ![r] = held[r] \cup W]
    BY DEF LInv, Locks
  <1>4. LockShape(p, new, held[r] \cup W)
    BY <1>2
  <1>5. UNCHANGED <<stored, known, mixed, off>>
    OBVIOUS
  <1> HIDE DEF W
  <1> QED BY <1>1, <1>3, <1>4, <1>5, MoveKeepsLInv

\* What Acquire locks.
LEMMA Acquired ==
  ASSUME LInv, NEW r \in Requests, pc[r] # "idle", Acquire(r)
  PROVE  /\ Wanted(r) \in SUBSET LockRows
         /\ held' = [held EXCEPT ![r] = held[r] \cup Wanted(r)]
         /\ \A q \in Requests : q # r => Wanted(r) \cap held[q] = {}
  <1>1. call[r].t \in Ids /\ call[r].to \in Ids \cup {Null}
    BY CallFields DEF LInv
  <1>2. pc[r] = "total" => call[r].to \in Ids
    <2>1. /\ call[r].op \in {"create", "update", "delete"} /\ Shape(pc[r], call[r])
          /\ call[r].body \in Body \cup {Null}
      BY CallFields DEF LInv
    <2> QED BY <1>1, <2>1 DEF Shape, CreateShape, UpdateShape, DeleteShape
  <1>3. \A e \in events : e.no \in Ids
    BY DEF LInv, TypeOK, Event
  <1>4. Wanted(r) \in SUBSET LockRows
    BY <1>1, <1>2, <1>3 DEF Wanted, EventsOf, TxRow, EventRow, PersonRow, LockRows,
                            PersonRows, EventRows, TxRows
  <1>5. held' = [held EXCEPT ![r] = held[r] \cup Wanted(r)]
    BY DEF Acquire, LInv, Locks
  <1>6. \A q \in Requests : q # r => Wanted(r) \cap held[q] = {}
    BY DEF Acquire, WaitsFor
  <1> QED BY <1>4, <1>5, <1>6

\* A committed transaction, event or person is not of a request in flight.
LEMMA Born ==
  ASSUME LInv, NEW i \in Ids
  PROVE  /\ tx[i] # Null => ~Reserved(i)
         /\ person[i] # Null => ~Reserved(i)
         /\ \A e \in events : e \in Event /\ ~Reserved(e.no) /\ ~Reserved(e.t)
  <1>1. \A e \in events : e \in Event /\ e.no \in Ids /\ e.t \in Ids
    BY DEF LInv, TypeOK, Event
  <1> QED BY <1>1 DEF LInv, Unborn

LEMMA ReservedStays ==
  ASSUME LInv, NEW r \in Requests, UNCHANGED known,
         \A q \in Requests : q # r => call'[q] = call[q],
         InFlight(r) /\ call'[r] # Null /\ call'[r].no = call[r].no
  PROVE  \A i : Reserved(i)' <=> Reserved(i)
  BY DEF Reserved, InFlight, known

LEMMA ReadTxKeepsLInv ==
  ASSUME LInv, NEW r \in Requests, ReadTx(r)
  PROVE  LInv'
  <1> DEFINE c == call[r]
             row == tx[c.t]
             new == [c EXCEPT !.seen = row]
             p == IF c.op = "delete" /\ row.area = "EVENT" THEN "readEvent" ELSE "writeTx"
  <1>1. /\ InFlight(r) /\ c \in Call /\ c.t \in Ids /\ pc[r] = "readTx"
        /\ c.op \in {"update", "delete"} /\ Shape(pc[r], c)
    <2>1. /\ InFlight(r) /\ c \in Call /\ c.t \in Ids /\ Shape(pc[r], c) /\ pc[r] = "readTx"
          /\ c.op \in {"create", "update", "delete"}
      BY CallFields DEF ReadTx, LInv
    <2> QED BY <2>1 DEF Shape, CreateShape
  <1>2. row # Null /\ row \in Tx /\ ~Reserved(c.t)
    BY <1>1, Born DEF ReadTx, LInv, TypeOK
  <1>3. call' = [call EXCEPT ![r] = new] /\ pc' = [pc EXCEPT ![r] = p]
    BY DEF ReadTx, Goto, LInv, TypeOK
  <1>4. /\ Continues(c, new)
        /\ new.seen = row /\ new.event = c.event /\ new.to = c.to /\ new.gone = c.gone
    BY <1>1, <1>2, WithSeen
  <1> HIDE DEF new
  <1>5. p \in Points
    BY DEF Points
  <1> HIDE DEF p
  <1>6. MovedTo(r, p, new)
    BY <1>1, <1>3, <1>4, <1>5 DEF MovedTo, Continues, OthersStay, LInv, TypeOK
  <1>7. UNCHANGED <<stored, held, known, mixed, off>>
    BY DEF ReadTx
  <1>8. p = IF c.op = "delete" /\ row.area = "EVENT" THEN "readEvent" ELSE "writeTx"
    BY DEF p
  <1>9. Shape(p, new)
    BY <1>1, <1>2, <1>4, <1>8 DEF Shape, UpdateShape, DeleteShape, Points, Continues
  <1>10. LockShape(p, new, held[r])
    <2>1. held[r] = {}
      BY <1>1 DEF LInv, Locks, LockShape
    <2> QED BY <1>1, <1>4, <1>8, <2>1 DEF LockShape, Continues
  <1>11. \A i : Reserved(i)' <=> Reserved(i)
    BY <1>6, <1>7, ReservedStays DEF MovedTo, Continues, OthersStay
  <1>12. TargetOf(r)' /\ GoneOf(r)'
    <2>1. ~Reserved(c.t)'
      BY <1>2, <1>4, <1>6, <1>11 DEF Reserved, MovedTo, Continues
    <2>2. TargetOf(r)'
      BY <1>2, <1>4, <1>6, <1>8, <1>11 DEF TargetOf, MovedTo, Continues, Reserved
    <2>3. GoneOf(r)'
      BY <1>1, <1>4, <1>6, <1>7, <1>11 DEF GoneOf, MovedTo, Continues, Reserved, LInv, Gone, stored
    <2> QED BY <2>2, <2>3
  <1>13. NoneYetOf(r)' /\ LeftBehindOf(r)' /\ LookingOf(r)'
    <2>1. c.to = Null
      BY <1>1 DEF Shape, UpdateShape, DeleteShape
    <2>2. NoneYetOf(r)' /\ LeftBehindOf(r)'
      BY <1>4, <1>6, <1>8 DEF NoneYetOf, LeftBehindOf, MovedTo, Continues
    <2>3. LookingOf(r)'
      BY <1>4, <1>6, <2>1 DEF LookingOf, MovedTo
    <2> QED BY <2>2, <2>3
  <1> QED BY <1>5, <1>6, <1>7, <1>9, <1>10, <1>12, <1>13, QuietKeepsLInv

\* What stays true of the request that moves.
LEMMA LookingKept ==
  ASSUME LInv, NEW r \in Requests, NEW p, NEW new, MovedTo(r, p, new),
         UNCHANGED <<stored, known>>, new.to = call[r].to,
         call[r].to # Null => new.event = call[r].event
  PROVE  LookingOf(r)'
  <1>1. LookingOf(r)
    BY DEF LInv, Looking, MovedTo
  <1> QED BY <1>1 DEF LookingOf, MovedTo, Continues, AboutOf, Rows, stored, known

LEMMA GoneKept ==
  ASSUME LInv, NEW r \in Requests, NEW p, NEW new, MovedTo(r, p, new),
         UNCHANGED <<stored, known>>, new.gone = call[r].gone
  PROVE  GoneOf(r)' /\ \A i : Reserved(i)' <=> Reserved(i)
  <1>1. \A i : Reserved(i)' <=> Reserved(i)
    BY ReservedStays DEF MovedTo, Continues, OthersStay
  <1>2. GoneOf(r)
    BY DEF LInv, Gone, MovedTo
  <1> QED BY <1>1, <1>2 DEF GoneOf, MovedTo, Continues, stored, Reserved

\* A request that goes on with the call as it is.
LEMMA SameCall ==
  ASSUME LInv, NEW r \in Requests, pc[r] # "idle", UNCHANGED call, NEW p \in Points, Goto(r, p)
  PROVE  MovedTo(r, p, call[r])
  <1>1. InFlight(r) /\ call[r] \in Call
    BY CallFields DEF LInv
  <1>2. call[r] # Null
    BY <1>1, CeremonyAssumption
  <1> QED BY <1>1, <1>2 DEF MovedTo, Continues, OthersStay, Goto, LInv, TypeOK

LEMMA WriteTxKeepsLInv ==
  ASSUME LInv, NEW r \in Requests, WriteTx(r)
  PROVE  LInv'
  <1> DEFINE c == call[r]
             p == IF c.op = "update" /\ c.body.event # Null THEN "readEvent" ELSE "commit"
  <1>1. /\ InFlight(r) /\ c \in Call /\ c.t \in Ids /\ pc[r] = "writeTx" /\ Shape(pc[r], c)
        /\ c.op \in {"update", "delete"}
    <2>1. /\ InFlight(r) /\ c \in Call /\ c.t \in Ids /\ Shape(pc[r], c) /\ pc[r] = "writeTx"
          /\ c.op \in {"create", "update", "delete"}
      BY CallFields DEF WriteTx, LInv
    <2> QED BY <2>1 DEF Shape, CreateShape
  <1>2. p \in Points /\ Goto(r, p)
    BY DEF Points, WriteTx
  <1>3. c.op = "update" => p = IF c.body.event # Null THEN "readEvent" ELSE "commit"
    OBVIOUS
  <1>4. c.op = "delete" => p = "commit"
    OBVIOUS
  <1> HIDE DEF p
  <1>5. UNCHANGED <<stored, known, mixed, off>> /\ UNCHANGED call
    BY DEF WriteTx
  <1>6. MovedTo(r, p, c)
    BY <1>1, <1>2, <1>5, SameCall
  <1>7. /\ Wanted(r) \in SUBSET LockRows
        /\ held' = [held EXCEPT ![r] = held[r] \cup Wanted(r)]
        /\ \A q \in Requests : q # r => Wanted(r) \cap held[q] = {}
    BY <1>1, Acquired DEF WriteTx
  <1>8. Wanted(r) = IF tx[c.t] # Null THEN {TxRow(c.t)} ELSE {}
    BY <1>1 DEF Wanted
  <1>9. c.op = "update" => tx[c.t] # Null
    BY DEF WriteTx
  <1>10. held'[r] = held[r] \cup Wanted(r)
    BY <1>7 DEF LInv, Locks
  <1>11. Shape(p, c)
    BY <1>1, <1>3, <1>4 DEF Shape, UpdateShape, DeleteShape, Points
  <1>12. LockShape(p, c, held[r] \cup Wanted(r))
    <2>1. LockShape(pc[r], c, held[r])
      BY <1>1 DEF LInv, Locks
    <2>2. CASE c.op = "update"
      BY <1>1, <1>3, <1>8, <1>9, <2>1, <2>2 DEF LockShape
    <2>3. CASE c.op = "delete"
      BY <1>4, <2>3 DEF LockShape
    <2> QED BY <1>1, <2>2, <2>3
  <1>13. GoneOf(r)' /\ \A i : Reserved(i)' <=> Reserved(i)
    BY <1>5, <1>6, GoneKept
  <1>14. TargetOf(r)'
    <2>1. TargetOf(r)
      BY <1>1 DEF LInv, Targets
    <2>2. TxRow(c.t) \in held[r] \cup Wanted(r) \/ tx[c.t] = Null
      BY <1>8
    <2> QED BY <1>5, <1>6, <1>9, <1>10, <1>13, <2>1, <2>2
            DEF TargetOf, MovedTo, Continues, stored, Reserved
  <1>15. NoneYetOf(r)'
    BY <1>3, <1>6 DEF NoneYetOf, MovedTo
  <1>16. LeftBehindOf(r)'
    <2>1. LeftBehindOf(r)
      BY <1>1 DEF LInv, LeftBehind
    <2> QED BY <1>1, <1>5, <1>6, <2>1 DEF LeftBehindOf, MovedTo, stored, known
  <1>17. LookingOf(r)'
    BY <1>5, <1>6, LookingKept
  <1> QED BY <1>2, <1>5, <1>6, <1>7, <1>11, <1>12, <1>13, <1>14, <1>15, <1>16, <1>17,
             MoveKeepsLInv

LEMMA ReadEventKeepsLInv ==
  ASSUME LInv, NEW r \in Requests, ReadEvent(r)
  PROVE  LInv'
  <1> DEFINE c == call[r]
  <1>1. /\ InFlight(r) /\ c \in Call /\ c.t \in Ids /\ pc[r] = "readEvent" /\ Shape(pc[r], c)
        /\ c.op \in {"update", "delete"}
    <2>1. /\ InFlight(r) /\ c \in Call /\ c.t \in Ids /\ Shape(pc[r], c) /\ pc[r] = "readEvent"
          /\ c.op \in {"create", "update", "delete"}
      BY CallFields DEF ReadEvent, LInv
    <2> QED BY <2>1 DEF Shape, CreateShape
  <1>2. /\ c.seen # Null /\ c.to = Null
        /\ c.op = "update" => c.body.event # Null
        /\ c.op = "delete" => c.event = Null
    BY <1>1 DEF Shape, UpdateShape, DeleteShape
  <1>3. c.op = "delete" => c.gone = {}
    BY <1>1 DEF Shape, DeleteShape
  <1>4. UNCHANGED <<stored, held, known, mixed, off>>
    BY DEF ReadEvent
  <1>5. /\ c.op = "update" => held[r] = {TxRow(c.t)} /\ tx[c.t] # Null
        /\ c.op = "delete" => held[r] = {}
    BY <1>1 DEF LInv, Locks, LockShape, Targets, TargetOf
  <1>6. /\ TargetOf(r) /\ c.to = Null
        /\ c.op # "create" /\ c.seen # Null
    BY <1>1, <1>2 DEF LInv, Targets, Shape, UpdateShape, DeleteShape
  <1>7. ASSUME NEW p \in {"commit", "writeTx", "writeEvent", "person"}, NEW new,
               MovedTo(r, p, new), new.seen = c.seen, new.to = c.to, new.gone = c.gone,
               \/ /\ new.event = c.event /\ EventsOf(c.t) = {}
                  /\ p = IF c.op = "update" THEN "commit" ELSE "writeTx"
               \/ /\ new.event # Null
                  /\ p = IF c.op = "update" THEN "writeEvent" ELSE "person"
        PROVE  LInv'
    <2>1. p \in Points
      BY DEF Points
    <2>2. Shape(p, new)
      <3>1. CASE c.op = "update"
        BY <1>1, <1>2, <1>7, <3>1 DEF Shape, UpdateShape, MovedTo, Continues
      <3>2. CASE c.op = "delete"
        BY <1>1, <1>2, <1>3, <1>6, <1>7, <3>2 DEF Shape, DeleteShape, MovedTo, Continues, Points
      <3> QED BY <1>1, <3>1, <3>2
    <2>3. LockShape(p, new, held[r])
      BY <1>1, <1>5, <1>7 DEF LockShape, MovedTo, Continues
    <2>4. GoneOf(r)' /\ \A i : Reserved(i)' <=> Reserved(i)
      BY <1>4, <1>7, GoneKept
    <2>5. TargetOf(r)'
      BY <1>1, <1>4, <1>5, <1>6, <1>7, <2>4 DEF TargetOf, MovedTo, Continues, stored, Reserved
    <2>6. NoneYetOf(r)'
      BY <1>4, <1>7 DEF NoneYetOf, MovedTo, Continues, EventsOf, stored
    <2>7. LeftBehindOf(r)'
      BY <1>1, <1>4, <1>7 DEF LeftBehindOf, MovedTo, Continues, EventsOf, stored
    <2>8. LookingOf(r)'
      BY <1>4, <1>6, <1>7, LookingKept
    <2> QED BY <1>4, <1>7, <2>1, <2>2, <2>3, <2>4, <2>5, <2>6, <2>7, <2>8, QuietKeepsLInv
  <1>8. CASE EventsOf(c.t) = {} /\ UNCHANGED call /\
             Goto(r, IF c.op = "update" THEN "commit" ELSE "writeTx")
    <2> DEFINE p == IF c.op = "update" THEN "commit" ELSE "writeTx"
    <2>1. p \in Points /\ p \in {"commit", "writeTx", "writeEvent", "person"}
      BY DEF Points
    <2>2. MovedTo(r, p, c)
      BY <1>1, <1>8, <2>1, SameCall
    <2> QED BY <1>7, <1>8, <2>1, <2>2
  <1>9. ASSUME NEW e \in EventsOf(c.t), call' = [call EXCEPT ![r].event = e],
               Goto(r, IF c.op = "update" THEN "writeEvent" ELSE "person")
        PROVE  LInv'
    <2> DEFINE p == IF c.op = "update" THEN "writeEvent" ELSE "person"
               new == [c EXCEPT !.event = e]
    <2>1. p \in Points /\ p \in {"commit", "writeTx", "writeEvent", "person"} /\ Goto(r, p)
      BY <1>9 DEF Points
    <2>2. e \in Event /\ e # Null
      BY CeremonyAssumption DEF EventsOf, LInv, TypeOK
    <2>3. call' = [call EXCEPT ![r] = new]
      BY <1>9 DEF LInv, TypeOK
    <2>4. /\ Continues(c, new)
          /\ new.seen = c.seen /\ new.event = e /\ new.to = c.to /\ new.gone = c.gone
      BY <1>1, <2>2, WithEvent
    <2>5. p = IF c.op = "update" THEN "writeEvent" ELSE "person"
      OBVIOUS
    <2> HIDE DEF new, p
    <2>6. MovedTo(r, p, new)
      BY <1>1, <2>1, <2>3, <2>4 DEF MovedTo, Continues, OthersStay, LInv, TypeOK, Goto
    <2>7. new.event # Null
      BY <2>2, <2>4
    <2> QED BY <1>7, <2>1, <2>4, <2>5, <2>6, <2>7
  <1> QED BY <1>8, <1>9 DEF ReadEvent

LEMMA FindPersonKeepsLInv ==
  ASSUME LInv, NEW r \in Requests, FindPerson(r)
  PROVE  LInv'
  <1> DEFINE c == call[r]
             found == Rows(c.user, AboutOf(c).name)
  <1>1. /\ InFlight(r) /\ c \in Call /\ c.no \in Ids /\ pc[r] = "person" /\ Shape(pc[r], c)
        /\ c.op \in {"create", "delete"}
    <2>1. /\ InFlight(r) /\ c \in Call /\ c.no \in Ids /\ Shape(pc[r], c) /\ pc[r] = "person"
          /\ c.op \in {"create", "update", "delete"}
      BY CallFields DEF FindPerson, LInv
    <2> QED BY <2>1 DEF Shape, UpdateShape
  <1>2. c.to = Null /\ held[r] = {}
    BY <1>1 DEF Shape, CreateShape, DeleteShape, LInv, Locks, LockShape
  <1>3. UNCHANGED <<stored, held, known, mixed, off>> /\ Goto(r, "total")
    BY DEF FindPerson
  <1>4. PICK to \in Ids : /\ call' = [call EXCEPT ![r].to = to]
                          /\ \/ to = c.no /\ found = {}
                             \/ to \in found
    BY <1>1 DEF FindPerson, Rows
  <1> DEFINE new == [c EXCEPT !.to = to]
  <1>5. call' = [call EXCEPT ![r] = new]
    BY <1>4 DEF LInv, TypeOK
  <1>6. /\ Continues(c, new)
        /\ new.seen = c.seen /\ new.event = c.event /\ new.to = to /\ new.gone = c.gone
    BY <1>1, WithTo
  <1> HIDE DEF new
  <1>7. MovedTo(r, "total", new)
    BY <1>1, <1>3, <1>5, <1>6 DEF MovedTo, Continues, OthersStay, LInv, TypeOK, Goto, Points
  <1>8. to # Null /\ "total" \in Points
    BY CeremonyAssumption DEF Points
  <1>9. Shape("total", new)
    BY <1>1, <1>6, <1>8 DEF Shape, CreateShape, DeleteShape, Continues, Points
  <1>10. LockShape("total", new, held[r])
    BY <1>1, <1>2, <1>6 DEF LockShape, Continues
  <1>11. GoneOf(r)' /\ \A i : Reserved(i)' <=> Reserved(i)
    BY <1>3, <1>6, <1>7, GoneKept
  <1>12. TargetOf(r)'
    <2>1. TargetOf(r)
      BY <1>1 DEF LInv, Targets
    <2> QED BY <1>1, <1>6, <1>7, <1>11, <2>1 DEF TargetOf, MovedTo, Continues, Reserved
  <1>13. NoneYetOf(r)' /\ LeftBehindOf(r)'
    BY <1>7 DEF NoneYetOf, LeftBehindOf, MovedTo
  <1>14. LookingOf(r)'
    <2>1. AboutOf(new) = AboutOf(c)
      BY <1>6 DEF AboutOf, Continues
    <2>2. \/ new.to = new.no /\ Rows(new.user, AboutOf(new).name) = {}
          \/ new.to \in Rows(new.user, AboutOf(new).name)
      BY <1>4, <1>6, <2>1 DEF Continues
    <2> QED BY <1>3, <1>7, <2>2 DEF LookingOf, MovedTo, AboutOf, Rows, stored
  <1> QED BY <1>3, <1>7, <1>8, <1>9, <1>10, <1>11, <1>12, <1>13, <1>14, QuietKeepsLInv

LEMMA WriteTotalKeepsLInv ==
  ASSUME LInv, NEW r \in Requests, WriteTotal(r)
  PROVE  LInv'
  <1> DEFINE c == call[r]
             p == IF c.op = "create" THEN "commit" ELSE "writeEvent"
  <1>1. /\ InFlight(r) /\ c \in Call /\ pc[r] = "total" /\ Shape(pc[r], c)
        /\ c.op \in {"create", "delete"} /\ c.to \in Ids \cup {Null}
    <2>1. /\ InFlight(r) /\ c \in Call /\ Shape(pc[r], c) /\ pc[r] = "total"
          /\ c.op \in {"create", "update", "delete"} /\ c.to \in Ids \cup {Null}
      BY CallFields DEF WriteTotal, LInv
    <2> QED BY <2>1 DEF Shape, UpdateShape
  <1>2. p \in Points /\ Goto(r, p)
    BY DEF Points, WriteTotal
  <1>3. p = IF c.op = "create" THEN "commit" ELSE "writeEvent"
    OBVIOUS
  <1> HIDE DEF p
  <1>4. UNCHANGED <<stored, known, mixed, off>> /\ UNCHANGED call
    BY DEF WriteTotal
  <1>5. MovedTo(r, p, c)
    BY <1>1, <1>2, <1>4, SameCall
  <1>6. /\ Wanted(r) \in SUBSET LockRows
        /\ held' = [held EXCEPT ![r] = held[r] \cup Wanted(r)]
        /\ \A q \in Requests : q # r => Wanted(r) \cap held[q] = {}
    BY <1>1, Acquired DEF WriteTotal
  <1>7. c.to \in Ids /\ held[r] = {}
    BY <1>1 DEF Shape, CreateShape, DeleteShape, LInv, Locks, LockShape
  <1>8. Wanted(r) \subseteq PersonRows
    BY <1>1, <1>7 DEF Wanted, PersonRows, PersonRow
  <1>9. Shape(p, c)
    BY <1>1, <1>3 DEF Shape, CreateShape, DeleteShape, Points
  <1>10. LockShape(p, c, held[r] \cup Wanted(r))
    BY <1>1, <1>3, <1>7, <1>8 DEF LockShape
  <1>11. GoneOf(r)' /\ \A i : Reserved(i)' <=> Reserved(i)
    BY <1>4, <1>5, GoneKept
  <1>12. TargetOf(r)'
    <2>1. TargetOf(r)
      BY <1>1 DEF LInv, Targets
    <2> QED BY <1>1, <1>3, <1>4, <1>5, <1>11, <2>1 DEF TargetOf, MovedTo, Continues, Reserved
  <1>13. NoneYetOf(r)' /\ LeftBehindOf(r)'
    BY <1>1, <1>3, <1>5 DEF NoneYetOf, LeftBehindOf, MovedTo, Continues
  <1>14. LookingOf(r)'
    BY <1>4, <1>5, LookingKept
  <1> QED BY <1>2, <1>4, <1>5, <1>6, <1>9, <1>10, <1>11, <1>12, <1>13, <1>14, MoveKeepsLInv

LEMMA WriteEventKeepsLInv ==
  ASSUME LInv, NEW r \in Requests, WriteEvent(r)
  PROVE  LInv'
  <1> DEFINE c == call[r]
             gone == {e.no : e \in EventsOf(c.t)}
             new == [c EXCEPT !.gone = gone]
             p == IF c.op = "update" THEN "commit" ELSE "writeTx"
  <1>1. /\ InFlight(r) /\ c \in Call /\ c.t \in Ids /\ pc[r] = "writeEvent" /\ Shape(pc[r], c)
        /\ c.op \in {"update", "delete"}
    <2>1. /\ InFlight(r) /\ c \in Call /\ c.t \in Ids /\ Shape(pc[r], c)
          /\ pc[r] = "writeEvent" /\ c.op \in {"create", "update", "delete"}
      BY CallFields DEF WriteEvent, LInv
    <2> QED BY <2>1 DEF Shape, CreateShape
  <1>2. p \in Points /\ Goto(r, p)
    BY DEF Points, WriteEvent
  <1>3. p = IF c.op = "update" THEN "commit" ELSE "writeTx"
    OBVIOUS
  <1>4. UNCHANGED <<stored, known, mixed, off>>
    BY DEF WriteEvent
  <1>5. gone \in SUBSET Ids /\ \A k \in gone : ~Reserved(k)
    BY <1>1, Born DEF EventsOf, Event
  <1>6. \A e \in events : (e.no \in gone <=> e.t = c.t)
    BY DEF EventsOf, LInv, OneEvent
  <1>7. call' = [call EXCEPT ![r] = new]
    BY DEF WriteEvent, LInv, TypeOK
  <1>8. Wanted(r) \subseteq {"ceremony_events"} \X gone
    BY <1>1 DEF Wanted, EventRow
  <1> HIDE DEF gone, p
  <1>9. /\ Continues(c, new)
        /\ new.seen = c.seen /\ new.event = c.event /\ new.to = c.to /\ new.gone = gone
    BY <1>1, <1>5, WithGone
  <1> HIDE DEF new
  <1>10. MovedTo(r, p, new)
    BY <1>1, <1>2, <1>7, <1>9 DEF MovedTo, Continues, OthersStay, LInv, TypeOK, Goto
  <1>11. /\ Wanted(r) \in SUBSET LockRows
         /\ held' = [held EXCEPT ![r] = held[r] \cup Wanted(r)]
         /\ \A q \in Requests : q # r => Wanted(r) \cap held[q] = {}
    BY <1>1, Acquired DEF WriteEvent
  <1>12. /\ c.seen # Null /\ c.event # Null
         /\ c.op = "delete" => c.to # Null
    BY <1>1 DEF Shape, UpdateShape, DeleteShape
  <1>13. Shape(p, new)
    <2>1. CASE c.op = "update"
      BY <1>1, <1>3, <1>9, <2>1 DEF Shape, UpdateShape, Continues
    <2>2. CASE c.op = "delete"
      BY <1>1, <1>3, <1>9, <1>12, <2>2 DEF Shape, DeleteShape, Continues, Points
    <2> QED BY <1>1, <2>1, <2>2
  <1>14. LockShape(p, new, held[r] \cup Wanted(r))
    <2>1. LockShape(pc[r], c, held[r])
      BY <1>1 DEF LInv, Locks
    <2>2. CASE c.op = "update"
      BY <1>1, <1>3, <1>5, <1>8, <1>9, <2>1, <2>2 DEF LockShape, Continues, EventRows
    <2>3. CASE c.op = "delete"
      BY <1>1, <1>3, <1>8, <1>9, <2>1, <2>3 DEF LockShape, Continues
    <2> QED BY <1>1, <2>2, <2>3
  <1>15. \A i : Reserved(i)' <=> Reserved(i)
    BY <1>4, <1>10, ReservedStays DEF MovedTo, Continues, OthersStay
  <1>16. GoneOf(r)'
    BY <1>4, <1>5, <1>6, <1>9, <1>10, <1>15 DEF GoneOf, MovedTo, Continues, Reserved, stored
  <1>17. TargetOf(r)'
    <2>1. TargetOf(r)
      BY <1>1 DEF LInv, Targets
    <2> QED BY <1>1, <1>3, <1>4, <1>9, <1>10, <1>15, <2>1
            DEF TargetOf, MovedTo, Continues, Reserved, stored
  <1>18. NoneYetOf(r)'
    BY <1>9, <1>10, <1>12 DEF NoneYetOf, MovedTo
  <1>19. LeftBehindOf(r)'
    BY <1>4, <1>6, <1>9, <1>10 DEF LeftBehindOf, MovedTo, Continues, stored
  <1>20. LookingOf(r)'
    BY <1>4, <1>9, <1>10, LookingKept
  <1> QED BY <1>2, <1>4, <1>10, <1>11, <1>13, <1>14, <1>16, <1>17, <1>18, <1>19, <1>20,
             MoveKeepsLInv

-----------------------------------------------------------------------------
(* Steps that end a request.                                               *)

LEMMA EndFrame ==
  ASSUME LInv, NEW r \in Requests, pc[r] # "idle", End(r)
  PROVE  /\ InFlight(r) /\ UNCHANGED known /\ ReservedLess
         /\ pc' \in [Requests -> Points] /\ call' \in [Requests -> Call \cup {Null}]
         /\ \A s \in Requests : held'[s] \subseteq {"transactions", "ceremony_events",
                                                    "ceremony_persons"} \X Ids
         /\ Shapes' /\ Numbers' /\ Locks'
         /\ \A q \in Requests : InFlight(q)' => GoesOn(q, r)
         /\ \A i \in Ids : Reserved(i)' => Reserved(i) /\ i # call[r].no
         /\ Reserved(call[r].no) /\ call[r].no \in Ids
  <1>1. /\ InFlight(r) /\ call[r].no \in Ids /\ UNCHANGED known
    BY CallFields DEF LInv, End
  <1>2. /\ pc' \in [Requests -> Points] /\ call' \in [Requests -> Call \cup {Null}]
        /\ held' \in [Requests -> SUBSET LockRows]
        /\ pc'[r] = "idle" /\ call'[r] = Null /\ held'[r] = {}
        /\ \A q \in Requests : q # r =>
              pc'[q] = pc[q] /\ call'[q] = call[q] /\ held'[q] = held[q]
    BY DEF End, Goto, LInv, TypeOK, Points, Locks, LockRows
  <1>3. \A q \in Requests : InFlight(q)' => GoesOn(q, r)
    <2>1. \A q \in Requests : InFlight(q)' => q # r /\ Stays(q)
      BY <1>2 DEF InFlight, Stays
    <2> QED BY <1>1, <2>1 DEF GoesOn, Stays, LInv, Numbers
  <1>4. \A s \in Requests : held'[s] \subseteq {"transactions", "ceremony_events",
                                                "ceremony_persons"} \X Ids
    BY <1>2 DEF LockRows, PersonRows, EventRows, TxRows
  <1>5. Shapes'
    <2>1. \A q \in Requests : InFlight(q)' => Shape(pc'[q], call'[q])
      BY <1>3 DEF GoesOn, Stays, LInv, Shapes
    <2>2. \A q \in Requests : ~InFlight(q)' => pc'[q] = "idle"
      BY <1>2 DEF LInv, Shapes, InFlight
    <2> QED BY <2>1, <2>2 DEF Shapes, Shape, CreateShape, UpdateShape, DeleteShape
  <1>6. Numbers'
    <2>1. \A q \in Requests : InFlight(q)' => InFlight(q) /\ call'[q].no = call[q].no
      BY <1>3 DEF GoesOn, Stays
    <2>2. \A q \in Requests : InFlight(q)' => call'[q].no <= begun'
      BY <1>1, <2>1 DEF LInv, Numbers, known
    <2>3. ASSUME NEW q \in Requests, NEW s \in Requests, q # s, InFlight(q)', InFlight(s)'
          PROVE  call'[q].no # call'[s].no /\ {call'[q].no, call'[s].no} \in overlapped'
      <3>1. InFlight(q) /\ InFlight(s) /\ call'[q].no = call[q].no /\ call'[s].no = call[s].no
        BY <2>1, <2>3
      <3>2. call[q].no # call[s].no /\ {call[q].no, call[s].no} \in overlapped
        BY <2>3, <3>1 DEF LInv, Numbers
      <3> QED BY <1>1, <3>1, <3>2 DEF known
    <2> QED BY <2>2, <2>3 DEF Numbers
  <1>7. Locks'
    <2>1. \A q \in Requests : InFlight(q)' => LockShape(pc'[q], call'[q], held'[q])
      BY <1>3 DEF GoesOn, Stays, LInv, Locks
    <2>2. \A q \in Requests : ~InFlight(q)' => held'[q] = {}
      BY <1>2 DEF LInv, Locks, InFlight
    <2>3. \A q, s \in Requests : q # s => held'[q] \cap held'[s] = {}
      BY <1>2 DEF LInv, Locks
    <2> QED BY <1>2, <2>1, <2>2, <2>3 DEF Locks, LockShape, LockRows, PersonRows, EventRows, TxRow
  <1>8. Reserved(call[r].no)
    BY <1>1 DEF Reserved
  <1>9. call[r].no <= begun /\ begun \in Nat
    BY <1>1, CeremonyAssumption DEF LInv, Numbers, TypeOK
  <1>10. ASSUME NEW i \in Ids, Reserved(i)'
         PROVE  Reserved(i) /\ i # call[r].no
    <2>1. Reserved(i)
      BY <1>1, <1>3, <1>10 DEF Reserved, GoesOn, Stays, known
    <2>2. ~(call[r].no > begun')
      BY <1>1, <1>9, CeremonyAssumption DEF known, Ids
    <2>3. \A q \in Requests : InFlight(q)' => call'[q].no # call[r].no
      BY <1>3 DEF GoesOn, Stays
    <2> QED BY <1>10, <2>1, <2>2, <2>3 DEF Reserved
  <1>11. ReservedLess
    BY <1>10 DEF ReservedLess, Reserved
  <1> QED BY <1>1, <1>2, <1>3, <1>4, <1>5, <1>6, <1>7, <1>8, <1>10, <1>11

LEMMA RollbackKeepsLInv ==
  ASSUME LInv, NEW r \in Requests, Rollback(r)
  PROVE  LInv'
  <1>1. pc[r] # "idle" /\ End(r) /\ UNCHANGED <<stored, mixed, off>>
    BY DEF Rollback
  <1>2. /\ UNCHANGED known /\ ReservedLess
        /\ pc' \in [Requests -> Points] /\ call' \in [Requests -> Call \cup {Null}]
        /\ \A s \in Requests : held'[s] \subseteq {"transactions", "ceremony_events",
                                                   "ceremony_persons"} \X Ids
        /\ Shapes' /\ Numbers' /\ Locks'
        /\ \A q \in Requests : InFlight(q)' => GoesOn(q, r)
    BY <1>1, EndFrame
  <1>3. TypeOK'
    BY <1>1, <1>2 DEF LInv, TypeOK, stored, known
  <1>4. \A q \in Requests : InFlight(q)' =>
            TargetOf(q)' /\ GoneOf(q)' /\ NoneYetOf(q)' /\ LeftBehindOf(q)' /\ LookingOf(q)'
    BY <1>1, <1>2, OthersKept DEF GoesOn, known
  <1>5. RowsInv'
    BY <1>1, <1>2, RowsInvKept DEF LInv, RowsInv, known
  <1> QED BY <1>2, <1>3, <1>4, <1>5
          DEF LInv, RowsInv, Targets, Gone, NoneYet, LeftBehind, Looking

\* What about adds, or takes, in a direction.
Share(about, d, x) == IF about.direction = d THEN x ELSE 0

\* The row whose totals a create or a delete moves: the only one it writes, and one of
\* its author's about that person, before or from now on.
LEMMA PersonMoved ==
  ASSUME LInv, NEW r \in Requests, pc[r] # "idle", End(r), call[r].to # Null,
         AboutOf(call[r]) \in About, NEW sign \in Int, NEW amount \in Int,
         person' = [person EXCEPT ![call[r].to] = Moved(call[r], sign, amount)]
  PROVE  LET c == call[r]
             about == AboutOf(c)
             to == c.to
             kept == IF person[to] # Null THEN person[to]
                     ELSE [user |-> c.user, name |-> about.name,
                           sent |-> 0, received |-> 0, count |-> 0]
         IN  /\ to \in Ids /\ person'[to].user = c.user /\ person'[to].name = about.name
             /\ kept.sent \in Int /\ kept.received \in Int /\ kept.count \in Int
             /\ person'[to] =
                  [user |-> c.user, name |-> about.name,
                   sent |-> kept.sent + Share(about, "SENT", sign * amount),
                   received |-> kept.received + Share(about, "RECEIVED", sign * amount),
                   count |-> kept.count + sign]
             /\ person' \in [Ids -> Person \cup {Null}]
             /\ \A i \in Ids : i # to => person'[i] = person[i]
             /\ \A u, n : to \in Rows(u, n) => u = c.user /\ n = about.name
             /\ to \notin Rows(c.user, about.name) => to = c.no /\ person[to] = Null
             /\ \A u, n : Rows(u, n)' =
                  Rows(u, n) \cup (IF u = c.user /\ n = about.name THEN {to} ELSE {})
  <1> DEFINE c == call[r]
             about == AboutOf(c)
             to == c.to
             was == IF person[to] # Null THEN person[to]
                    ELSE [user |-> c.user, name |-> about.name,
                          sent |-> 0, received |-> 0, count |-> 0]
             x == Share(about, "SENT", sign * amount)
             y == Share(about, "RECEIVED", sign * amount)
             new == Moved(c, sign, amount)
  <1>1. c.user \in Users /\ to \in Ids /\ InFlight(r) /\ Reserved(c.no) /\ c.no \in Ids
    <2>1. c.user \in Users /\ to \in Ids \cup {Null}
      BY CallFields DEF LInv
    <2> QED BY <2>1, EndFrame
  <1>2. \/ to \in Rows(c.user, about.name)
        \/ to = c.no /\ person[to] = Null
    BY <1>1 DEF LInv, Looking, LookingOf, Unborn
  <1>3. was \in Person /\ was.user = c.user /\ was.name = about.name
    <2>1. CASE person[to] # Null
      BY <1>1, <1>2, <2>1 DEF Rows, LInv, TypeOK
    <2>2. CASE person[to] = Null
      BY <1>1, <2>2 DEF Person, About
    <2> QED BY <2>1, <2>2
  <1>4. x \in Int /\ y \in Int
    <2>1. sign * amount \in Int
      OBVIOUS
    <2> QED BY <2>1 DEF Share
  <1>5. new = [was EXCEPT !.sent = @ + x, !.received = @ + y, !.count = @ + sign]
    <2>1. x = IF about.direction = "SENT" THEN sign * amount ELSE 0
      BY DEF Share
    <2>2. y = IF about.direction = "SENT" THEN 0 ELSE sign * amount
      BY DEF Share, About, Directions
    <2> HIDE DEF x, y
    <2> QED BY <2>1, <2>2 DEF Moved
  <1> HIDE DEF was, x, y, new
  <1>6. was = [user |-> was.user, name |-> was.name, sent |-> was.sent,
               received |-> was.received, count |-> was.count]
    BY <1>3 DEF Person
  <1>7. new = [user |-> was.user, name |-> was.name, sent |-> was.sent + x,
               received |-> was.received + y, count |-> was.count + sign]
    <2> DEFINE one == [was EXCEPT !.sent = @ + x]
               two == [one EXCEPT !.received = @ + y]
    <2>1. one = [user |-> was.user, name |-> was.name, sent |-> was.sent + x,
                 received |-> was.received, count |-> was.count]
      BY <1>6
    <2>2. two = [user |-> was.user, name |-> was.name, sent |-> was.sent + x,
                 received |-> was.received + y, count |-> was.count]
      <3> HIDE DEF one
      <3> QED BY <2>1
    <2>3. new = [two EXCEPT !.count = @ + sign]
      BY <1>5
    <2> HIDE DEF two
    <2> QED BY <2>2, <2>3
  <1>8. was.sent \in Int /\ was.received \in Int /\ was.count \in Int
    BY <1>3 DEF Person
  <1>9. new \in Person /\ new.user = c.user /\ new.name = about.name
    BY <1>3, <1>4, <1>7, <1>8 DEF Person
  <1>10. new # Null
    BY <1>9, CeremonyAssumption
  <1>11. /\ person'[to] = new /\ \A i \in Ids : i # to => person'[i] = person[i]
         /\ person' \in [Ids -> Person \cup {Null}]
    BY <1>1, <1>9 DEF LInv, TypeOK, new
  <1>12. ASSUME NEW u, NEW n, to \in Rows(u, n)
         PROVE  u = c.user /\ n = about.name
    BY <1>2, <1>12 DEF Rows
  <1>13. ASSUME NEW u, NEW n
         PROVE  Rows(u, n)' = Rows(u, n) \cup
                    (IF u = c.user /\ n = about.name THEN {to} ELSE {})
    <2>1. to \in Rows(u, n) => u = c.user /\ n = about.name
      BY <1>12
    <2>2. to \in Rows(u, n)' <=> u = c.user /\ n = about.name
      BY <1>1, <1>9, <1>10, <1>11 DEF Rows
    <2>3. \A i \in Ids : i # to => (i \in Rows(u, n)' <=> i \in Rows(u, n))
      BY <1>11 DEF Rows
    <2>4. Rows(u, n) \subseteq Ids /\ Rows(u, n)' \subseteq Ids
      BY DEF Rows
    <2> QED BY <1>1, <2>1, <2>2, <2>3, <2>4
  <1>14. person'[to] = [user |-> c.user, name |-> about.name, sent |-> was.sent + x,
                        received |-> was.received + y, count |-> was.count + sign]
    BY <1>3, <1>7, <1>11
  <1> QED BY <1>1, <1>2, <1>8, <1>9, <1>10, <1>11, <1>12, <1>13, <1>14 DEF was, x, y

\* The totals of a person are moved.
LEMMA PersonStep ==
  ASSUME LInv, NEW r \in Requests, pc[r] # "idle", End(r), call[r].to # Null,
         AboutOf(call[r]) \in About, NEW sign \in Int, NEW amount \in Int,
         person' = [person EXCEPT ![call[r].to] = Moved(call[r], sign, amount)]
  PROVE  /\ person' \in [Ids -> Person \cup {Null}]
         /\ \A i \in Ids : i # call[r].to => person'[i] = person[i]
         /\ person'[call[r].to].user = call[r].user
         /\ person'[call[r].to].name = AboutOf(call[r]).name
         /\ TwinsOnlyByRace'
         /\ \A q \in Requests : InFlight(q)' => LookingOf(q)'
         /\ \A i \in Ids : Reserved(i)' => person'[i] = Null
  <1> DEFINE c == call[r]
             about == AboutOf(c)
             to == c.to
  <1>1. /\ InFlight(r) /\ UNCHANGED known
        /\ \A q \in Requests : InFlight(q)' => GoesOn(q, r)
        /\ \A i \in Ids : Reserved(i)' => Reserved(i) /\ i # c.no
        /\ Reserved(c.no)
    BY EndFrame
  <1>2. \/ to \in Rows(c.user, about.name)
        \/ to = c.no /\ \A p \in Rows(c.user, about.name) : {p, c.no} \in overlapped
    BY <1>1 DEF LInv, Looking, LookingOf
  <1>3. /\ to \in Ids /\ person'[to].user = c.user /\ person'[to].name = about.name
        /\ person' \in [Ids -> Person \cup {Null}]
        /\ \A i \in Ids : i # to => person'[i] = person[i]
        /\ \A u, n : to \in Rows(u, n) => u = c.user /\ n = about.name
        /\ \A u, n : Rows(u, n)' =
               Rows(u, n) \cup (IF u = c.user /\ n = about.name THEN {to} ELSE {})
    BY PersonMoved, Zenon
  <1>4. TwinsOnlyByRace'
    <2> SUFFICES ASSUME NEW u \in Users, NEW n \in Names,
                        NEW p \in Rows(u, n)', NEW q \in Rows(u, n)', p # q
                 PROVE  {p, q} \in overlapped
      BY <1>1 DEF TwinsOnlyByRace, known
    <2>1. CASE p \in Rows(u, n) /\ q \in Rows(u, n)
      BY <2>1 DEF LInv, TwinsOnlyByRace
    <2>2. CASE p = to /\ q # to
      <3>1. u = c.user /\ n = about.name /\ q \in Rows(u, n)
        BY <1>3, <2>2
      <3> QED BY <1>2, <2>2, <3>1 DEF LInv, TwinsOnlyByRace
    <2>3. CASE q = to /\ p # to
      <3>1. u = c.user /\ n = about.name /\ p \in Rows(u, n)
        BY <1>3, <2>3
      <3> QED BY <1>2, <2>3, <3>1 DEF LInv, TwinsOnlyByRace
    <2> QED BY <1>3, <2>1, <2>2, <2>3
  <1>5. ASSUME NEW q \in Requests, InFlight(q)'
        PROVE  LookingOf(q)'
    <2>1. GoesOn(q, r)
      BY <1>1, <1>5
    <2>2. LookingOf(q) /\ call'[q] = call[q]
      BY <2>1 DEF LInv, Looking, GoesOn, Stays
    <2> SUFFICES ASSUME call[q].to # Null,
                        NEW u, NEW n, u = call[q].user, n = AboutOf(call[q]).name
                 PROVE  \/ call[q].to \in Rows(u, n)'
                        \/ /\ call[q].to = call[q].no
                           /\ \A p \in Rows(u, n)' : {p, call[q].no} \in overlapped
      BY <1>1, <2>2 DEF LookingOf, Rows, AboutOf, known
    <2>3. CASE call[q].to \in Rows(u, n)
      BY <1>3, <2>3
    <2>4. CASE call[q].to = call[q].no /\ \A p \in Rows(u, n) : {p, call[q].no} \in overlapped
      <3>1. \A p \in Rows(u, n)' : p \in Rows(u, n) \/ p = to
        BY <1>3
      <3>2. u = c.user /\ n = about.name => to \in Rows(u, n) \/ to = c.no
        BY <1>2
      <3>3. u # c.user \/ n # about.name => Rows(u, n)' = Rows(u, n)
        BY <1>3
      <3>4. {c.no, call[q].no} \in overlapped
        BY <2>1 DEF GoesOn
      <3> QED BY <2>4, <3>1, <3>2, <3>3, <3>4
    <2> QED BY <2>2, <2>3, <2>4 DEF LookingOf
  <1>6. \A i \in Ids : Reserved(i)' => person'[i] = Null
    <2>1. \A i \in Ids : Reserved(i)' => i # to
      BY <1>1, <1>2 DEF Rows, LInv, Unborn
    <2> QED BY <1>1, <1>3, <2>1 DEF LInv, Unborn
  <1> QED BY <1>3, <1>4, <1>5, <1>6

\* The people are left alone.
LEMMA PeopleStay ==
  ASSUME LInv, NEW r \in Requests, pc[r] # "idle", End(r), UNCHANGED person
  PROVE  /\ TwinsOnlyByRace'
         /\ \A q \in Requests : InFlight(q)' => LookingOf(q)'
         /\ \A i \in Ids : Reserved(i)' => person'[i] = Null
  <1>1. /\ UNCHANGED known
        /\ \A q \in Requests : InFlight(q)' => GoesOn(q, r)
        /\ \A i \in Ids : Reserved(i)' => Reserved(i)
    BY EndFrame
  <1>2. TwinsOnlyByRace'
    BY <1>1 DEF LInv, TwinsOnlyByRace, Rows, known
  <1>3. \A q \in Requests : InFlight(q)' => LookingOf(q)'
    <2> SUFFICES ASSUME NEW q \in Requests, InFlight(q)'
                 PROVE  LookingOf(q)'
      OBVIOUS
    <2>1. GoesOn(q, r)
      BY <1>1
    <2>2. LookingOf(q) /\ call'[q] = call[q]
      BY <2>1 DEF LInv, Looking, GoesOn, Stays
    <2> QED BY <1>1, <2>2 DEF LookingOf, Rows, AboutOf, known
  <1>4. \A i \in Ids : Reserved(i)' => person'[i] = Null
    BY <1>1 DEF LInv, Unborn
  <1> QED BY <1>2, <1>3, <1>4

\* A request that has read its transaction is not about one of a request in flight.
LEMMA SeenIsBorn ==
  ASSUME LInv, NEW q \in Requests, InFlight(q)
  PROVE  /\ call[q].t \in Ids
         /\ call[q].op \in {"update", "delete"} /\ pc[q] # "readTx" => ~Reserved(call[q].t)
  <1>1. /\ call[q].t \in Ids /\ Shape(pc[q], call[q])
        /\ call[q].op \in {"create", "update", "delete"}
    BY CallFields DEF LInv
  <1>2. call[q].op \in {"update", "delete"} /\ pc[q] # "readTx" => call[q].seen # Null
    BY <1>1 DEF Shape, UpdateShape, DeleteShape
  <1> QED BY <1>1, <1>2 DEF LInv, Targets, TargetOf

LEMMA CommitCreateKeepsLInv ==
  ASSUME LInv, NEW r \in Requests, CommitCreate(r)
  PROVE  LInv'
  <1> DEFINE c == call[r]
             b == c.body
             n == c.no
             row == [user |-> c.user, area |-> b.area, amount |-> b.amount,
                     discount |-> b.discount, actual |-> b.amount - b.discount]
             e == [no |-> n, t |-> n, about |-> b.event]
  <1>1. pc[r] = "commit" /\ c.op = "create" /\ End(r) /\ UNCHANGED <<mixed, off>>
    BY DEF CommitCreate, AtCommit
  <1>2. /\ InFlight(r) /\ UNCHANGED known /\ ReservedLess
        /\ pc' \in [Requests -> Points] /\ call' \in [Requests -> Call \cup {Null}]
        /\ \A s \in Requests : held'[s] \subseteq {"transactions", "ceremony_events",
                                                   "ceremony_persons"} \X Ids
        /\ Shapes' /\ Numbers' /\ Locks'
        /\ \A q \in Requests : InFlight(q)' => GoesOn(q, r)
        /\ \A i \in Ids : Reserved(i)' => Reserved(i) /\ i # n
        /\ Reserved(n) /\ n \in Ids
    BY <1>1, EndFrame
  <1>3. /\ c.user \in Users /\ b \in Creates /\ c.t = n
        /\ b.area = "EVENT" => c.to # Null
    <2>1. c.user \in Users /\ Shape(pc[r], c)
      BY <1>2, CallFields DEF LInv
    <2> QED BY <1>1, <2>1 DEF Shape, CreateShape
  <1>4. /\ b.amount \in Int /\ b.discount \in Int /\ b.area \in Areas
        /\ b.area = "EVENT" => b.event \in About
    BY <1>3, CeremonyAssumption
  <1>5. row \in Tx /\ row # Null /\ row.actual = row.amount - row.discount
    <2>1. row \in Tx
      BY <1>3, <1>4 DEF Tx
    <2> QED BY <2>1, CeremonyAssumption
  <1>6. tx' = [tx EXCEPT ![n] = row]
    BY <1>3 DEF CommitCreate
  <1> HIDE DEF row
  <1>7. /\ tx'[n] = row /\ \A i \in Ids : i # n => tx'[i] = tx[i]
        /\ tx' \in [Ids -> Tx \cup {Null}]
    BY <1>2, <1>5, <1>6 DEF LInv, TypeOK
  <1>8. /\ events \subseteq events' /\ events' \subseteq Event
        /\ \A f \in events' : f \in events \/ (f.no = n /\ f.t = n)
        /\ \A f, g \in events' : f \notin events /\ g \notin events => f = g
    <2>1. CASE b.area = "EVENT"
      <3>1. events' = events \cup {e}
        BY <1>3, <2>1 DEF CommitCreate
      <3>2. e \in Event /\ e.no = n /\ e.t = n
        BY <1>2, <1>4, <2>1 DEF Event
      <3> HIDE DEF e
      <3> QED BY <3>1, <3>2 DEF LInv, TypeOK
    <2>2. CASE b.area # "EVENT"
      BY <2>2 DEF CommitCreate, LInv, TypeOK
    <2> QED BY <2>1, <2>2
  <1>9. \A f \in events : f.no # n /\ f.t # n /\ ~Reserved(f.no) /\ ~Reserved(f.t)
                          /\ f.no \in Ids /\ f.t \in Ids
    BY <1>2, Born DEF LInv, Unborn, Event
  <1>10. /\ TwinsOnlyByRace' /\ person' \in [Ids -> Person \cup {Null}]
         /\ \A q \in Requests : InFlight(q)' => LookingOf(q)'
         /\ \A i \in Ids : Reserved(i)' => person'[i] = Null
    <2>1. CASE b.area = "EVENT"
      <3>1. AboutOf(c) \in About
        BY <1>1, <1>4, <2>1 DEF AboutOf
      <3>2. person' = [person EXCEPT ![c.to] = Moved(c, 1, b.amount - b.discount)]
        BY <2>1 DEF CommitCreate
      <3>3. b.amount - b.discount \in Int /\ 1 \in Int
        BY <1>4
      <3> QED BY <1>1, <1>3, <2>1, <3>1, <3>2, <3>3, PersonStep
    <2>2. CASE b.area # "EVENT"
      <3>1. UNCHANGED person
        BY <2>2 DEF CommitCreate
      <3> QED BY <1>1, <3>1, PeopleStay DEF LInv, TypeOK
    <2> QED BY <2>1, <2>2
  <1>11. TypeOK'
    BY <1>1, <1>2, <1>7, <1>8, <1>10 DEF LInv, TypeOK, known
  <1>12. Unborn'
    <2>1. \A i \in Ids : Reserved(i)' => tx'[i] = Null
      BY <1>2, <1>7 DEF LInv, Unborn
    <2>2. \A i \in Ids : Reserved(i)' => \A f \in events' : f.no # i /\ f.t # i
      BY <1>2, <1>8 DEF LInv, Unborn
    <2> QED BY <1>10, <2>1, <2>2 DEF Unborn
  <1>13. OneEvent'
    BY <1>8, <1>9 DEF LInv, OneEvent
  <1>14. NetAmounts'
    BY <1>1, <1>5, <1>7 DEF LInv, NetAmounts
  <1>15. ASSUME NEW q \in Requests, InFlight(q)'
         PROVE  TargetOf(q)' /\ GoneOf(q)' /\ NoneYetOf(q)' /\ LeftBehindOf(q)'
    <2>1. GoesOn(q, r) /\ Stays(q)
      BY <1>2, <1>15 DEF GoesOn
    <2>2. /\ call[q].t \in Ids
          /\ call[q].op \in {"update", "delete"} /\ pc[q] # "readTx" => call[q].t # n
      BY <1>2, <2>1, SeenIsBorn DEF Stays
    <2>3. TargetOf(q) /\ GoneOf(q) /\ NoneYetOf(q) /\ LeftBehindOf(q)
      BY <2>1 DEF Stays, LInv, Targets, Gone, NoneYet, LeftBehind
    <2>4. TargetOf(q)'
      BY <1>2, <1>7, <2>1, <2>2, <2>3 DEF Stays, TargetOf, ReservedLess, Reserved, InFlight
    <2>5. GoneOf(q)'
      <3>1. call[q].gone \subseteq Ids
        BY <2>1, CallFields DEF LInv, Stays
      <3>2. n \notin call[q].gone
        BY <1>2, <2>3 DEF GoneOf
      <3> QED BY <1>2, <1>8, <2>1, <2>3, <3>1, <3>2
              DEF Stays, GoneOf, ReservedLess, Reserved, InFlight
    <2>6. NoneYetOf(q)'
      BY <1>8, <2>1, <2>2, <2>3 DEF Stays, NoneYetOf
    <2>7. LeftBehindOf(q)'
      BY <1>2, <1>8, <2>1, <2>2, <2>3 DEF Stays, LeftBehindOf, known
    <2> QED BY <2>4, <2>5, <2>6, <2>7
  <1> QED BY <1>2, <1>10, <1>11, <1>12, <1>13, <1>14, <1>15
          DEF LInv, Targets, Gone, NoneYet, LeftBehind, Looking

\* No two requests have locked the same transaction.
LEMMA LockedOnce ==
  ASSUME LInv, NEW q \in Requests, NEW r \in Requests, q # r, NEW x, x \in held[q]
  PROVE  x \notin held[r]
  BY DEF LInv, Locks

LEMMA CommitDeleteKeepsLInv ==
  ASSUME LInv, NEW r \in Requests, CommitDelete(r)
  PROVE  LInv'
  <1> DEFINE c == call[r]
             n == c.no
             t == c.t
  <1>1. /\ pc[r] = "commit" /\ c.op = "delete" /\ End(r) /\ UNCHANGED mixed
        /\ tx' = [tx EXCEPT ![t] = Null]
    BY DEF CommitDelete, AtCommit
  <1>2. /\ InFlight(r) /\ UNCHANGED known /\ ReservedLess
        /\ pc' \in [Requests -> Points] /\ call' \in [Requests -> Call \cup {Null}]
        /\ \A s \in Requests : held'[s] \subseteq {"transactions", "ceremony_events",
                                                   "ceremony_persons"} \X Ids
        /\ Shapes' /\ Numbers' /\ Locks'
        /\ \A q \in Requests : InFlight(q)' => GoesOn(q, r)
        /\ \A i \in Ids : Reserved(i)' => Reserved(i) /\ i # n
        /\ Reserved(n) /\ n \in Ids
    BY <1>1, EndFrame
  <1>3. /\ c.user \in Users /\ t \in Ids /\ c.event \in Event \cup {Null} /\ c.seen \in Tx
        /\ c.event # Null => c.to # Null
    <2>1. /\ c.user \in Users /\ t \in Ids /\ c.event \in Event \cup {Null}
          /\ c.seen \in Tx \cup {Null} /\ Shape(pc[r], c)
      BY <1>2, CallFields DEF LInv
    <2> QED BY <1>1, <2>1 DEF Shape, DeleteShape
  <1>4. /\ tx'[t] = Null /\ \A i \in Ids : i # t => tx'[i] = tx[i]
        /\ tx' \in [Ids -> Tx \cup {Null}]
    BY <1>1, <1>3 DEF LInv, TypeOK
  <1>5. events' \subseteq events
    BY DEF CommitDelete
  <1>6. off' \subseteq Users \X Names
    <2>1. CASE c.event # Null
      <3>1. c.event.about.name \in Names /\ c.seen.user \in Users
        BY <1>3, <2>1 DEF Event, About, Tx
      <3> QED BY <1>3, <2>1, <3>1 DEF CommitDelete, OffByDelete, LInv, TypeOK
    <2>2. CASE c.event = Null
      BY <2>2 DEF CommitDelete, LInv, TypeOK
    <2> QED BY <2>1, <2>2
  <1>7. /\ TwinsOnlyByRace' /\ person' \in [Ids -> Person \cup {Null}]
        /\ \A q \in Requests : InFlight(q)' => LookingOf(q)'
        /\ \A i \in Ids : Reserved(i)' => person'[i] = Null
    <2>1. CASE c.event # Null
      <3>1. AboutOf(c) \in About
        BY <1>1, <1>3, <2>1 DEF AboutOf, Event
      <3>2. person' = [person EXCEPT ![c.to] = Moved(c, -1, c.seen.actual)]
        BY <2>1 DEF CommitDelete
      <3>3. c.seen.actual \in Int /\ -1 \in Int
        BY <1>3 DEF Tx
      <3> QED BY <1>1, <1>3, <2>1, <3>1, <3>2, <3>3, PersonStep
    <2>2. CASE c.event = Null
      <3>1. UNCHANGED person
        BY <2>2 DEF CommitDelete
      <3> QED BY <1>1, <3>1, PeopleStay DEF LInv, TypeOK
    <2> QED BY <2>1, <2>2
  <1>8. TypeOK'
    BY <1>1, <1>2, <1>4, <1>5, <1>6, <1>7 DEF LInv, TypeOK, known
  <1>9. Unborn'
    <2>1. \A i \in Ids : Reserved(i)' => tx'[i] = Null
      BY <1>2, <1>4 DEF LInv, Unborn
    <2>2. \A i \in Ids : Reserved(i)' => \A f \in events' : f.no # i /\ f.t # i
      BY <1>2, <1>5 DEF LInv, Unborn
    <2> QED BY <1>7, <2>1, <2>2 DEF Unborn
  <1>10. OneEvent'
    BY <1>5 DEF LInv, OneEvent
  <1>11. NetAmounts'
    BY <1>1, <1>4 DEF LInv, NetAmounts
  <1>12. ASSUME NEW q \in Requests, InFlight(q)'
         PROVE  TargetOf(q)' /\ GoneOf(q)' /\ NoneYetOf(q)' /\ LeftBehindOf(q)'
    <2>1. GoesOn(q, r) /\ Stays(q) /\ q # r
      BY <1>2, <1>12 DEF GoesOn
    <2>2. TargetOf(q) /\ GoneOf(q) /\ NoneYetOf(q) /\ LeftBehindOf(q)
      BY <2>1 DEF Stays, LInv, Targets, Gone, NoneYet, LeftBehind
    <2>3. call[q].t \in Ids /\ call[q].gone \subseteq Ids
      BY <2>1, CallFields DEF LInv, Stays
    <2>4. call[q].op = "update" /\ pc[q] \in {"readEvent", "writeEvent", "commit"} =>
             call[q].t # t
      <3> SUFFICES ASSUME call[q].op = "update", call[q].t = t,
                          pc[q] \in {"readEvent", "writeEvent", "commit"}
                   PROVE  FALSE
        OBVIOUS
      <3>1. tx[t] # Null /\ TxRow(t) \in held[q]
        BY <2>1, <2>2 DEF TargetOf, Stays, LInv, Locks, LockShape
      <3>2. TxRow(t) \in held[r]
        BY <1>1, <1>2, <3>1 DEF LInv, Targets, TargetOf
      <3> QED BY <2>1, <3>1, <3>2, LockedOnce
    <2>5. TargetOf(q)'
      <3>1. tx[call[q].t] = Null => tx'[call[q].t] = Null
        BY <1>4, <2>3
      <3> QED BY <1>2, <1>4, <2>1, <2>2, <2>3, <2>4, <3>1
              DEF Stays, TargetOf, ReservedLess, Reserved, InFlight
    <2>6. GoneOf(q)'
      BY <1>2, <1>5, <2>1, <2>2, <2>3 DEF Stays, GoneOf, ReservedLess, Reserved, InFlight
    <2>7. NoneYetOf(q)' /\ LeftBehindOf(q)'
      BY <1>2, <1>5, <2>1, <2>2 DEF Stays, NoneYetOf, LeftBehindOf, known
    <2> QED BY <2>5, <2>6, <2>7
  <1> QED BY <1>2, <1>7, <1>8, <1>9, <1>10, <1>11, <1>12
          DEF LInv, Targets, Gone, NoneYet, LeftBehind, Looking

\* The row an update stores; computed from the row as it is, its amounts agree.
LEMMA RevisedRow ==
  ASSUME LInv, NEW r \in Requests, AtCommit(r, "update")
  PROVE  LET c == call[r]
         IN  /\ c.t \in Ids /\ c.body \in Edits /\ c.seen \in Tx /\ tx[c.t] \in Tx
             /\ TxRow(c.t) \in held[r] /\ ~Reserved(c.t)
             /\ Revised(c) \in Tx /\ Revised(c) # Null
             /\ tx[c.t] = c.seen /\ c.seen.actual = c.seen.amount - c.seen.discount =>
                    Revised(c).actual = Revised(c).amount - Revised(c).discount
  <1> DEFINE c == call[r]
             b == c.body
             row == tx[c.t]
             actual == Sent(b.amount, c.seen.amount) - Sent(b.discount, c.seen.discount)
             area1 == Sent(b.area, row.area)
             amount1 == Sent(b.amount, row.amount)
             discount1 == Sent(b.discount, row.discount)
             actual1 == IF b.amount = Null /\ b.discount = Null THEN row.actual ELSE actual
             one == [row EXCEPT !.area = area1]
             two == [one EXCEPT !.amount = amount1]
             three == [two EXCEPT !.discount = discount1]
             new == [three EXCEPT !.actual = actual1]
             flat == [user |-> row.user, area |-> area1, amount |-> amount1,
                      discount |-> discount1, actual |-> actual1]
  <1>1. /\ InFlight(r) /\ c.t \in Ids /\ c.seen \in Tx \cup {Null} /\ pc[r] = "commit"
        /\ c.op = "update" /\ Shape(pc[r], c)
    BY CallFields DEF LInv, AtCommit
  <1>2. b \in Edits /\ c.seen \in Tx
    BY <1>1 DEF Shape, UpdateShape
  <1>3. b \in Body
    BY <1>2, Bodies
  <1>4. TxRow(c.t) \in held[r] /\ row # Null /\ ~Reserved(c.t)
    <2>1. TargetOf(r) /\ LockShape(pc[r], c, held[r])
      BY <1>1 DEF LInv, Targets, Locks
    <2>2. c.seen # Null
      BY <1>2, CeremonyAssumption
    <2> QED BY <1>1, <2>1, <2>2 DEF TargetOf, LockShape
  <1>5. row \in Tx
    BY <1>1, <1>4 DEF LInv, TypeOK
  <1>6. /\ b.amount \in Int \cup {Null} /\ b.discount \in Int \cup {Null}
        /\ b.area \in Areas \cup {Null}
    BY <1>3 DEF Body
  <1>7. /\ row.user \in Users /\ row.area \in Areas /\ row.amount \in Int
        /\ row.discount \in Int /\ row.actual \in Int
        /\ c.seen.amount \in Int /\ c.seen.discount \in Int
    BY <1>2, <1>5 DEF Tx
  <1>8. area1 \in Areas /\ amount1 \in Int /\ discount1 \in Int /\ actual1 \in Int
    BY <1>6, <1>7 DEF Sent
  <1>9. /\ row = [user |-> row.user, area |-> row.area, amount |-> row.amount,
                  discount |-> row.discount, actual |-> row.actual]
        /\ Revised(c) = new
    <2>1. row = [user |-> row.user, area |-> row.area, amount |-> row.amount,
                 discount |-> row.discount, actual |-> row.actual]
      BY <1>5 DEF Tx
    <2> HIDE DEF row
    <2>2. one.amount = row.amount /\ one.discount = row.discount /\ one.actual = row.actual
      BY <2>1
    <2>3. two.discount = row.discount /\ two.actual = row.actual
      BY <2>1
    <2>4. three.actual = row.actual
      BY <2>1
    <2> QED BY <2>1, <2>2, <2>3, <2>4 DEF Revised, row
  <1>10. new = flat
    <2> HIDE DEF row, area1, amount1, discount1, actual1
    <2> QED BY <1>9
  <1>11. flat \in Tx
    BY <1>7, <1>8 DEF Tx
  <1>12. flat # Null
    BY <1>11, CeremonyAssumption
  <1>13. ASSUME row = c.seen, c.seen.actual = c.seen.amount - c.seen.discount
         PROVE  flat.actual = flat.amount - flat.discount
    <2>1. b.amount = Null /\ b.discount = Null =>
              amount1 = row.amount /\ discount1 = row.discount /\ actual1 = row.actual
      BY DEF Sent
    <2>2. ~(b.amount = Null /\ b.discount = Null) => actual1 = amount1 - discount1
      BY <1>13
    <2>3. actual1 = amount1 - discount1
      BY <1>13, <2>1, <2>2
    <2> HIDE DEF amount1, discount1, actual1, area1, row
    <2> QED BY <2>3
  <1> HIDE DEF new, flat, row
  <1> QED BY <1>1, <1>2, <1>4, <1>5, <1>9, <1>10, <1>11, <1>12, <1>13 DEF row

\* An update keeps its transaction's events, or adds the one that was missing.
LEMMA EventsOfUpdate ==
  ASSUME LInv, NEW r \in Requests, CommitUpdate(r)
  PROVE  /\ events' \subseteq Event
         /\ \A f \in events' : \/ \E e \in events : f.no = e.no /\ f.t = e.t
                               \/ f.no = call[r].no /\ f.t = call[r].t
         /\ OneEvent'
  <1> DEFINE c == call[r]
             about == c.body.event
             e0 == [no |-> c.no, t |-> c.t, about |-> about]
             G(e) == IF e.no \in c.gone THEN [e EXCEPT !.about = about] ELSE e
  <1>1. /\ pc[r] = "commit" /\ c.op = "update" /\ InFlight(r) /\ c.no \in Ids
        /\ c.t \in Ids /\ c.body \in Body
    <2>1. AtCommit(r, "update") /\ InFlight(r) /\ c.no \in Ids
      BY CallFields DEF LInv, CommitUpdate, AtCommit
    <2> QED BY <2>1, RevisedRow, Bodies DEF AtCommit
  <1>2. about \in About \cup {Null}
    BY <1>1 DEF Body
  <1>3. CASE about = Null
    BY <1>3 DEF CommitUpdate, LInv, TypeOK, OneEvent
  <1>4. CASE about # Null /\ c.event = Null
    <2>1. events' = events \cup {e0}
      BY <1>4 DEF CommitUpdate
    <2>2. e0 \in Event /\ e0.no = c.no /\ e0.t = c.t
      BY <1>1, <1>2, <1>4 DEF Event
    <2>3. Reserved(c.no)
      BY <1>1 DEF Reserved
    <2>4. \A e \in events : e.t # c.t /\ e.no # c.no
      BY <1>1, <1>4, <2>3 DEF LInv, NoneYet, NoneYetOf, Unborn
    <2> HIDE DEF e0
    <2>5. OneEvent'
      BY <2>1, <2>2, <2>4 DEF LInv, OneEvent
    <2> QED BY <2>1, <2>2, <2>5 DEF LInv, TypeOK
  <1>5. CASE about # Null /\ c.event # Null
    <2>1. events' = {G(e) : e \in events}
      BY <1>5 DEF CommitUpdate
    <2>2. ASSUME NEW e \in events
          PROVE  G(e) \in Event /\ G(e).no = e.no /\ G(e).t = e.t
      <3>1. e \in Event
        BY DEF LInv, TypeOK
      <3> QED BY <1>2, <1>5, <3>1 DEF Event
    <2> HIDE DEF G
    <2>3. ASSUME NEW f \in events', NEW g \in events', f # g
          PROVE  f.no # g.no /\ f.t # g.t
      <3>1. PICK e \in events : f = G(e)
        BY <2>1
      <3>2. PICK h \in events : g = G(h)
        BY <2>1
      <3>3. e # h
        BY <2>3, <3>1, <3>2
      <3> QED BY <2>2, <3>1, <3>2, <3>3 DEF LInv, OneEvent
    <2> QED BY <2>1, <2>2, <2>3 DEF OneEvent
  <1> QED BY <1>3, <1>4, <1>5

LEMMA CommitUpdateKeepsLInv ==
  ASSUME LInv, NEW r \in Requests, CommitUpdate(r)
  PROVE  LInv'
  <1> DEFINE c == call[r]
             n == c.no
             t == c.t
             row == Revised(c)
  <1>1. /\ pc[r] = "commit" /\ AtCommit(r, "update") /\ End(r) /\ UNCHANGED person
        /\ tx' = [tx EXCEPT ![t] = row]
        /\ mixed' = IF tx[t] # c.seen THEN mixed \cup {t} ELSE mixed
    BY DEF CommitUpdate, AtCommit
  <1>2. /\ InFlight(r) /\ UNCHANGED known /\ ReservedLess
        /\ pc' \in [Requests -> Points] /\ call' \in [Requests -> Call \cup {Null}]
        /\ \A s \in Requests : held'[s] \subseteq {"transactions", "ceremony_events",
                                                   "ceremony_persons"} \X Ids
        /\ Shapes' /\ Numbers' /\ Locks'
        /\ \A q \in Requests : InFlight(q)' => GoesOn(q, r)
        /\ \A i \in Ids : Reserved(i)' => Reserved(i) /\ i # n
        /\ Reserved(n) /\ n \in Ids
    BY <1>1, EndFrame
  <1>3. /\ t \in Ids /\ tx[t] \in Tx /\ TxRow(t) \in held[r] /\ ~Reserved(t)
        /\ row \in Tx /\ row # Null
        /\ tx[t] = c.seen /\ c.seen.actual = c.seen.amount - c.seen.discount =>
               row.actual = row.amount - row.discount
    BY <1>1, RevisedRow
  <1>4. /\ tx'[t] = row /\ \A i \in Ids : i # t => tx'[i] = tx[i]
        /\ tx' \in [Ids -> Tx \cup {Null}]
    BY <1>1, <1>3 DEF LInv, TypeOK
  <1>5. /\ events' \subseteq Event /\ OneEvent'
        /\ \A f \in events' : \/ \E e \in events : f.no = e.no /\ f.t = e.t
                              \/ f.no = n /\ f.t = t
    BY EventsOfUpdate
  <1>6. tx[t] # Null
    BY <1>3, CeremonyAssumption
  <1>7. /\ TwinsOnlyByRace' /\ \A q \in Requests : InFlight(q)' => LookingOf(q)'
        /\ \A i \in Ids : Reserved(i)' => person'[i] = Null
    BY <1>1, PeopleStay
  <1>8. TypeOK'
    <2>1. off' \subseteq Users \X Names
      BY DEF CommitUpdate, OffByEdit, LInv, TypeOK
    <2>2. mixed' \subseteq Ids
      BY <1>1, <1>3 DEF LInv, TypeOK
    <2>3. person' \in [Ids -> Person \cup {Null}]
      BY <1>1 DEF LInv, TypeOK
    <2> QED BY <1>2, <1>4, <1>5, <2>1, <2>2, <2>3 DEF LInv, TypeOK, known
  <1>9. Unborn'
    <2>1. \A i \in Ids : Reserved(i)' => tx'[i] = Null
      BY <1>2, <1>3, <1>4 DEF LInv, Unborn
    <2>2. \A i \in Ids : Reserved(i)' => \A f \in events' : f.no # i /\ f.t # i
      BY <1>2, <1>3, <1>5 DEF LInv, Unborn
    <2> QED BY <1>7, <2>1, <2>2 DEF Unborn
  <1>10. NetAmounts'
    <2> SUFFICES ASSUME NEW i \in Ids, i \notin mixed', tx'[i] # Null
                 PROVE  tx'[i].actual = tx'[i].amount - tx'[i].discount
      BY DEF NetAmounts
    <2>1. i \notin mixed
      BY <1>1
    <2>2. CASE i # t
      BY <1>4, <2>1, <2>2 DEF LInv, NetAmounts
    <2>3. CASE i = t
      <3>1. tx[t] = c.seen
        BY <1>1, <2>3
      <3>2. tx[t].actual = tx[t].amount - tx[t].discount
        BY <1>6, <2>1, <2>3 DEF LInv, NetAmounts
      <3> QED BY <1>3, <1>4, <2>3, <3>1, <3>2
    <2> QED BY <2>2, <2>3
  <1>11. ASSUME NEW q \in Requests, InFlight(q)'
         PROVE  TargetOf(q)' /\ GoneOf(q)' /\ NoneYetOf(q)' /\ LeftBehindOf(q)'
    <2>1. GoesOn(q, r) /\ Stays(q) /\ q # r
      BY <1>2, <1>11 DEF GoesOn
    <2>2. TargetOf(q) /\ GoneOf(q) /\ NoneYetOf(q) /\ LeftBehindOf(q)
      BY <2>1 DEF Stays, LInv, Targets, Gone, NoneYet, LeftBehind
    <2>3. call[q].t \in Ids /\ call[q].gone \subseteq Ids
      BY <2>1, CallFields DEF LInv, Stays
    <2>4. call[q].op = "update" /\ pc[q] = "commit" => call[q].t # t
      <3> SUFFICES ASSUME call[q].op = "update", pc[q] = "commit", call[q].t = t
                   PROVE  FALSE
        OBVIOUS
      <3>1. TxRow(t) \in held[q]
        BY <2>1 DEF Stays, LInv, Locks, LockShape
      <3> QED BY <1>3, <2>1, <3>1, LockedOnce
    <2>5. TargetOf(q)'
      <3>1. tx[call[q].t] = Null <=> tx'[call[q].t] = Null
        BY <1>3, <1>4, <1>6, <2>3
      <3> QED BY <1>2, <2>1, <2>2, <2>3, <3>1
              DEF Stays, TargetOf, ReservedLess, Reserved, InFlight
    <2>6. GoneOf(q)'
      <3>1. n \notin call[q].gone
        BY <1>2, <2>2 DEF GoneOf
      <3>2. \A k \in call[q].gone : ~Reserved(k)'
        BY <1>2, <2>2, <2>3 DEF GoneOf
      <3>3. \A f \in events' : f.no \in call[q].gone => f.t = call[q].t
        BY <1>5, <2>2, <3>1 DEF GoneOf
      <3> QED BY <2>1, <3>2, <3>3 DEF Stays, GoneOf
    <2>7. NoneYetOf(q)'
      BY <1>5, <2>1, <2>2, <2>4 DEF Stays, NoneYetOf
    <2>8. LeftBehindOf(q)'
      <3>1. {n, call[q].no} \in overlapped
        BY <2>1 DEF GoesOn
      <3> QED BY <1>2, <1>5, <2>1, <2>2, <3>1 DEF Stays, LeftBehindOf, known
    <2> QED BY <2>5, <2>6, <2>7, <2>8
  <1> QED BY <1>2, <1>5, <1>7, <1>8, <1>9, <1>10, <1>11
          DEF LInv, Targets, Gone, NoneYet, LeftBehind, Looking

-----------------------------------------------------------------------------

LEMMA ArriveKeepsLInv ==
  ASSUME LInv, NEW r \in Requests, Arrive(r)
  PROVE  LInv'
  <1>1. PICK u \in Users :
          \/ \E body \in Creates : BeginCreate(r, u, body)
          \/ \E t \in Ids : \/ \E body \in Edits : BeginUpdate(r, u, t, body)
                            \/ BeginDelete(r, u, t)
    BY DEF Arrive
  <1>2. CASE \E body \in Creates : BeginCreate(r, u, body)
    <2>1. PICK body \in Creates : BeginCreate(r, u, body)
      BY <1>2
    <2> DEFINE p == IF body.area = "EVENT" THEN "person" ELSE "commit"
    <2>2. Begin(r, p, "create", u, begun + 1, body)
      BY <2>1 DEF BeginCreate
    <2>3. Opens(p, "create", begun + 1, body)
      BY DEF Opens
    <2> HIDE DEF p
    <2> QED BY <2>2, <2>3, BeginKeepsLInv
  <1>3. CASE \E t \in Ids : \E body \in Edits : BeginUpdate(r, u, t, body)
    <2>1. PICK t \in Ids, body \in Edits : BeginUpdate(r, u, t, body)
      BY <1>3
    <2>2. Begin(r, "readTx", "update", u, t, body)
      BY <2>1 DEF BeginUpdate
    <2>3. Opens("readTx", "update", t, body)
      BY DEF Opens
    <2> QED BY <2>2, <2>3, BeginKeepsLInv
  <1>4. CASE \E t \in Ids : BeginDelete(r, u, t)
    <2>1. PICK t \in Ids : BeginDelete(r, u, t)
      BY <1>4
    <2>2. Begin(r, "readTx", "delete", u, t, Null)
      BY <2>1 DEF BeginDelete
    <2>3. Opens("readTx", "delete", t, Null)
      BY DEF Opens
    <2> QED BY <2>2, <2>3, BeginKeepsLInv
  <1> QED BY <1>1, <1>2, <1>3, <1>4

LEMMA NextKeepsLInv ==
  ASSUME LInv, Next
  PROVE  LInv'
  <1>1. PICK r \in Requests : Arrive(r) \/ Execute(r) \/ Commit(r) \/ Refuse(r) \/ Crash(r)
    BY DEF Next
  <1>2. CASE Arrive(r)
    BY <1>2, ArriveKeepsLInv
  <1>3. CASE Execute(r)
    BY <1>3, ReadTxKeepsLInv, WriteTxKeepsLInv, ReadEventKeepsLInv, FindPersonKeepsLInv,
       WriteTotalKeepsLInv, WriteEventKeepsLInv DEF Execute
  <1>4. CASE Commit(r)
    BY <1>4, CommitCreateKeepsLInv, CommitUpdateKeepsLInv, CommitDeleteKeepsLInv DEF Commit
  <1>5. CASE Refuse(r) \/ Crash(r)
    BY <1>5, RollbackKeepsLInv DEF Refuse, Crash
  <1> QED BY <1>1, <1>2, <1>3, <1>4, <1>5

LEMMA StutterKeepsLInv ==
  ASSUME LInv, UNCHANGED vars
  PROVE  LInv'
  <1>1. /\ UNCHANGED <<stored, known, held, pc, call, mixed, off>>
        /\ overlapped \subseteq overlapped'
    BY DEF vars, stored, known
  <1>2. \A q \in Requests : InFlight(q)' => Stays(q)
    BY <1>1 DEF InFlight, Stays
  <1>3. ReservedLess
    BY <1>1 DEF ReservedLess, Reserved, InFlight, known
  <1>4. \A q \in Requests : InFlight(q)' =>
            TargetOf(q)' /\ GoneOf(q)' /\ NoneYetOf(q)' /\ LeftBehindOf(q)' /\ LookingOf(q)'
    BY <1>1, <1>2, <1>3, OthersKept
  <1>5. RowsInv'
    BY <1>1, <1>3, RowsInvKept DEF LInv, RowsInv
  <1>6. TypeOK'
    BY <1>1 DEF LInv, TypeOK, stored, known
  <1>7. Shapes' /\ Numbers'
    <2>1. Shapes'
      <3>1. \A q \in Requests : pc'[q] = pc[q] /\ call'[q] = call[q]
        BY <1>1
      <3>2. \A q \in Requests : IF call'[q] # Null THEN Shape(pc'[q], call'[q])
                               ELSE pc'[q] = "idle"
        BY <3>1 DEF LInv, Shapes, InFlight
      <3> QED BY <3>2 DEF Shapes, InFlight, Shape, CreateShape, UpdateShape, DeleteShape
    <2>2. Numbers'
      BY <1>1 DEF LInv, Numbers, InFlight, known
    <2> QED BY <2>1, <2>2
  <1>8. Locks'
    BY <1>1 DEF LInv, Locks, InFlight, LockShape
  <1> QED BY <1>4, <1>5, <1>6, <1>7, <1>8
          DEF LInv, RowsInv, Targets, Gone, NoneYet, LeftBehind, Looking

LEMMA Invariance == Spec => []LInv
  <1>1. Init => LInv
    BY InitLInv
  <1>2. LInv /\ [Next]_vars => LInv'
    BY NextKeepsLInv, StutterKeepsLInv
  <1> QED BY <1>1, <1>2, PTL DEF Spec

\* Rows, locks and calls keep their types: an edit never stores a row that is none,
\* whatever fields it sends (update).
THEOREM TypeCorrect == Spec => []TypeOK
  <1>1. LInv => TypeOK
    BY DEF LInv
  <1> QED BY <1>1, Invariance, PTL

\* For any number of requests: a person has two rows only when two requests in flight
\* together have both looked for it in vain (get_or_create).
THEOREM TwinsNeedARace == Spec => []TwinsOnlyByRace
  <1>1. LInv => TwinsOnlyByRace
    BY DEF LInv
  <1> QED BY <1>1, Invariance, PTL

\* The amount paid is the amount less the discount, unless an edit was computed from a
\* row that another had changed since (update).
THEOREM AmountsAreNet == Spec => []NetAmounts
  <1>1. LInv => NetAmounts
    BY DEF LInv
  <1> QED BY <1>1, Invariance, PTL

-----------------------------------------------------------------------------
(* Deadlocks.                                                              *)

Editing(r) == pc[r] = "writeEvent" /\ call[r].op = "update"
Deleting(r) == pc[r] = "writeTx" /\ call[r].op = "delete"

\* Requests that wait for each other in a ring.
Ring(S) ==
    /\ S \subseteq Requests
    /\ \A p \in S : (\E q \in S : WaitsFor(p, q)) /\ (\E q \in S : WaitsFor(q, p))

\* In a ring, some have locked a transaction and want its event, the others want a
\* transaction and may have locked its event.
LEMMA RingMembers ==
  ASSUME LInv, NEW S, Ring(S), NEW r \in S
  PROVE  /\ r \in Requests /\ InFlight(r) /\ call[r].t \in Ids
         /\ \/ Editing(r) /\ held[r] = {TxRow(call[r].t)}
            \/ Deleting(r) /\ held[r] \subseteq PersonRows \cup ({"ceremony_events"} \X call[r].gone)
  <1> DEFINE Late(q) == /\ pc[q] \in {"writeTx", "writeEvent"} /\ InFlight(q)
                        /\ call[q].t \in Ids /\ call[q].op \in {"update", "delete"}
                        /\ LockShape(pc[q], call[q], held[q])
                        /\ held[q] # {}
  <1>1. ASSUME NEW q \in S
        PROVE  Late(q)
    <2>1. q \in Requests /\ Wanted(q) # {} /\ held[q] # {}
      BY DEF Ring, WaitsFor
    <2>2. pc[q] \in {"writeTx", "total", "writeEvent"}
      BY <2>1 DEF Wanted
    <2>3. /\ InFlight(q) /\ call[q].t \in Ids /\ Shape(pc[q], call[q])
          /\ call[q].op \in {"create", "update", "delete"}
      BY <2>1, <2>2, CallFields DEF LInv
    <2>4. LockShape(pc[q], call[q], held[q])
      BY <2>1, <2>3 DEF LInv, Locks
    <2>5. pc[q] # "total"
      BY <2>1, <2>3, <2>4 DEF LockShape, Shape, UpdateShape
    <2>6. call[q].op # "create"
      BY <2>2, <2>3, <2>5 DEF Shape, CreateShape
    <2> QED BY <2>1, <2>2, <2>3, <2>4, <2>5, <2>6
  <1>2. ~(call[r].op = "delete" /\ pc[r] = "writeEvent")
    <2> SUFFICES ASSUME call[r].op = "delete", pc[r] = "writeEvent"
                 PROVE  FALSE
      OBVIOUS
    <2>1. held[r] \subseteq PersonRows
      BY <1>1 DEF LockShape
    <2>2. PICK s \in S : WaitsFor(s, r)
      BY DEF Ring
    <2>3. pc[s] # "total"
      BY <1>1
    <2>4. Wanted(s) \cap PersonRows = {}
      BY <2>3 DEF Wanted, PersonRows, TxRow, EventRow
    <2> QED BY <2>1, <2>2, <2>4 DEF WaitsFor
  <1>3. r \in Requests
    BY DEF Ring
  <1>4. CASE call[r].op = "update"
    <2>1. Late(r)
      BY <1>1
    <2>2. pc[r] = "writeEvent" /\ held[r] = {TxRow(call[r].t)}
      BY <1>4, <2>1 DEF LockShape
    <2> QED BY <1>3, <1>4, <2>1, <2>2 DEF Editing
  <1>5. CASE call[r].op = "delete"
    <2>1. Late(r)
      BY <1>1
    <2>2. /\ pc[r] = "writeTx"
          /\ held[r] \subseteq PersonRows \cup ({"ceremony_events"} \X call[r].gone)
      BY <1>2, <1>5, <2>1 DEF LockShape
    <2> QED BY <1>3, <1>5, <2>1, <2>2 DEF Deleting
  <1>6. Late(r)
    BY <1>1
  <1> QED BY <1>4, <1>5, <1>6

\* An edit waits for the delete of its own transaction, which has locked the event.
LEMMA EditWaits ==
  ASSUME LInv, NEW S, Ring(S), NEW p \in S, NEW q \in S, Editing(p), WaitsFor(p, q)
  PROVE  Deleting(q) /\ call[q].t = call[p].t
  <1>1. PICK x : x \in Wanted(p) /\ x \in held[q]
    BY DEF WaitsFor
  <1>2. PICK e \in events : x = EventRow(e) /\ e.t = call[p].t
    BY <1>1 DEF Wanted, Editing, EventsOf
  <1>3. ~Editing(q)
    <2>1. Editing(q) => x = TxRow(call[q].t)
      BY <1>1, RingMembers DEF Editing, Deleting
    <2> QED BY <1>2, <2>1 DEF EventRow, TxRow
  <1>4. /\ Deleting(q) /\ InFlight(q) /\ q \in Requests
        /\ x \in PersonRows \cup ({"ceremony_events"} \X call[q].gone)
    BY <1>1, <1>3, RingMembers
  <1>5. e.no \in call[q].gone
    BY <1>2, <1>4 DEF EventRow, PersonRows
  <1> QED BY <1>2, <1>4, <1>5 DEF LInv, Gone, GoneOf

\* A delete waits for an edit of its own transaction, which has locked it.
LEMMA DeleteWaits ==
  ASSUME LInv, NEW S, Ring(S), NEW p \in S, NEW q \in S, Deleting(p), WaitsFor(p, q)
  PROVE  Editing(q) /\ call[q].t = call[p].t
  <1>1. TxRow(call[p].t) \in held[q]
    BY DEF WaitsFor, Wanted, Deleting
  <1>2. ~Deleting(q)
    <2>1. Deleting(q) => held[q] \subseteq PersonRows \cup ({"ceremony_events"} \X call[q].gone)
      BY RingMembers DEF Editing, Deleting
    <2>2. TxRow(call[p].t) \notin PersonRows \cup ({"ceremony_events"} \X call[q].gone)
      BY DEF TxRow, PersonRows
    <2> QED BY <1>1, <2>1, <2>2
  <1>3. Editing(q) /\ held[q] = {TxRow(call[q].t)}
    BY <1>2, RingMembers
  <1> QED BY <1>1, <1>3 DEF TxRow

\* Two edits in a ring are not of the same transaction.
LEMMA OneEdit ==
  ASSUME LInv, NEW S, Ring(S), NEW p \in S, NEW q \in S, Editing(p), Editing(q),
         call[p].t = call[q].t
  PROVE  p = q
  <1>1. p \in Requests /\ q \in Requests /\ TxRow(call[p].t) \in held[p] /\ TxRow(call[p].t) \in held[q]
    BY RingMembers DEF Editing, Deleting
  <1> QED BY <1>1, LockedOnce

\* Requests block each other for good in one way only: an edit has the transaction and
\* wants its event, and a delete of the same transaction has the event and wants the
\* transaction (update, delete).
THEOREM DeadlocksArePairs == Spec => []OnlyEditsMeetDeletes
  <1>1. LInv => OnlyEditsMeetDeletes
    <2> SUFFICES ASSUME LInv, NEW r \in Requests, Deadlocked(r)
                 PROVE  \E q \in Requests :
                            /\ WaitsFor(r, q) /\ WaitsFor(q, r)
                            /\ {call[r].op, call[q].op} = {"update", "delete"}
                            /\ call[r].t = call[q].t
      BY DEF OnlyEditsMeetDeletes
    <2>1. PICK S \in SUBSET Requests : r \in S /\ Ring(S)
      BY DEF Deadlocked, Ring
    <2>2. PICK q \in S : WaitsFor(r, q)
      BY <2>1 DEF Ring
    <2>3. Editing(r) \/ Deleting(r)
      BY <2>1, RingMembers
    <2>4. CASE Editing(r)
      <3>1. Deleting(q) /\ call[q].t = call[r].t
        BY <2>1, <2>2, <2>4, EditWaits
      <3>2. PICK s \in S : WaitsFor(q, s)
        BY <2>1 DEF Ring
      <3>3. Editing(s) /\ call[s].t = call[q].t
        BY <2>1, <3>1, <3>2, DeleteWaits
      <3>4. s = r
        BY <2>1, <2>4, <3>1, <3>3, OneEdit
      <3> QED BY <2>1, <2>2, <2>4, <3>1, <3>2, <3>4 DEF Editing, Deleting
    <2>5. CASE Deleting(r)
      <3>1. Editing(q) /\ call[q].t = call[r].t
        BY <2>1, <2>2, <2>5, DeleteWaits
      <3>2. PICK s \in S : WaitsFor(s, r)
        BY <2>1 DEF Ring
      <3>3. Editing(s) /\ call[r].t = call[s].t
        <4>1. Editing(s) \/ Deleting(s)
          BY <2>1, RingMembers
        <4>2. ~Deleting(s)
          BY <2>1, <2>5, <3>2, DeleteWaits DEF Editing, Deleting
        <4> QED BY <2>1, <3>2, <4>1, <4>2, EditWaits
      <3>4. s = q
        BY <2>1, <3>1, <3>3, OneEdit
      <3> QED BY <2>1, <2>2, <2>5, <3>1, <3>2, <3>4 DEF Editing, Deleting
    <2> QED BY <2>3, <2>4, <2>5
  <1> QED BY <1>1, Invariance, PTL

-----------------------------------------------------------------------------
(* What a step never does.                                                 *)

\* A commit leaves the rows of everybody else alone.
LEMMA OthersRows ==
  ASSUME LInv, NEW r \in Requests, pc[r] # "idle", End(r), call[r].to # Null,
         AboutOf(call[r]) \in About, NEW sign \in Int, NEW amount \in Int,
         person' = [person EXCEPT ![call[r].to] = Moved(call[r], sign, amount)],
         NEW u, NEW n, call[r].user # u \/ AboutOf(call[r]).name # n
  PROVE  Rows(u, n)' = Rows(u, n) /\ \A p \in Rows(u, n) : person'[p] = person[p]
  <1> DEFINE c == call[r]
  <1>1. /\ InFlight(r) /\ c.to \in Ids \cup {Null} /\ Reserved(c.no) /\ c.no \in Ids
    BY EndFrame, CallFields DEF LInv
  <1>2. \/ c.to \in Rows(c.user, AboutOf(c).name)
        \/ c.to = c.no /\ person[c.to] = Null
    BY <1>1 DEF LInv, Looking, LookingOf, Unborn
  <1>3. c.to \notin Rows(u, n)
    BY <1>2 DEF Rows
  <1>4. \A p \in Ids : p # c.to => person'[p] = person[p]
    BY PersonStep
  <1>5. c.to \notin Rows(u, n)'
    <2>1. person'[c.to].user = c.user /\ person'[c.to].name = AboutOf(c).name
      BY PersonStep
    <2> QED BY <2>1 DEF Rows
  <1> QED BY <1>3, <1>4, <1>5 DEF Rows

\* While a person's rows are frozen nobody moves a total of theirs.
LEMMA FrozenRowsStay ==
  ASSUME LInv, [Next]_vars, NEW u, NEW n, Frozen(u, n)
  PROVE  Rows(u, n)' = Rows(u, n) /\ \A p \in Rows(u, n) : person'[p] = person[p]
  <1>1. CASE UNCHANGED person
    BY <1>1 DEF Rows
  <1>2. ASSUME NEW r \in Requests, CommitCreate(r), call[r].body.area = "EVENT"
        PROVE  Rows(u, n)' = Rows(u, n) /\ \A p \in Rows(u, n) : person'[p] = person[p]
    <2> DEFINE b == call[r].body
               paid == b.amount - b.discount
    <2>1. pc[r] = "commit" /\ call[r].op = "create" /\ End(r) /\ InFlight(r)
      BY <1>2, CallFields DEF LInv, CommitCreate, AtCommit
    <2>2. b \in Creates /\ call[r].to # Null
      BY <1>2, <2>1 DEF LInv, Shapes, Shape, CreateShape
    <2>3. /\ AboutOf(call[r]) \in About /\ paid \in Int /\ 1 \in Int
      BY <1>2, <2>1, <2>2, CeremonyAssumption DEF AboutOf
    <2>4. person' = [person EXCEPT ![call[r].to] = Moved(call[r], 1, paid)]
      BY <1>2 DEF CommitCreate
    <2>5. call[r].user # u \/ AboutOf(call[r]).name # n
      BY <2>1, <2>2 DEF Frozen, InFlight
    <2> HIDE DEF paid
    <2> QED BY <2>1, <2>2, <2>3, <2>4, <2>5, OthersRows
  <1>3. ASSUME NEW r \in Requests, CommitDelete(r), call[r].event # Null
        PROVE  Rows(u, n)' = Rows(u, n) /\ \A p \in Rows(u, n) : person'[p] = person[p]
    <2> DEFINE c == call[r]
    <2>1. pc[r] = "commit" /\ c.op = "delete" /\ End(r) /\ InFlight(r)
      BY <1>3, CallFields DEF LInv, CommitDelete, AtCommit
    <2>2. c.event \in Event /\ c.seen \in Tx \cup {Null} /\ c.seen # Null /\ c.to # Null
      <3>1. c.event \in Event \cup {Null} /\ c.seen \in Tx \cup {Null} /\ Shape(pc[r], c)
        BY <2>1, CallFields DEF LInv
      <3> QED BY <1>3, <2>1, <3>1 DEF Shape, DeleteShape
    <2>3. AboutOf(c) \in About /\ c.seen.actual \in Int /\ -1 \in Int
      BY <2>1, <2>2 DEF AboutOf, Event, Tx
    <2>4. person' = [person EXCEPT ![c.to] = Moved(c, -1, c.seen.actual)]
      BY <1>3 DEF CommitDelete
    <2>5. c.user # u \/ AboutOf(c).name # n
      BY <2>1, <2>2 DEF Frozen, InFlight
    <2> QED BY <2>1, <2>2, <2>3, <2>4, <2>5, OthersRows
  <1>4. \/ UNCHANGED person
        \/ \E r \in Requests : CommitCreate(r) /\ call[r].body.area = "EVENT"
        \/ \E r \in Requests : CommitDelete(r) /\ call[r].event # Null
    <2>1. CASE UNCHANGED vars
      BY <2>1 DEF vars
    <2>2. CASE Next
      <3>1. PICK r \in Requests : Arrive(r) \/ Execute(r) \/ Commit(r) \/ Refuse(r) \/ Crash(r)
        BY <2>2 DEF Next
      <3>2. CASE Arrive(r)
        BY <3>2 DEF Arrive, BeginCreate, BeginUpdate, BeginDelete, Begin, stored
      <3>3. CASE Execute(r)
        BY <3>3 DEF Execute, ReadTx, WriteTx, ReadEvent, FindPerson, WriteTotal, WriteEvent,
                    stored
      <3>4. CASE Commit(r)
        BY <3>4 DEF Commit, CommitCreate, CommitUpdate, CommitDelete
      <3>5. CASE Refuse(r) \/ Crash(r)
        BY <3>5 DEF Refuse, Crash, Rollback, stored
      <3> QED BY <3>1, <3>2, <3>3, <3>4, <3>5
    <2> QED BY <2>1, <2>2
  <1> QED BY <1>1, <1>2, <1>3, <1>4

\* Who has a person's row keeps it; a person with two rows is never found.
LEMMA NobodyFindsFrozen ==
  ASSUME LInv, [Next]_vars, NEW u, NEW n, Frozen(u, n),
         NEW q \in Requests, call'[q] # Null, call'[q].to # Null
  PROVE  call'[q].user # u \/ AboutOf(call'[q]).name # n
  <1> DEFINE c == call[q]
             new == call'[q]
  <1>1. CASE new = c
    BY <1>1 DEF Frozen
  <1>2. ASSUME NEW x, call' = [call EXCEPT ![q].seen = x], x \in Tx \cup {Null}, pc[q] # "idle"
        PROVE  c # Null /\ new.user = c.user /\ new.to = c.to /\ AboutOf(new) = AboutOf(c)
    <2>1. c \in Call /\ c # Null /\ new = [c EXCEPT !.seen = x]
      BY <1>2, CallFields DEF LInv, TypeOK, InFlight
    <2>2. Continues(c, new) /\ new.event = c.event /\ new.to = c.to
      BY <1>2, <2>1, WithSeen
    <2> QED BY <2>1, <2>2 DEF Continues, AboutOf
  <1>3. ASSUME NEW x, call' = [call EXCEPT ![q].gone = x], x \in SUBSET Ids, pc[q] # "idle"
        PROVE  c # Null /\ new.user = c.user /\ new.to = c.to /\ AboutOf(new) = AboutOf(c)
    <2>1. c \in Call /\ c # Null /\ new = [c EXCEPT !.gone = x]
      BY <1>3, CallFields DEF LInv, TypeOK, InFlight
    <2>2. Continues(c, new) /\ new.event = c.event /\ new.to = c.to
      BY <1>3, <2>1, WithGone
    <2> QED BY <2>1, <2>2 DEF Continues, AboutOf
  <1>4. CASE ReadTx(q)
    <2>1. /\ pc[q] = "readTx" /\ call' = [call EXCEPT ![q].seen = tx[c.t]]
          /\ c.t \in Ids
      BY <1>4, CallFields DEF LInv, ReadTx
    <2>2. tx[c.t] \in Tx \cup {Null}
      BY <2>1 DEF LInv, TypeOK
    <2> QED BY <1>2, <2>1, <2>2 DEF Frozen
  <1>5. CASE ReadEvent(q) /\ new # c
    <2>1. pc[q] = "readEvent" /\ c \in Call /\ Shape(pc[q], c)
      BY <1>5, CallFields DEF LInv, ReadEvent
    <2>2. c.to = Null
      BY <2>1 DEF Call, Shape, CreateShape, UpdateShape, DeleteShape
    <2>3. PICK e \in events : new = [c EXCEPT !.event = e]
      BY <1>5 DEF ReadEvent, EventsOf, LInv, TypeOK
    <2>4. e \in Event
      BY DEF LInv, TypeOK
    <2>5. new.to = c.to
      BY <2>1, <2>3, <2>4, WithEvent
    <2> QED BY <2>2, <2>5
  <1>6. CASE FindPerson(q)
    <2> DEFINE found == Rows(c.user, AboutOf(c).name)
    <2>1. pc[q] = "person" /\ c \in Call /\ c.no \in Ids
      BY <1>6, CallFields DEF LInv, FindPerson
    <2>2. PICK x \in Ids : /\ new = [c EXCEPT !.to = x]
                           /\ found = {} \/ found = {x}
      BY <1>6, <2>1 DEF FindPerson, Rows, LInv, TypeOK
    <2>3. Continues(c, new) /\ new.event = c.event
      BY <2>1, <2>2, WithTo
    <2>4. AboutOf(new) = AboutOf(c) /\ new.user = c.user
      BY <2>3 DEF Continues, AboutOf
    <2>5. ~(Cardinality(found) > 1)
      <3> HIDE DEF found
      <3>1. CASE found = {}
        <4>1. Cardinality(found) = 0
          BY <3>1, FS_EmptySet
        <4> QED BY <4>1
      <3>2. CASE found = {x}
        <4>1. Cardinality(found) = 1
          BY <3>2, FS_Singleton
        <4> QED BY <4>1
      <3> QED BY <2>2, <3>1, <3>2
    <2> QED BY <2>4, <2>5 DEF Frozen
  <1>7. CASE WriteEvent(q)
    <2>1. /\ pc[q] = "writeEvent" /\ call' = [call EXCEPT ![q].gone = {e.no : e \in EventsOf(c.t)}]
      BY <1>7 DEF WriteEvent
    <2>2. {e.no : e \in EventsOf(c.t)} \in SUBSET Ids
      BY DEF LInv, TypeOK, Event, EventsOf
    <2> QED BY <1>3, <2>1, <2>2 DEF Frozen
  <1>8. CASE Arrive(q)
    BY <1>8 DEF Arrive, BeginCreate, BeginUpdate, BeginDelete, Begin, LInv, TypeOK
  <1>9. \/ new = c \/ new = Null \/ ReadTx(q) \/ ReadEvent(q) \/ FindPerson(q)
        \/ WriteEvent(q) \/ Arrive(q)
    <2>1. CASE UNCHANGED vars
      BY <2>1 DEF vars
    <2>2. CASE Next
      <3>1. PICK r \in Requests : Arrive(r) \/ Execute(r) \/ Commit(r) \/ Refuse(r) \/ Crash(r)
        BY <2>2 DEF Next
      <3>2. CASE r = q
        BY <3>1, <3>2 DEF Execute, WriteTx, WriteTotal, Commit, CommitCreate, CommitUpdate,
                          CommitDelete, Refuse, Crash, Rollback, End, LInv, TypeOK
      <3>3. CASE r # q
        <4>1. \/ UNCHANGED call \/ \E x : call' = [call EXCEPT ![r] = x]
          BY <3>1 DEF Arrive, BeginCreate, BeginUpdate, BeginDelete, Begin, Execute, ReadTx,
                      WriteTx, ReadEvent, FindPerson, WriteTotal, WriteEvent, Commit,
                      CommitCreate, CommitUpdate, CommitDelete, Refuse, Crash, Rollback, End
        <4> QED BY <3>3, <4>1 DEF LInv, TypeOK
      <3> QED BY <3>2, <3>3
    <2> QED BY <2>1, <2>2
  <1> QED BY <1>1, <1>4, <1>5, <1>6, <1>7, <1>8, <1>9

\* Once a person has two rows and the requests that had found one are over, no step
\* moves a total of theirs again (scalar_one_or_none refuses the person).
THEOREM TwinsStayFrozen == Spec => TwinsAreFrozen
  <1>1. LInv /\ [Next]_vars =>
            [\A u \in Users, n \in Names : Frozen(u, n) =>
                Frozen(u, n)' /\ \A p \in Rows(u, n) : person'[p] = person[p]]_vars
    <2> SUFFICES ASSUME LInv, [Next]_vars, NEW u \in Users, NEW n \in Names, Frozen(u, n)
                 PROVE  Frozen(u, n)' /\ \A p \in Rows(u, n) : person'[p] = person[p]
      OBVIOUS
    <2>1. Rows(u, n)' = Rows(u, n) /\ \A p \in Rows(u, n) : person'[p] = person[p]
      BY FrozenRowsStay
    <2>2. Cardinality(Rows(u, n)') > 1
      BY <2>1 DEF Frozen
    <2>3. \A q \in Requests : call'[q] # Null /\ call'[q].to # Null =>
              call'[q].user # u \/ AboutOf(call'[q]).name # n
      BY NobodyFindsFrozen
    <2> QED BY <2>1, <2>2, <2>3 DEF Frozen, AboutOf
  <1> QED BY <1>1, Invariance, PTL DEF Spec, TwinsAreFrozen

\* A transaction never gets a second event, and a delete leaves behind no event but one
\* that a request in flight with it has added (update, delete).
THEOREM EventsFollow == Spec => EventsFollowTransactions
  <1>1. LInv => \A e, f \in events : e # f => e.t # f.t
    BY DEF LInv, OneEvent
  <1>2. LInv /\ [Next]_vars =>
            [\A r \in Requests : CommitDelete(r) /\ call[r].seen.area = "EVENT" =>
                \A e \in events' : e.t = call[r].t => {e.no, call[r].no} \in overlapped]_vars
    <2> SUFFICES ASSUME LInv, NEW r \in Requests, CommitDelete(r), call[r].seen.area = "EVENT",
                        NEW e \in events', e.t = call[r].t
                 PROVE  {e.no, call[r].no} \in overlapped
      OBVIOUS
    <2>1. pc[r] = "commit" /\ call[r].op = "delete" /\ InFlight(r) /\ Shape(pc[r], call[r])
      BY CallFields DEF LInv, CommitDelete, AtCommit
    <2>2. e \in events /\ e.no \notin call[r].gone
      BY <2>1 DEF CommitDelete, Shape, DeleteShape
    <2> QED BY <2>1, <2>2 DEF LInv, LeftBehind, LeftBehindOf
  <1> QED BY <1>1, <1>2, Invariance, PTL DEF Spec, EventsFollowTransactions

-----------------------------------------------------------------------------
(* What events add up to.                                                  *)

\* The events that count for n in the totals of u.
Mine(u, n, txs, evs) ==
    {e \in evs : /\ e.about.name = n
                 /\ txs[e.t] # Null /\ txs[e.t].user = u /\ txs[e.t].area = "EVENT"}

Paid(d, M, txs) == SumFunction([e \in {e \in M : e.about.direction = d} |-> txs[e.t].actual])

LEMMA CountedIs ==
  ASSUME NEW u, NEW n, NEW txs, NEW evs
  PROVE  LET M == Mine(u, n, txs, evs)
         IN  Counted(u, n, txs, evs)
               = [sent |-> Paid("SENT", M, txs), received |-> Paid("RECEIVED", M, txs),
                  count |-> Cardinality(M)]
  BY DEF Counted, Mine, Paid

LEMMA PaidSame ==
  ASSUME NEW d, NEW M, NEW txs, NEW txs2, \A e \in M : txs2[e.t].actual = txs[e.t].actual
  PROVE  Paid(d, M, txs2) = Paid(d, M, txs)
  <1> DEFINE T == {e \in M : e.about.direction = d}
  <1>1. [e \in T |-> txs2[e.t].actual] = [e \in T |-> txs[e.t].actual]
    OBVIOUS
  <1> QED BY <1>1 DEF Paid

LEMMA PaidMore ==
  ASSUME NEW d, NEW M, IsFiniteSet(M), NEW e, e \notin M, NEW txs,
         \A f \in M \cup {e} : txs[f.t].actual \in Int
  PROVE  /\ Paid(d, M, txs) \in Int
         /\ Paid(d, M \cup {e}, txs) = Paid(d, M, txs) + Share(e.about, d, txs[e.t].actual)
  <1> DEFINE T == {f \in M : f.about.direction = d}
             U == {f \in M \cup {e} : f.about.direction = d}
             g == [f \in T |-> txs[f.t].actual]
             h == [f \in U |-> txs[f.t].actual]
  <1>1. IsFiniteSet(T) /\ e \notin T
    BY FS_Subset
  <1>2. DOMAIN g = T /\ DOMAIN h = U /\ \A f \in T : f \in U /\ g[f] \in Int /\ h[f] = g[f]
    OBVIOUS
  <1>3. Paid(d, M, txs) = SumFunction(g) /\ Paid(d, M \cup {e}, txs) = SumFunction(h)
    BY DEF Paid
  <1>4. U = IF e.about.direction = d THEN T \cup {e} ELSE T
    OBVIOUS
  <1>5. e.about.direction = d => h[e] = txs[e.t].actual /\ h[e] \in Int
    OBVIOUS
  <1>6. e.about.direction # d => h = g
    BY <1>4
  <1> HIDE DEF T, U, g, h
  <1>7. SumFunction(g) \in Int
    BY <1>1, <1>2, SumOfFunction
  <1>8. CASE e.about.direction = d
    <2>1. DOMAIN h = T \cup {e} /\ DOMAIN g = T
      BY <1>2, <1>4, <1>8
    <2>2. \A y \in T : g[y] \in Int /\ h[y] = g[y]
      BY <1>2
    <2>3. h[e] \in Int /\ IsFiniteSet(T) /\ e \notin T
      BY <1>1, <1>5, <1>8
    <2>4. SumFunction(h) = SumFunction(g) + h[e]
      BY <2>1, <2>2, <2>3, SumOfOneMore
    <2> QED BY <1>3, <1>5, <1>7, <1>8, <2>4 DEF Share
  <1>9. CASE e.about.direction # d
    BY <1>3, <1>6, <1>7, <1>9 DEF Share
  <1> QED BY <1>3, <1>7, <1>8, <1>9

\* The same events with the same amounts.
LEMMA CountedSame ==
  ASSUME NEW u, NEW n, NEW txs, NEW evs, NEW txs2, NEW evs2,
         Mine(u, n, txs2, evs2) = Mine(u, n, txs, evs),
         \A e \in Mine(u, n, txs, evs) : txs2[e.t].actual = txs[e.t].actual
  PROVE  Counted(u, n, txs2, evs2) = Counted(u, n, txs, evs)
  <1>1. \A d : Paid(d, Mine(u, n, txs, evs), txs2) = Paid(d, Mine(u, n, txs, evs), txs)
    BY PaidSame
  <1> QED BY <1>1, CountedIs

\* One event more.
LEMMA CountedMore ==
  ASSUME NEW u, NEW n, NEW txs, NEW evs, NEW txs2, NEW evs2, NEW e,
         IsFiniteSet(Mine(u, n, txs, evs)), e \notin Mine(u, n, txs, evs),
         Mine(u, n, txs2, evs2) = Mine(u, n, txs, evs) \cup {e},
         \A f \in Mine(u, n, txs, evs) :
            txs[f.t].actual \in Int /\ txs2[f.t].actual = txs[f.t].actual,
         txs2[e.t].actual \in Int
  PROVE  LET old == Counted(u, n, txs, evs)
         IN  /\ old.sent \in Int /\ old.received \in Int /\ old.count \in Int
             /\ Counted(u, n, txs2, evs2)
                  = [sent |-> old.sent + Share(e.about, "SENT", txs2[e.t].actual),
                     received |-> old.received + Share(e.about, "RECEIVED", txs2[e.t].actual),
                     count |-> old.count + 1]
  <1> DEFINE M == Mine(u, n, txs, evs)
  <1>1. /\ \A f \in M \cup {e} : txs2[f.t].actual \in Int
        /\ IsFiniteSet(M) /\ e \notin M
    OBVIOUS
  <1> HIDE DEF M
  <1>2. ASSUME NEW d
        PROVE  /\ Paid(d, M, txs2) \in Int
               /\ Paid(d, M \cup {e}, txs2)
                    = Paid(d, M, txs2) + Share(e.about, d, txs2[e.t].actual)
    BY ONLY <1>1, PaidMore
  <1>3. \A d : Paid(d, M, txs2) = Paid(d, M, txs)
    BY PaidSame DEF M
  <1>4. Cardinality(M) \in Nat /\ Cardinality(M \cup {e}) = Cardinality(M) + 1
    BY <1>1, FS_AddElement, FS_CardinalityType
  <1>5. Counted(u, n, txs, evs) = [sent |-> Paid("SENT", M, txs),
                                   received |-> Paid("RECEIVED", M, txs),
                                   count |-> Cardinality(M)]
    BY CountedIs DEF M
  <1>6. Counted(u, n, txs2, evs2) = [sent |-> Paid("SENT", M \cup {e}, txs2),
                                     received |-> Paid("RECEIVED", M \cup {e}, txs2),
                                     count |-> Cardinality(M \cup {e})]
    BY CountedIs DEF M
  <1> QED BY <1>2, <1>3, <1>4, <1>5, <1>6

-----------------------------------------------------------------------------
(* What the rows of a person add up to.                                    *)

\* One value of a sum moves by x, or a value x is added to it.
LEMMA SumMoves ==
  ASSUME NEW S, IsFiniteSet(S), NEW to, NEW k \in Int, NEW x \in Int,
         NEW g, DOMAIN g = S, NEW h, DOMAIN h = S \cup {to},
         \A y \in S : g[y] \in Int /\ (y # to => h[y] = g[y]),
         h[to] = k + x, to \in S => g[to] = k, to \notin S => k = 0
  PROVE  SumFunction(g) \in Int /\ SumFunction(h) = SumFunction(g) + x
  <1>1. SumFunction(g) \in Int
    BY SumOfFunction
  <1>2. h[to] \in Int
    OBVIOUS
  <1>3. CASE to \in S
    <2>1. DOMAIN h = S /\ g[to] \in Int /\ \A y \in S : y # to => g[y] \in Int /\ h[y] = g[y]
      BY <1>3
    <2>2. SumFunction(h) = SumFunction(g) + (h[to] - g[to])
      BY <1>2, <1>3, <2>1, SumOfOneChanged
    <2> QED BY <1>1, <1>3, <2>2
  <1>4. CASE to \notin S
    <2>1. \A y \in S : g[y] \in Int /\ h[y] = g[y]
      BY <1>4
    <2>2. IsFiniteSet(S) /\ DOMAIN g = S /\ DOMAIN h = S \cup {to}
      OBVIOUS
    <2>3. SumFunction(h) = SumFunction(g) + h[to]
      BY ONLY <1>2, <1>4, <2>1, <2>2, SumOfOneMore
    <2> QED BY <1>1, <1>4, <2>3
  <1> QED BY <1>3, <1>4

LEMMA RowsOfPerson ==
  ASSUME LInv, NEW u, NEW n
  PROVE  /\ IsFiniteSet(Rows(u, n))
         /\ \A p \in Rows(u, n) : /\ person[p] \in Person
                                  /\ person[p].sent \in Int /\ person[p].received \in Int
                                  /\ person[p].count \in Int
  <1>1. IsFiniteSet(Ids) /\ Rows(u, n) \subseteq Ids
    BY CeremonyAssumption, FS_Interval DEF Ids, Rows
  <1>2. ASSUME NEW p \in Rows(u, n) PROVE person[p] \in Person
    BY DEF Rows, LInv, TypeOK
  <1> QED BY <1>1, <1>2, FS_Subset DEF Person

\* The commit of r moves the totals of the person that r has found.
MovesTotals(r, sign, amount) ==
    /\ pc[r] # "idle" /\ End(r) /\ call[r].to # Null /\ AboutOf(call[r]) \in About
    /\ person' = [person EXCEPT ![call[r].to] = Moved(call[r], sign, amount)]

\* A create, or a delete that has found the event, moves the totals of its author about
\* that person by its amount, and no others.
LEMMA TotalsMove ==
  ASSUME LInv, NEW r \in Requests, NEW sign \in Int, NEW amount \in Int,
         MovesTotals(r, sign, amount), NEW u, NEW n
  PROVE  LET about == AboutOf(call[r])
             old == Totals(u, n)
         IN  IF u = call[r].user /\ n = about.name
             THEN Totals(u, n)' =
                     [sent |-> old.sent + Share(about, "SENT", sign * amount),
                      received |-> old.received + Share(about, "RECEIVED", sign * amount),
                      count |-> old.count + sign]
             ELSE Totals(u, n)' = old
  <1> DEFINE c == call[r]
             about == AboutOf(c)
             to == c.to
             R == Rows(u, n)
             kept == IF person[to] # Null THEN person[to]
                     ELSE [user |-> c.user, name |-> about.name,
                           sent |-> 0, received |-> 0, count |-> 0]
             x == Share(about, "SENT", sign * amount)
             y == Share(about, "RECEIVED", sign * amount)
  <1>1. /\ to \in Ids /\ person'[to].user = c.user /\ person'[to].name = about.name
        /\ kept.sent \in Int /\ kept.received \in Int /\ kept.count \in Int
        /\ person'[to] = [user |-> c.user, name |-> about.name, sent |-> kept.sent + x,
                          received |-> kept.received + y, count |-> kept.count + sign]
        /\ person' \in [Ids -> Person \cup {Null}]
        /\ \A i \in Ids : i # to => person'[i] = person[i]
        /\ \A v, m : to \in Rows(v, m) => v = c.user /\ m = about.name
        /\ to \notin Rows(c.user, about.name) => to = c.no /\ person[to] = Null
        /\ \A v, m : Rows(v, m)' =
               Rows(v, m) \cup (IF v = c.user /\ m = about.name THEN {to} ELSE {})
    <2>1. /\ pc[r] # "idle" /\ End(r) /\ call[r].to # Null /\ AboutOf(call[r]) \in About
          /\ person' = [person EXCEPT ![call[r].to] = Moved(call[r], sign, amount)]
      BY DEF MovesTotals
    <2> QED BY <2>1, PersonMoved, Zenon
  <1>2. x \in Int /\ y \in Int
    <2>1. sign * amount \in Int
      OBVIOUS
    <2> QED BY <2>1 DEF Share
  <1>3. /\ IsFiniteSet(R) /\ R \subseteq Ids
        /\ \A p \in R : /\ person[p].sent \in Int /\ person[p].received \in Int
                        /\ person[p].count \in Int
    <2>1. R \subseteq Ids
      BY DEF Rows
    <2> QED BY <2>1, RowsOfPerson
  <1>4. CASE ~(u = c.user /\ n = about.name)
    <2>1. Rows(u, n)' = Rows(u, n) /\ to \notin Rows(u, n)
      BY <1>1, <1>4
    <2>2. \A p \in R : person'[p] = person[p]
      BY <1>1, <1>3, <2>1
    <2> QED BY <1>4, <2>1, <2>2 DEF Totals
  <1>5. CASE u = c.user /\ n = about.name
    <2>1. R' = R \cup {to}
      BY <1>1, <1>5
    <2>2. \A p \in R : p # to => person'[p] = person[p]
      BY <1>1, <1>3
    <2>3. to \in R => kept = person[to]
      BY DEF Rows
    <2>4. to \notin R => kept.sent = 0 /\ kept.received = 0 /\ kept.count = 0
      BY <1>1, <1>5
    <2>5. /\ person'[to].sent = kept.sent + x /\ person'[to].received = kept.received + y
          /\ person'[to].count = kept.count + sign
      BY <1>1
    <2> DEFINE g1 == [p \in R |-> person[p].sent]
               g2 == [p \in R |-> person[p].received]
               g3 == [p \in R |-> person[p].count]
               h1 == [p \in R \cup {to} |-> person'[p].sent]
               h2 == [p \in R \cup {to} |-> person'[p].received]
               h3 == [p \in R \cup {to} |-> person'[p].count]
    <2> HIDE DEF kept, x, y
    <2>6. SumFunction(h1) = SumFunction(g1) + x
      <3>1. /\ DOMAIN g1 = R /\ DOMAIN h1 = R \cup {to} /\ h1[to] = kept.sent + x
            /\ \A p \in R : g1[p] \in Int /\ (p # to => h1[p] = g1[p])
            /\ to \in R => g1[to] = kept.sent
            /\ to \notin R => kept.sent = 0
            /\ IsFiniteSet(R) /\ kept.sent \in Int /\ x \in Int
        BY <1>1, <1>2, <1>3, <2>2, <2>3, <2>4, <2>5
      <3> HIDE DEF g1, h1, R, to, c
      <3> QED BY ONLY <3>1, SumMoves
    <2>7. SumFunction(h2) = SumFunction(g2) + y
      <3>1. /\ DOMAIN g2 = R /\ DOMAIN h2 = R \cup {to} /\ h2[to] = kept.received + y
            /\ \A p \in R : g2[p] \in Int /\ (p # to => h2[p] = g2[p])
            /\ to \in R => g2[to] = kept.received
            /\ to \notin R => kept.received = 0
            /\ IsFiniteSet(R) /\ kept.received \in Int /\ y \in Int
        BY <1>1, <1>2, <1>3, <2>2, <2>3, <2>4, <2>5
      <3> HIDE DEF g2, h2, R, to, c
      <3> QED BY ONLY <3>1, SumMoves
    <2>8. SumFunction(h3) = SumFunction(g3) + sign
      <3>1. /\ DOMAIN g3 = R /\ DOMAIN h3 = R \cup {to} /\ h3[to] = kept.count + sign
            /\ \A p \in R : g3[p] \in Int /\ (p # to => h3[p] = g3[p])
            /\ to \in R => g3[to] = kept.count
            /\ to \notin R => kept.count = 0
            /\ IsFiniteSet(R) /\ kept.count \in Int /\ sign \in Int
        BY <1>1, <1>3, <2>2, <2>3, <2>4, <2>5
      <3> HIDE DEF g3, h3, R, to, c
      <3> QED BY ONLY <3>1, SumMoves
    <2>9. Totals(u, n) = [sent |-> SumFunction(g1), received |-> SumFunction(g2),
                          count |-> SumFunction(g3)]
      BY DEF Totals
    <2>10. Totals(u, n)' = [sent |-> SumFunction(h1), received |-> SumFunction(h2),
                            count |-> SumFunction(h3)]
      BY <2>1 DEF Totals
    <2> HIDE DEF g1, g2, g3, h1, h2, h3
    <2> QED BY <1>5, <2>6, <2>7, <2>8, <2>9, <2>10 DEF x, y
  <1> QED BY <1>4, <1>5

\* Nobody's totals are moved.
LEMMA TotalsStay ==
  ASSUME UNCHANGED person, NEW u, NEW n
  PROVE  Totals(u, n)' = Totals(u, n)
  BY DEF Totals, Rows

-----------------------------------------------------------------------------
(* The totals are those of the events.                                     *)

LEMMA InitTotals == Init => TotalsInv
  <1> SUFFICES ASSUME Init PROVE TotalsInv
    OBVIOUS
  <1>1. events = {} /\ \A r \in Requests : ~InFlight(r)
    BY DEF Init, InFlight
  <1>2. IsFiniteSet(events)
    BY <1>1, FS_EmptySet
  <1>3. ASSUME NEW u, NEW n
        PROVE  Totals(u, n) = Counted(u, n, tx, events)
    <2>1. Rows(u, n) = {} /\ Mine(u, n, tx, events) = {}
      BY <1>1 DEF Init, Rows, Mine
    <2> DEFINE none == [x \in {} |-> 0]
    <2>2. SumFunction(none) = 0
      <3>1. DOMAIN none = {} /\ \A x \in {} : none[x] \in Int
        OBVIOUS
      <3> HIDE DEF none
      <3> QED BY <3>1, FS_EmptySet, SumOfFunction
    <2>3. /\ [p \in Rows(u, n) |-> person[p].sent] = none
          /\ [p \in Rows(u, n) |-> person[p].received] = none
          /\ [p \in Rows(u, n) |-> person[p].count] = none
      BY <2>1
    <2>4. \A d : [e \in {e \in {} : e.about.direction = d} |-> tx[e.t].actual] = none
      OBVIOUS
    <2> HIDE DEF none
    <2>5. Totals(u, n) = [sent |-> 0, received |-> 0, count |-> 0]
      BY <2>2, <2>3 DEF Totals
    <2>6. \A d : Paid(d, {}, tx) = 0
      BY <2>2, <2>4 DEF Paid
    <2>7. Counted(u, n, tx, events) = [sent |-> 0, received |-> 0, count |-> 0]
      BY <2>1, <2>6, CountedIs, FS_EmptySet
    <2> QED BY <2>5, <2>7
  <1> QED BY <1>1, <1>2, <1>3 DEF TotalsInv, PeopleAddUp

\* A step that changes no row.
LEMMA QuietKeepsTotals ==
  ASSUME TotalsInv, UNCHANGED <<stored, off>>,
         \A q \in Requests : InFlight(q)' =>
            \/ call'[q] = call[q] /\ pc'[q] = pc[q]
            \/ ReadOf(q)'
  PROVE  TotalsInv'
  <1>1. /\ tx' = tx /\ events' = events /\ person' = person /\ off' = off
    BY DEF stored
  <1>2. IsFiniteSet(events)'
    BY <1>1 DEF TotalsInv
  <1>3. ASSUME NEW q \in Requests, InFlight(q)', call'[q] = call[q] /\ pc'[q] = pc[q]
        PROVE  ReadOf(q)'
    <2>1. ReadOf(q)
      BY <1>3 DEF TotalsInv, InFlight
    <2> QED BY <1>1, <1>3, <2>1 DEF ReadOf, Counts
  <1>4. PeopleAddUp'
    <2>1. \A u, n : Totals(u, n)' = Totals(u, n)
      BY <1>1, TotalsStay
    <2>2. \A u, n : Counted(u, n, tx, events)' = Counted(u, n, tx, events)
      BY <1>1 DEF Counted
    <2> QED BY <1>1, <2>1, <2>2 DEF TotalsInv, PeopleAddUp
  <1> QED BY <1>2, <1>3, <1>4 DEF TotalsInv

\* Statements after the delete has read the event.
LEMMA LaterReads ==
  ASSUME LInv, TotalsInv, NEW r \in Requests,
         WriteTx(r) \/ FindPerson(r) \/ WriteTotal(r) \/ WriteEvent(r)
  PROVE  ReadOf(r)'
  <1> DEFINE c == call[r]
             new == call'[r]
  <1>1. /\ InFlight(r) /\ c \in Call /\ c.no \in Ids /\ call \in [Requests -> Call \cup {Null}]
        /\ pc[r] \notin {"readTx", "readEvent"} /\ UNCHANGED <<stored, off>>
        /\ pc \in [Requests -> Points]
    <2>1. /\ pc[r] \in {"writeTx", "person", "total", "writeEvent"}
          /\ UNCHANGED <<stored, off>>
      BY DEF WriteTx, FindPerson, WriteTotal, WriteEvent
    <2> QED BY <2>1, CallFields DEF LInv, TypeOK
  <1>2. new.op = c.op /\ new.t = c.t /\ new.seen = c.seen /\ new.event = c.event
    <2>1. CASE UNCHANGED call
      BY <2>1
    <2>2. ASSUME NEW x \in Ids, call' = [call EXCEPT ![r].to = x]
          PROVE  new.op = c.op /\ new.t = c.t /\ new.seen = c.seen /\ new.event = c.event
      <3>1. new = [c EXCEPT !.to = x]
        BY <1>1, <2>2
      <3> QED BY <1>1, <3>1, WithTo DEF Continues
    <2>3. ASSUME NEW x \in SUBSET Ids, call' = [call EXCEPT ![r].gone = x]
          PROVE  new.op = c.op /\ new.t = c.t /\ new.seen = c.seen /\ new.event = c.event
      <3>1. new = [c EXCEPT !.gone = x]
        BY <1>1, <2>3
      <3> QED BY <1>1, <3>1, WithGone DEF Continues
    <2>4. CASE WriteTx(r) \/ WriteTotal(r)
      BY <2>1, <2>4 DEF WriteTx, WriteTotal
    <2>5. CASE FindPerson(r)
      <3>1. \E x \in Ids : call' = [call EXCEPT ![r].to = x]
        BY <1>1, <2>5 DEF FindPerson, Rows
      <3> QED BY <2>2, <3>1
    <2>6. CASE WriteEvent(r)
      <3>1. {e.no : e \in EventsOf(c.t)} \in SUBSET Ids
        BY DEF LInv, TypeOK, Event, EventsOf
      <3>2. call' = [call EXCEPT ![r].gone = {e.no : e \in EventsOf(c.t)}]
        BY <2>6 DEF WriteEvent
      <3> QED BY <2>3, <3>1, <3>2
    <2> QED BY <2>4, <2>5, <2>6
  <1>3. c.op = "delete" => pc'[r] \notin {"readTx", "readEvent"}
    BY <1>1 DEF WriteTx, FindPerson, WriteTotal, WriteEvent, Goto
  <1>4. ReadOf(r)
    BY <1>1 DEF TotalsInv
  <1> HIDE DEF c, new
  <1> QED BY <1>1, <1>2, <1>3, <1>4 DEF ReadOf, Counts, stored, c, new

\* The delete reads its transaction: whose it is, and whether it is an EVENT.
LEMMA ReadsTx ==
  ASSUME LInv, NEW r \in Requests, ReadTx(r)
  PROVE  ReadOf(r)'
  <1> DEFINE c == call[r]
             row == tx[c.t]
             new == call'[r]
  <1>1. /\ c \in Call /\ c.t \in Ids /\ pc[r] = "readTx" /\ Shape(pc[r], c)
        /\ UNCHANGED <<stored, off>>
    BY CallFields DEF ReadTx, LInv
  <1>2. row \in Tx \cup {Null} /\ call \in [Requests -> Call \cup {Null}]
        /\ pc \in [Requests -> Points]
    BY <1>1 DEF LInv, TypeOK
  <1>3. new = [c EXCEPT !.seen = row]
    BY <1>2 DEF ReadTx
  <1>4. new.op = c.op /\ new.t = c.t /\ new.seen = row /\ new.event = c.event
    BY <1>1, <1>2, <1>3, WithSeen DEF Continues
  <1>5. c.op = "delete" =>
            c.event = Null /\ pc'[r] = IF row.area = "EVENT" THEN "readEvent" ELSE "writeTx"
    <2>1. c.op = "delete" => c.event = Null
      BY <1>1 DEF Shape, DeleteShape
    <2>2. pc'[r] = IF c.op = "delete" /\ row.area = "EVENT" THEN "readEvent" ELSE "writeTx"
      BY <1>2 DEF ReadTx, Goto
    <2> QED BY <2>1, <2>2
  <1> HIDE DEF c, new
  <1> QED BY <1>1, <1>4, <1>5 DEF ReadOf, Counts, stored, c, new

\* The delete reads the event, the only one of its transaction.
LEMMA ReadsEvent ==
  ASSUME LInv, TotalsInv, NEW r \in Requests, ReadEvent(r)
  PROVE  ReadOf(r)'
  <1> DEFINE c == call[r]
             new == call'[r]
  <1>1. /\ InFlight(r) /\ c \in Call /\ c.t \in Ids /\ pc[r] = "readEvent" /\ Shape(pc[r], c)
        /\ UNCHANGED <<stored, off>> /\ call \in [Requests -> Call \cup {Null}]
        /\ pc \in [Requests -> Points]
    BY CallFields DEF ReadEvent, LInv, TypeOK
  <1>2. ReadOf(r)
    BY <1>1 DEF TotalsInv
  <1>3. c.op = "delete" => c.event = Null /\ c.seen.area = "EVENT"
    BY <1>1, <1>2 DEF Shape, DeleteShape, ReadOf
  <1>4. CASE EventsOf(c.t) = {} /\ UNCHANGED call /\
             Goto(r, IF c.op = "update" THEN "commit" ELSE "writeTx")
    <2>1. new = c /\ \A e \in events : e.t # c.t
      BY <1>4 DEF EventsOf
    <2>2. c.op = "delete" => pc'[r] = "writeTx"
      BY <1>1, <1>4 DEF Goto
    <2> HIDE DEF c, new
    <2> QED BY <1>1, <1>2, <1>3, <2>1, <2>2 DEF ReadOf, Counts, stored, c, new
  <1>5. ASSUME NEW e \in EventsOf(c.t), EventsOf(c.t) = {e},
               call' = [call EXCEPT ![r].event = e],
               Goto(r, IF c.op = "update" THEN "writeEvent" ELSE "person")
        PROVE  ReadOf(r)'
    <2>1. e \in Event /\ e.t = c.t
      BY DEF EventsOf, LInv, TypeOK
    <2>2. new = [c EXCEPT !.event = e]
      BY <1>1, <1>5
    <2>3. new.op = c.op /\ new.t = c.t /\ new.seen = c.seen /\ new.event = e
      BY <1>1, <2>1, <2>2, WithEvent DEF Continues
    <2>4. c.op = "delete" => pc'[r] = "person"
      BY <1>1, <1>5 DEF Goto
    <2>5. \A f \in events : f.t = c.t => f = e
      BY <1>5 DEF EventsOf
    <2>6. e # Null
      BY <2>1, CeremonyAssumption
    <2> HIDE DEF c, new
    <2> QED BY <1>1, <1>2, <1>3, <2>1, <2>3, <2>4, <2>5, <2>6 DEF ReadOf, Counts, stored, c, new
  <1> QED BY <1>4, <1>5 DEF ReadEvent

LEMMA ExecuteKeepsTotals ==
  ASSUME LInv, TotalsInv, NEW r \in Requests, Execute(r)
  PROVE  TotalsInv'
  <1>1. ReadOf(r)'
    BY LaterReads, ReadsTx, ReadsEvent DEF Execute
  <1>2. UNCHANGED <<stored, off>>
    BY DEF Execute, ReadTx, WriteTx, ReadEvent, FindPerson, WriteTotal, WriteEvent
  <1>3. \A q \in Requests : q # r => call'[q] = call[q] /\ pc'[q] = pc[q]
    BY DEF Execute, ReadTx, WriteTx, ReadEvent, FindPerson, WriteTotal, WriteEvent, Goto,
           LInv, TypeOK
  <1> QED BY <1>1, <1>2, <1>3, QuietKeepsTotals

LEMMA ArriveKeepsTotals ==
  ASSUME LInv, TotalsInv, NEW r \in Requests, Arrive(r)
  PROVE  TotalsInv'
  <1>1. PICK p, op, u, t, body :
            Begin(r, p, op, u, t, body) /\ (op = "delete" => p = "readTx")
    BY DEF Arrive, BeginCreate, BeginUpdate, BeginDelete
  <1>2. /\ UNCHANGED <<stored, off>> /\ call'[r].op = op /\ pc'[r] = p
        /\ \A q \in Requests : q # r => call'[q] = call[q] /\ pc'[q] = pc[q]
    BY <1>1 DEF Begin, Goto, LInv, TypeOK
  <1>3. ReadOf(r)'
    BY <1>1, <1>2 DEF ReadOf
  <1> QED BY <1>2, <1>3, QuietKeepsTotals

LEMMA RollbackKeepsTotals ==
  ASSUME LInv, TotalsInv, NEW r \in Requests, Rollback(r)
  PROVE  TotalsInv'
  <1>1. /\ UNCHANGED <<stored, off>>
        /\ \A q \in Requests : InFlight(q)' => call'[q] = call[q] /\ pc'[q] = pc[q]
    BY EndFrame DEF Rollback, GoesOn, Stays
  <1> QED BY <1>1, QuietKeepsTotals

\* What a delete in flight has read still holds when another request commits: of its
\* transaction, only the same owner's events about the same person count.
LEMMA OthersRead ==
  ASSUME LInv, TotalsInv, NEW q \in Requests, Stays(q), off \subseteq off',
         NEW t, t = call[q].t,
         call[q].op = "delete" /\ pc[q] # "readTx" =>
            /\ tx'[t] # Null => tx[t] # Null /\ tx'[t].user = tx[t].user
            /\ \A e \in events' : e.t = t /\ Counts(e)' =>
                  \/ <<tx'[t].user, e.about.name>> \in off'
                  \/ \E f \in events : f.t = t /\ Counts(f) /\ f.about.name = e.about.name
  PROVE  ReadOf(q)'
  <1>1. ReadOf(q)
    BY DEF TotalsInv, Stays
  <1>2. SUFFICES ASSUME call[q].op = "delete", pc[q] # "readTx"
                 PROVE  ReadOf(q)'
    BY DEF ReadOf, Stays
  <1>3. ASSUME NEW e \in events', e.t = t, Counts(e)', pc[q] # "readEvent"
        PROVE  \/ <<tx'[t].user, e.about.name>> \in off'
               \/ call[q].event # Null /\ e.about.name = call[q].event.about.name
    <2> SUFFICES ASSUME <<tx'[t].user, e.about.name>> \notin off'
                 PROVE  call[q].event # Null /\ e.about.name = call[q].event.about.name
      OBVIOUS
    <2>1. PICK f \in events : f.t = t /\ Counts(f) /\ f.about.name = e.about.name
      BY <1>2, <1>3
    <2>2. tx'[t] # Null
      BY <1>3 DEF Counts
    <2>3. tx'[t].user = tx[t].user
      BY <1>2, <2>2
    <2>4. <<tx[f.t].user, f.about.name>> \notin off
      BY <2>1, <2>3
    <2> QED BY <1>1, <1>2, <1>3, <2>1, <2>4 DEF ReadOf
  <1> QED BY <1>1, <1>2, <1>3 DEF ReadOf, Stays

\* The events that count for somebody.
LEMMA MineTyped ==
  ASSUME LInv, IsFiniteSet(events), NEW u, NEW n
  PROVE  LET M == Mine(u, n, tx, events)
         IN  /\ M \subseteq events /\ IsFiniteSet(M) /\ Cardinality(M) \in Nat
             /\ \A e \in M : e.t \in Ids /\ tx[e.t].actual \in Int
  <1> DEFINE M == Mine(u, n, tx, events)
  <1>1. M \subseteq events
    BY DEF Mine
  <1>2. IsFiniteSet(M) /\ Cardinality(M) \in Nat
    BY <1>1, FS_Subset, FS_CardinalityType
  <1>3. ASSUME NEW e \in M PROVE e.t \in Ids /\ tx[e.t].actual \in Int
    <2>1. e.t \in Ids /\ tx[e.t] # Null
      BY <1>1 DEF Mine, LInv, TypeOK, Event
    <2>2. tx[e.t] \in Tx
      BY <2>1 DEF LInv, TypeOK
    <2> QED BY <2>1, <2>2 DEF Tx
  <1> QED BY <1>1, <1>2, <1>3

LEMMA CreateKeepsTotals ==
  ASSUME LInv, TotalsInv, NEW r \in Requests, CommitCreate(r)
  PROVE  TotalsInv'
  <1> DEFINE c == call[r]
             b == c.body
             n == c.no
             paid == b.amount - b.discount
             row == [user |-> c.user, area |-> b.area, amount |-> b.amount,
                     discount |-> b.discount, actual |-> paid]
             e == [no |-> n, t |-> n, about |-> b.event]
  <1>1. /\ pc[r] = "commit" /\ c.op = "create" /\ End(r) /\ off' = off
    BY DEF CommitCreate, AtCommit
  <1>2. /\ InFlight(r) /\ Reserved(n) /\ n \in Ids
        /\ \A q \in Requests : InFlight(q)' => GoesOn(q, r)
    BY <1>1, EndFrame
  <1>3. /\ b \in Creates /\ c.t = n
        /\ b.area = "EVENT" => c.to # Null
    <2>1. Shape(pc[r], c)
      BY <1>2, CallFields DEF LInv
    <2> QED BY <1>1, <2>1 DEF Shape, CreateShape
  <1>4. /\ b.amount \in Int /\ b.discount \in Int
        /\ b.area = "EVENT" => b.event \in About
    BY <1>3, CeremonyAssumption
  <1>5. /\ tx' = [tx EXCEPT ![n] = row]
        /\ tx'[n] = row /\ tx'[n] # Null /\ \A i : i # n => tx'[i] = tx[i]
    <2>1. c.user \in Users /\ b.area \in Areas
      BY <1>2, <1>3, CallFields, CeremonyAssumption DEF LInv
    <2>2. row \in Tx
      BY <1>4, <2>1 DEF Tx
    <2>3. row # Null
      BY <2>2, CeremonyAssumption
    <2>4. tx' = [tx EXCEPT ![n] = row]
      BY <1>3 DEF CommitCreate
    <2> HIDE DEF row
    <2> QED BY <1>2, <2>3, <2>4 DEF LInv, TypeOK
  <1>6. row.user = c.user /\ row.area = b.area /\ row.actual = paid
    OBVIOUS
  <1>7. \A f \in events : f.t # n /\ f.no # n
    BY <1>2 DEF LInv, Unborn
  <1>8. events' = IF b.area = "EVENT" THEN events \cup {e} ELSE events
    BY <1>3 DEF CommitCreate
  <1>9. e.t = n /\ e.about = b.event
    OBVIOUS
  <1> HIDE DEF row, e
  <1>10. IsFiniteSet(events)'
    BY <1>8, FS_AddElement DEF TotalsInv
  <1>11. ASSUME NEW q \in Requests, InFlight(q)'
         PROVE  ReadOf(q)'
    <2> DEFINE t == call[q].t
    <2>1. Stays(q) /\ InFlight(q)
      BY <1>2, <1>11 DEF GoesOn, Stays
    <2>2. call[q].op = "delete" /\ pc[q] # "readTx" => t # n
      BY <1>2, <2>1, SeenIsBorn
    <2>3. t # n => \A f \in events' : f.t = t => f \in events /\ (Counts(f)' => Counts(f))
      BY <1>5, <1>8, <1>9 DEF Counts
    <2> QED BY <1>1, <1>5, <2>1, <2>2, <2>3, OthersRead
  <1>12. ASSUME NEW u \in Users, NEW m \in Names, <<u, m>> \notin off
         PROVE  Totals(u, m)' = Counted(u, m, tx', events')
    <2> DEFINE M == Mine(u, m, tx, events)
    <2>1. Totals(u, m) = Counted(u, m, tx, events)
      BY <1>12 DEF TotalsInv, PeopleAddUp
    <2>2. /\ M \subseteq events /\ IsFiniteSet(M)
          /\ \A f \in M : tx[f.t].actual \in Int /\ tx'[f.t].actual = tx[f.t].actual
      BY <1>5, <1>7, MineTyped DEF TotalsInv
    <2>3. Mine(u, m, tx', events) = M
      BY <1>5, <1>7 DEF Mine
    <2>4. CASE b.area # "EVENT"
      <3>1. Totals(u, m)' = Totals(u, m)
        BY <2>4, TotalsStay DEF CommitCreate
      <3>2. Counted(u, m, tx', events') = Counted(u, m, tx, events)
        BY <1>8, <2>2, <2>3, <2>4, CountedSame
      <3> QED BY <2>1, <3>1, <3>2
    <2>5. CASE b.area = "EVENT"
      <3> DEFINE one == 1
      <3>1. /\ AboutOf(c) = b.event /\ AboutOf(c) \in About /\ c.to # Null
            /\ paid \in Int /\ one \in Int /\ one * paid = paid
            /\ MovesTotals(r, one, paid)
        BY <1>1, <1>3, <1>4, <2>5 DEF AboutOf, CommitCreate, MovesTotals
      <3> HIDE DEF one
      <3>2. LET old == Totals(u, m)
            IN  IF u = c.user /\ m = b.event.name
                THEN Totals(u, m)' = [sent |-> old.sent + Share(b.event, "SENT", paid),
                                      received |-> old.received + Share(b.event, "RECEIVED", paid),
                                      count |-> old.count + 1]
                ELSE Totals(u, m)' = old
        <4> HIDE DEF paid
        <4>1. LET about == AboutOf(c)
                  old == Totals(u, m)
              IN  IF u = c.user /\ m = about.name
                  THEN Totals(u, m)' =
                          [sent |-> old.sent + Share(about, "SENT", one * paid),
                           received |-> old.received + Share(about, "RECEIVED", one * paid),
                           count |-> old.count + one]
                  ELSE Totals(u, m)' = old
          BY <3>1, TotalsMove
        <4> QED BY <3>1, <4>1 DEF one
      <3>3. CASE u = c.user /\ m = b.event.name
        <4>1. Mine(u, m, tx', events') = M \cup {e} /\ e \notin M
          <5>1. e \notin M
            BY <1>7, <1>9, <2>2
          <5>2. Mine(u, m, tx', events') = Mine(u, m, tx', events) \cup {e}
            BY <1>5, <1>6, <1>8, <1>9, <2>5, <3>3 DEF Mine
          <5> QED BY <2>3, <5>1, <5>2
        <4>2. tx'[e.t].actual = paid
          BY <1>5, <1>6, <1>9
        <4>3. LET old == Counted(u, m, tx, events)
              IN  Counted(u, m, tx', events')
                    = [sent |-> old.sent + Share(e.about, "SENT", tx'[e.t].actual),
                       received |-> old.received + Share(e.about, "RECEIVED", tx'[e.t].actual),
                       count |-> old.count + 1]
          <5> HIDE DEF paid
          <5> QED BY <2>2, <3>1, <4>1, <4>2, CountedMore
        <4> HIDE DEF paid
        <4> QED BY <1>9, <2>1, <3>1, <3>2, <3>3, <4>2, <4>3
      <3>4. CASE ~(u = c.user /\ m = b.event.name)
        <4>1. Mine(u, m, tx', events') = M
          <5>1. Mine(u, m, tx', events') = Mine(u, m, tx', events)
            BY <1>5, <1>6, <1>8, <1>9, <2>5, <3>4 DEF Mine
          <5> QED BY <2>3, <5>1
        <4>2. Counted(u, m, tx', events') = Counted(u, m, tx, events)
          BY <2>2, <4>1, CountedSame
        <4> QED BY <2>1, <3>2, <3>4, <4>2
      <3> QED BY <3>3, <3>4
    <2> QED BY <2>4, <2>5
  <1>13. PeopleAddUp'
    BY <1>1, <1>12 DEF PeopleAddUp
  <1> QED BY <1>10, <1>11, <1>13 DEF TotalsInv

\* The row stays its owner's.
LEMMA RevisedOwner ==
  ASSUME LInv, NEW r \in Requests, AtCommit(r, "update")
  PROVE  Revised(call[r]).user = tx[call[r].t].user
  <1>1. tx[call[r].t] \in Tx
    BY RevisedRow
  <1> DEFINE row == tx[call[r].t]
  <1>2. row = [user |-> row.user, area |-> row.area, amount |-> row.amount,
               discount |-> row.discount, actual |-> row.actual]
    BY <1>1 DEF Tx
  <1>3. ASSUME NEW a, NEW b, NEW d, NEW e
        PROVE  [row EXCEPT !.area = a, !.amount = b, !.discount = d, !.actual = e].user
                 = row.user
    <2> HIDE DEF row
    <2> QED BY <1>2
  <1> QED BY <1>3 DEF Revised

\* An update leaves the events of the other transactions as they are.
LEMMA EventsOfOthers ==
  ASSUME LInv, NEW r \in Requests, CommitUpdate(r), NEW e, e.t # call[r].t
  PROVE  e \in events' <=> e \in events
  <1> DEFINE c == call[r]
             about == c.body.event
             e0 == [no |-> c.no, t |-> c.t, about |-> about]
             G(f) == IF f.no \in c.gone THEN [f EXCEPT !.about = about] ELSE f
  <1>1. InFlight(r)
    BY CallFields DEF LInv, CommitUpdate, AtCommit
  <1>2. \A f \in events : f.no \in c.gone => f.t = c.t
    BY <1>1 DEF LInv, Gone, GoneOf
  <1>3. ASSUME NEW f \in events
        PROVE  G(f).t = f.t /\ (f.t # c.t => G(f) = f)
    <2>1. f \in Event
      BY DEF LInv, TypeOK
    <2>2. G(f).t = f.t
      BY <2>1 DEF Event
    <2> QED BY <1>2, <2>2
  <1>4. events' = IF about = Null THEN events
                  ELSE IF c.event = Null THEN events \cup {e0}
                  ELSE {G(f) : f \in events}
    BY DEF CommitUpdate
  <1>5. e0.t = c.t
    OBVIOUS
  <1> HIDE DEF G, e0
  <1> QED BY <1>3, <1>4, <1>5

LEMMA UpdateKeepsTotals ==
  ASSUME LInv, TotalsInv, NEW r \in Requests, CommitUpdate(r)
  PROVE  TotalsInv'
  <1> DEFINE c == call[r]
             about == c.body.event
             t == c.t
             row == Revised(c)
  <1>1. /\ AtCommit(r, "update") /\ pc[r] # "idle" /\ End(r) /\ UNCHANGED person
        /\ tx' = [tx EXCEPT ![t] = row] /\ off' = off \cup OffByEdit
    BY DEF CommitUpdate, AtCommit
  <1>2. InFlight(r) /\ \A q \in Requests : InFlight(q)' => GoesOn(q, r)
    BY <1>1, EndFrame
  <1>3. t \in Ids /\ tx[t] # Null /\ row # Null /\ row.user = tx[t].user
    <2>1. t \in Ids /\ tx[t] \in Tx /\ row # Null
      BY <1>1, RevisedRow
    <2>2. row.user = tx[t].user
      BY <1>1, RevisedOwner
    <2> QED BY <2>1, <2>2, CeremonyAssumption
  <1>4. tx'[t] = row /\ \A i : i # t => tx'[i] = tx[i]
    BY <1>1, <1>3 DEF LInv, TypeOK
  <1> HIDE DEF row
  <1>5. OneEvent' /\ events' \subseteq Event
    BY EventsOfUpdate
  <1>6. IsFiniteSet(events)'
    <2> DEFINE e0 == [no |-> c.no, t |-> c.t, about |-> about]
               G(f) == IF f.no \in c.gone THEN [f EXCEPT !.about = about] ELSE f
    <2>1. events' = IF about = Null THEN events
                    ELSE IF c.event = Null THEN events \cup {e0}
                    ELSE {G(f) : f \in events}
      BY DEF CommitUpdate
    <2> HIDE DEF G, e0
    <2>2. IsFiniteSet(events)
      BY DEF TotalsInv
    <2>3. IsFiniteSet({G(f) : f \in events})
      <3> DEFINE T == {G(f) : f \in events}
                 g == [f \in events |-> G(f)]
      <3>1. g \in Surjection(events, T)
        BY DEF Surjection
      <3> QED BY <2>2, <3>1, FS_Surjection
    <2> QED BY <2>1, <2>2, <2>3, FS_AddElement
  <1>7. ASSUME NEW u \in Users, NEW m \in Names, <<u, m>> \notin off'
        PROVE  Counted(u, m, tx', events') = Counted(u, m, tx, events)
    BY <1>1, <1>7 DEF OffByEdit
  <1>8. PeopleAddUp'
    <2>1. \A u, m : Totals(u, m)' = Totals(u, m)
      BY <1>1, TotalsStay
    <2> QED BY <1>1, <1>7, <2>1 DEF TotalsInv, PeopleAddUp
  <1>9. ASSUME NEW e \in events', e.t = t, Counts(e)', <<tx'[t].user, e.about.name>> \notin off'
        PROVE  \E f \in events : f.t = t /\ Counts(f) /\ f.about.name = e.about.name
    <2> DEFINE u == tx[t].user
               m == e.about.name
               M == Mine(u, m, tx, events)
               M2 == Mine(u, m, tx', events')
    <2>1. u \in Users /\ m \in Names /\ tx'[t].user = u
      <3>1. tx[t] \in Tx /\ e \in Event
        BY <1>1, <1>5, RevisedRow
      <3> QED BY <1>3, <1>4, <3>1 DEF Tx, Event, About
    <2>2. Counted(u, m, tx', events') = Counted(u, m, tx, events)
      BY <1>7, <1>9, <2>1
    <2>3. Cardinality(M2) = Cardinality(M)
      <3>1. /\ Counted(u, m, tx, events).count = Cardinality(M)
            /\ Counted(u, m, tx', events').count = Cardinality(M2)
        BY DEF Counted, Mine
      <3> HIDE DEF M, M2
      <3> QED BY <2>2, <3>1
    <2>4. e \in M2
      BY <1>4, <1>9, <2>1 DEF Mine, Counts
    <2>5. \A f : f.t # t => (f \in M2 <=> f \in M)
      BY <1>4, EventsOfOthers DEF Mine
    <2>6. \A f \in M2 : f.t = t => f = e
      BY <1>5, <1>9 DEF Mine, OneEvent
    <2>7. IsFiniteSet(M) /\ Cardinality(M) \in Nat
      BY MineTyped DEF TotalsInv
    <2>8. SUFFICES ASSUME \A f \in M : f.t # t PROVE FALSE
      BY DEF Mine, Counts
    <2> HIDE DEF M, M2
    <2>9. M2 = M \cup {e} /\ e \notin M
      BY <1>9, <2>4, <2>5, <2>6, <2>8
    <2>10. Cardinality(M2) = Cardinality(M) + 1
      BY <2>7, <2>9, FS_AddElement
    <2> QED BY <2>3, <2>7, <2>10
  <1>10. ASSUME NEW q \in Requests, InFlight(q)'
         PROVE  ReadOf(q)'
    <2>1. Stays(q)
      BY <1>2, <1>10 DEF GoesOn
    <2>2. CASE call[q].t # t
      <3>1. \A e \in events' : e.t = call[q].t => e \in events /\ (Counts(e)' => Counts(e))
        BY <1>4, <2>2, EventsOfOthers DEF Counts
      <3> QED BY <1>1, <1>4, <2>1, <2>2, <3>1, OthersRead
    <2>3. CASE call[q].t = t
      BY <1>1, <1>3, <1>4, <1>9, <2>1, <2>3, OthersRead
    <2> QED BY <2>2, <2>3
  <1> QED BY <1>6, <1>8, <1>10 DEF TotalsInv

LEMMA DeleteKeepsTotals ==
  ASSUME LInv, TotalsInv, NEW r \in Requests, CommitDelete(r)
  PROVE  TotalsInv'
  <1> DEFINE c == call[r]
             e == c.event
             t == c.t
  <1>1. /\ pc[r] = "commit" /\ c.op = "delete" /\ End(r) /\ tx' = [tx EXCEPT ![t] = Null]
        /\ events' \subseteq events /\ off \subseteq off'
    BY DEF CommitDelete, AtCommit
  <1>2. InFlight(r) /\ \A q \in Requests : InFlight(q)' => GoesOn(q, r)
    BY <1>1, EndFrame
  <1>3. /\ t \in Ids /\ e \in Event \cup {Null} /\ c.seen \in Tx /\ c.user \in Users
        /\ e # Null => c.to # Null
    <2>1. /\ t \in Ids /\ e \in Event \cup {Null} /\ c.seen \in Tx \cup {Null}
          /\ c.user \in Users /\ Shape(pc[r], c)
      BY <1>2, CallFields DEF LInv
    <2> QED BY <1>1, <2>1 DEF Shape, DeleteShape
  <1>4. tx'[t] = Null /\ \A i : i # t => tx'[i] = tx[i]
    BY <1>1, <1>3 DEF LInv, TypeOK
  <1>5. /\ tx[t] # Null => tx[t].user = c.seen.user
        /\ e # Null => c.seen.area = "EVENT" /\ e.t = t
        /\ \A f \in events : f.t = t /\ Counts(f) =>
              \/ <<tx[t].user, f.about.name>> \in off
              \/ e # Null /\ f.about.name = e.about.name
    <2>1. ReadOf(r)
      BY <1>2 DEF TotalsInv
    <2> QED BY <1>1, <2>1 DEF ReadOf
  <1>6. \A f \in events : f.t # t => f \in events'
    <2>1. \A f \in events : f.no \in c.gone => f.t = t
      BY <1>2 DEF LInv, Gone, GoneOf
    <2> QED BY <2>1 DEF CommitDelete
  <1>7. IsFiniteSet(events)'
    BY <1>1, FS_Subset DEF TotalsInv
  <1>8. ASSUME NEW q \in Requests, InFlight(q)'
        PROVE  ReadOf(q)'
    <2>1. Stays(q)
      BY <1>2, <1>8 DEF GoesOn
    <2>2. CASE call[q].t # t
      <3>1. \A f \in events' : f.t = call[q].t => f \in events /\ (Counts(f)' => Counts(f))
        BY <1>1, <1>4, <2>2 DEF Counts
      <3> QED BY <1>1, <1>4, <2>1, <2>2, <3>1, OthersRead
    <2>3. CASE call[q].t = t
      <3>1. \A f \in events' : f.t = call[q].t => ~Counts(f)'
        BY <1>4, <2>3 DEF Counts
      <3> QED BY <1>1, <1>4, <2>1, <2>3, <3>1, OthersRead
    <2> QED BY <2>2, <2>3
  <1>9. ASSUME NEW u \in Users, NEW m \in Names, <<u, m>> \notin off'
        PROVE  Totals(u, m)' = Counted(u, m, tx', events')
    <2> DEFINE M == Mine(u, m, tx, events)
               M2 == Mine(u, m, tx', events')
    <2>1. Totals(u, m) = Counted(u, m, tx, events) /\ <<u, m>> \notin off
      BY <1>1, <1>9 DEF TotalsInv, PeopleAddUp
    <2>2. /\ M \subseteq events /\ IsFiniteSet(M)
          /\ \A f \in M : tx[f.t].actual \in Int
      BY MineTyped DEF TotalsInv
    <2>3. \A f : f \in M2 <=> f \in M /\ f.t # t
      BY <1>1, <1>4, <1>6 DEF Mine
    <2>4. \A f \in M2 : tx'[f.t].actual = tx[f.t].actual
      BY <1>4, <2>3
    <2>5. \A f \in M : f.t = t => e # Null /\ m = e.about.name /\ u = c.seen.user
      BY <1>5, <2>1 DEF Mine, Counts
    <2>6. ASSUME \A f \in M : f.t # t
          PROVE  Counted(u, m, tx', events') = Counted(u, m, tx, events)
      <3>1. M2 = M
        BY <2>3, <2>6
      <3> QED BY <2>4, <3>1, CountedSame
    <2>7. CASE e = Null
      <3>1. Totals(u, m)' = Totals(u, m)
        BY <2>7, TotalsStay DEF CommitDelete
      <3> QED BY <2>1, <2>5, <2>6, <2>7, <3>1
    <2>8. CASE e # Null
      <3> DEFINE paid == c.seen.actual
                 minus == -1
      <3>1. /\ AboutOf(c) = e.about /\ paid \in Int /\ minus \in Int
            /\ MovesTotals(r, minus, paid) /\ minus * paid = -paid
            /\ off' = off \cup OffByDelete(c) /\ e \in Event
        <4>1. AboutOf(c) = e.about /\ e \in Event /\ paid \in Int
          BY <1>1, <1>3, <2>8 DEF AboutOf, Tx
        <4>2. e.about \in About
          BY <4>1 DEF Event
        <4>3. person' = [person EXCEPT ![c.to] = Moved(c, minus, paid)]
              /\ off' = off \cup OffByDelete(c)
          BY <2>8 DEF CommitDelete
        <4> QED BY <1>1, <1>3, <2>8, <4>1, <4>2, <4>3 DEF MovesTotals
      <3> HIDE DEF paid, minus
      <3>2. LET old == Totals(u, m)
            IN  IF u = c.user /\ m = e.about.name
                THEN Totals(u, m)' =
                        [sent |-> old.sent + Share(e.about, "SENT", -paid),
                         received |-> old.received + Share(e.about, "RECEIVED", -paid),
                         count |-> old.count - 1]
                ELSE Totals(u, m)' = old
        <4>1. LET about == AboutOf(c)
                  old == Totals(u, m)
              IN  IF u = c.user /\ m = about.name
                  THEN Totals(u, m)' =
                          [sent |-> old.sent + Share(about, "SENT", minus * paid),
                           received |-> old.received + Share(about, "RECEIVED", minus * paid),
                           count |-> old.count + minus]
                  ELSE Totals(u, m)' = old
          BY <3>1, TotalsMove
        <4>2. LET about == AboutOf(c)
                  old == Totals(u, m)
              IN  IF u = c.user /\ m = about.name
                  THEN Totals(u, m)' =
                          [sent |-> old.sent + Share(about, "SENT", minus * paid),
                           received |-> old.received + Share(about, "RECEIVED", minus * paid),
                           count |-> old.count + (-1)]
                  ELSE Totals(u, m)' = old
          BY <4>1 DEF minus
        <4>3. Totals(u, m).count \in Int
          <5>1. Totals(u, m).count = Cardinality(M)
            BY <2>1 DEF Counted, Mine
          <5> QED BY <2>2, <5>1, FS_CardinalityType
        <4> QED BY <3>1, <4>2, <4>3
      <3>3. CASE m = e.about.name /\ (u = c.user \/ u = c.seen.user)
        <4>1. c.user = c.seen.user /\ tx[t] = c.seen /\ e \in events
          BY <1>9, <3>1, <3>3 DEF OffByDelete
        <4>2. e \in M /\ u = c.user
          <5>1. c.seen # Null
            BY <1>3, CeremonyAssumption
          <5> QED BY <1>5, <2>8, <3>3, <4>1, <5>1 DEF Mine
        <4>3. M = M2 \cup {e} /\ e \notin M2
          <5>1. \A f \in M : f.t = t => f = e
            BY <1>5, <2>2, <2>8, <4>1 DEF LInv, OneEvent
          <5> HIDE DEF M, M2
          <5> QED BY <1>5, <2>3, <2>8, <4>2, <5>1
        <4>4. /\ IsFiniteSet(M2) /\ tx[e.t].actual = paid /\ paid \in Int
              /\ \A f \in M2 : tx'[f.t].actual \in Int /\ tx[f.t].actual = tx'[f.t].actual
          <5>1. IsFiniteSet(M2)
            BY <2>2, <4>3, FS_Subset
          <5>2. tx[e.t].actual = paid
            BY <1>5, <2>8, <4>1 DEF paid
          <5> QED BY <2>2, <2>4, <3>1, <4>3, <5>1, <5>2
        <4>5. LET new == Counted(u, m, tx', events')
              IN  /\ new.sent \in Int /\ new.received \in Int /\ new.count \in Int
                  /\ Counted(u, m, tx, events)
                       = [sent |-> new.sent + Share(e.about, "SENT", paid),
                          received |-> new.received + Share(e.about, "RECEIVED", paid),
                          count |-> new.count + 1]
          BY <4>3, <4>4, CountedMore
        <4>6. Counted(u, m, tx', events')
                = [sent |-> Counted(u, m, tx', events').sent,
                   received |-> Counted(u, m, tx', events').received,
                   count |-> Counted(u, m, tx', events').count]
          BY DEF Counted
        <4>7. Share(e.about, "SENT", -paid) = -Share(e.about, "SENT", paid)
              /\ Share(e.about, "RECEIVED", -paid) = -Share(e.about, "RECEIVED", paid)
              /\ Share(e.about, "SENT", paid) \in Int /\ Share(e.about, "RECEIVED", paid) \in Int
          BY <3>1 DEF Share
        <4>8. Totals(u, m)' = Counted(u, m, tx', events')
          <5> DEFINE new == Counted(u, m, tx', events')
                     old == Totals(u, m)
          <5>1. /\ old.sent = new.sent + Share(e.about, "SENT", paid)
                /\ old.received = new.received + Share(e.about, "RECEIVED", paid)
                /\ old.count = new.count + 1
            BY <2>1, <4>5
          <5>2. Totals(u, m)' =
                  [sent |-> old.sent + Share(e.about, "SENT", -paid),
                   received |-> old.received + Share(e.about, "RECEIVED", -paid),
                   count |-> old.count - 1]
            BY <3>2, <3>3, <4>2
          <5> HIDE DEF new, old
          <5>3. old.sent + Share(e.about, "SENT", -paid) = new.sent
            BY <4>5, <4>7, <5>1 DEF new
          <5>4. old.received + Share(e.about, "RECEIVED", -paid) = new.received
            BY <4>5, <4>7, <5>1 DEF new
          <5>5. old.count - 1 = new.count
            BY <4>5, <5>1 DEF new
          <5>6. new = [sent |-> new.sent, received |-> new.received, count |-> new.count]
            BY <4>6 DEF new
          <5>7. Totals(u, m)' = new
            BY <5>2, <5>3, <5>4, <5>5, <5>6
          <5> QED BY <5>7 DEF new
        <4> QED BY <4>8
      <3>4. CASE ~(m = e.about.name /\ (u = c.user \/ u = c.seen.user))
        <4>1. Totals(u, m)' = Totals(u, m)
          BY <3>2, <3>4
        <4> QED BY <2>1, <2>5, <2>6, <3>4, <4>1
      <3> QED BY <3>3, <3>4
    <2> QED BY <2>7, <2>8
  <1>10. PeopleAddUp'
    BY <1>9 DEF PeopleAddUp
  <1> QED BY <1>7, <1>8, <1>10 DEF TotalsInv

\* A person's totals are those of the events on record, however creates and deletes
\* interleave and even when the person has two rows, until an edit, a delete by another
\* member of the family or one of rows changed since they were read sets them off
\* (create, update, delete, update_totals).
THEOREM TotalsAddUp == Spec => []PeopleAddUp
  <1>1. Init => LInv /\ TotalsInv
    BY InitLInv, InitTotals
  <1>2. LInv /\ TotalsInv /\ [Next]_vars => LInv' /\ TotalsInv'
    <2> SUFFICES ASSUME LInv, TotalsInv, [Next]_vars
                 PROVE  LInv' /\ TotalsInv'
      OBVIOUS
    <2>1. LInv'
      BY NextKeepsLInv, StutterKeepsLInv
    <2>2. CASE Next
      <3>1. PICK r \in Requests : Arrive(r) \/ Execute(r) \/ Commit(r) \/ Refuse(r) \/ Crash(r)
        BY <2>2 DEF Next
      <3> QED BY <2>1, <3>1, ArriveKeepsTotals, ExecuteKeepsTotals, RollbackKeepsTotals,
                 CreateKeepsTotals, UpdateKeepsTotals, DeleteKeepsTotals
              DEF Commit, Refuse, Crash
    <2>3. CASE UNCHANGED vars
      BY <2>1, <2>3, QuietKeepsTotals DEF vars, stored
    <2> QED BY <2>1, <2>2, <2>3
  <1>3. TotalsInv => PeopleAddUp
    BY DEF TotalsInv
  <1> QED BY <1>1, <1>2, <1>3, PTL DEF Spec
==============================================================================

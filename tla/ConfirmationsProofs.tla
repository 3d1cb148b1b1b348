------------------------- MODULE ConfirmationsProofs --------------------------
(***************************************************************************)
(* Theorems about Confirmations, for every value of its constants.         *)
(***************************************************************************)
EXTENDS ConfirmationsInvariant, TLAPS

LEMMA InitCInv == Init => CInv
  <1> SUFFICES ASSUME Init PROVE CInv
    OBVIOUS
  <1> USE ConfirmationsAssumption DEF Init, InFlight
  <1>1. TypeOK
    BY DEF TypeOK, Points, Ids
  <1>2. Shapes /\ Numbers /\ Unborn /\ Kinds /\ Admitted
    BY DEF Shapes, Numbers, Unborn, Kinds, Admitted
  <1>3. MadeSince /\ ConfirmedOnceUnlessRaced /\ RowsNameTheirOwn
    BY DEF MadeSince, Found, ConfirmedOnceUnlessRaced, RowsNameTheirOwn
  <1>4. Unseen /\ SendsVanished /\ ConfirmsVanished /\ OrphansOnlyByLateAnswers
    BY DEF Unseen, SendsVanished, ConfirmsVanished, OrphansOnlyByLateAnswers
  <1> QED BY <1>1, <1>2, <1>3, <1>4 DEF CInv

LEMMA CallFields ==
  ASSUME TypeOK, Shapes, NEW r \in Requests, InFlight(r) \/ pc[r] # "idle"
  PROVE  /\ InFlight(r) /\ call[r] \in Call
         /\ call[r].no \in Ids /\ call[r].user \in Users
         /\ call[r].row \in Ids \cup {Null} /\ call[r].gone \subseteq Ids
         /\ Shape(pc[r], call[r])
  <1>1. InFlight(r) /\ Shape(pc[r], call[r])
    BY DEF Shapes
  <1>2. call[r] \in Call
    BY <1>1 DEF TypeOK, InFlight
  <1> QED BY <1>1, <1>2 DEF Call

-----------------------------------------------------------------------------
(* What a step makes of the requests in flight.                            *)

\* Only the request r moves.
OthersStay(r) ==
    /\ pc' \in [Requests -> Points]
    /\ call' \in [Requests -> Call \cup {Null}]
    /\ \A q \in Requests : q # r => pc'[q] = pc[q] /\ call'[q] = call[q]

\* The request r goes on at p, with what it has read.
MovedTo(r, p, seen, gone) ==
    /\ OthersStay(r) /\ InFlight(r)
    /\ pc'[r] = p /\ call'[r] \in Call /\ call'[r] # Null
    /\ call'[r].op = call[r].op /\ call'[r].no = call[r].no
    /\ call'[r].user = call[r].user /\ call'[r].row = call[r].row
    /\ call'[r].seen = seen /\ call'[r].gone = gone

\* The request r has ended.
Ended(r) == OthersStay(r) /\ InFlight(r) /\ pc'[r] = "idle" /\ call'[r] = Null

LEMMA EndOfCall ==
  ASSUME TypeOK, Shapes, NEW r \in Requests, pc[r] # "idle", End(r)
  PROVE  Ended(r) /\ UNCHANGED known
  <1>1. InFlight(r)
    BY CallFields
  <1> QED BY <1>1 DEF End, Goto, Ended, OthersStay, TypeOK, Points

LEMMA Seeing ==
  ASSUME TypeOK, Shapes, NEW r \in Requests, pc[r] # "idle", NEW p \in Points, Goto(r, p),
         NEW seen \in Scan \cup Message, call' = [call EXCEPT ![r].seen = seen]
  PROVE  MovedTo(r, p, seen, call[r].gone)
  <1> DEFINE c == call[r]
             new == [c EXCEPT !.seen = seen]
  <1>1. InFlight(r) /\ c \in Call
    BY CallFields
  <1>2. call \in [Requests -> Call \cup {Null}] /\ pc \in [Requests -> Points]
    BY DEF TypeOK
  <1>3. call' = [call EXCEPT ![r] = new]
    BY <1>2
  <1>4. c = [op |-> c.op, no |-> c.no, user |-> c.user, row |-> c.row,
             overrides |-> c.overrides, seen |-> c.seen, gone |-> c.gone]
    BY <1>1 DEF Call
  <1> HIDE DEF c
  <1>5. new = [op |-> c.op, no |-> c.no, user |-> c.user, row |-> c.row,
               overrides |-> c.overrides, seen |-> seen, gone |-> c.gone]
    BY <1>4
  <1>6. new \in Call /\ new # Null
    <2>1. new \in Call
      <3> HIDE DEF new
      <3> QED BY <1>1, <1>5 DEF Call
    <2> QED BY <2>1, ConfirmationsAssumption
  <1>7. /\ new.op = c.op /\ new.no = c.no /\ new.user = c.user /\ new.row = c.row
        /\ new.seen = seen /\ new.gone = c.gone
    BY <1>5
  <1> HIDE DEF new
  <1> QED BY <1>1, <1>2, <1>3, <1>6, <1>7 DEF MovedTo, OthersStay, Goto, c

LEMMA Finding ==
  ASSUME TypeOK, Shapes, NEW r \in Requests, pc[r] # "idle", NEW p \in Points, Goto(r, p),
         NEW gone \in SUBSET Ids, call' = [call EXCEPT ![r].gone = gone]
  PROVE  MovedTo(r, p, call[r].seen, gone)
  <1> DEFINE c == call[r]
             new == [c EXCEPT !.gone = gone]
  <1>1. InFlight(r) /\ c \in Call
    BY CallFields
  <1>2. call \in [Requests -> Call \cup {Null}] /\ pc \in [Requests -> Points]
    BY DEF TypeOK
  <1>3. call' = [call EXCEPT ![r] = new]
    BY <1>2
  <1>4. c = [op |-> c.op, no |-> c.no, user |-> c.user, row |-> c.row,
             overrides |-> c.overrides, seen |-> c.seen, gone |-> c.gone]
    BY <1>1 DEF Call
  <1> HIDE DEF c
  <1>5. new = [op |-> c.op, no |-> c.no, user |-> c.user, row |-> c.row,
               overrides |-> c.overrides, seen |-> c.seen, gone |-> gone]
    BY <1>4
  <1>6. new \in Call /\ new # Null
    <2>1. new \in Call
      <3> HIDE DEF new
      <3> QED BY <1>1, <1>5 DEF Call
    <2> QED BY <2>1, ConfirmationsAssumption
  <1>7. /\ new.op = c.op /\ new.no = c.no /\ new.user = c.user /\ new.row = c.row
        /\ new.seen = c.seen /\ new.gone = gone
    BY <1>5
  <1> HIDE DEF new
  <1> QED BY <1>1, <1>2, <1>3, <1>6, <1>7 DEF MovedTo, OthersStay, Goto, c

\* Numbers are handed out and given back, never handed out again.
LEMMA ReservedShrinks ==
  ASSUME NEW r \in Requests, UNCHANGED known, OthersStay(r), InFlight(r),
         InFlight(r)' => call'[r].no = call[r].no
  PROVE  \A i : Reserved(i)' => Reserved(i)
  BY DEF Reserved, OthersStay, InFlight, known

LEMMA EndedUnreserves ==
  ASSUME CInv, NEW r \in Requests, UNCHANGED known, Ended(r)
  PROVE  \A i : Reserved(i)' => Reserved(i) /\ i # call[r].no
  <1>1. \A i : Reserved(i)' => Reserved(i)
    BY ReservedShrinks DEF Ended, InFlight
  <1>2. call[r].no <= begun /\ call[r].no \in Ids /\ begun \in Nat
    BY CallFields, ConfirmationsAssumption DEF Ended, CInv, Numbers, TypeOK
  <1>3. ASSUME NEW i, Reserved(i)' PROVE i # call[r].no
    <2>1. ~(call[r].no > begun')
      BY <1>2, ConfirmationsAssumption DEF known, Ids
    <2>2. \A q \in Requests : InFlight(q)' => call'[q].no # call[r].no
      BY DEF Ended, OthersStay, InFlight, CInv, Numbers
    <2> QED BY <1>3, <2>1, <2>2 DEF Reserved
  <1> QED BY <1>1, <1>3

-----------------------------------------------------------------------------
(* Steps that leave the rows alone.                                        *)

\* What is said of the rows alone.
RowsInv == Unborn /\ ConfirmedOnceUnlessRaced /\ RowsNameTheirOwn /\ OrphansOnlyByLateAnswers

LEMMA RowsInvKept ==
  ASSUME RowsInv, UNCHANGED stored, overlapped \subseteq overlapped',
         \A i \in Ids : Reserved(i)' => Reserved(i)
  PROVE  RowsInv'
  <1>1. Unborn' /\ ConfirmedOnceUnlessRaced'
    BY DEF RowsInv, stored, Unborn, ConfirmedOnceUnlessRaced, Overlapped
  <1>2. RowsNameTheirOwn'
    BY DEF RowsInv, stored, RowsNameTheirOwn
  <1>3. OrphansOnlyByLateAnswers'
    BY DEF RowsInv, stored, OrphansOnlyByLateAnswers, Overlapped
  <1> QED BY <1>1, <1>2, <1>3 DEF RowsInv

\* Where a request starts.
Opens(p, op, row) ==
    \/ p = "model" /\ op = "scan"
    \/ p = "readSession" /\ op \in {"send", "drop"} /\ row \in Ids
    \/ p = "readScan" /\ op = "confirmScan" /\ row \in Ids /\ scans[row] # Null
    \/ p = "readMessage" /\ op = "confirmMessage" /\ row \in Ids /\ messages[row] # Null

LEMMA BeginKeepsCInv ==
  ASSUME CInv, NEW r \in Requests, NEW p, NEW op, NEW u \in Users, NEW row \in Ids \cup {Null},
         NEW overrides \in BOOLEAN, Opens(p, op, row), Begin(r, p, op, u, row, overrides)
  PROVE  CInv'
  <1> DEFINE new == [op |-> op, no |-> begun + 1, user |-> u, row |-> row,
                     overrides |-> overrides, seen |-> Null, gone |-> {}]
  <1>1. /\ pc \in [Requests -> Points] /\ call \in [Requests -> Call \cup {Null}]
        /\ begun \in 0 .. MaxRequests /\ MaxRequests \in Nat
    BY ConfirmationsAssumption DEF CInv, TypeOK
  <1>2. begun + 1 \in Ids /\ begun' = begun + 1 /\ ~InFlight(r)
    BY <1>1 DEF Begin, Ids, CInv, Shapes, Shape
  <1>3. new \in Call /\ new # Null
    <2>1. op \in {"scan", "send", "drop", "confirmScan", "confirmMessage"}
      BY DEF Opens
    <2>2. new \in Call
      BY <1>2, <2>1 DEF Call
    <2> QED BY <2>2, ConfirmationsAssumption
  <1>4. /\ OthersStay(r) /\ pc'[r] = p /\ call'[r] = new
    BY <1>1, <1>3 DEF Begin, Goto, OthersStay, Opens, Points
  <1>5. UNCHANGED stored /\ overlapped \subseteq overlapped'
    BY DEF Begin
  <1>6. /\ call'[r].op = op /\ call'[r].no = begun + 1 /\ call'[r].row = row
        /\ call'[r] # Null /\ call'[r].gone = {}
    BY <1>3, <1>4
  <1>7. \A q \in Requests : InFlight(q) => {call[q].no, begun + 1} \in overlapped'
    BY DEF Begin, CInv, Shapes, Shape
  <1> HIDE DEF new
  <1>8. \A i \in Ids : Reserved(i)' => Reserved(i)
    BY <1>1, <1>2, <1>4, <1>6 DEF Reserved, OthersStay, InFlight, Ids
  <1>9. TypeOK'
    <2>1. overlapped' \subseteq SUBSET Ids
      <3>1. \A q \in Requests : pc[q] # "idle" => call[q].no \in Ids
        BY CallFields DEF CInv
      <3> QED BY <1>2, <3>1 DEF Begin, CInv, TypeOK
    <2>2. begun' \in 0 .. MaxRequests
      BY <1>1, <1>2 DEF Begin
    <2> QED BY <1>4, <1>5, <2>1, <2>2 DEF CInv, TypeOK, OthersStay, stored
  <1>10. Shapes'
    BY <1>4, <1>6 DEF CInv, Shapes, Shape, OthersStay, InFlight, Opens
  <1>11. Numbers'
    <2>1. \A q \in Requests : InFlight(q) => call[q].no <= begun /\ call[q].no \in Ids
      BY CallFields DEF CInv, Numbers
    <2>2. \A q \in Requests : InFlight(q)' => call'[q].no <= begun'
      BY <1>1, <1>2, <1>4, <1>6, <2>1 DEF OthersStay, InFlight, Ids
    <2>3. ASSUME NEW q \in Requests, q # r, InFlight(q)'
          PROVE  /\ call'[q].no # call'[r].no /\ {call'[q].no, call'[r].no} \in overlapped'
                 /\ {call'[r].no, call'[q].no} \in overlapped'
      <3>1. InFlight(q) /\ call'[q].no = call[q].no /\ call'[r].no = begun + 1
        BY <1>4, <1>6, <2>3 DEF OthersStay, InFlight
      <3>2. call[q].no # begun + 1
        BY <1>1, <2>1, <3>1 DEF Ids
      <3>3. {call[q].no, begun + 1} = {begun + 1, call[q].no}
        OBVIOUS
      <3> QED BY <1>7, <3>1, <3>2, <3>3
    <2>4. \A q, s \in Requests : q # s /\ q # r /\ s # r /\ InFlight(q)' /\ InFlight(s)' =>
              call'[q].no # call'[s].no /\ {call'[q].no, call'[s].no} \in overlapped'
      BY <1>4, <1>5 DEF CInv, Numbers, OthersStay, InFlight
    <2>5. \A q, s \in Requests : q # s /\ InFlight(q)' /\ InFlight(s)' =>
              call'[q].no # call'[s].no /\ {call'[q].no, call'[s].no} \in overlapped'
      BY <2>3, <2>4 DEF InFlight
    <2> QED BY <2>2, <2>5 DEF Numbers
  <1>12. Kinds'
    <2>1. op = "confirmMessage" => ~Reserved(row) /\ scans[row] = Null
      BY DEF Opens, CInv, Unborn, Kinds
    <2>2. ASSUME NEW q \in Requests, InFlight(q)'
          PROVE  /\ call'[q].op = "confirmScan" => scans[call'[q].row] # Null
                 /\ call'[q].op = "confirmMessage" =>
                       ~Reserved(call'[q].row) /\ scans[call'[q].row] = Null
      BY <1>4, <1>6, <2>1, <2>2 DEF OthersStay, InFlight, CInv, Kinds, Opens
    <2>3. ASSUME NEW q \in Requests, InFlight(q)', NEW i, i = call'[q].row,
                 call'[q].op = "confirmMessage"
          PROVE  ~Reserved(i)'
      <3>1. i \in Ids
        BY <1>4, <1>10, <2>3, CallFields DEF Shapes, Shape, OthersStay, InFlight, Points
      <3> QED BY <1>8, <2>2, <2>3, <3>1
    <2> QED BY <1>5, <2>2, <2>3 DEF CInv, Kinds, stored, Reserved, InFlight
  <1>13. p \notin {"commit", "snapshot", "idle"} /\ (op = "confirmMessage" => p = "readMessage")
         /\ (op = "send" => p = "readSession")
    BY DEF Opens
  <1>14. Admitted'
    BY <1>4, <1>5, <1>6, <1>13 DEF CInv, Admitted, OthersStay, InFlight, stored
  <1>15. MadeSince'
    BY <1>4, <1>5, <1>6, <1>13 DEF CInv, MadeSince, Found, OthersStay, InFlight, stored, Overlapped
  <1>16. Unseen'
    BY <1>4, <1>5, <1>6, <1>13 DEF CInv, Unseen, OthersStay, InFlight, stored, Overlapped
  <1>17. SendsVanished'
    BY <1>4, <1>5, <1>6, <1>13 DEF CInv, SendsVanished, OthersStay, InFlight, stored, Overlapped
  <1>18. ConfirmsVanished'
    <2> SUFFICES ASSUME NEW q \in Requests, InFlight(q)', pc'[q] = "commit",
                        call'[q].op = "confirmMessage", messages[call'[q].row] # Null,
                        sessions[call'[q].seen.session] = Null
                 PROVE  \E d \in droppers[call'[q].seen.session] :
                            {call'[q].row, d} \in overlapped' /\ {call'[q].no, d} \in overlapped'
      BY <1>5 DEF ConfirmsVanished, Overlapped, stored
    <2>1. q # r
      BY <1>4, <1>13
    <2> QED BY <1>4, <1>5, <2>1 DEF CInv, ConfirmsVanished, Overlapped, OthersStay, InFlight
  <1>19. RowsInv'
    BY <1>5, <1>8, RowsInvKept DEF CInv, RowsInv
  <1> QED BY <1>9, <1>10, <1>11, <1>12, <1>14, <1>15, <1>16, <1>17, <1>18, <1>19 DEF CInv, RowsInv

\* A statement that only reads keeps the invariant when what it has found is as it should be.
LEMMA MoveKeepsCInv ==
  ASSUME CInv, NEW r \in Requests, NEW p \in Points, NEW seen, NEW gone,
         MovedTo(r, p, seen, gone), UNCHANGED <<stored, known>>, Shape(p, call'[r]),
         p = "commit" /\ call[r].op = "confirmScan" =>
            seen.tx = Null /\ scans[call[r].row].status = "COMPLETED",
         call[r].op = "confirmMessage" =>
            /\ messages[call[r].row] # Null => messages[call[r].row].session = seen.session
            /\ p = "commit" => /\ seen.tx = Null /\ seen.data # "none"
                               /\ sessions[seen.session] # Null,
         Found(r)' => \A t \in Ids : origin[t] = call[r].row => Overlapped(t, call[r].no),
         p = "commit" /\ call[r].op = "drop" =>
            \A i \in Ids \ gone : messages[i] # Null => messages[i].session # call[r].row,
         p = "model" /\ call[r].op = "send" => sessions[call[r].row] # Null
  PROVE  CInv'
  <1> USE DEF MovedTo
  <1>1. TypeOK'
    BY DEF CInv, TypeOK, OthersStay, stored, known
  <1>2. Shapes'
    BY DEF CInv, Shapes, Shape, OthersStay, InFlight
  <1>3. Numbers'
    <2>1. \A q \in Requests : InFlight(q)' => InFlight(q) /\ call'[q].no = call[q].no
      BY DEF OthersStay, InFlight
    <2>2. \A q \in Requests : InFlight(q)' => call'[q].no <= begun'
      BY <2>1 DEF CInv, Numbers, known
    <2>3. ASSUME NEW q \in Requests, NEW s \in Requests, q # s, InFlight(q)', InFlight(s)'
          PROVE  call'[q].no # call'[s].no /\ {call'[q].no, call'[s].no} \in overlapped'
      <3>1. InFlight(q) /\ InFlight(s) /\ call'[q].no = call[q].no /\ call'[s].no = call[s].no
        BY <2>1, <2>3
      <3>2. call[q].no # call[s].no /\ {call[q].no, call[s].no} \in overlapped
        BY <2>3, <3>1 DEF CInv, Numbers
      <3> QED BY <3>1, <3>2 DEF known
    <2> QED BY <2>2, <2>3 DEF Numbers
  <1>4. \A i : Reserved(i)' => Reserved(i)
    BY ReservedShrinks
  <1>5. RowsInv'
    BY <1>4, RowsInvKept DEF CInv, RowsInv, known
  <1>6. Kinds'
    <2>1. \A q \in Requests : InFlight(q)' =>
              InFlight(q) /\ call'[q].op = call[q].op /\ call'[q].row = call[q].row
      BY DEF OthersStay, InFlight
    <2>2. ASSUME NEW q \in Requests, InFlight(q)', call'[q].op = "confirmMessage",
                 NEW i, i = call'[q].row
          PROVE  ~Reserved(i)'
      BY <1>4, <2>1, <2>2 DEF CInv, Kinds
    <2> QED BY <2>1, <2>2 DEF CInv, Kinds, stored, Reserved, InFlight
  <1>7. Admitted'
    BY DEF CInv, Admitted, OthersStay, InFlight, stored
  <1>8. MadeSince'
    <2> SUFFICES ASSUME NEW q \in Requests, Found(q)', NEW t \in Ids,
                        origin'[t] = call'[q].row
                 PROVE  {t, call'[q].no} \in overlapped'
      BY DEF MadeSince, Overlapped
    <2>1. CASE q = r
      BY <2>1 DEF Overlapped, stored, known
    <2>2. CASE q # r
      BY <2>2 DEF CInv, MadeSince, Found, OthersStay, InFlight, stored, known, Overlapped
    <2> QED BY <2>1, <2>2
  <1>9. Unseen'
    <2> SUFFICES ASSUME NEW q \in Requests, InFlight(q)', pc'[q] = "commit",
                        call'[q].op = "drop", NEW i \in Ids \ call'[q].gone,
                        messages[i] # Null, messages[i].session = call'[q].row
                 PROVE  /\ {i, call'[q].no} \in overlapped
                        /\ messages[i].tx # Null => {messages[i].tx, call'[q].no} \in overlapped
      BY DEF Unseen, Overlapped, stored, known
    <2>1. q # r
      OBVIOUS
    <2> QED BY <2>1 DEF CInv, Unseen, Overlapped, OthersStay, InFlight
  <1>10. SendsVanished'
    <2> SUFFICES ASSUME NEW q \in Requests, InFlight(q)', pc'[q] = "model",
                        call'[q].op = "send", sessions[call'[q].row] = Null
                 PROVE  \E d \in droppers[call'[q].row] : {call'[q].no, d} \in overlapped
      BY DEF SendsVanished, Overlapped, stored, known
    <2>1. q # r
      OBVIOUS
    <2> QED BY <2>1 DEF CInv, SendsVanished, Overlapped, OthersStay, InFlight
  <1>11. ConfirmsVanished'
    <2> SUFFICES ASSUME NEW q \in Requests, InFlight(q)', pc'[q] = "commit",
                        call'[q].op = "confirmMessage", messages[call'[q].row] # Null,
                        sessions[call'[q].seen.session] = Null
                 PROVE  \E d \in droppers[call'[q].seen.session] :
                            {call'[q].row, d} \in overlapped /\ {call'[q].no, d} \in overlapped
      BY DEF ConfirmsVanished, Overlapped, stored, known
    <2>1. q # r
      OBVIOUS
    <2>2. InFlight(q) /\ pc'[q] = pc[q] /\ call'[q] = call[q]
      BY <2>1 DEF OthersStay, InFlight
    <2>3. \E d \in droppers[call[q].seen.session] :
              {call[q].row, d} \in overlapped /\ {call[q].no, d} \in overlapped
      BY <2>2 DEF CInv, ConfirmsVanished, Overlapped
    <2> QED BY <2>2, <2>3
  <1> QED BY <1>1, <1>2, <1>3, <1>5, <1>6, <1>7, <1>8, <1>9, <1>10, <1>11 DEF CInv, RowsInv

\* Nothing has been made from a row that names no transaction.
LEMMA UnnamedRow ==
  ASSUME CInv, NEW i \in Ids, NEW row \in {scans[i], messages[i]}, row # Null, row.tx = Null
  PROVE  \A t \in Ids : origin[t] # i
  BY DEF CInv, RowsNameTheirOwn

LEMMA ReadScanKeepsCInv ==
  ASSUME CInv, NEW r \in Requests, ReadScan(r)
  PROVE  CInv'
  <1> DEFINE c == call[r]
             row == scans[c.row]
  <1>1. InFlight(r) /\ c.op = "confirmScan" /\ c.row \in Ids
    BY CallFields DEF ReadScan, CInv, Shape
  <1>2. row \in Scan /\ row # Null /\ row.tx = Null /\ row.status = "COMPLETED"
    BY <1>1 DEF ReadScan, ScanAdmits, Unconfirmed, CInv, TypeOK
  <1>3. MovedTo(r, "commit", row, c.gone)
    BY <1>2, Seeing DEF ReadScan, CInv, Points
  <1>4. \A t \in Ids : origin[t] # c.row
    BY <1>1, <1>2, UnnamedRow
  <1>5. Shape("commit", call'[r])
    BY <1>1, <1>2, <1>3 DEF Shape, MovedTo
  <1>6. UNCHANGED <<stored, known>> /\ "commit" \in Points
    BY DEF ReadScan, Points
  <1> HIDE DEF row
  <1> QED
    BY <1>1, <1>2, <1>3, <1>4, <1>5, <1>6, MoveKeepsCInv DEF row

LEMMA ReadMessageKeepsCInv ==
  ASSUME CInv, NEW r \in Requests, ReadMessage(r)
  PROVE  CInv'
  <1> DEFINE c == call[r]
             row == messages[c.row]
  <1>1. InFlight(r) /\ c.op = "confirmMessage" /\ c.row \in Ids
    BY CallFields DEF ReadMessage, CInv, Shape
  <1>2. row \in Message /\ row # Null
    BY <1>1 DEF ReadMessage, CInv, TypeOK
  <1>3. MovedTo(r, "readSession", row, c.gone)
    BY <1>2, Seeing DEF ReadMessage, CInv, Points
  <1>4. row.tx = Null => \A t \in Ids : origin[t] # c.row
    BY <1>1, <1>2, UnnamedRow
  <1>5. Shape("readSession", call'[r])
    BY <1>1, <1>2, <1>3 DEF Shape, MovedTo
  <1>6. UNCHANGED <<stored, known>> /\ "readSession" \in Points
    BY DEF ReadMessage, Points
  <1>7. Found(r)' => \A t \in Ids : origin[t] # c.row
    BY <1>3, <1>4 DEF Found, MovedTo
  <1> HIDE DEF row
  <1> QED
    BY <1>1, <1>2, <1>3, <1>5, <1>6, <1>7, MoveKeepsCInv DEF row

LEMMA ReadSessionKeepsCInv ==
  ASSUME CInv, NEW r \in Requests, ReadSession(r)
  PROVE  CInv'
  <1> DEFINE c == call[r]
  <1>1. /\ InFlight(r) /\ c \in Call /\ c.user \in Users /\ c.row \in Ids
        /\ c.op \in {"send", "drop", "confirmMessage"}
        /\ c.op = "confirmMessage" => c.seen \in Message
    BY CallFields DEF ReadSession, CInv, Shape
  <1>2. PICK p \in {"model", "snapshot", "commit"} :
            /\ Goto(r, p)
            /\ p = "model" <=> c.op = "send"
            /\ p = "snapshot" <=> c.op = "drop"
            /\ p = "commit" <=> c.op = "confirmMessage"
    BY <1>1 DEF ReadSession
  <1>3. MovedTo(r, p, c.seen, c.gone)
    BY <1>1, <1>2, ConfirmationsAssumption
       DEF ReadSession, MovedTo, OthersStay, Goto, CInv, TypeOK, Points
  <1>4. Shape(p, call'[r])
    BY <1>1, <1>2 DEF Shape, ReadSession
  <1>5. sessions[SessionOf(c)] # Null
    BY <1>1, ConfirmationsAssumption DEF ReadSession, SessionAdmits
  <1>6. c.op = "confirmMessage" => c.seen.tx = Null /\ c.seen.data # "none"
    BY DEF ReadSession, SessionAdmits, Unconfirmed
  <1>7. c.op = "confirmMessage" =>
            (messages[c.row] # Null => messages[c.row].session = c.seen.session)
    BY <1>1 DEF ReadSession, CInv, Admitted
  <1>8. Found(r)' => \A t \in Ids : origin[t] = c.row => Overlapped(t, c.no)
    <2>1. Found(r)' => Found(r)
      BY <1>1, <1>2, <1>3 DEF ReadSession, Found
    <2> QED BY <2>1 DEF CInv, MadeSince
  <1>9. UNCHANGED <<stored, known>> /\ p \in Points
    BY DEF ReadSession, Points
  <1> QED
    BY <1>1, <1>2, <1>3, <1>4, <1>5, <1>6, <1>7, <1>8, <1>9, MoveKeepsCInv DEF SessionOf

LEMMA SnapshotKeepsCInv ==
  ASSUME CInv, NEW r \in Requests, Snapshot(r)
  PROVE  CInv'
  <1> DEFINE c == call[r]
             gone == {i \in Ids : messages[i] # Null /\ messages[i].session = c.row}
  <1>1. InFlight(r) /\ c.op = "drop" /\ c.row \in Ids
    BY CallFields DEF Snapshot, CInv, Shape
  <1>2. MovedTo(r, "commit", c.seen, gone)
    <2>1. gone \in SUBSET Ids /\ call' = [call EXCEPT ![r].gone = gone]
      BY DEF Snapshot
    <2> HIDE DEF gone
    <2> QED BY <2>1, Finding DEF Snapshot, CInv, Points
  <1>3. Shape("commit", call'[r])
    BY <1>1, <1>2 DEF Shape, MovedTo
  <1>4. \A i \in Ids \ gone : messages[i] # Null => messages[i].session # c.row
    OBVIOUS
  <1>5. UNCHANGED <<stored, known>> /\ "commit" \in Points
    BY DEF Snapshot, Points
  <1>6. ~Found(r)'
    BY <1>1, <1>2 DEF Found, MovedTo
  <1> HIDE DEF gone
  <1> QED
    BY <1>1, <1>2, <1>3, <1>4, <1>5, <1>6, MoveKeepsCInv

-----------------------------------------------------------------------------
(* Steps that end a request.                                               *)

\* q goes on while r ends.
GoesOn(q, r) ==
    /\ q # r /\ InFlight(q) /\ pc'[q] = pc[q] /\ call'[q] = call[q] /\ call[q] # Null
    /\ call[q].no # call[r].no
    /\ Overlapped(call[q].no, call[r].no) /\ Overlapped(call[r].no, call[q].no)

LEMMA EndFrame ==
  ASSUME CInv, NEW r \in Requests, pc[r] # "idle", End(r)
  PROVE  /\ Ended(r) /\ InFlight(r) /\ UNCHANGED known
         /\ Shapes' /\ Numbers'
         /\ \A q \in Requests : InFlight(q)' => GoesOn(q, r)
         /\ \A i \in Ids : Reserved(i)' => Reserved(i) /\ i # call[r].no
         /\ Reserved(call[r].no) /\ call[r].no \in Ids
  <1>1. Ended(r) /\ UNCHANGED known
    BY EndOfCall DEF CInv
  <1>2. Shapes'
    BY <1>1 DEF CInv, Shapes, Shape, Ended, OthersStay, InFlight
  <1>3. \A q \in Requests : InFlight(q)' => GoesOn(q, r)
    BY <1>1 DEF GoesOn, Ended, OthersStay, InFlight, CInv, Numbers, Overlapped
  <1>4. Numbers'
    BY <1>1, <1>3 DEF CInv, Numbers, GoesOn, known
  <1>5. \A i \in Ids : Reserved(i)' => Reserved(i) /\ i # call[r].no
    BY <1>1, EndedUnreserves
  <1>6. Reserved(call[r].no) /\ call[r].no \in Ids
    BY <1>1, CallFields DEF Reserved, CInv, Ended
  <1> QED BY <1>1, <1>2, <1>3, <1>4, <1>5, <1>6 DEF Ended

\* What is said of the requests that go on, when the rows have kept what they rely on.
LEMMA EndKeepsAdmitted ==
  ASSUME CInv, NEW r \in Requests, pc[r] # "idle", End(r),
         \A i \in Ids : scans[i] # Null =>
            scans'[i] # Null /\ scans'[i].status = scans[i].status,
         \A i \in Ids : scans'[i] # Null => scans[i] # Null \/ i = call[r].no,
         \A i \in Ids : messages'[i] # Null =>
            \/ messages[i] # Null /\ messages'[i].session = messages[i].session
            \/ i = call[r].no,
         \A i \in Ids : messages'[i] # Null => scans'[i] = Null
  PROVE  Kinds' /\ Admitted'
  <1>1. /\ \A q \in Requests : InFlight(q)' => GoesOn(q, r)
        /\ \A i \in Ids : Reserved(i)' => Reserved(i) /\ i # call[r].no
        /\ Reserved(call[r].no)
    BY EndFrame
  <1>2. \A q \in Requests : InFlight(q) /\ call[q].op \in {"confirmScan", "confirmMessage"} =>
            call[q].row \in Ids
    BY CallFields DEF CInv, Shape
  <1>3. \A q \in Requests : InFlight(q)' /\ call[q].op = "confirmMessage" =>
            ~Reserved(call[q].row)
    BY <1>1 DEF CInv, Kinds, GoesOn
  <1>4. Kinds'
    <2>1. ASSUME NEW q \in Requests, InFlight(q)', call'[q].op = "confirmMessage",
                 NEW i, i = call'[q].row
          PROVE  ~Reserved(i)' /\ scans'[i] = Null
      <3>1. call'[q] = call[q] /\ i \in Ids
        BY <1>1, <1>2, <2>1 DEF GoesOn
      <3>2. ~Reserved(i) /\ scans[i] = Null
        BY <1>1, <2>1, <3>1 DEF CInv, Kinds, GoesOn
      <3> QED BY <1>1, <3>1, <3>2
    <2>2. ASSUME NEW q \in Requests, InFlight(q)', call'[q].op = "confirmScan"
          PROVE  scans'[call'[q].row] # Null
      BY <1>1, <1>2, <2>2 DEF CInv, Kinds, GoesOn
    <2> QED BY <2>1, <2>2 DEF Kinds, Reserved, InFlight
  <1>5. Admitted'
    <2> SUFFICES ASSUME NEW q \in Requests, InFlight(q)'
                 PROVE
        /\ pc'[q] = "commit" /\ call'[q].op = "confirmScan" =>
              call'[q].seen.tx = Null /\ scans'[call'[q].row].status = "COMPLETED"
        /\ pc'[q] = "commit" /\ call'[q].op = "confirmMessage" =>
              call'[q].seen.tx = Null /\ call'[q].seen.data # "none"
        /\ call'[q].op = "confirmMessage" /\ pc'[q] \in {"readSession", "commit"}
               /\ messages'[call'[q].row] # Null =>
              messages'[call'[q].row].session = call'[q].seen.session
      BY DEF Admitted
    <2>1. GoesOn(q, r)
      BY <1>1
    <2>2. call[q].op = "confirmMessage" => call[q].row # call[r].no
      BY <1>1, <1>3
    <2> QED BY <1>2, <2>1, <2>2 DEF GoesOn, CInv, Admitted, Kinds
  <1> QED BY <1>4, <1>5

\* No transaction is made: MadeSince and the claims about origins stay.
LEMMA EndKeepsOrigins ==
  ASSUME CInv, NEW r \in Requests, pc[r] # "idle", End(r), UNCHANGED origin
  PROVE  MadeSince' /\ ConfirmedOnceUnlessRaced'
  <1>1. UNCHANGED known /\ \A q \in Requests : InFlight(q)' => GoesOn(q, r)
    BY EndFrame
  <1>2. MadeSince'
    BY <1>1 DEF CInv, MadeSince, Found, GoesOn, Overlapped, known
  <1>3. ConfirmedOnceUnlessRaced'
    BY <1>1 DEF CInv, ConfirmedOnceUnlessRaced, Overlapped, known
  <1> QED BY <1>2, <1>3

\* No session is deleted, and no message appears that a confirmation is about.
LEMMA EndKeepsVanished ==
  ASSUME CInv, NEW r \in Requests, pc[r] # "idle", End(r), UNCHANGED <<sessions, droppers>>,
         \A i \in Ids : messages'[i] # Null => messages[i] # Null \/ Reserved(i)
  PROVE  SendsVanished' /\ ConfirmsVanished'
  <1>1. UNCHANGED known /\ \A q \in Requests : InFlight(q)' => GoesOn(q, r)
    BY EndFrame
  <1>2. SendsVanished'
    BY <1>1 DEF CInv, SendsVanished, GoesOn, known, Overlapped
  <1>3. ConfirmsVanished'
    <2> SUFFICES ASSUME NEW q \in Requests, InFlight(q)', pc'[q] = "commit",
                        call'[q].op = "confirmMessage", messages'[call'[q].row] # Null,
                        sessions[call'[q].seen.session] = Null
                 PROVE  \E d \in droppers[call'[q].seen.session] :
                            {call'[q].row, d} \in overlapped /\ {call'[q].no, d} \in overlapped
      BY <1>1 DEF ConfirmsVanished, Overlapped, known
    <2>1. GoesOn(q, r) /\ call[q].row \in Ids /\ ~Reserved(call[q].row)
      BY <1>1, CallFields DEF GoesOn, CInv, Kinds, Shape
    <2> QED BY <2>1 DEF CInv, ConfirmsVanished, Overlapped, GoesOn
  <1> QED BY <1>2, <1>3

LEMMA RollbackKeepsCInv ==
  ASSUME CInv, NEW r \in Requests, pc[r] # "idle", End(r), UNCHANGED stored
  PROVE  CInv'
  <1>1. /\ Ended(r) /\ UNCHANGED known /\ Shapes' /\ Numbers'
        /\ \A q \in Requests : InFlight(q)' => GoesOn(q, r)
        /\ \A i \in Ids : Reserved(i)' => Reserved(i)
    BY EndFrame
  <1>2. TypeOK'
    BY <1>1 DEF CInv, TypeOK, Ended, OthersStay, stored, known
  <1>3. Kinds' /\ Admitted'
    <2>1. /\ \A i \in Ids : messages'[i] # Null => scans'[i] = Null
          /\ UNCHANGED <<scans, messages>>
      BY DEF stored, CInv, Kinds
    <2> QED BY <2>1, EndKeepsAdmitted
  <1>4. MadeSince'
    BY EndKeepsOrigins DEF stored
  <1>5. Unseen'
    BY <1>1 DEF CInv, Unseen, GoesOn, stored, known, Overlapped
  <1>6. SendsVanished' /\ ConfirmsVanished'
    BY EndKeepsVanished DEF stored
  <1>7. RowsInv'
    BY <1>1, RowsInvKept DEF CInv, RowsInv, known
  <1> QED BY <1>1, <1>2, <1>3, <1>4, <1>5, <1>6, <1>7 DEF CInv, RowsInv

LEMMA ScanEndsKeepsCInv ==
  ASSUME CInv, NEW r \in Requests, pc[r] = "model", call[r].op = "scan", End(r),
         NEW row \in Scan, row.tx = Null, scans' = [scans EXCEPT ![call[r].no] = row],
         UNCHANGED <<sessions, messages, txs, origin, droppers>>
  PROVE  CInv'
  <1> DEFINE n == call[r].no
  <1>1. /\ Ended(r) /\ UNCHANGED known /\ Shapes' /\ Numbers'
        /\ \A q \in Requests : InFlight(q)' => GoesOn(q, r)
        /\ \A i \in Ids : Reserved(i)' => Reserved(i) /\ i # n
        /\ Reserved(n) /\ n \in Ids
    BY EndFrame
  <1>2. /\ scans'[n] = row /\ \A i \in Ids : i # n => scans'[i] = scans[i]
        /\ scans' \in [Ids -> Scan \cup {Null}] /\ row # Null
    BY <1>1, ConfirmationsAssumption DEF CInv, TypeOK
  <1>3. scans[n] = Null /\ messages[n] = Null /\ \A t \in Ids : origin[t] # n
    BY <1>1 DEF CInv, Unborn
  <1>4. TypeOK'
    BY <1>1, <1>2 DEF CInv, TypeOK, Ended, OthersStay, known
  <1>5. Kinds' /\ Admitted'
    <2>1. \A i \in Ids : messages'[i] # Null => scans'[i] = Null
      BY <1>2, <1>3 DEF CInv, Kinds
    <2>2. \A i \in Ids : scans[i] # Null => scans'[i] # Null /\ scans'[i].status = scans[i].status
      BY <1>2, <1>3
    <2>3. \A i \in Ids : scans'[i] # Null => scans[i] # Null \/ i = n
      BY <1>2
    <2> QED BY <2>1, <2>2, <2>3, EndKeepsAdmitted
  <1>6. MadeSince' /\ ConfirmedOnceUnlessRaced'
    BY EndKeepsOrigins
  <1>7. Unborn'
    BY <1>1, <1>2 DEF CInv, Unborn
  <1>8. RowsNameTheirOwn'
    <2> SUFFICES ASSUME NEW i \in Ids, NEW w \in {scans'[i], messages[i]} \ {Null}
                 PROVE  /\ w.tx = Null <=> \A t \in Ids : origin[t] # i
                        /\ w.tx # Null => origin[w.tx] = i
                        /\ w = scans'[i] /\ w.tx # Null => w.status = "COMPLETED"
                        /\ w = messages[i] /\ w.tx # Null => w.data # "none"
      BY DEF RowsNameTheirOwn
    <2>1. CASE i = n
      BY <1>2, <1>3, <2>1
    <2>2. CASE i # n
      BY <1>2, <2>2 DEF CInv, RowsNameTheirOwn
    <2> QED BY <2>1, <2>2
  <1>9. Unseen'
    BY <1>1 DEF CInv, Unseen, GoesOn, known, Overlapped
  <1>10. SendsVanished' /\ ConfirmsVanished'
    BY EndKeepsVanished
  <1>11. OrphansOnlyByLateAnswers'
    BY <1>1 DEF CInv, OrphansOnlyByLateAnswers, known, Overlapped
  <1> QED BY <1>1, <1>4, <1>5, <1>6, <1>7, <1>8, <1>9, <1>10, <1>11 DEF CInv

LEMMA AnswerKeepsCInv ==
  ASSUME CInv, NEW r \in Requests, NEW data \in Data, Answer(r, data)
  PROVE  CInv'
  <1> DEFINE c == call[r]
             n == c.no
             row == [session |-> c.row, data |-> data, tx |-> Null]
  <1>1. /\ Ended(r) /\ UNCHANGED known /\ Shapes' /\ Numbers' /\ InFlight(r)
        /\ \A q \in Requests : InFlight(q)' => GoesOn(q, r)
        /\ \A i \in Ids : Reserved(i)' => Reserved(i) /\ i # n
        /\ Reserved(n) /\ n \in Ids
    BY EndFrame DEF Answer
  <1>2. row \in Message /\ row # Null
    <2>1. c.row \in Ids
      BY <1>1, CallFields DEF Answer, CInv, Shape
    <2>2. row \in Message
      BY <2>1 DEF Message
    <2> QED BY <2>2, ConfirmationsAssumption
  <1>3. row.session = c.row /\ row.tx = Null
    OBVIOUS
  <1>4. messages' = [messages EXCEPT ![n] = row]
    BY DEF Answer
  <1> HIDE DEF row
  <1>5. /\ messages'[n] = row /\ \A i \in Ids : i # n => messages'[i] = messages[i]
        /\ messages' \in [Ids -> Message \cup {Null}]
    BY <1>1, <1>2, <1>4 DEF CInv, TypeOK
  <1>6. scans[n] = Null /\ messages[n] = Null /\ \A t \in Ids : origin[t] # n
    BY <1>1 DEF CInv, Unborn
  <1>7. UNCHANGED <<scans, sessions, txs, origin, droppers>>
    BY DEF Answer
  <1>8. TypeOK'
    BY <1>1, <1>5, <1>7 DEF CInv, TypeOK, Ended, OthersStay, known
  <1>9. Kinds' /\ Admitted'
    <2>1. \A i \in Ids : messages'[i] # Null => scans'[i] = Null
      BY <1>5, <1>6, <1>7 DEF CInv, Kinds
    <2>2. \A i \in Ids : messages'[i] # Null =>
            \/ messages[i] # Null /\ messages'[i].session = messages[i].session
            \/ i = n
      BY <1>5
    <2> QED BY <1>7, <2>1, <2>2, EndKeepsAdmitted DEF Answer
  <1>10. MadeSince' /\ ConfirmedOnceUnlessRaced'
    BY <1>7, EndKeepsOrigins DEF Answer
  <1>11. Unborn'
    BY <1>1, <1>5, <1>7 DEF CInv, Unborn
  <1>12. RowsNameTheirOwn'
    <2> SUFFICES ASSUME NEW i \in Ids, NEW w \in {scans[i], messages'[i]} \ {Null}
                 PROVE  /\ w.tx = Null <=> \A t \in Ids : origin[t] # i
                        /\ w.tx # Null => origin[w.tx] = i
                        /\ w = scans[i] /\ w.tx # Null => w.status = "COMPLETED"
                        /\ w = messages'[i] /\ w.tx # Null => w.data # "none"
      BY <1>7 DEF RowsNameTheirOwn
    <2>1. CASE i = n
      BY <1>3, <1>5, <1>6, <2>1
    <2>2. CASE i # n
      BY <1>5, <2>2 DEF CInv, RowsNameTheirOwn
    <2> QED BY <2>1, <2>2
  <1>13. Unseen'
    <2> SUFFICES ASSUME NEW q \in Requests, InFlight(q)', pc'[q] = "commit",
                        call'[q].op = "drop", NEW i \in Ids \ call'[q].gone,
                        messages'[i] # Null, messages'[i].session = call'[q].row
                 PROVE  /\ {i, call'[q].no} \in overlapped'
                        /\ messages'[i].tx # Null => {messages'[i].tx, call'[q].no} \in overlapped'
      BY DEF Unseen, Overlapped
    <2>1. GoesOn(q, r) /\ overlapped' = overlapped
      BY <1>1 DEF known
    <2>2. CASE i = n
      BY <1>3, <1>5, <2>1, <2>2 DEF GoesOn, Overlapped
    <2>3. CASE i # n
      BY <1>5, <2>1, <2>3 DEF CInv, Unseen, GoesOn, Overlapped
    <2> QED BY <2>2, <2>3
  <1>14. SendsVanished' /\ ConfirmsVanished'
    BY <1>1, <1>5, <1>7, EndKeepsVanished DEF Answer
  <1>15. OrphansOnlyByLateAnswers'
    <2> SUFFICES ASSUME NEW i \in Ids, messages'[i] # Null,
                        sessions[messages'[i].session] = Null
                 PROVE  \E d \in droppers[messages'[i].session] :
                            /\ {i, d} \in overlapped
                            /\ messages'[i].tx # Null => {messages'[i].tx, d} \in overlapped
      BY <1>1, <1>7 DEF OrphansOnlyByLateAnswers, Overlapped, known
    <2>1. CASE i = n
      <3>1. \E d \in droppers[c.row] : Overlapped(n, d)
        BY <1>1, <1>3, <1>5, <2>1 DEF CInv, SendsVanished, Answer
      <3> QED BY <1>3, <1>5, <2>1, <3>1 DEF Overlapped
    <2>2. CASE i # n
      BY <1>5, <2>2 DEF CInv, OrphansOnlyByLateAnswers, Overlapped
    <2> QED BY <2>1, <2>2
  <1> QED BY <1>1, <1>8, <1>9, <1>10, <1>11, <1>12, <1>13, <1>14, <1>15 DEF CInv

LEMMA DropKeepsCInv ==
  ASSUME CInv, NEW r \in Requests, CommitDrop(r)
  PROVE  CInv'
  <1> DEFINE c == call[r]
             n == c.no
             s == c.row
  <1>1. /\ Ended(r) /\ UNCHANGED known /\ Shapes' /\ Numbers' /\ InFlight(r)
        /\ \A q \in Requests : InFlight(q)' => GoesOn(q, r)
        /\ \A i \in Ids : Reserved(i)' => Reserved(i) /\ i # n
        /\ n \in Ids
    BY EndFrame DEF CommitDrop
  <1>2. s \in Ids /\ c.op = "drop"
    BY <1>1, CallFields DEF CommitDrop, CInv, Shape
  <1>3. /\ \A i \in Ids : messages'[i] = IF i \in c.gone THEN Null ELSE messages[i]
        /\ messages' \in [Ids -> Message \cup {Null}]
    BY DEF CommitDrop, CInv, TypeOK
  <1>4. /\ sessions'[s] = Null /\ \A i \in Ids : i # s => sessions'[i] = sessions[i]
        /\ sessions' \in [Ids -> Users \cup {Null}]
    BY <1>2 DEF CommitDrop, CInv, TypeOK
  <1>5. /\ droppers' \in [Ids -> SUBSET Ids] /\ n \in droppers'[s]
        /\ \A i \in Ids : droppers[i] \subseteq droppers'[i]
    BY <1>1, <1>2 DEF CommitDrop, CInv, TypeOK
  <1>6. UNCHANGED <<scans, txs, origin>>
    BY DEF CommitDrop
  <1>7. TypeOK'
    BY <1>1, <1>3, <1>4, <1>5, <1>6 DEF CInv, TypeOK, Ended, OthersStay, known
  <1>8. Kinds' /\ Admitted'
    <2>1. \A i \in Ids : messages'[i] # Null => scans'[i] = Null
      BY <1>3, <1>6 DEF CInv, Kinds
    <2>2. \A i \in Ids : messages'[i] # Null =>
            \/ messages[i] # Null /\ messages'[i].session = messages[i].session
            \/ i = n
      BY <1>3
    <2> QED BY <1>6, <2>1, <2>2, EndKeepsAdmitted DEF CommitDrop
  <1>9. MadeSince' /\ ConfirmedOnceUnlessRaced'
    BY <1>6, EndKeepsOrigins DEF CommitDrop
  <1>10. Unborn' /\ RowsNameTheirOwn'
    BY <1>1, <1>3, <1>6 DEF CInv, Unborn, RowsNameTheirOwn
  <1>11. Unseen'
    <2> SUFFICES ASSUME NEW q \in Requests, InFlight(q)', pc'[q] = "commit",
                        call'[q].op = "drop", NEW i \in Ids \ call'[q].gone,
                        messages'[i] # Null, messages'[i].session = call'[q].row
                 PROVE  /\ {i, call'[q].no} \in overlapped'
                        /\ messages'[i].tx # Null => {messages'[i].tx, call'[q].no} \in overlapped'
      BY DEF Unseen, Overlapped
    <2>1. GoesOn(q, r) /\ overlapped' = overlapped /\ messages'[i] = messages[i]
      BY <1>1, <1>3 DEF known
    <2> QED BY <2>1 DEF CInv, Unseen, GoesOn, Overlapped
  <1>12. SendsVanished'
    <2> SUFFICES ASSUME NEW q \in Requests, InFlight(q)', pc'[q] = "model",
                        call'[q].op = "send", sessions'[call'[q].row] = Null
                 PROVE  \E d \in droppers'[call'[q].row] : {call'[q].no, d} \in overlapped
      BY <1>1 DEF SendsVanished, Overlapped, known
    <2>1. GoesOn(q, r) /\ call[q].row \in Ids
      BY <1>1, CallFields DEF GoesOn, CInv, Shape
    <2>2. CASE call[q].row = s
      BY <1>5, <2>1, <2>2 DEF GoesOn, Overlapped
    <2>3. CASE call[q].row # s
      BY <1>4, <1>5, <2>1, <2>3 DEF CInv, SendsVanished, GoesOn, Overlapped
    <2> QED BY <2>2, <2>3
  <1>13. ConfirmsVanished'
    <2> SUFFICES ASSUME NEW q \in Requests, InFlight(q)', pc'[q] = "commit",
                        call'[q].op = "confirmMessage", messages'[call'[q].row] # Null,
                        sessions'[call'[q].seen.session] = Null
                 PROVE  \E d \in droppers'[call'[q].seen.session] :
                            {call'[q].row, d} \in overlapped /\ {call'[q].no, d} \in overlapped
      BY <1>1 DEF ConfirmsVanished, Overlapped, known
    <2> DEFINE i == call[q].row
               t == call[q].seen.session
    <2>1. GoesOn(q, r) /\ i \in Ids
      BY <1>1, CallFields DEF GoesOn, CInv, Shape
    <2>2. i \notin c.gone /\ messages[i] # Null /\ messages[i].session = t
      BY <1>3, <2>1 DEF GoesOn, CInv, Admitted
    <2>3. t \in Ids
      BY <2>1, <2>2 DEF CInv, TypeOK, Message
    <2>4. CASE t = s
      <3>1. Overlapped(i, n)
        BY <1>1, <1>2, <2>1, <2>2, <2>4 DEF CInv, Unseen, CommitDrop
      <3> QED BY <1>5, <2>1, <2>4, <3>1 DEF GoesOn, Overlapped
    <2>5. CASE t # s
      <3>1. \E d \in droppers[t] : Overlapped(i, d) /\ Overlapped(call[q].no, d)
        BY <1>4, <2>1, <2>2, <2>3, <2>5 DEF CInv, ConfirmsVanished, GoesOn
      <3> QED BY <1>5, <2>1, <2>3, <3>1 DEF GoesOn, Overlapped
    <2> QED BY <2>4, <2>5
  <1>14. OrphansOnlyByLateAnswers'
    <2> SUFFICES ASSUME NEW i \in Ids, messages'[i] # Null,
                        sessions'[messages'[i].session] = Null
                 PROVE  \E d \in droppers'[messages'[i].session] :
                            /\ {i, d} \in overlapped
                            /\ messages'[i].tx # Null => {messages'[i].tx, d} \in overlapped
      BY <1>1 DEF OrphansOnlyByLateAnswers, Overlapped, known
    <2> DEFINE t == messages[i].session
    <2>1. i \notin c.gone /\ messages'[i] = messages[i] /\ messages[i] # Null
      BY <1>3
    <2>2. t \in Ids
      BY <2>1 DEF CInv, TypeOK, Message
    <2>3. CASE t = s
      <3>1. /\ Overlapped(i, n)
            /\ messages[i].tx # Null => Overlapped(messages[i].tx, n)
        BY <1>1, <1>2, <2>1, <2>3 DEF CInv, Unseen, CommitDrop
      <3> QED BY <1>5, <2>1, <2>3, <3>1 DEF Overlapped
    <2>4. CASE t # s
      <3>1. \E d \in droppers[t] :
                /\ Overlapped(i, d)
                /\ messages[i].tx # Null => Overlapped(messages[i].tx, d)
        BY <1>4, <2>1, <2>2, <2>4 DEF CInv, OrphansOnlyByLateAnswers
      <3> QED BY <1>5, <2>1, <2>2, <3>1 DEF Overlapped
    <2> QED BY <2>3, <2>4
  <1> QED BY <1>1, <1>7, <1>8, <1>9, <1>10, <1>11, <1>12, <1>13, <1>14 DEF CInv

-----------------------------------------------------------------------------
(* Confirmations.                                                          *)

\* What making a transaction n from the row i says of origins.
LEMMA Making ==
  ASSUME CInv, NEW r \in Requests, pc[r] = "commit",
         call[r].op \in {"confirmScan", "confirmMessage"}, MakeTransaction(r), End(r)
  PROVE  /\ call[r].row \in Ids /\ call[r].no \in Ids /\ ~Reserved(call[r].row)
         /\ call[r].no # Null /\ call[r].row # call[r].no
         /\ txs' \subseteq Ids /\ origin' \in [Ids -> Ids \cup {Null}] /\ UNCHANGED droppers
         /\ origin[call[r].no] = Null /\ origin'[call[r].no] = call[r].row
         /\ \A t \in Ids : t # call[r].no => origin'[t] = origin[t]
         /\ MadeSince' /\ ConfirmedOnceUnlessRaced'
         /\ \A i \in Ids : Reserved(i)' => origin'[i] = Null /\ \A t \in Ids : origin'[t] # i
  <1> DEFINE n == call[r].no
             i == call[r].row
  <1>1. /\ UNCHANGED known /\ InFlight(r)
        /\ \A q \in Requests : InFlight(q)' => GoesOn(q, r)
        /\ \A j \in Ids : Reserved(j)' => Reserved(j) /\ j # n
        /\ Reserved(n) /\ n \in Ids
    BY EndFrame
  <1>2. i \in Ids
    BY <1>1, CallFields DEF CInv, Shape
  <1>3. ~Reserved(i)
    BY <1>1, <1>2 DEF CInv, Kinds, Unborn
  <1>4. n # Null /\ i # n
    BY <1>1, <1>3, ConfirmationsAssumption DEF Ids
  <1>5. /\ txs' \subseteq Ids /\ origin' \in [Ids -> Ids \cup {Null}] /\ UNCHANGED droppers
        /\ origin'[n] = i /\ \A t \in Ids : t # n => origin'[t] = origin[t]
    BY <1>1, <1>2 DEF MakeTransaction, CInv, TypeOK
  <1>6. origin[n] = Null
    BY <1>1 DEF CInv, Unborn
  <1>7. Found(r)
    BY <1>1 DEF Found, CInv, Admitted
  <1>8. MadeSince'
    <2> SUFFICES ASSUME NEW q \in Requests, Found(q)', NEW t \in Ids,
                        origin'[t] = call'[q].row
                 PROVE  {t, call'[q].no} \in overlapped
      BY <1>1 DEF MadeSince, Overlapped, known
    <2>1. GoesOn(q, r) /\ Found(q)
      BY <1>1 DEF Found, GoesOn
    <2>2. CASE t = n
      BY <2>1, <2>2 DEF GoesOn, Overlapped
    <2>3. CASE t # n
      BY <1>5, <2>1, <2>3 DEF CInv, MadeSince, GoesOn, Overlapped
    <2> QED BY <2>2, <2>3
  <1>9. ConfirmedOnceUnlessRaced'
    <2> SUFFICES ASSUME NEW t \in Ids, NEW u \in Ids, t # u, origin'[t] # Null,
                        origin'[u] = origin'[t]
                 PROVE  {t, u} \in overlapped
      BY <1>1 DEF ConfirmedOnceUnlessRaced, Overlapped, known
    <2>1. CASE t = n
      BY <1>5, <1>7, <2>1 DEF CInv, MadeSince, Overlapped
    <2>2. CASE u = n
      BY <1>5, <1>7, <2>2 DEF CInv, MadeSince, Overlapped
    <2>3. CASE t # n /\ u # n
      BY <1>5, <2>3 DEF CInv, ConfirmedOnceUnlessRaced, Overlapped
    <2> QED BY <2>1, <2>2, <2>3
  <1>10. \A j \in Ids : Reserved(j)' => origin'[j] = Null /\ \A t \in Ids : origin'[t] # j
    BY <1>1, <1>3, <1>5 DEF CInv, Unborn
  <1> QED BY <1>1, <1>2, <1>3, <1>4, <1>5, <1>6, <1>8, <1>9, <1>10

\* The row that is confirmed names its transaction, the other rows what they named.
LEMMA Naming ==
  ASSUME CInv, NEW r \in Requests, pc[r] = "commit",
         call[r].op \in {"confirmScan", "confirmMessage"}, MakeTransaction(r), End(r),
         NEW i \in Ids, NEW row \in {scans'[i], messages'[i]}, row # Null,
         i = call[r].row => row.tx = call[r].no,
         i # call[r].row => row \in {scans[i], messages[i]}
  PROVE  /\ row.tx = Null <=> \A t \in Ids : origin'[t] # i
         /\ row.tx # Null => origin'[row.tx] = i
  <1> DEFINE n == call[r].no
  <1>1. /\ n \in Ids /\ n # Null /\ origin[n] = Null /\ origin'[n] = call[r].row
        /\ \A t \in Ids : t # n => origin'[t] = origin[t]
    BY Making
  <1>2. CASE i = call[r].row
    BY <1>1, <1>2
  <1>3. CASE i # call[r].row
    <2>1. /\ row.tx = Null <=> \A t \in Ids : origin[t] # i
          /\ row.tx # Null => origin[row.tx] = i
      BY <1>3 DEF CInv, RowsNameTheirOwn
    <2>2. row.tx \in Ids \cup {Null}
      BY <1>3 DEF CInv, TypeOK, Scan, Message
    <2>3. \A t \in Ids : origin'[t] = i <=> origin[t] = i
      BY <1>1, <1>3, ConfirmationsAssumption
    <2> QED BY <2>1, <2>2, <2>3
  <1> QED BY <1>2, <1>3

LEMMA ConfirmScanKeepsCInv ==
  ASSUME CInv, NEW r \in Requests, CommitConfirmScan(r)
  PROVE  CInv'
  <1> DEFINE c == call[r]
             n == c.no
             k == c.row
             old == scans[k]
             row == [old EXCEPT !.tx = n]
  <1>1. /\ pc[r] = "commit" /\ c.op = "confirmScan" /\ MakeTransaction(r) /\ End(r)
        /\ UNCHANGED <<sessions, messages>>
    BY DEF CommitConfirmScan
  <1>2. /\ Ended(r) /\ UNCHANGED known /\ Shapes' /\ Numbers' /\ InFlight(r)
        /\ \A q \in Requests : InFlight(q)' => GoesOn(q, r)
        /\ \A i \in Ids : Reserved(i)' => Reserved(i)
    BY <1>1, EndFrame
  <1>3. /\ k \in Ids /\ n \in Ids /\ ~Reserved(k) /\ UNCHANGED droppers
        /\ txs' \subseteq Ids /\ origin' \in [Ids -> Ids \cup {Null}]
        /\ MadeSince' /\ ConfirmedOnceUnlessRaced'
        /\ \A i \in Ids : Reserved(i)' => origin'[i] = Null /\ \A t \in Ids : origin'[t] # i
    BY <1>1, Making
  <1>4. old \in Scan /\ old # Null /\ old.status = "COMPLETED" /\ messages[k] = Null
    BY <1>1, <1>2, <1>3 DEF CInv, TypeOK, Kinds, Admitted
  <1>5. scans' = [scans EXCEPT ![k] = row]
    BY <1>3 DEF CommitConfirmScan, CInv, TypeOK
  <1>6. row \in Scan /\ row.status = old.status /\ row.tx = n
    <2>1. old = [user |-> old.user, status |-> old.status, data |-> old.data, tx |-> old.tx]
      BY <1>4 DEF Scan
    <2> HIDE DEF old
    <2>2. row = [user |-> old.user, status |-> old.status, data |-> old.data, tx |-> n]
      BY <2>1
    <2>3. row.status = old.status /\ row.tx = n
      BY <2>2
    <2>4. row \in Scan
      <3> HIDE DEF row
      <3> QED BY <1>3, <1>4, <2>2 DEF Scan
    <2> QED BY <2>3, <2>4
  <1>7. row # Null
    BY <1>6, ConfirmationsAssumption
  <1> HIDE DEF row
  <1>8. /\ scans'[k] = row /\ \A i \in Ids : i # k => scans'[i] = scans[i]
        /\ scans' \in [Ids -> Scan \cup {Null}]
    BY <1>3, <1>5, <1>6 DEF CInv, TypeOK
  <1>9. TypeOK'
    BY <1>1, <1>2, <1>3, <1>8 DEF CInv, TypeOK, Ended, OthersStay, known
  <1>10. Kinds' /\ Admitted'
    <2>1. \A i \in Ids : messages'[i] # Null => scans'[i] = Null
      BY <1>1, <1>4, <1>8 DEF CInv, Kinds
    <2>2. \A i \in Ids : scans[i] # Null => scans'[i] # Null /\ scans'[i].status = scans[i].status
      BY <1>6, <1>7, <1>8
    <2>3. \A i \in Ids : scans'[i] # Null => scans[i] # Null
      BY <1>4, <1>8
    <2> QED BY <1>1, <2>1, <2>2, <2>3, EndKeepsAdmitted
  <1>11. Unborn'
    BY <1>1, <1>2, <1>3, <1>8 DEF CInv, Unborn
  <1>12. RowsNameTheirOwn'
    <2> SUFFICES ASSUME NEW i \in Ids, NEW w \in {scans'[i], messages'[i]} \ {Null}
                 PROVE  /\ w.tx = Null <=> \A t \in Ids : origin'[t] # i
                        /\ w.tx # Null => origin'[w.tx] = i
                        /\ w = scans'[i] /\ w.tx # Null => w.status = "COMPLETED"
                        /\ w = messages'[i] /\ w.tx # Null => w.data # "none"
      BY DEF RowsNameTheirOwn
    <2>1. i = k => w.tx = n /\ w = scans'[i] /\ w # messages'[i]
      BY <1>1, <1>4, <1>6, <1>8
    <2>2. i # k => w \in {scans[i], messages[i]}
      BY <1>1, <1>8
    <2>3. /\ w.tx = Null <=> \A t \in Ids : origin'[t] # i
          /\ w.tx # Null => origin'[w.tx] = i
      BY <1>1, <2>1, <2>2, Naming
    <2>4. CASE i = k
      BY <1>4, <1>6, <1>8, <2>1, <2>3, <2>4
    <2>5. CASE i # k
      BY <1>1, <1>8, <2>3, <2>5 DEF CInv, RowsNameTheirOwn
    <2> QED BY <2>4, <2>5
  <1>13. Unseen'
    BY <1>1, <1>2 DEF CInv, Unseen, GoesOn, known, Overlapped
  <1>14. SendsVanished' /\ ConfirmsVanished'
    BY <1>1, <1>3, EndKeepsVanished
  <1>15. OrphansOnlyByLateAnswers'
    BY <1>1, <1>2, <1>3 DEF CInv, OrphansOnlyByLateAnswers, known, Overlapped
  <1> QED BY <1>2, <1>3, <1>9, <1>10, <1>11, <1>12, <1>13, <1>14, <1>15 DEF CInv

LEMMA ConfirmMessageKeepsCInv ==
  ASSUME CInv, NEW r \in Requests, CommitConfirmMessage(r)
  PROVE  CInv'
  <1> DEFINE c == call[r]
             n == c.no
             k == c.row
             data == c.seen.data
             old == messages[k]
             row == [old EXCEPT !.data = data, !.tx = n]
  <1>1. /\ pc[r] = "commit" /\ c.op = "confirmMessage" /\ MakeTransaction(r) /\ End(r)
        /\ UNCHANGED <<sessions, scans>> /\ old # Null
    BY DEF CommitConfirmMessage
  <1>2. /\ Ended(r) /\ UNCHANGED known /\ Shapes' /\ Numbers' /\ InFlight(r)
        /\ \A q \in Requests : InFlight(q)' => GoesOn(q, r)
        /\ \A i \in Ids : Reserved(i)' => Reserved(i)
    BY <1>1, EndFrame
  <1>3. /\ k \in Ids /\ n \in Ids /\ ~Reserved(k) /\ UNCHANGED droppers
        /\ txs' \subseteq Ids /\ origin' \in [Ids -> Ids \cup {Null}]
        /\ MadeSince' /\ ConfirmedOnceUnlessRaced'
        /\ \A i \in Ids : Reserved(i)' => origin'[i] = Null /\ \A t \in Ids : origin'[t] # i
    BY <1>1, Making
  <1>4. /\ old \in Message /\ scans[k] = Null /\ old.session = c.seen.session
        /\ data # "none" /\ data \in Data
    <2>1. c.seen \in Message
      BY <1>1, <1>2, CallFields DEF CInv, Shape
    <2> QED BY <1>1, <1>2, <1>3, <2>1 DEF CInv, TypeOK, Kinds, Admitted, Message
  <1>5. messages' = [messages EXCEPT ![k] = row]
    BY <1>3 DEF CommitConfirmMessage, CInv, TypeOK
  <1>6. row \in Message /\ row.session = old.session /\ row.tx = n /\ row.data = data
    <2>1. old = [session |-> old.session, data |-> old.data, tx |-> old.tx]
      BY <1>4 DEF Message
    <2> HIDE DEF old, data
    <2> DEFINE mid == [old EXCEPT !.data = data]
    <2>2. mid = [session |-> old.session, data |-> data, tx |-> old.tx]
      BY <2>1
    <2>3. row = [session |-> old.session, data |-> data, tx |-> n]
      <3>1. row = [mid EXCEPT !.tx = n]
        OBVIOUS
      <3> HIDE DEF mid, row
      <3> QED BY <2>2, <3>1
    <2>4. row.session = old.session /\ row.tx = n /\ row.data = data
      <3> HIDE DEF mid
      <3> QED BY <2>3
    <2>5. row \in Message
      <3> HIDE DEF row
      <3> QED BY <1>3, <1>4, <2>3 DEF Message
    <2> QED BY <2>4, <2>5
  <1>7. row # Null
    BY <1>6, ConfirmationsAssumption
  <1> HIDE DEF row
  <1>8. /\ messages'[k] = row /\ \A i \in Ids : i # k => messages'[i] = messages[i]
        /\ messages' \in [Ids -> Message \cup {Null}]
    BY <1>3, <1>5, <1>6 DEF CInv, TypeOK
  <1>9. TypeOK'
    BY <1>1, <1>2, <1>3, <1>8 DEF CInv, TypeOK, Ended, OthersStay, known
  <1>10. \A i \in Ids : messages'[i] # Null =>
             messages[i] # Null /\ messages'[i].session = messages[i].session
    BY <1>1, <1>6, <1>8
  <1>11. Kinds' /\ Admitted'
    <2>1. \A i \in Ids : messages'[i] # Null => scans'[i] = Null
      BY <1>1, <1>10 DEF CInv, Kinds
    <2> QED BY <1>1, <1>10, <2>1, EndKeepsAdmitted
  <1>12. Unborn'
    BY <1>1, <1>2, <1>3, <1>8 DEF CInv, Unborn
  <1>13. RowsNameTheirOwn'
    <2> SUFFICES ASSUME NEW i \in Ids, NEW w \in {scans'[i], messages'[i]} \ {Null}
                 PROVE  /\ w.tx = Null <=> \A t \in Ids : origin'[t] # i
                        /\ w.tx # Null => origin'[w.tx] = i
                        /\ w = scans'[i] /\ w.tx # Null => w.status = "COMPLETED"
                        /\ w = messages'[i] /\ w.tx # Null => w.data # "none"
      BY DEF RowsNameTheirOwn
    <2>1. i = k => w.tx = n /\ w = messages'[i] /\ w # scans'[i]
      BY <1>1, <1>4, <1>6, <1>8
    <2>2. i # k => w \in {scans[i], messages[i]}
      BY <1>1, <1>8
    <2>3. /\ w.tx = Null <=> \A t \in Ids : origin'[t] # i
          /\ w.tx # Null => origin'[w.tx] = i
      BY <1>1, <2>1, <2>2, Naming
    <2>4. CASE i = k
      BY <1>4, <1>6, <1>8, <2>1, <2>3, <2>4
    <2>5. CASE i # k
      BY <1>1, <1>8, <2>3, <2>5 DEF CInv, RowsNameTheirOwn
    <2> QED BY <2>4, <2>5
  <1>14. Unseen'
    <2> SUFFICES ASSUME NEW q \in Requests, InFlight(q)', pc'[q] = "commit",
                        call'[q].op = "drop", NEW i \in Ids \ call'[q].gone,
                        messages'[i] # Null, messages'[i].session = call'[q].row
                 PROVE  /\ {i, call'[q].no} \in overlapped'
                        /\ messages'[i].tx # Null => {messages'[i].tx, call'[q].no} \in overlapped'
      BY DEF Unseen, Overlapped
    <2>1. GoesOn(q, r) /\ overlapped' = overlapped
      BY <1>2 DEF known
    <2>2. /\ Overlapped(i, call[q].no)
          /\ messages[i].tx # Null => Overlapped(messages[i].tx, call[q].no)
      BY <1>10, <2>1 DEF CInv, Unseen, GoesOn
    <2>3. CASE i = k
      BY <1>6, <1>8, <2>1, <2>2, <2>3 DEF GoesOn, Overlapped
    <2>4. CASE i # k
      BY <1>8, <2>1, <2>2, <2>4 DEF GoesOn, Overlapped
    <2> QED BY <2>3, <2>4
  <1>15. SendsVanished' /\ ConfirmsVanished'
    BY <1>1, <1>3, <1>10, EndKeepsVanished
  <1>16. OrphansOnlyByLateAnswers'
    <2> SUFFICES ASSUME NEW i \in Ids, messages'[i] # Null,
                        sessions[messages'[i].session] = Null
                 PROVE  \E d \in droppers[messages'[i].session] :
                            /\ {i, d} \in overlapped
                            /\ messages'[i].tx # Null => {messages'[i].tx, d} \in overlapped
      BY <1>1, <1>2, <1>3 DEF OrphansOnlyByLateAnswers, Overlapped, known
    <2>1. CASE i = k
      <3>1. \E d \in droppers[c.seen.session] : Overlapped(k, d) /\ Overlapped(n, d)
        BY <1>1, <1>2, <1>4, <1>6, <1>8, <2>1 DEF CInv, ConfirmsVanished
      <3> QED BY <1>4, <1>6, <1>8, <2>1, <3>1 DEF Overlapped
    <2>2. CASE i # k
      BY <1>8, <2>2 DEF CInv, OrphansOnlyByLateAnswers, Overlapped
    <2> QED BY <2>1, <2>2
  <1> QED BY <1>2, <1>3, <1>9, <1>11, <1>12, <1>13, <1>14, <1>15, <1>16 DEF CInv

-----------------------------------------------------------------------------
(* Steps of no request, and the theorems.                                  *)

\* Sessions appear, transactions go: nothing is said of either.
LEMMA OutsideKeepsCInv ==
  ASSUME CInv, UNCHANGED <<scans, messages, pc, call, overlapped, origin, droppers>>,
         sessions' \in [Ids -> Users \cup {Null}], txs' \subseteq Ids,
         begun' \in 0 .. MaxRequests, begun <= begun',
         \A i \in Ids : sessions'[i] = Null => sessions[i] = Null
  PROVE  CInv'
  <1>1. TypeOK'
    BY DEF CInv, TypeOK
  <1>2. Shapes' /\ Numbers'
    <2>1. \A q \in Requests : InFlight(q) => call[q].no \in Ids
      BY CallFields DEF CInv
    <2>2. begun \in Nat /\ begun' \in Nat
      BY ConfirmationsAssumption DEF CInv, TypeOK
    <2>3. Numbers'
      BY <2>1, <2>2 DEF CInv, Numbers, InFlight, Ids
    <2> QED BY <2>3 DEF CInv, Shapes, Shape, InFlight
  <1>3. \A i \in Ids : Reserved(i)' => Reserved(i)
    BY ConfirmationsAssumption DEF Reserved, InFlight, CInv, TypeOK, Ids
  <1>4. Unborn'
    BY <1>3 DEF CInv, Unborn
  <1>5. Kinds'
    <2>1. \A q \in Requests : InFlight(q) /\ call[q].op = "confirmMessage" => call[q].row \in Ids
      BY CallFields DEF CInv, Shape
    <2>2. ASSUME NEW q \in Requests, InFlight(q), call[q].op = "confirmMessage",
                 NEW i, i = call[q].row
          PROVE  ~Reserved(i)'
      BY <1>3, <2>1, <2>2 DEF CInv, Kinds
    <2> QED BY <2>2 DEF CInv, Kinds, Reserved, InFlight
  <1>6. /\ Admitted' /\ MadeSince' /\ ConfirmedOnceUnlessRaced' /\ RowsNameTheirOwn'
        /\ Unseen'
    <2>1. Admitted' /\ MadeSince'
      BY DEF CInv, Admitted, MadeSince, Found, InFlight, Overlapped
    <2>2. ConfirmedOnceUnlessRaced' /\ RowsNameTheirOwn'
      BY DEF CInv, ConfirmedOnceUnlessRaced, RowsNameTheirOwn, Overlapped
    <2>3. Unseen'
      BY DEF CInv, Unseen, InFlight, Overlapped
    <2> QED BY <2>1, <2>2, <2>3
  <1>7. SendsVanished'
    <2>1. \A q \in Requests : InFlight(q) /\ pc[q] = "model" /\ call[q].op = "send" =>
              call[q].row \in Ids
      BY CallFields DEF CInv, Shape
    <2> QED BY <2>1 DEF CInv, SendsVanished, InFlight, Overlapped
  <1>8. ConfirmsVanished'
    <2>1. \A q \in Requests : InFlight(q) /\ pc[q] = "commit" /\ call[q].op = "confirmMessage" =>
              call[q].seen.session \in Ids
      BY CallFields DEF CInv, Shape, Message
    <2> QED BY <2>1 DEF CInv, ConfirmsVanished, InFlight, Overlapped
  <1>9. OrphansOnlyByLateAnswers'
    <2>1. \A i \in Ids : messages[i] # Null => messages[i].session \in Ids
      BY DEF CInv, TypeOK, Message
    <2> QED BY <2>1 DEF CInv, OrphansOnlyByLateAnswers, Overlapped
  <1> QED BY <1>1, <1>2, <1>4, <1>5, <1>6, <1>7, <1>8, <1>9 DEF CInv

LEMMA ArriveKeepsCInv ==
  ASSUME CInv, NEW r \in Requests, Arrive(r)
  PROVE  CInv'
  <1> PICK u \in Users :
        \/ BeginScan(r, u)
        \/ \E i \in Ids :
            \/ sessions[i] # Null /\ (BeginSend(r, u, i) \/ BeginDrop(r, u, i))
            \/ \E overrides \in BOOLEAN :
                \/ scans[i] # Null /\ BeginConfirmScan(r, u, i, overrides)
                \/ messages[i] # Null /\ BeginConfirmMessage(r, u, i, overrides)
    BY DEF Arrive
  <1>1. CASE BeginScan(r, u)
    BY <1>1, BeginKeepsCInv DEF BeginScan, Opens
  <1>2. ASSUME NEW i \in Ids, BeginSend(r, u, i)
        PROVE  CInv'
    BY <1>2, BeginKeepsCInv DEF BeginSend, Opens
  <1>3. ASSUME NEW i \in Ids, BeginDrop(r, u, i)
        PROVE  CInv'
    BY <1>3, BeginKeepsCInv DEF BeginDrop, Opens
  <1>4. ASSUME NEW i \in Ids, NEW overrides \in BOOLEAN, scans[i] # Null,
               BeginConfirmScan(r, u, i, overrides)
        PROVE  CInv'
    BY <1>4, BeginKeepsCInv DEF BeginConfirmScan, Opens
  <1>5. ASSUME NEW i \in Ids, NEW overrides \in BOOLEAN, messages[i] # Null,
               BeginConfirmMessage(r, u, i, overrides)
        PROVE  CInv'
    BY <1>5, BeginKeepsCInv DEF BeginConfirmMessage, Opens
  <1> QED BY <1>1, <1>2, <1>3, <1>4, <1>5

LEMMA HearKeepsCInv ==
  ASSUME CInv, NEW r \in Requests, Hear(r)
  PROVE  CInv'
  <1>1. ASSUME NEW data \in Data, CompleteScan(r, data)
        PROVE  CInv'
    <2> DEFINE row == [user |-> call[r].user, status |-> "COMPLETED", data |-> data, tx |-> Null]
    <2>1. row \in Scan /\ row.tx = Null
      BY <1>1, CallFields DEF CompleteScan, CInv, Scan
    <2>2. scans' = [scans EXCEPT ![call[r].no] = row]
      BY <1>1 DEF CompleteScan
    <2> HIDE DEF row
    <2> QED BY <1>1, <2>1, <2>2, ScanEndsKeepsCInv DEF CompleteScan
  <1>2. CASE FailScan(r)
    <2> DEFINE row == [user |-> call[r].user, status |-> "FAILED", data |-> "none", tx |-> Null]
    <2>1. row \in Scan /\ row.tx = Null
      BY <1>2, CallFields DEF FailScan, CInv, Scan, Data
    <2>2. scans' = [scans EXCEPT ![call[r].no] = row]
      BY <1>2 DEF FailScan
    <2> HIDE DEF row
    <2> QED BY <1>2, <2>1, <2>2, ScanEndsKeepsCInv DEF FailScan
  <1>3. CASE FailSend(r)
    BY <1>3, RollbackKeepsCInv DEF FailSend
  <1> QED BY <1>1, <1>2, <1>3, AnswerKeepsCInv DEF Hear

LEMMA NextKeepsCInv ==
  ASSUME CInv, Next
  PROVE  CInv'
  <1>1. ASSUME NEW r \in Requests, Execute(r)
        PROVE  CInv'
    <2>1. CASE Refuse(r)
      BY <2>1, RollbackKeepsCInv DEF Refuse, Rollback
    <2> QED BY <1>1, <2>1, ReadScanKeepsCInv, ReadMessageKeepsCInv, ReadSessionKeepsCInv,
               SnapshotKeepsCInv, DropKeepsCInv, ConfirmScanKeepsCInv, ConfirmMessageKeepsCInv
            DEF Execute
  <1>2. ASSUME NEW r \in Requests, Crash(r)
        PROVE  CInv'
    BY <1>2, RollbackKeepsCInv DEF Crash, Rollback
  <1>3. ASSUME NEW u \in Users, CreateSession(u)
        PROVE  CInv'
    <2>1. begun \in 0 .. MaxRequests /\ MaxRequests \in Nat /\ begun' \in 0 .. MaxRequests
          /\ begun <= begun'
      BY <1>3, ConfirmationsAssumption DEF CreateSession, CInv, TypeOK
    <2>2. /\ sessions' \in [Ids -> Users \cup {Null}]
          /\ \A i \in Ids : sessions'[i] = Null => sessions[i] = Null
      BY <1>3, ConfirmationsAssumption DEF CreateSession, CInv, TypeOK
    <2>3. txs' \subseteq Ids /\ UNCHANGED <<scans, messages, pc, call, overlapped, origin, droppers>>
      BY <1>3 DEF CreateSession, CInv, TypeOK
    <2> QED BY <2>1, <2>2, <2>3, OutsideKeepsCInv
  <1>4. ASSUME NEW t \in txs, DeleteTransaction(t)
        PROVE  CInv'
    <2>1. /\ UNCHANGED <<scans, messages, pc, call, overlapped, origin, droppers, begun, sessions>>
          /\ txs' \subseteq Ids /\ begun \in 0 .. MaxRequests /\ begun <= begun'
          /\ sessions \in [Ids -> Users \cup {Null}]
      BY <1>4, ConfirmationsAssumption DEF DeleteTransaction, known, CInv, TypeOK
    <2> QED BY <2>1, OutsideKeepsCInv
  <1> QED BY <1>1, <1>2, <1>3, <1>4, ArriveKeepsCInv, HearKeepsCInv DEF Next

LEMMA StutterKeepsCInv ==
  ASSUME CInv, UNCHANGED vars
  PROVE  CInv'
  <1>1. /\ UNCHANGED <<scans, messages, pc, call, overlapped, origin, droppers, begun, sessions, txs>>
        /\ txs \subseteq Ids /\ begun \in 0 .. MaxRequests /\ begun <= begun
        /\ sessions \in [Ids -> Users \cup {Null}]
    BY ConfirmationsAssumption DEF vars, CInv, TypeOK
  <1> QED BY <1>1, OutsideKeepsCInv

LEMMA Invariance == Spec => []CInv
  <1>1. Init => CInv
    BY InitCInv
  <1>2. CInv /\ [Next]_vars => CInv'
    BY NextKeepsCInv, StutterKeepsCInv
  <1> QED BY <1>1, <1>2, PTL DEF Spec

\* Scans, messages and requests keep their types: no scan is ever seen PENDING, whatever
\* the model answers (scan_receipt, send_message).
THEOREM TypeCorrect == Spec => []TypeOK
  <1>1. CInv => TypeOK
    BY DEF CInv
  <1> QED BY <1>1, Invariance, PTL

\* For any number of requests: a row gives rise to two transactions only when the two
\* confirmations were in flight at the same time (confirm_scan, confirm_transaction).
THEOREM ConfirmationsAreApart == Spec => []ConfirmedOnceUnlessRaced
  <1>1. CInv => ConfirmedOnceUnlessRaced
    BY DEF CInv
  <1> QED BY <1>1, Invariance, PTL

\* A scan or message names a transaction exactly when one was made from it, and then one
\* of those (transaction_id, confirmed_transaction_id).
THEOREM RowsNameWhatTheyMade == Spec => []RowsNameTheirOwn
  <1>1. CInv => RowsNameTheirOwn
    BY DEF CInv
  <1> QED BY <1>1, Invariance, PTL

\* A message without its session comes of a delete that met the answer in flight, and a
\* confirmation of it was in flight with that delete too (delete_session, send_message).
THEOREM OrphansNeedALateAnswer == Spec => []OrphansOnlyByLateAnswers
  <1>1. CInv => OrphansOnlyByLateAnswers
    BY DEF CInv
  <1> QED BY <1>1, Invariance, PTL
==============================================================================

------------------------ MODULE ConfirmationsInvariant -------------------------
(***************************************************************************)
(* The inductive invariant behind the theorems of ConfirmationsProofs.     *)
(***************************************************************************)
EXTENDS Confirmations

InFlight(r) == call[r] # Null

\* The statement a request is at goes with its operation and with what it has read.
Shape(p, c) ==
    CASE p = "readScan" -> c.op = "confirmScan" /\ c.row \in Ids
      [] p = "readMessage" -> c.op = "confirmMessage" /\ c.row \in Ids
      [] p = "readSession" -> /\ c.op \in {"send", "drop", "confirmMessage"} /\ c.row \in Ids
                              /\ c.op = "confirmMessage" => c.seen \in Message
      [] p = "model" -> c.op \in {"scan", "send"} /\ (c.op = "send" => c.row \in Ids)
      [] p = "snapshot" -> c.op = "drop" /\ c.row \in Ids
      [] p = "commit" -> /\ c.op \in {"drop", "confirmScan", "confirmMessage"} /\ c.row \in Ids
                         /\ c.op = "confirmScan" => c.seen \in Scan
                         /\ c.op = "confirmMessage" => c.seen \in Message
      [] OTHER -> FALSE

Shapes ==
    \A r \in Requests : IF InFlight(r) THEN Shape(pc[r], call[r]) ELSE pc[r] = "idle"

\* Requests are numbered as they begin, and any two in flight overlap.
Numbers ==
    /\ \A r \in Requests : InFlight(r) => call[r].no <= begun
    /\ \A q, r \in Requests :
          q # r /\ InFlight(q) /\ InFlight(r) =>
              call[q].no # call[r].no /\ {call[q].no, call[r].no} \in overlapped

\* A number not given out yet, or given to a request that has not ended.
Reserved(i) == i > begun \/ \E r \in Requests : InFlight(r) /\ call[r].no = i

\* No row bears such a number, and no transaction has been made from one.
Unborn ==
    \A i \in Ids : Reserved(i) =>
        scans[i] = Null /\ messages[i] = Null /\ origin[i] = Null
        /\ \A t \in Ids : origin[t] # i

\* A number is that of a scan or that of a message, even when the message is gone.
Kinds ==
    /\ \A i \in Ids : messages[i] # Null => scans[i] = Null
    /\ \A r \in Requests : InFlight(r) =>
          /\ call[r].op = "confirmScan" => scans[call[r].row] # Null
          /\ call[r].op = "confirmMessage" =>
                ~Reserved(call[r].row) /\ scans[call[r].row] = Null

\* What a confirmation has found is what the row still says, except for the transaction.
Admitted ==
    \A r \in Requests : InFlight(r) =>
        /\ pc[r] = "commit" /\ call[r].op = "confirmScan" =>
              call[r].seen.tx = Null /\ scans[call[r].row].status = "COMPLETED"
        /\ pc[r] = "commit" /\ call[r].op = "confirmMessage" =>
              call[r].seen.tx = Null /\ call[r].seen.data # "none"
        /\ call[r].op = "confirmMessage" /\ pc[r] \in {"readSession", "commit"}
               /\ messages[call[r].row] # Null =>
              messages[call[r].row].session = call[r].seen.session

\* The confirmation r has found its row without a transaction.
Found(r) ==
    /\ InFlight(r)
    /\ \/ call[r].op = "confirmScan" /\ pc[r] = "commit"
       \/ call[r].op = "confirmMessage" /\ pc[r] \in {"readSession", "commit"}
    /\ call[r].seen.tx = Null

\* Whatever has been made from the row since, was made by a request in flight with it.
MadeSince ==
    \A r \in Requests : Found(r) =>
        \A t \in Ids : origin[t] = call[r].row => Overlapped(t, call[r].no)

\* The messages that the DELETE of a session does not see are answers, and are
\* confirmed by requests, that were in flight with it.
Unseen ==
    \A r \in Requests : InFlight(r) /\ pc[r] = "commit" /\ call[r].op = "drop" =>
        \A i \in Ids \ call[r].gone :
            messages[i] # Null /\ messages[i].session = call[r].row =>
                /\ Overlapped(i, call[r].no)
                /\ messages[i].tx # Null => Overlapped(messages[i].tx, call[r].no)

\* A session that is gone, although a send or a confirmation in flight has found it, was
\* deleted by a request that was in flight with it, and with the message.
SendsVanished ==
    \A r \in Requests :
        InFlight(r) /\ pc[r] = "model" /\ call[r].op = "send" /\ sessions[call[r].row] = Null =>
            \E d \in droppers[call[r].row] : Overlapped(call[r].no, d)

ConfirmsVanished ==
    \A r \in Requests :
        InFlight(r) /\ pc[r] = "commit" /\ call[r].op = "confirmMessage"
            /\ messages[call[r].row] # Null /\ sessions[call[r].seen.session] = Null =>
            \E d \in droppers[call[r].seen.session] :
                Overlapped(call[r].row, d) /\ Overlapped(call[r].no, d)

CInv ==
    /\ TypeOK /\ Shapes /\ Numbers /\ Unborn /\ Kinds /\ Admitted
    /\ MadeSince /\ ConfirmedOnceUnlessRaced /\ RowsNameTheirOwn
    /\ Unseen /\ SendsVanished /\ ConfirmsVanished
    /\ OrphansOnlyByLateAnswers
==============================================================================

---------------------------- MODULE Confirmations ----------------------------
(***************************************************************************)
(* Transactions made from what the language model has read: receipt scans  *)
(* (app/services/receipt_service.py) and chat messages                     *)
(* (app/services/ai_chat_service.py), under concurrent requests.           *)
(*                                                                         *)
(* A scan, or a message sent to a chat session, keeps its database session *)
(* open across the call to the model and stores the answer when it comes.  *)
(* The user confirms the extracted data later: the confirmation tests that *)
(* the row names no transaction, inserts one, and writes its id into the   *)
(* row.  No constraint ties rows together.  Under READ COMMITTED a read    *)
(* sees what is committed; an UPDATE or DELETE that meets a locked row     *)
(* waits for it and then sees its committed form, so that the last         *)
(* statement of a request and its commit can be taken as one step.         *)
(*                                                                         *)
(* Rows are numbered by the request that inserted them.  The question and  *)
(* the answer of one send are one row here: they are inserted and deleted  *)
(* together, and a question, which has no data, cannot be confirmed.       *)
(* That is the key the services and their tests use.  The endpoint which   *)
(* confirms a message hands a UUID to AIChatService where the table has an *)
(* integer key (models/chat_message.py): what is modelled is the service.  *)
(***************************************************************************)
EXTENDS Integers

CONSTANTS
    Users,       \* rows of auth.users
    Requests,    \* requests that may be in flight at the same time
    Null,        \* None, a row that does not exist
    MaxRequests  \* bound: how many requests are started in a behaviour

VARIABLES
    scans,       \* committed receipt scans
    sessions,    \* committed chat sessions: their owner
    messages,    \* committed chat messages
    txs,         \* committed transactions
    pc,          \* the statement each request is at
    call,        \* its arguments and what it has read
    begun,       \* requests started so far: they number the requests
    overlapped,  \* history: pairs of requests that were in flight at the same time
    origin,      \* history: the row each transaction was made from
    droppers     \* history: the requests that have deleted each session

vars == <<scans, sessions, messages, txs, pc, call, begun, overlapped, origin, droppers>>
stored == <<scans, sessions, messages, txs, origin, droppers>>
known == <<begun, overlapped>>

Ids == 1 .. MaxRequests

\* What could be read from an answer: nothing, data without an amount, or all of it.
Data == {"none", "partial", "full"}

Scan == [user : Users, status : {"COMPLETED", "FAILED"}, data : Data, tx : Ids \cup {Null}]

Message == [session : Ids, data : Data, tx : Ids \cup {Null}]

\* row: the session, scan or message it is about; seen: the row as read; gone: the
\* messages a delete of a session has found.
Call == [op : {"scan", "send", "drop", "confirmScan", "confirmMessage"}, no : Ids,
         user : Users, row : Ids \cup {Null}, overrides : BOOLEAN,
         seen : Scan \cup Message \cup {Null}, gone : SUBSET Ids]

\* None is neither a user nor an id nor a row.
ASSUME ConfirmationsAssumption ==
    /\ MaxRequests \in Nat
    /\ Null \notin Users \cup Ids
    /\ Null \notin Scan /\ Null \notin Message /\ Null \notin Call

Points == {"idle", "readScan", "readMessage", "readSession", "model", "snapshot", "commit"}

Init ==
    /\ scans = [i \in Ids |-> Null]
    /\ sessions = [i \in Ids |-> Null]
    /\ messages = [i \in Ids |-> Null]
    /\ txs = {}
    /\ pc = [r \in Requests |-> "idle"]
    /\ call = [r \in Requests |-> Null]
    /\ begun = 0
    /\ overlapped = {}
    /\ origin = [i \in Ids |-> Null]
    /\ droppers = [i \in Ids |-> {}]

Goto(r, p) == pc' = [pc EXCEPT ![r] = p]

-----------------------------------------------------------------------------
(* Requests begin: get_current_user reads the caller.                      *)

Begin(r, p, op, u, row, overrides) ==
    /\ pc[r] = "idle"
    /\ begun < MaxRequests
    /\ begun' = begun + 1
    /\ call' = [call EXCEPT ![r] =
           [op |-> op, no |-> begun + 1, user |-> u, row |-> row, overrides |-> overrides,
            seen |-> Null, gone |-> {}]]
    /\ overlapped' = overlapped \cup
           {{call[q].no, begun + 1} : q \in {q \in Requests : pc[q] # "idle"}}
    /\ Goto(r, p)
    /\ UNCHANGED stored

\* scan_receipt inserts its PENDING row, which nobody sees before the answer is in.
BeginScan(r, u) == Begin(r, "model", "scan", u, Null, FALSE)

BeginSend(r, u, i) == Begin(r, "readSession", "send", u, i, FALSE)

BeginDrop(r, u, i) == Begin(r, "readSession", "drop", u, i, FALSE)

BeginConfirmScan(r, u, i, overrides) == Begin(r, "readScan", "confirmScan", u, i, overrides)

BeginConfirmMessage(r, u, i, overrides) ==
    Begin(r, "readMessage", "confirmMessage", u, i, overrides)

\* create_session: one INSERT and its commit.
CreateSession(u) ==
    /\ begun < MaxRequests
    /\ begun' = begun + 1
    /\ sessions' = [sessions EXCEPT ![begun + 1] = u]
    /\ UNCHANGED <<scans, messages, txs, pc, call, overlapped, origin, droppers>>

\* A transaction made here is deleted through the transactions API, which knows
\* nothing of the row that names it.
DeleteTransaction(t) ==
    /\ txs' = txs \ {t}
    /\ UNCHANGED <<scans, sessions, messages, pc, call, known, origin, droppers>>

-----------------------------------------------------------------------------
(* The statements before the last one.                                     *)

\* The request for the transaction can be built: the data or the overrides have what
\* TransactionCreateRequest asks for.
Complete(c, data) == c.overrides \/ data = "full"

\* Mutant: what has been confirmed is not looked at.
UnconfirmedIgnored(row) == TRUE

\* Neither transaction_id nor confirmed_transaction_id is set.
Unconfirmed(row) == row.tx = Null

\* What a confirmation asks of a scan: the caller's, completed, not yet confirmed.
ScanAdmits(c) ==
    LET row == scans[c.row]
    IN  /\ row # Null
        /\ row.user = c.user
        /\ row.status = "COMPLETED"
        /\ Unconfirmed(row)
        /\ Complete(c, row.data)

ReadScan(r) ==
    LET c == call[r]
    IN  /\ pc[r] = "readScan"
        /\ ScanAdmits(c)
        /\ call' = [call EXCEPT ![r].seen = scans[c.row]]
        /\ Goto(r, "commit")
        /\ UNCHANGED <<stored, known>>

ReadMessage(r) ==
    LET c == call[r]
        row == messages[c.row]
    IN  /\ pc[r] = "readMessage"
        /\ row # Null
        /\ call' = [call EXCEPT ![r].seen = row]
        /\ Goto(r, "readSession")
        /\ UNCHANGED <<stored, known>>

\* The session a request is about, and the tests on the message that follow.
SessionOf(c) == IF c.op = "confirmMessage" THEN c.seen.session ELSE c.row

SessionAdmits(c) ==
    /\ sessions[SessionOf(c)] = c.user
    /\ c.op = "confirmMessage" =>
          c.seen.data # "none" /\ Unconfirmed(c.seen) /\ Complete(c, c.seen.data)

ReadSession(r) ==
    LET c == call[r]
    IN  /\ pc[r] = "readSession"
        /\ SessionAdmits(c)
        /\ Goto(r, CASE c.op = "send" -> "model"
                     [] c.op = "drop" -> "snapshot"
                     [] c.op = "confirmMessage" -> "commit")
        /\ UNCHANGED <<stored, call, known>>

\* Mutant: a deleted session leaves its messages.
SnapshotNothing(r) ==
    /\ pc[r] = "snapshot"
    /\ Goto(r, "commit")
    /\ UNCHANGED <<stored, call, known>>

\* The DELETE of the messages begins: it will not see a message committed after that.
Snapshot(r) ==
    /\ pc[r] = "snapshot"
    /\ call' = [call EXCEPT ![r].gone =
           {i \in Ids : messages[i] # Null /\ messages[i].session = call[r].row}]
    /\ Goto(r, "commit")
    /\ UNCHANGED <<stored, known>>

-----------------------------------------------------------------------------
(* Last statements and commits.                                            *)

End(r) ==
    /\ Goto(r, "idle")
    /\ call' = [call EXCEPT ![r] = Null]
    /\ UNCHANGED known

\* The model has answered: COMPLETED, with whatever could be parsed.
CompleteScan(r, data) ==
    LET c == call[r]
    IN  /\ pc[r] = "model" /\ c.op = "scan"
        /\ scans' = [scans EXCEPT ![c.no] =
               [user |-> c.user, status |-> "COMPLETED", data |-> data, tx |-> Null]]
        /\ UNCHANGED <<sessions, messages, txs, origin, droppers>>
        /\ End(r)

\* Mutant: the scan is left as it was inserted.
FailScanPending(r) ==
    LET c == call[r]
    IN  /\ pc[r] = "model" /\ c.op = "scan"
        /\ scans' = [scans EXCEPT ![c.no] =
               [user |-> c.user, status |-> "PENDING", data |-> "none", tx |-> Null]]
        /\ UNCHANGED <<sessions, messages, txs, origin, droppers>>
        /\ End(r)

\* BedrockError: FAILED is written, the endpoint commits it and answers 502.
FailScan(r) ==
    LET c == call[r]
    IN  /\ pc[r] = "model" /\ c.op = "scan"
        /\ scans' = [scans EXCEPT ![c.no] =
               [user |-> c.user, status |-> "FAILED", data |-> "none", tx |-> Null]]
        /\ UNCHANGED <<sessions, messages, txs, origin, droppers>>
        /\ End(r)

\* The question and the answer are stored; the session is not looked at again.
Answer(r, data) ==
    LET c == call[r]
    IN  /\ pc[r] = "model" /\ c.op = "send"
        /\ messages' = [messages EXCEPT ![c.no] =
               [session |-> c.row, data |-> data, tx |-> Null]]
        /\ UNCHANGED <<scans, sessions, txs, origin, droppers>>
        /\ End(r)

\* BedrockError in a send: the endpoint answers 502 and does not commit.
FailSend(r) ==
    /\ pc[r] = "model" /\ call[r].op = "send"
    /\ UNCHANGED stored
    /\ End(r)

CommitDrop(r) ==
    LET c == call[r]
    IN  /\ pc[r] = "commit" /\ c.op = "drop"
        /\ messages' = [i \in Ids |-> IF i \in c.gone THEN Null ELSE messages[i]]
        /\ sessions' = [sessions EXCEPT ![c.row] = Null]
        /\ droppers' = [droppers EXCEPT ![c.row] = @ \cup {c.no}]
        /\ UNCHANGED <<scans, txs, origin>>
        /\ End(r)

\* TransactionService.create
MakeTransaction(r) ==
    LET c == call[r]
    IN  /\ txs' = txs \cup {c.no}
        /\ origin' = [origin EXCEPT ![c.no] = c.row]
        /\ UNCHANGED droppers

\* Mutant: the id of the transaction is not written into the row.
CommitConfirmScanOnly(r) ==
    LET c == call[r]
    IN  /\ pc[r] = "commit" /\ c.op = "confirmScan"
        /\ MakeTransaction(r)
        /\ UNCHANGED <<scans, sessions, messages>>
        /\ End(r)

CommitConfirmScan(r) ==
    LET c == call[r]
    IN  /\ pc[r] = "commit" /\ c.op = "confirmScan"
        /\ MakeTransaction(r)
        /\ scans' = [scans EXCEPT ![c.row].tx = c.no]
        /\ UNCHANGED <<sessions, messages>>
        /\ End(r)

\* The data written back are those that were read, with the id in them.
CommitConfirmMessage(r) ==
    LET c == call[r]
    IN  /\ pc[r] = "commit" /\ c.op = "confirmMessage"
        /\ messages[c.row] # Null
        /\ MakeTransaction(r)
        /\ messages' = [messages EXCEPT ![c.row].data = c.seen.data, ![c.row].tx = c.no]
        /\ UNCHANGED <<scans, sessions>>
        /\ End(r)

-----------------------------------------------------------------------------
(* Other ends.                                                             *)

Rollback(r) ==
    /\ pc[r] # "idle"
    /\ UNCHANGED stored
    /\ End(r)

\* Not found, not the caller's, not completed, confirmed already, incomplete, or the
\* message is gone when its UPDATE comes (scalar_one).
Refused(r) ==
    LET c == call[r]
    IN  \/ pc[r] = "readScan" /\ ~ScanAdmits(c)
        \/ pc[r] = "readMessage" /\ messages[c.row] = Null
        \/ pc[r] = "readSession" /\ ~SessionAdmits(c)
        \/ pc[r] = "commit" /\ c.op = "confirmMessage" /\ messages[c.row] = Null

Refuse(r) == Refused(r) /\ Rollback(r)

\* A statement fails, the connection is lost, the process stops.
Crash(r) == Rollback(r)

-----------------------------------------------------------------------------

\* Clients ask for rows that exist when the request is sent; it may find them gone.
Arrive(r) ==
    \E u \in Users :
        \/ BeginScan(r, u)
        \/ \E i \in Ids :
            \/ sessions[i] # Null /\ (BeginSend(r, u, i) \/ BeginDrop(r, u, i))
            \/ \E overrides \in BOOLEAN :
                \/ scans[i] # Null /\ BeginConfirmScan(r, u, i, overrides)
                \/ messages[i] # Null /\ BeginConfirmMessage(r, u, i, overrides)

\* Mutant: the call to the model has no read timeout, and the model stays silent.
HearNothing(r) == FALSE

\* The model answers, or botocore's read timeout raises an error.
Hear(r) == \/ \E data \in Data : CompleteScan(r, data) \/ Answer(r, data)
           \/ FailScan(r)
           \/ FailSend(r)

Execute(r) ==
    \/ ReadScan(r) \/ ReadMessage(r) \/ ReadSession(r) \/ Snapshot(r)
    \/ CommitDrop(r) \/ CommitConfirmScan(r) \/ CommitConfirmMessage(r)
    \/ Refuse(r)

Next ==
    \/ \E r \in Requests : Arrive(r) \/ Hear(r) \/ Execute(r) \/ Crash(r)
    \/ \E u \in Users : CreateSession(u)
    \/ \E t \in txs : DeleteTransaction(t)

Spec == Init /\ [][Next]_vars /\ \A r \in Requests : WF_vars(Hear(r)) /\ WF_vars(Execute(r))

-----------------------------------------------------------------------------
(* Properties.                                                             *)

\* No scan is ever seen PENDING: the row and its outcome are committed together.
TypeOK ==
    /\ scans \in [Ids -> Scan \cup {Null}]
    /\ sessions \in [Ids -> Users \cup {Null}]
    /\ messages \in [Ids -> Message \cup {Null}]
    /\ txs \subseteq Ids
    /\ pc \in [Requests -> Points]
    /\ call \in [Requests -> Call \cup {Null}]
    /\ begun \in 0 .. MaxRequests
    /\ overlapped \subseteq SUBSET Ids
    /\ origin \in [Ids -> Ids \cup {Null}]
    /\ droppers \in [Ids -> SUBSET Ids]

Overlapped(i, j) == {i, j} \in overlapped

\* However confirmations interleave with one another, with deletes of the session and
\* of the transactions they made, a row gives rise to two transactions only when the
\* requests that made them were in flight at the same time: the test on the row and the
\* write into it keep any later confirmation out, whether or not the transaction lives on.
ConfirmedOnceUnlessRaced ==
    \A t, u \in Ids :
        t # u /\ origin[t] # Null /\ origin[u] = origin[t] => Overlapped(t, u)

\* A scan or message names a transaction exactly when one has been made from it, and then
\* one that was made from it; a failed scan and an answer without data never get one.
RowsNameTheirOwn ==
    \A i \in Ids : \A row \in {scans[i], messages[i]} \ {Null} :
        /\ row.tx = Null <=> \A t \in Ids : origin[t] # i
        /\ row.tx # Null => origin[row.tx] = i
        /\ row = scans[i] /\ row.tx # Null => row.status = "COMPLETED"
        /\ row = messages[i] /\ row.tx # Null => row.data # "none"

\* A message outlives its session only when its answer came while the session was being
\* deleted, and is confirmed, if at all, by a request that had found the session just before.
OrphansOnlyByLateAnswers ==
    \A i \in Ids :
        messages[i] # Null /\ sessions[messages[i].session] = Null =>
            \E d \in droppers[messages[i].session] :
                /\ Overlapped(i, d)
                /\ messages[i].tx # Null => Overlapped(messages[i].tx, d)

\* Every request ends, whatever rows disappear under it: a call to the model answers or
\* times out, and no wait for a row is circular.
RequestsEnd == \A r \in Requests : pc[r] # "idle" ~> pc[r] = "idle"
=============================================================================

------------------------- MODULE TransfersInvariant --------------------------
(***************************************************************************)
(* The inductive invariant behind the theorems of TransfersProofs.         *)
(***************************************************************************)
EXTENDS TransfersLedger

AssetOps == {"setBalance", "dropAsset"}

RowOps == {"update", "delete"}

\* The statements at which a request has locked its source, and its target.
FromLocked == {"writeTo", "writeRow", "commit"}
ToLocked == {"writeRow", "commit"}

\* The arguments fit the operation and the statement the request is at.
CallShape(r) ==
    LET c == call[r]
    IN  /\ pc[r] = "idle" <=> c = Null
        /\ pc[r] # "idle" =>
            /\ pc[r] = "readRow" => c.op \in RowOps
            /\ pc[r] = "readOwner" => c.op = "create"
            /\ pc[r] \in {"readFrom", "readTo", "writeFrom", "writeTo", "writeRow"}
                   => c.op \in TransferOps
            /\ pc[r] \in {"readAsset", "writeAsset"} => c.op \in AssetOps
            /\ c.op \in TransferOps => c.t \in TransferIds /\ c.t \in issued
            /\ c.op \in TransferOps /\ pc[r] # "readRow" =>
                   c.from \in Assets /\ c.to \in Assets /\ c.from # c.to
            /\ c.op \in AssetOps => c.from \in Assets /\ c.from \in issued
            /\ c.op = "create" => c.amount \in Nat \ {0} /\ c.fee \in Nat
            /\ c.op = "update" => c.amount \in (Nat \ {0}) \cup {Null} /\ c.fee \in Nat \cup {Null}

Shapes == \A r \in Requests : CallShape(r)

\* Ids are drawn once: an unused id has no row, and the row of a create in flight
\* does not exist yet and is nobody else's.
Identities ==
    /\ \A a \in Assets : a \notin issued => ~Live(a)
    /\ \A t \in TransferIds : t \notin issued => transfer[t] = Null
    /\ \A r \in Requests : pc[r] # "idle" /\ call[r].op = "create" =>
        /\ transfer[call[r].t] = Null
        /\ \A q \in Requests \ {r} :
               pc[q] # "idle" /\ call[q].op = "create" => call[q].t # call[r].t

\* A row that was read keeps its source and target as long as it exists.
RowsRead ==
    /\ \A t \in TransferIds : transfer[t] # Null => transfer[t].from # transfer[t].to
    /\ \A r \in Requests : pc[r] \notin {"idle", "readRow"} /\ call[r].op \in RowOps =>
        /\ seen[r].row \in TransferRow
        /\ seen[r].row.from = call[r].from /\ seen[r].row.to = call[r].to
        /\ transfer[call[r].t] # Null =>
               transfer[call[r].t].from = call[r].from /\ transfer[call[r].t].to = call[r].to
        /\ \A q \in Requests :
               pc[q] # "idle" /\ call[q].op = "create" => call[q].t # call[r].t

\* A lock is held by a request that has written the row, and what a request has
\* written exists until it ends.
LockDiscipline ==
    /\ \A r \in Requests, x \in Rows : lock[x] = r =>
        /\ pc[r] # "idle"
        /\ \/ x = call[r].from /\ call[r].op \in TransferOps /\ pc[r] \in FromLocked
           \/ x = call[r].to /\ call[r].op \in TransferOps /\ pc[r] \in ToLocked
           \/ x = call[r].t /\ call[r].op \in RowOps /\ pc[r] = "commit"
           \/ x = call[r].from /\ call[r].op \in AssetOps /\ pc[r] = "commit"
    /\ \A r \in Requests : pc[r] # "idle" =>
        /\ call[r].op \in TransferOps /\ pc[r] \in FromLocked =>
               lock[call[r].from] = r /\ Live(call[r].from)
        /\ call[r].op \in TransferOps /\ pc[r] \in ToLocked =>
               lock[call[r].to] = r /\ Live(call[r].to)
        /\ call[r].op = "update" /\ pc[r] = "commit" =>
               lock[call[r].t] = r /\ transfer[call[r].t] # Null
        /\ call[r].op = "delete" /\ pc[r] = "commit" =>
               lock[call[r].t] = r \/ transfer[call[r].t] = Null
        /\ call[r].op = "setBalance" /\ pc[r] = "commit" =>
               lock[call[r].from] = r /\ Live(call[r].from)
        /\ call[r].op = "dropAsset" /\ pc[r] = "commit" =>
               lock[call[r].from] = r \/ ~Live(call[r].from)

\* What a request remembers and nobody changed is what the database holds.
Fresh ==
    \A r \in Requests : pc[r] # "idle" /\ call[r].op \in TransferOps =>
        /\ call[r].op \in RowOps /\ pc[r] # "readRow" /\ call[r].t \notin stale[r] =>
               transfer[call[r].t] = seen[r].row
        /\ call[r].from \in Remembers(r) \ stale[r] =>
               Live(call[r].from) /\ Worth(asset[call[r].from].balance) = seen[r].from
        /\ call[r].to \in Remembers(r) \ stale[r] =>
               Live(call[r].to) /\ Worth(asset[call[r].to].balance) = seen[r].to

IInv == TypeOK /\ Shapes /\ Identities /\ RowsRead /\ LockDiscipline /\ Fresh /\ ExactUnlessRaced

-----------------------------------------------------------------------------
(* What else FamilyTransfersAreTagged and ImplementsAtomicLedger rest on.  *)

\* A create past its checks had the right to transfer.
Checked == {"readOwner", "writeFrom", "writeTo", "writeRow", "commit"}

Authorised ==
    \A r \in Requests : pc[r] \in Checked /\ call[r].op = "create" => MayTransfer(call[r])

\* The amounts of a request are those a client sent.
SentBy(c) ==
    /\ c.op = "create" => c.amount \in Amounts /\ c.fee \in Fees
    /\ c.op = "update" => c.amount \in Amounts \cup {Null} /\ c.fee \in Fees \cup {Null}
    /\ c.op = "setBalance" => c.amount \in Balances \cup {Null}

Sent == \A r \in Requests : pc[r] # "idle" => SentBy(call[r])

\* At most one request is in flight.
OneAtATime == \A q, r \in Requests : q = r

\* Nothing that was read is out of date.
UpToDate == \A r \in Requests : stale[r] = {}

LedgerInv == IInv /\ Authorised /\ FamilyTransfersAreTagged /\ Sent /\ (OneAtATime => UpToDate)
=============================================================================

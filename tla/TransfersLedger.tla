--------------------------- MODULE TransfersLedger ---------------------------
(***************************************************************************)
(* The properties of Transfers, stated with three history variables that   *)
(* no action of Transfers reads:                                           *)
(*                                                                         *)
(*   expected  what each balance would be had every committed request run  *)
(*             alone, at the moment of its commit                          *)
(*   stale     the rows a request has read that another request's commit   *)
(*             has changed since                                           *)
(*   raced     the assets written by a commit computed from such a row     *)
(*                                                                         *)
(* expected follows the transfer rows as they are at the commit, never the *)
(* balances the request computed.                                          *)
(***************************************************************************)
EXTENDS Transfers

VARIABLES expected, stale, raced

history == <<expected, stale, raced>>
lvars == <<vars, history>>

LInit ==
    /\ Init
    /\ expected = [a \in Assets |-> 0]
    /\ stale = [r \in Requests |-> {}]
    /\ raced = {}

\* The rows whose content r has in memory.
Remembers(r) ==
    {x \in Rows :
        \/ x = call[r].t /\ call[r].op \in {"update", "delete"} /\ pc[r] # "readRow"
        \/ /\ x = call[r].from /\ call[r].op \in TransferOps
           /\ pc[r] \in {"readTo", "readOwner", "writeFrom", "writeTo", "writeRow", "commit"}
        \/ /\ x = call[r].to /\ call[r].op \in TransferOps
           /\ pc[r] \in {"readOwner", "writeFrom", "writeTo", "writeRow", "commit"}}

\* The commit of r changes rows: whoever remembers one of them is out of date.
Outdate(r, rows) ==
    stale' = [q \in Requests |->
                 IF q = r \/ pc[q] = "idle" THEN {} ELSE stale[q] \cup (rows \cap Remembers(q))]

Forget(r) == stale' = [stale EXCEPT ![r] = {}]

\* What a transfer row takes from its source and gives to its target.
Effect(row, a) ==
    IF row = Null THEN 0
    ELSE (IF a = row.to THEN row.amount ELSE 0) - (IF a = row.from THEN row.amount + row.fee ELSE 0)

\* A committed create, update or delete replaces the row t: the ledger moves by
\* the difference of the two rows' effects.
LCommitTransfer(r) ==
    LET c == call[r]
        rows == {c.from, c.to, c.t}
        based(a) == stale[r] \cap {a, c.t} # {}
    IN  /\ CommitCreate(r) \/ CommitUpdate(r) \/ CommitDelete(r)
        /\ expected' = [a \in Assets |->
               expected[a] + Effect(transfer'[c.t], a) - Effect(transfer[c.t], a)]
        /\ raced' = raced \cup {a \in {c.from, c.to} : based(a)}
        /\ Outdate(r, rows)

\* A balance set by hand is exact again.
LCommitSetBalance(r) ==
    LET c == call[r]
    IN  /\ CommitSetBalance(r)
        /\ IF c.amount = Null
           THEN UNCHANGED <<expected, raced>> /\ Forget(r)
           ELSE /\ expected' = [expected EXCEPT ![c.from] = c.amount]
                /\ raced' = raced \ {c.from}
                /\ Outdate(r, {c.from})

LCommitDropAsset(r) ==
    /\ CommitDropAsset(r)
    /\ UNCHANGED <<expected, raced>>
    /\ Outdate(r, {call[r].from})

LEnd(r) ==
    /\ Refuse(r) \/ DeadlockAbort(r) \/ Crash(r)
    /\ UNCHANGED <<expected, raced>>
    /\ Forget(r)

LCreateAsset(a, b, g) ==
    /\ CreateAsset(a, b, g)
    /\ expected' = [expected EXCEPT ![a] = Worth(b)]
    /\ UNCHANGED <<stale, raced>>

LNext ==
    \/ \E r \in Requests :
          \/ (Arrive(r) \/ Read(r) \/ Write(r)) /\ UNCHANGED history
          \/ LCommitTransfer(r) \/ LCommitSetBalance(r) \/ LCommitDropAsset(r)
          \/ LEnd(r)
    \/ \E a \in Assets, b \in Balances \cup {Null}, g \in Groups \cup {Null} : LCreateAsset(a, b, g)
    \/ \E u \in Users, g \in Groups \cup {Null} : ChangeFamily(u, g) /\ UNCHANGED history

LSpec == LInit /\ [][LNext]_lvars

LFairSpec == LSpec /\ \A r \in Requests : WF_vars(Proceed(r))

-----------------------------------------------------------------------------
(* Properties.                                                             *)

\* Every variable holds a value of its type.
TypeOK ==
    /\ asset \in [Assets -> AssetRow \cup {Null}]
    /\ transfer \in [TransferIds -> TransferRow \cup {Null}]
    /\ lock \in [Rows -> Requests \cup {Null}]
    /\ issued \subseteq Rows
    /\ group \in [Users -> Groups \cup {Null}]
    /\ pc \in [Requests -> Points]
    /\ call \in [Requests -> Call \cup {Null}]
    /\ seen \in [Requests -> Seen]
    /\ begun \in 0 .. MaxRequests
    /\ expected \in [Assets -> Int]
    /\ stale \in [Requests -> SUBSET Rows]
    /\ raced \subseteq Assets

\* A balance is exactly what the committed requests add up to, unless one of them
\* was computed from a row that a concurrent request changed in between: lost
\* updates and deletes of a deleted transfer are the only ways to lose money.
ExactUnlessRaced ==
    \A a \in Assets \ raced : Live(a) => Worth(asset[a].balance) = expected[a]

\* The documented effect of DELETE /transfers/{id} ("the balances are restored"): the
\* commit of a delete moves the balances by exactly the effect of the row it removes.
DeleteRestores ==
    [][\A r \in Requests : CommitDelete(r) =>
          \A a \in Assets : Live(a) =>
              Worth(asset'[a].balance) = Worth(asset[a].balance) - Effect(transfer[call[r].t], a)]_vars

\* Requests only ever block each other for good while crediting the target of a
\* transfer whose target is another's source: sources are always locked first.
OnlyCrossedTransfersDeadlock ==
    \A r \in Requests : Deadlocked(r) =>
        /\ pc[r] = "writeTo"
        /\ \E q \in Requests \ {r} : pc[q] = "writeTo" /\ call[q].from = call[r].to

\* A transfer one of whose assets is gone can never again be changed or deleted:
\* its row survives every later request, however they interleave.
Orphaned(t) ==
    /\ transfer[t] # Null
    /\ ~(Live(transfer[t].from) /\ Live(transfer[t].to))

OrphansAreFrozen ==
    [][\A t \in TransferIds : Orphaned(t) => transfer'[t] = transfer[t]]_vars

\* A transfer carries a family group exactly when it leaves the owner's assets,
\* and its source belongs to the user who made it.
FamilyTransfersAreTagged ==
    \A t \in TransferIds : transfer[t] # Null =>
        LET row == transfer[t]
        IN  /\ Owner[row.from] = row.user
            /\ (row.group = Null) <=> (Owner[row.to] = row.user)

\* What AtomicLedger's client sees of the tables: balances and amounts, without the groups.
LedgerBalance == [a \in Assets |-> IF Live(a) THEN Worth(asset[a].balance) ELSE Null]

LedgerRow(row) ==
    IF row = Null THEN Null
    ELSE [from |-> row.from, to |-> row.to, amount |-> row.amount, fee |-> row.fee]

\* None is not a row of the ledger either.
LedgerEntry == [from : Assets, to : Assets, amount : Nat \ {0}, fee : Nat]

ASSUME LedgerAssumption == Null \notin LedgerEntry

LedgerRows == [t \in TransferIds |-> LedgerRow(transfer[t])]

\* One request at a time, the transfer API implements AtomicLedger.
Ledger == INSTANCE AtomicLedger WITH balance <- LedgerBalance, rows <- LedgerRows

\* Every committed request is one atomic operation of the ledger the API
\* documents, and nothing else moves a balance or a transfer.
ImplementsAtomicLedger == Ledger!ASpec

\* Every request is answered, however its row locks are contended.
RequestsEnd == \A r \in Requests : pc[r] # "idle" ~> pc[r] = "idle"
=============================================================================

------------------------------ MODULE Transfers ------------------------------
(***************************************************************************)
(* Account transfers (app/services/transfer_service.py) and the asset      *)
(* operations that touch the same rows (app/services/asset_service.py),    *)
(* executed by concurrent HTTP requests.                                   *)
(*                                                                         *)
(* A request runs in one database session (get_db): every await on a query *)
(* is a step of this module, so requests interleave at statements.  The    *)
(* database is PostgreSQL at READ COMMITTED: a read sees committed rows, an*)
(* UPDATE or DELETE locks its row until the session ends, a second writer  *)
(* of the row waits and then works on the new version of the row, and a    *)
(* request that ends without commit leaves nothing behind.                 *)
(*                                                                         *)
(* The balances a request writes are computed in Python from what it READ; *)
(* the UPDATE carries the result as a constant.                            *)
(***************************************************************************)
EXTENDS Integers

CONSTANTS
    Users,        \* rows of auth.users
    Groups,       \* ids of family groups
    Assets,       \* ids of assets, each used for at most one asset
    TransferIds,  \* ids of transfers, each used for at most one transfer
    Requests,     \* HTTP requests that may be in flight at the same time
    Owner,        \* the user_id of each asset; no operation changes it
    Shared,       \* the assets whose ownership is SHARED; the others are PERSONAL
    Amounts,      \* amounts a client sends (schema: > 0)
    Fees,         \* fees a client sends (schema: >= 0)
    Balances,     \* balances a client sets by hand
    Null,         \* Python's None, SQL's NULL, a row that does not exist
    MaxRequests   \* bound: how many requests are started in a behaviour

Rows == Assets \cup TransferIds

VARIABLES
    asset,     \* committed assets
    transfer,  \* committed transfers
    lock,      \* the request that holds the row lock, or Null
    issued,    \* ids already drawn: a UUID never returns
    group,     \* committed family_group_id of each user
    pc,        \* the statement each request is at
    call,      \* the request's arguments and the User row it loaded at its start
    seen,      \* what the request has read
    begun      \* requests started so far

vars == <<asset, transfer, lock, issued, group, pc, call, seen, begun>>

store == <<asset, transfer, lock, issued>>
env == <<group, begun>>

AssetRow == [balance : Int \cup {Null}, group : Groups \cup {Null}]

TransferRow == [user : Users, group : Groups \cup {Null}, from : Assets, to : Assets,
                amount : Nat \ {0}, fee : Nat]

Ops == {"create", "update", "delete", "setBalance", "dropAsset"}

\* An asset operation keeps its asset in "from" and its new balance in "amount".
Call == [op : Ops, user : Users, group : Groups \cup {Null},
         t : TransferIds \cup {Null}, from : Assets \cup {Null}, to : Assets \cup {Null},
         amount : Int \cup {Null}, fee : Int \cup {Null}]

ASSUME ConstantsAssumption ==
    /\ Owner \in [Assets -> Users]
    /\ Shared \subseteq Assets
    /\ Amounts \subseteq Nat \ {0}
    /\ Fees \subseteq Nat
    /\ Balances \subseteq Int
    /\ MaxRequests \in Nat
    /\ Assets \cap TransferIds = {}
    /\ Null \notin Int \cup Users \cup Groups \cup Rows \cup Requests
    /\ Null \notin AssetRow /\ Null \notin TransferRow /\ Null \notin Call

Seen == [row : TransferRow \cup {Null}, from : Int, to : Int]

Points == {"idle", "readRow", "readFrom", "readTo", "readOwner", "readAsset",
           "writeFrom", "writeTo", "writeRow", "writeAsset", "commit"}

TransferOps == {"create", "update", "delete"}

Nothing == [row |-> Null, from |-> 0, to |-> 0]

Live(a) == asset[a] # Null

\* Mutant: NULL is not read as 0.
WorthOfNull(b) == b

\* `balance or 0`
Worth(b) == IF b = Null THEN 0 ELSE b

-----------------------------------------------------------------------------
(* The balances each operation computes from what it read.                 *)

CreateBalances(c, s) ==
    [from |-> s.from - (c.amount + c.fee), to |-> s.to + c.amount]

\* The row after a partial update: only the fields the client sent.
Revised(row, c) ==
    [row EXCEPT !.amount = IF c.amount = Null THEN @ ELSE c.amount,
                !.fee = IF c.fee = Null THEN @ ELSE c.fee]

\* Mutant: the update forgets to give the old fee back.
UpdateKeepsOldFee(c, s) ==
    LET new == Revised(s.row, c)
    IN  [from |-> s.from + s.row.amount - (new.amount + new.fee),
         to   |-> s.to - s.row.amount + new.amount]

UpdateBalances(c, s) ==
    LET new == Revised(s.row, c)
    IN  [from |-> s.from + s.row.amount + s.row.fee - (new.amount + new.fee),
         to   |-> s.to - s.row.amount + new.amount]

\* Mutant: the fee stays charged when the transfer is deleted.
DeleteKeepsFee(c, s) ==
    [from |-> s.from + s.row.amount, to |-> s.to - s.row.amount]

DeleteBalances(c, s) ==
    [from |-> s.from + s.row.amount + s.row.fee, to |-> s.to - s.row.amount]

NewBalances(r) ==
    CASE call[r].op = "create" -> CreateBalances(call[r], seen[r])
      [] call[r].op = "update" -> UpdateBalances(call[r], seen[r])
      [] call[r].op = "delete" -> DeleteBalances(call[r], seen[r])

-----------------------------------------------------------------------------
(* Authorisation.                                                          *)

\* Mutant: the owner of the source is not compared with the caller.
MayTransferFromAny(c) == Owner[c.to] # c.user => c.group # Null

\* create: the source is the caller's; the target is too, or the caller (as
\* loaded when the request began) belongs to some family group.
MayTransfer(c) ==
    /\ Owner[c.from] = c.user
    /\ Owner[c.to] # c.user => c.group # Null

\* Whether the owner of the target, read now, is in the caller's group.
SameFamily(c) == group[Owner[c.to]] = c.group

\* AssetService._check_permission
Permitted(c) ==
    \/ c.from \notin Shared /\ Owner[c.from] = c.user
    \/ c.from \in Shared /\ c.group # Null /\ asset[c.from].group = c.group

-----------------------------------------------------------------------------
(* Sessions and row locks.                                                 *)

Init ==
    /\ asset = [a \in Assets |-> Null]
    /\ transfer = [t \in TransferIds |-> Null]
    /\ lock = [x \in Rows |-> Null]
    /\ issued = {}
    /\ group \in [Users -> Groups \cup {Null}]
    /\ pc = [r \in Requests |-> "idle"]
    /\ call = [r \in Requests |-> Null]
    /\ seen = [r \in Requests |-> Nothing]
    /\ begun = 0

Goto(r, p) == pc' = [pc EXCEPT ![r] = p]

\* A request arrives: the session opens and get_current_user loads the User.
Begin(r, c, p) ==
    /\ pc[r] = "idle"
    /\ begun < MaxRequests
    /\ begun' = begun + 1
    /\ call' = [call EXCEPT ![r] = c]
    /\ Goto(r, p)
    /\ UNCHANGED <<asset, transfer, lock, group, seen>>

\* Mutant: the session is left open, and so are its locks.
EndKeepsLocks(r) ==
    /\ Goto(r, "idle")
    /\ call' = [call EXCEPT ![r] = Null]
    /\ seen' = [seen EXCEPT ![r] = Nothing]
    /\ UNCHANGED <<lock, issued, env>>

\* The session closes; its locks are released.
End(r) ==
    /\ lock' = [x \in Rows |-> IF lock[x] = r THEN Null ELSE lock[x]]
    /\ Goto(r, "idle")
    /\ call' = [call EXCEPT ![r] = Null]
    /\ seen' = [seen EXCEPT ![r] = Nothing]
    /\ UNCHANGED <<issued, env>>

\* Nothing was committed: get_async_session closes the session, which rolls back.
Rollback(r) ==
    /\ pc[r] # "idle"
    /\ End(r)
    /\ UNCHANGED <<asset, transfer>>

\* An UPDATE or DELETE of row x gets its lock.
Acquire(r, x) ==
    /\ lock[x] = Null
    /\ lock' = [lock EXCEPT ![x] = r]

\* Mutant: delete credits the target back before it debits the source.
WantedReversed(r) ==
    CASE pc[r] = "writeFrom" -> IF call[r].op = "delete" THEN call[r].to ELSE call[r].from
      [] pc[r] = "writeTo" -> IF call[r].op = "delete" THEN call[r].from ELSE call[r].to
      [] pc[r] = "writeAsset" -> call[r].from
      [] pc[r] = "writeRow" /\ call[r].op # "create" -> call[r].t
      [] OTHER -> Null

\* The row whose lock the pending statement needs.
Wanted(r) ==
    CASE pc[r] = "writeFrom" -> call[r].from
      [] pc[r] = "writeTo" -> call[r].to
      [] pc[r] = "writeAsset" -> call[r].from
      [] pc[r] = "writeRow" /\ call[r].op # "create" -> call[r].t
      [] OTHER -> Null

WaitsFor(p, q) == p # q /\ Wanted(p) # Null /\ lock[Wanted(p)] = q

\* r is on a cycle of waits: a request waits for one row, whose lock has one holder.
Deadlocked(r) ==
    \E S \in SUBSET Requests :
        /\ r \in S
        /\ \A p \in S : \E q \in S : WaitsFor(p, q)
        /\ \A p \in S : \E q \in S : WaitsFor(q, p)

-----------------------------------------------------------------------------
(* Requests: POST, PUT and DELETE on /transfers, PUT and DELETE on /assets.*)

BeginCreate(r, u, t, from, to, amount, fee) ==
    /\ from # to
    /\ t \notin issued
    /\ issued' = issued \cup {t}
    /\ Begin(r, [op |-> "create", user |-> u, group |-> group[u], t |-> t, from |-> from,
                 to |-> to, amount |-> amount, fee |-> fee], "readFrom")

BeginUpdate(r, u, t, amount, fee) ==
    /\ t \in issued
    /\ Begin(r, [op |-> "update", user |-> u, group |-> group[u], t |-> t, from |-> Null,
                 to |-> Null, amount |-> amount, fee |-> fee], "readRow")
    /\ UNCHANGED issued

BeginDelete(r, u, t) ==
    /\ t \in issued
    /\ Begin(r, [op |-> "delete", user |-> u, group |-> group[u], t |-> t, from |-> Null,
                 to |-> Null, amount |-> Null, fee |-> Null], "readRow")
    /\ UNCHANGED issued

BeginSetBalance(r, u, a, b) ==
    /\ a \in issued
    /\ Begin(r, [op |-> "setBalance", user |-> u, group |-> group[u], t |-> Null, from |-> a,
                 to |-> Null, amount |-> b, fee |-> Null], "readAsset")
    /\ UNCHANGED issued

BeginDropAsset(r, u, a) ==
    /\ a \in issued
    /\ Begin(r, [op |-> "dropAsset", user |-> u, group |-> group[u], t |-> Null, from |-> a,
                 to |-> Null, amount |-> Null, fee |-> Null], "readAsset")
    /\ UNCHANGED issued

-----------------------------------------------------------------------------
(* The reads of a request.                                                 *)

\* update, delete: load the transfer; it names the two assets.
ReadRow(r) ==
    LET row == transfer[call[r].t]
    IN  /\ pc[r] = "readRow"
        /\ row # Null
        /\ row.user = call[r].user
        /\ seen' = [seen EXCEPT ![r].row = row]
        /\ call' = [call EXCEPT ![r].from = row.from, ![r].to = row.to]
        /\ Goto(r, "readFrom")
        /\ UNCHANGED <<store, env>>

\* create reports a missing asset; update and delete fail on the attribute of None.
ReadFrom(r) ==
    /\ pc[r] = "readFrom"
    /\ Live(call[r].from)
    /\ seen' = [seen EXCEPT ![r].from = Worth(asset[call[r].from].balance)]
    /\ Goto(r, "readTo")
    /\ UNCHANGED <<store, env, call>>

\* create goes on to read the target's owner when that is somebody else.
ReadTo(r) ==
    LET c == call[r]
    IN  /\ pc[r] = "readTo"
        /\ Live(c.to)
        /\ c.op = "create" => MayTransfer(c)
        /\ seen' = [seen EXCEPT ![r].to = Worth(asset[c.to].balance)]
        /\ Goto(r, IF c.op = "create" /\ Owner[c.to] # c.user THEN "readOwner" ELSE "writeFrom")
        /\ UNCHANGED <<store, env, call>>

ReadOwner(r) ==
    /\ pc[r] = "readOwner"
    /\ SameFamily(call[r])
    /\ Goto(r, "writeFrom")
    /\ UNCHANGED <<store, env, call, seen>>

ReadAsset(r) ==
    /\ pc[r] = "readAsset"
    /\ Live(call[r].from)
    /\ Permitted(call[r])
    /\ Goto(r, "writeAsset")
    /\ UNCHANGED <<store, env, call, seen>>

-----------------------------------------------------------------------------
(* The writes: they wait for the row lock; AssetRepository.update and      *)
(* TransferRepository.update fail when the row is gone (scalar_one).       *)

WriteFrom(r) ==
    /\ pc[r] = "writeFrom"
    /\ Live(call[r].from)
    /\ Acquire(r, Wanted(r))
    /\ Goto(r, "writeTo")
    /\ UNCHANGED <<asset, transfer, issued, env, call, seen>>

\* Mutant: the second balance is written without noticing that its row is gone.
WriteToUnchecked(r) ==
    /\ pc[r] = "writeTo"
    /\ Acquire(r, Wanted(r))
    /\ Goto(r, "writeRow")
    /\ UNCHANGED <<asset, transfer, issued, env, call, seen>>

WriteTo(r) ==
    /\ pc[r] = "writeTo"
    /\ Live(call[r].to)
    /\ Acquire(r, Wanted(r))
    /\ Goto(r, "writeRow")
    /\ UNCHANGED <<asset, transfer, issued, env, call, seen>>

\* INSERT waits for nobody; UPDATE and DELETE lock an existing row; the DELETE
\* of a row that is gone touches nothing and succeeds.
WriteRow(r) ==
    LET c == call[r]
    IN  /\ pc[r] = "writeRow"
        /\ \/ c.op = "create" /\ UNCHANGED lock
           \/ c.op \in {"update", "delete"} /\ transfer[c.t] # Null /\ Acquire(r, c.t)
           \/ c.op = "delete" /\ transfer[c.t] = Null /\ UNCHANGED lock
        /\ Goto(r, "commit")
        /\ UNCHANGED <<asset, transfer, issued, env, call, seen>>

WriteAsset(r) ==
    LET c == call[r]
    IN  /\ pc[r] = "writeAsset"
        /\ \/ Live(c.from) /\ Acquire(r, c.from)
           \/ c.op = "dropAsset" /\ ~Live(c.from) /\ UNCHANGED lock
        /\ Goto(r, "commit")
        /\ UNCHANGED <<asset, transfer, issued, env, call, seen>>

-----------------------------------------------------------------------------
(* `await db.commit()` in the endpoint makes the writes visible at once.   *)

\* An UPDATE changes the row it finds, if any.
CommitBalances(r) ==
    asset' = [a \in Assets |->
        IF Live(a) /\ a \in {call[r].from, call[r].to}
        THEN [asset[a] EXCEPT !.balance = IF a = call[r].from THEN NewBalances(r).from
                                          ELSE NewBalances(r).to]
        ELSE asset[a]]

CommitCreate(r) ==
    LET c == call[r]
    IN  /\ pc[r] = "commit" /\ c.op = "create"
        /\ CommitBalances(r)
        /\ transfer' = [transfer EXCEPT ![c.t] =
               [user |-> c.user, from |-> c.from, to |-> c.to, amount |-> c.amount, fee |-> c.fee,
                group |-> IF Owner[c.to] = c.user THEN Null ELSE c.group]]
        /\ End(r)

CommitUpdate(r) ==
    /\ pc[r] = "commit" /\ call[r].op = "update"
    /\ CommitBalances(r)
    /\ transfer' = [transfer EXCEPT ![call[r].t] = Revised(@, call[r])]
    /\ End(r)

CommitDelete(r) ==
    /\ pc[r] = "commit" /\ call[r].op = "delete"
    /\ CommitBalances(r)
    /\ transfer' = [transfer EXCEPT ![call[r].t] = Null]
    /\ End(r)

\* Only the fields the client sent are written; a body without balance leaves it.
CommitSetBalance(r) ==
    /\ pc[r] = "commit" /\ call[r].op = "setBalance"
    /\ asset' = IF call[r].amount = Null THEN asset
                ELSE [asset EXCEPT ![call[r].from].balance = call[r].amount]
    /\ UNCHANGED transfer
    /\ End(r)

CommitDropAsset(r) ==
    /\ pc[r] = "commit" /\ call[r].op = "dropAsset"
    /\ asset' = [asset EXCEPT ![call[r].from] = Null]
    /\ UNCHANGED transfer
    /\ End(r)

-----------------------------------------------------------------------------
(* How a request ends without commit.                                      *)

\* A service or repository raises: not found, forbidden, or scalar_one on no row.
Refused(r) ==
    LET c == call[r]
    IN  \/ pc[r] = "readRow" /\ (transfer[c.t] # Null => transfer[c.t].user # c.user)
        \/ pc[r] = "readFrom" /\ ~Live(c.from)
        \/ pc[r] = "readTo" /\ (~Live(c.to) \/ (c.op = "create" /\ ~MayTransfer(c)))
        \/ pc[r] = "readOwner" /\ ~SameFamily(c)
        \/ pc[r] = "readAsset" /\ (Live(c.from) => ~Permitted(c))
        \/ pc[r] = "writeFrom" /\ ~Live(c.from)
        \/ pc[r] = "writeTo" /\ ~Live(c.to)
        \/ pc[r] = "writeRow" /\ c.op = "update" /\ transfer[c.t] = Null
        \/ pc[r] = "writeAsset" /\ c.op = "setBalance" /\ ~Live(c.from)

Refuse(r) == Refused(r) /\ Rollback(r)

\* PostgreSQL aborts a statement whose wait is part of a cycle.
DeadlockAbort(r) == Deadlocked(r) /\ Rollback(r)

\* The process or the connection dies, or a statement fails (an amount beyond
\* INTEGER, an explicit null): at any point before the commit.
Crash(r) == Rollback(r)

-----------------------------------------------------------------------------
(* The rest of the system as these rows see it.                            *)

\* POST /assets: one INSERT and its commit.
CreateAsset(a, b, g) ==
    /\ a \notin issued
    /\ issued' = issued \cup {a}
    /\ asset' = [asset EXCEPT ![a] =
           [balance |-> b,
            group |-> IF g # Null THEN g ELSE IF a \in Shared THEN group[Owner[a]] ELSE Null]]
    /\ UNCHANGED <<transfer, lock, env, pc, call, seen>>

\* FamilyGroupService commits a membership change of user u.
ChangeFamily(u, g) ==
    /\ group[u] # g
    /\ begun < MaxRequests
    /\ begun' = begun + 1
    /\ group' = [group EXCEPT ![u] = g]
    /\ UNCHANGED <<store, pc, call, seen>>

-----------------------------------------------------------------------------

Arrive(r) ==
    \E u \in Users :
        \/ \E t \in TransferIds, from, to \in Assets, amount \in Amounts, fee \in Fees :
               BeginCreate(r, u, t, from, to, amount, fee)
        \/ \E t \in TransferIds, amount \in Amounts \cup {Null}, fee \in Fees \cup {Null} :
               BeginUpdate(r, u, t, amount, fee)
        \/ \E t \in TransferIds : BeginDelete(r, u, t)
        \/ \E a \in Assets, b \in Balances \cup {Null} : BeginSetBalance(r, u, a, b)
        \/ \E a \in Assets : BeginDropAsset(r, u, a)

Read(r) ==
    ReadRow(r) \/ ReadFrom(r) \/ ReadTo(r) \/ ReadOwner(r) \/ ReadAsset(r)

Write(r) ==
    WriteFrom(r) \/ WriteTo(r) \/ WriteRow(r) \/ WriteAsset(r)

Commit(r) ==
    \/ CommitCreate(r) \/ CommitUpdate(r) \/ CommitDelete(r)
    \/ CommitSetBalance(r) \/ CommitDropAsset(r)

Proceed(r) ==
    Read(r) \/ Write(r) \/ Commit(r) \/ Refuse(r) \/ DeadlockAbort(r)

Elsewhere ==
    \/ \E a \in Assets, b \in Balances \cup {Null}, g \in Groups \cup {Null} : CreateAsset(a, b, g)
    \/ \E u \in Users, g \in Groups \cup {Null} : ChangeFamily(u, g)

Next ==
    \/ \E r \in Requests : Arrive(r) \/ Proceed(r) \/ Crash(r)
    \/ Elsewhere

Spec == Init /\ [][Next]_vars

\* The event loop runs a request whose statement has returned, PostgreSQL grants
\* a free lock and breaks a deadlock.
FairSpec == Spec /\ \A r \in Requests : WF_vars(Proceed(r))
=============================================================================

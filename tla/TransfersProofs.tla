--------------------------- MODULE TransfersProofs ---------------------------
(***************************************************************************)
(* Theorems about TransfersLedger, for every value of its constants.       *)
(***************************************************************************)
EXTENDS TransfersInvariant, TLAPS

LEMMA InitIInv == LInit => IInv
  <1> SUFFICES ASSUME LInit PROVE IInv
    OBVIOUS
  <1> USE ConstantsAssumption DEF LInit, Init
  <1>1. TypeOK
    BY DEF TypeOK, Points, Seen, Nothing
  <1>2. Shapes /\ Identities /\ RowsRead /\ LockDiscipline /\ Fresh
    BY DEF Shapes, CallShape, Identities, RowsRead, LockDiscipline, Fresh, Live, Rows
  <1>3. ExactUnlessRaced
    BY DEF ExactUnlessRaced, Live
  <1> QED BY <1>1, <1>2, <1>3 DEF IInv

-----------------------------------------------------------------------------
(* The steps of LNext, summarised.                                         *)

\* What a request that arrives with call c at statement p looks like.
Arrival(c, p) ==
    /\ SentBy(c)
    /\ \/ /\ c.op = "create" /\ p = "readFrom"
          /\ c.t \in TransferIds /\ c.t \notin issued /\ issued' = issued \cup {c.t}
          /\ c.from \in Assets /\ c.to \in Assets /\ c.from # c.to
          /\ c.amount \in Nat \ {0} /\ c.fee \in Nat
       \/ /\ c.op \in RowOps /\ p = "readRow"
          /\ c.t \in TransferIds /\ c.t \in issued /\ UNCHANGED issued
          /\ c.amount \in (Nat \ {0}) \cup {Null} /\ c.fee \in Nat \cup {Null}
       \/ /\ c.op \in AssetOps /\ p = "readAsset"
          /\ c.from \in Assets /\ c.from \in issued /\ UNCHANGED issued

LEMMA ArriveIsArrival ==
  ASSUME TypeOK, NEW r \in Requests, Arrive(r)
  PROVE  \E c \in Call, p \in Points : Begin(r, c, p) /\ Arrival(c, p)
  <1> USE ConstantsAssumption DEF Call, Ops, Points, Arrival, SentBy, TypeOK
  <1> PICK u \in Users :
        \/ \E t \in TransferIds, from, to \in Assets, amount \in Amounts, fee \in Fees :
               BeginCreate(r, u, t, from, to, amount, fee)
        \/ \E t \in TransferIds, amount \in Amounts \cup {Null}, fee \in Fees \cup {Null} :
               BeginUpdate(r, u, t, amount, fee)
        \/ \E t \in TransferIds : BeginDelete(r, u, t)
        \/ \E a \in Assets, b \in Balances \cup {Null} : BeginSetBalance(r, u, a, b)
        \/ \E a \in Assets : BeginDropAsset(r, u, a)
    BY DEF Arrive
  <1> DEFINE g == group[u]
  <1>0. g \in Groups \cup {Null}
    OBVIOUS
  <1>1. ASSUME NEW t \in TransferIds, NEW from \in Assets, NEW to \in Assets,
               NEW amount \in Amounts, NEW fee \in Fees,
               BeginCreate(r, u, t, from, to, amount, fee)
        PROVE  \E c \in Call, p \in Points : Begin(r, c, p) /\ Arrival(c, p)
    <2> DEFINE c == [op |-> "create", user |-> u, group |-> g, t |-> t, from |-> from,
                     to |-> to, amount |-> amount, fee |-> fee]
    <2>1. c \in Call /\ Arrival(c, "readFrom")
      BY <1>0, <1>1 DEF BeginCreate
    <2>2. Begin(r, c, "readFrom")
      BY <1>1 DEF BeginCreate
    <2> HIDE DEF c
    <2> QED BY <2>1, <2>2
  <1>2. ASSUME NEW t \in TransferIds, NEW amount \in Amounts \cup {Null},
               NEW fee \in Fees \cup {Null}, BeginUpdate(r, u, t, amount, fee)
        PROVE  \E c \in Call, p \in Points : Begin(r, c, p) /\ Arrival(c, p)
    <2> DEFINE c == [op |-> "update", user |-> u, group |-> g, t |-> t, from |-> Null,
                     to |-> Null, amount |-> amount, fee |-> fee]
    <2>1. c \in Call /\ Arrival(c, "readRow")
      BY <1>0, <1>2 DEF BeginUpdate, RowOps
    <2>2. Begin(r, c, "readRow")
      BY <1>2 DEF BeginUpdate
    <2> HIDE DEF c
    <2> QED BY <2>1, <2>2
  <1>3. ASSUME NEW t \in TransferIds, BeginDelete(r, u, t)
        PROVE  \E c \in Call, p \in Points : Begin(r, c, p) /\ Arrival(c, p)
    <2> DEFINE c == [op |-> "delete", user |-> u, group |-> g, t |-> t, from |-> Null,
                     to |-> Null, amount |-> Null, fee |-> Null]
    <2>1. c \in Call /\ Arrival(c, "readRow")
      BY <1>0, <1>3 DEF BeginDelete, RowOps
    <2>2. Begin(r, c, "readRow")
      BY <1>3 DEF BeginDelete
    <2> HIDE DEF c
    <2> QED BY <2>1, <2>2
  <1>4. ASSUME NEW a \in Assets, NEW b \in Balances \cup {Null}, BeginSetBalance(r, u, a, b)
        PROVE  \E c \in Call, p \in Points : Begin(r, c, p) /\ Arrival(c, p)
    <2> DEFINE c == [op |-> "setBalance", user |-> u, group |-> g, t |-> Null, from |-> a,
                     to |-> Null, amount |-> b, fee |-> Null]
    <2>1. c \in Call /\ Arrival(c, "readAsset")
      BY <1>0, <1>4 DEF BeginSetBalance, AssetOps
    <2>2. Begin(r, c, "readAsset")
      BY <1>4 DEF BeginSetBalance
    <2> HIDE DEF c
    <2> QED BY <2>1, <2>2
  <1>5. ASSUME NEW a \in Assets, BeginDropAsset(r, u, a)
        PROVE  \E c \in Call, p \in Points : Begin(r, c, p) /\ Arrival(c, p)
    <2> DEFINE c == [op |-> "dropAsset", user |-> u, group |-> g, t |-> Null, from |-> a,
                     to |-> Null, amount |-> Null, fee |-> Null]
    <2>1. c \in Call /\ Arrival(c, "readAsset")
      BY <1>0, <1>5 DEF BeginDropAsset, AssetOps
    <2>2. Begin(r, c, "readAsset")
      BY <1>5 DEF BeginDropAsset
    <2> HIDE DEF c
    <2> QED BY <2>1, <2>2
  <1> QED BY <1>1, <1>2, <1>3, <1>4, <1>5

LEMMA RevisedIsRow ==
  ASSUME NEW row \in TransferRow, NEW c,
         c.amount \in (Nat \ {0}) \cup {Null}, c.fee \in Nat \cup {Null}
  PROVE  /\ Revised(row, c) \in TransferRow
         /\ Revised(row, c).from = row.from /\ Revised(row, c).to = row.to
         /\ Revised(row, c).user = row.user /\ Revised(row, c).group = row.group
         /\ Revised(row, c).amount = IF c.amount = Null THEN row.amount ELSE c.amount
         /\ Revised(row, c).fee = IF c.fee = Null THEN row.fee ELSE c.fee
  BY DEF Revised, TransferRow

LEMMA BalancesAreIntegers ==
  ASSUME TypeOK, Shapes, RowsRead, NEW r \in Requests, pc[r] = "commit",
         call[r].op \in TransferOps
  PROVE  NewBalances(r).from \in Int /\ NewBalances(r).to \in Int
  <1>0. seen[r] \in Seen /\ CallShape(r)
    BY DEF TypeOK, Shapes
  <1>1. CASE call[r].op = "create"
    <2>1. NewBalances(r) = CreateBalances(call[r], seen[r])
      BY <1>1 DEF NewBalances
    <2> QED BY <1>0, <1>1, <2>1 DEF CreateBalances, CallShape, Seen
  <1>2. CASE call[r].op = "update"
    <2>1. NewBalances(r) = UpdateBalances(call[r], seen[r])
      BY <1>2 DEF NewBalances
    <2>2. seen[r].row \in TransferRow
      BY <1>2 DEF RowsRead, RowOps
    <2>3. Revised(seen[r].row, call[r]) \in TransferRow
      BY <1>0, <1>2, <2>2, RevisedIsRow DEF CallShape
    <2> QED BY <1>0, <2>1, <2>2, <2>3 DEF UpdateBalances, Seen, TransferRow
  <1>3. CASE call[r].op = "delete"
    <2>1. NewBalances(r) = DeleteBalances(call[r], seen[r])
      BY <1>3 DEF NewBalances
    <2>2. seen[r].row \in TransferRow
      BY <1>3 DEF RowsRead, RowOps
    <2> QED BY <1>0, <2>1, <2>2 DEF DeleteBalances, Seen, TransferRow
  <1> QED BY <1>1, <1>2, <1>3 DEF TransferOps

-----------------------------------------------------------------------------
(* Type correctness.                                                       *)

LEMMA EndTypes ==
  ASSUME TypeOK, NEW r \in Requests, End(r)
  PROVE  /\ lock' \in [Rows -> Requests \cup {Null}]
         /\ issued' \subseteq Rows
         /\ group' \in [Users -> Groups \cup {Null}]
         /\ pc' \in [Requests -> Points]
         /\ call' \in [Requests -> Call \cup {Null}]
         /\ seen' \in [Requests -> Seen]
         /\ begun' \in 0 .. MaxRequests
  BY DEF TypeOK, End, Goto, env, Points, Seen, Nothing

LEMMA StaleTypes ==
  ASSUME TypeOK, NEW r \in Requests, NEW rows
  PROVE  /\ Outdate(r, rows) => stale' \in [Requests -> SUBSET Rows]
         /\ Forget(r) => stale' \in [Requests -> SUBSET Rows]
  BY DEF TypeOK, Outdate, Forget, Remembers

LEMMA ReadTypes ==
  ASSUME TypeOK, Shapes, NEW r \in Requests, Read(r), UNCHANGED history
  PROVE  TypeOK'
  <1> USE DEF TypeOK, Goto, store, env, history, Points
  <1>0. CallShape(r)
    BY DEF Shapes
  <1>1. CASE ReadRow(r)
    <2>1. transfer[call[r].t] \in TransferRow /\ call[r] \in Call
      BY <1>0, <1>1 DEF ReadRow, CallShape, RowOps, TransferOps
    <2>2. seen' \in [Requests -> Seen]
      <3> DEFINE now == [seen[r] EXCEPT !.row = transfer[call[r].t]]
      <3>1. seen' = [seen EXCEPT ![r] = now]
        BY <1>1 DEF ReadRow
      <3>2. seen[r] \in Seen
        BY DEF TypeOK
      <3>3. now \in Seen
        BY <2>1, <3>2 DEF Seen
      <3> HIDE DEF now
      <3> QED BY <3>1, <3>3 DEF TypeOK
    <2>3. call' \in [Requests -> Call \cup {Null}]
      BY <1>1, <2>1 DEF ReadRow, Call, TransferRow
    <2> QED BY <1>1, <2>2, <2>3 DEF ReadRow
  <1>2. CASE ReadFrom(r)
    <2>1. call[r].from \in Assets
      BY <1>0, <1>2 DEF ReadFrom, CallShape
    <2>2. Worth(asset[call[r].from].balance) \in Int
      BY <1>2, <2>1 DEF ReadFrom, Worth, Live, AssetRow
    <2>3. seen' \in [Requests -> Seen]
      BY <1>2, <2>2 DEF ReadFrom, Seen
    <2> QED BY <1>2, <2>3 DEF ReadFrom
  <1>3. CASE ReadTo(r)
    <2>1. call[r].to \in Assets
      BY <1>0, <1>3 DEF ReadTo, CallShape
    <2>2. Worth(asset[call[r].to].balance) \in Int
      BY <1>3, <2>1 DEF ReadTo, Worth, Live, AssetRow
    <2>3. seen' \in [Requests -> Seen]
      BY <1>3, <2>2 DEF ReadTo, Seen
    <2> QED BY <1>3, <2>3 DEF ReadTo
  <1>4. CASE ReadOwner(r)
    BY <1>4 DEF ReadOwner
  <1>5. CASE ReadAsset(r)
    BY <1>5 DEF ReadAsset
  <1> QED BY <1>1, <1>2, <1>3, <1>4, <1>5 DEF Read

LEMMA WriteTypes ==
  ASSUME TypeOK, Shapes, NEW r \in Requests, Write(r), UNCHANGED history
  PROVE  TypeOK'
  <1> USE DEF TypeOK, Goto, Acquire, env, history, Points
  <1>1. CASE WriteFrom(r)
    BY <1>1 DEF WriteFrom
  <1>2. CASE WriteTo(r)
    BY <1>2 DEF WriteTo
  <1>3. CASE WriteRow(r)
    BY <1>3 DEF WriteRow
  <1>4. CASE WriteAsset(r)
    BY <1>4 DEF WriteAsset
  <1> QED BY <1>1, <1>2, <1>3, <1>4 DEF Write

LEMMA CommitBalancesTypes ==
  ASSUME TypeOK, Shapes, RowsRead, NEW r \in Requests, pc[r] = "commit",
         call[r].op \in TransferOps, CommitBalances(r)
  PROVE  asset' \in [Assets -> AssetRow \cup {Null}]
  <1>1. NewBalances(r).from \in Int /\ NewBalances(r).to \in Int
    BY BalancesAreIntegers
  <1>2. ASSUME NEW a \in Assets PROVE asset'[a] \in AssetRow \cup {Null}
    <2>1. CASE asset[a] = Null
      BY <2>1 DEF CommitBalances, Live
    <2>2. CASE asset[a] # Null
      <3>1. asset[a] \in AssetRow
        BY <2>2 DEF TypeOK
      <3>2. PICK b \in Int :
              asset'[a] = [asset[a] EXCEPT !.balance = b] \/ asset'[a] = asset[a]
        BY <1>1 DEF CommitBalances
      <3> QED BY <3>1, <3>2 DEF AssetRow
    <2> QED BY <2>1, <2>2
  <1> QED BY <1>2 DEF CommitBalances

\* A commit of a transfer request replaces at most the row of its transfer.
LEMMA CommitRowTypes ==
  ASSUME TypeOK, Shapes, LockDiscipline, NEW r \in Requests,
         CommitCreate(r) \/ CommitUpdate(r) \/ CommitDelete(r)
  PROVE  /\ pc[r] = "commit" /\ call[r].op \in TransferOps
         /\ CommitBalances(r) /\ End(r)
         /\ call[r].t \in TransferIds
         /\ transfer' \in [TransferIds -> TransferRow \cup {Null}]
         /\ \A t \in TransferIds \ {call[r].t} : transfer'[t] = transfer[t]
  <1>1. pc[r] = "commit" /\ call[r].op \in TransferOps /\ CommitBalances(r) /\ End(r)
    BY DEF CommitCreate, CommitUpdate, CommitDelete, TransferOps
  <1>2. CallShape(r) /\ call[r] \in Call
    BY <1>1 DEF Shapes, CallShape, TypeOK
  <1>3. call[r].t \in TransferIds
    BY <1>1, <1>2 DEF CallShape
  <1>4. CASE CommitCreate(r)
    <2>1. call[r].op = "create"
      BY <1>4 DEF CommitCreate
    <2>2. PICK g \in Groups \cup {Null} :
            transfer' = [transfer EXCEPT ![call[r].t] =
              [user |-> call[r].user, from |-> call[r].from, to |-> call[r].to,
               amount |-> call[r].amount, fee |-> call[r].fee, group |-> g]]
      BY <1>2, <1>4 DEF CommitCreate, Call
    <2>3. [user |-> call[r].user, from |-> call[r].from, to |-> call[r].to,
           amount |-> call[r].amount, fee |-> call[r].fee, group |-> g] \in TransferRow
      BY <1>1, <1>2, <2>1 DEF CallShape, TransferOps, TransferRow, Call
    <2> QED BY <1>1, <1>3, <2>2, <2>3 DEF TypeOK
  <1>5. CASE CommitUpdate(r)
    <2>1. call[r].op = "update" /\ transfer' = [transfer EXCEPT ![call[r].t] =
             Revised(transfer[call[r].t], call[r])]
      BY <1>5 DEF CommitUpdate
    <2>2. transfer[call[r].t] \in TransferRow
      BY <1>1, <1>3, <2>1 DEF LockDiscipline, TypeOK
    <2>3. Revised(transfer[call[r].t], call[r]) \in TransferRow
      BY <1>1, <1>2, <2>1, <2>2, RevisedIsRow DEF CallShape
    <2> QED BY <1>1, <1>3, <2>1, <2>3 DEF TypeOK
  <1>6. CASE CommitDelete(r)
    BY <1>1, <1>3, <1>6 DEF CommitDelete, TypeOK
  <1> QED BY <1>4, <1>5, <1>6

LEMMA EffectIsInteger ==
  ASSUME NEW row \in TransferRow \cup {Null}, NEW a
  PROVE  Effect(row, a) \in Int
  BY DEF Effect, TransferRow

LEMMA CommitTypes ==
  ASSUME TypeOK, Shapes, RowsRead, LockDiscipline, NEW r \in Requests,
         LCommitTransfer(r) \/ LCommitSetBalance(r) \/ LCommitDropAsset(r)
  PROVE  TypeOK'
  <1>0. CallShape(r)
    BY DEF Shapes
  <1>1. CASE LCommitTransfer(r)
    <2>0. CommitCreate(r) \/ CommitUpdate(r) \/ CommitDelete(r)
      BY <1>1 DEF LCommitTransfer
    <2>1. /\ pc[r] = "commit" /\ call[r].op \in TransferOps
          /\ CommitBalances(r) /\ End(r)
          /\ call[r].t \in TransferIds
          /\ transfer' \in [TransferIds -> TransferRow \cup {Null}]
      BY <2>0, CommitRowTypes
    <2>2. asset' \in [Assets -> AssetRow \cup {Null}]
      BY <2>1, CommitBalancesTypes
    <2>3. expected' \in [Assets -> Int]
      <3>1. \A a \in Assets : Effect(transfer'[call[r].t], a) \in Int
                              /\ Effect(transfer[call[r].t], a) \in Int
        BY <2>1, EffectIsInteger DEF TypeOK
      <3> QED BY <1>1, <3>1 DEF LCommitTransfer, TypeOK
    <2>4. raced' \subseteq Assets
      BY <1>0, <1>1, <2>1 DEF LCommitTransfer, TypeOK, CallShape
    <2>5. stale' \in [Requests -> SUBSET Rows]
      BY <1>1, StaleTypes DEF LCommitTransfer
    <2> QED BY <2>1, <2>2, <2>3, <2>4, <2>5, EndTypes DEF TypeOK
  <1>2. CASE LCommitSetBalance(r)
    <2>1. CommitSetBalance(r) /\ End(r) /\ UNCHANGED transfer
      BY <1>2 DEF LCommitSetBalance, CommitSetBalance
    <2>2. call[r].from \in Assets /\ call[r].amount \in Int \cup {Null} /\ Live(call[r].from)
      BY <1>0, <2>1 DEF CommitSetBalance, CallShape, AssetOps, TypeOK, Call, LockDiscipline
    <2>3. asset' \in [Assets -> AssetRow \cup {Null}]
      <3>1. asset[call[r].from] \in AssetRow
        BY <2>2 DEF TypeOK, Live
      <3>2. CASE call[r].amount = Null
        BY <2>1, <3>2 DEF CommitSetBalance, TypeOK
      <3>3. CASE call[r].amount # Null
        <4>1. [asset[call[r].from] EXCEPT !.balance = call[r].amount] \in AssetRow
          BY <2>2, <3>1, <3>3 DEF AssetRow
        <4>2. asset' = [asset EXCEPT ![call[r].from] =
                          [asset[call[r].from] EXCEPT !.balance = call[r].amount]]
          BY <2>1, <3>3 DEF CommitSetBalance
        <4> QED BY <4>1, <4>2 DEF TypeOK
      <3> QED BY <3>2, <3>3
    <2>4. stale' \in [Requests -> SUBSET Rows]
      BY <1>2, StaleTypes DEF LCommitSetBalance
    <2>5. expected' \in [Assets -> Int] /\ raced' \subseteq Assets
      BY <1>2, <2>2 DEF LCommitSetBalance, TypeOK
    <2> QED BY <2>1, <2>3, <2>4, <2>5, EndTypes DEF TypeOK
  <1>3. CASE LCommitDropAsset(r)
    <2>1. CommitDropAsset(r) /\ End(r) /\ UNCHANGED <<transfer, expected, raced>>
      BY <1>3 DEF LCommitDropAsset, CommitDropAsset
    <2>2. asset' \in [Assets -> AssetRow \cup {Null}]
      BY <2>1 DEF CommitDropAsset, TypeOK
    <2>3. stale' \in [Requests -> SUBSET Rows]
      BY <1>3, StaleTypes DEF LCommitDropAsset
    <2> QED BY <2>1, <2>2, <2>3, EndTypes DEF TypeOK
  <1> QED BY <1>1, <1>2, <1>3

LEMMA EndIsRollback ==
  ASSUME NEW r \in Requests, LEnd(r)
  PROVE  pc[r] # "idle" /\ End(r) /\ Forget(r) /\ UNCHANGED <<asset, transfer, expected, raced>>
  BY DEF LEnd, Refuse, DeadlockAbort, Crash, Rollback

LEMMA TypeStep == IInv /\ [LNext]_lvars => TypeOK'
  <1> SUFFICES ASSUME IInv, [LNext]_lvars PROVE TypeOK'
    OBVIOUS
  <1>0. TypeOK /\ Shapes /\ RowsRead /\ LockDiscipline
    BY DEF IInv
  <1>1. ASSUME NEW r \in Requests, Arrive(r), UNCHANGED history PROVE TypeOK'
    <2>1. PICK c \in Call, p \in Points : Begin(r, c, p) /\ Arrival(c, p)
      BY <1>0, <1>1, ArriveIsArrival
    <2>2. issued' \subseteq Rows
      BY <1>0, <2>1 DEF Arrival, TypeOK, Rows
    <2>3. begun' \in 0 .. MaxRequests
      BY <1>0, <2>1, ConstantsAssumption DEF Begin, TypeOK
    <2> QED BY <1>0, <1>1, <2>1, <2>2, <2>3 DEF Begin, TypeOK, Goto, history
  <1>2. ASSUME NEW r \in Requests, Read(r) \/ Write(r), UNCHANGED history PROVE TypeOK'
    BY <1>0, <1>2, ReadTypes, WriteTypes
  <1>3. ASSUME NEW r \in Requests,
               LCommitTransfer(r) \/ LCommitSetBalance(r) \/ LCommitDropAsset(r)
        PROVE  TypeOK'
    BY <1>0, <1>3, CommitTypes
  <1>4. ASSUME NEW r \in Requests, LEnd(r) PROVE TypeOK'
    <2>1. End(r) /\ Forget(r) /\ UNCHANGED <<asset, transfer, expected, raced>>
      BY <1>4, EndIsRollback
    <2> QED BY <1>0, <2>1, EndTypes, StaleTypes DEF TypeOK
  <1>5. ASSUME NEW a \in Assets, NEW b \in Balances \cup {Null}, NEW g \in Groups \cup {Null},
               LCreateAsset(a, b, g)
        PROVE  TypeOK'
    <2>1. PICK h \in Groups \cup {Null} : asset' = [asset EXCEPT ![a] = [balance |-> b, group |-> h]]
      BY <1>0, <1>5, ConstantsAssumption DEF LCreateAsset, CreateAsset, TypeOK
    <2>2. asset' \in [Assets -> AssetRow \cup {Null}]
      BY <1>0, <2>1, ConstantsAssumption DEF TypeOK, AssetRow
    <2>3. expected' \in [Assets -> Int]
      BY <1>0, <1>5, ConstantsAssumption DEF TypeOK, LCreateAsset, Worth
    <2> QED BY <1>0, <1>5, <2>2, <2>3 DEF TypeOK, LCreateAsset, CreateAsset, env, Rows
  <1>6. ASSUME NEW u \in Users, NEW g \in Groups \cup {Null}, ChangeFamily(u, g), UNCHANGED history
        PROVE  TypeOK'
    BY <1>0, <1>6, ConstantsAssumption DEF TypeOK, ChangeFamily, store, history
  <1>7. CASE UNCHANGED lvars
    BY <1>0, <1>7 DEF TypeOK, lvars, vars, history
  <1> QED BY <1>1, <1>2, <1>3, <1>4, <1>5, <1>6, <1>7 DEF LNext

-----------------------------------------------------------------------------
(* The arguments of the requests keep their shape.                         *)

LEMMA ShapeFrame ==
  ASSUME NEW q \in Requests, CallShape(q), pc'[q] = pc[q], call'[q] = call[q],
         issued \subseteq issued'
  PROVE  CallShape(q)'
  BY DEF CallShape

\* Only one request moves in a step, and ids are never given back.
LEMMA OthersStay ==
  ASSUME TypeOK, NEW r \in Requests,
         \/ Arrive(r) \/ Read(r) \/ Write(r) \/ LEnd(r)
         \/ LCommitTransfer(r) \/ LCommitSetBalance(r) \/ LCommitDropAsset(r)
  PROVE  /\ \A q \in Requests \ {r} : pc'[q] = pc[q] /\ call'[q] = call[q] /\ seen'[q] = seen[q]
         /\ issued \subseteq issued'
  <1> USE DEF TypeOK, Goto
  <1>1. ASSUME Arrive(r) PROVE \A q \in Requests \ {r} : pc'[q] = pc[q] /\ call'[q] = call[q]
                                                         /\ seen'[q] = seen[q]
    <2>1. PICK c \in Call, p \in Points : Begin(r, c, p) /\ Arrival(c, p)
      BY <1>1, ArriveIsArrival
    <2> QED BY <2>1 DEF Begin
  <1>2. ASSUME Arrive(r) PROVE issued \subseteq issued'
    <2>1. PICK c \in Call, p \in Points : Begin(r, c, p) /\ Arrival(c, p)
      BY <1>2, ArriveIsArrival
    <2> QED BY <2>1 DEF Arrival
  <1>3. CASE Read(r)
    BY <1>3 DEF Read, ReadRow, ReadFrom, ReadTo, ReadOwner, ReadAsset, store, env
  <1>4. CASE Write(r)
    BY <1>4 DEF Write, WriteFrom, WriteTo, WriteRow, WriteAsset, env
  <1>5. CASE \/ LEnd(r) \/ LCommitTransfer(r) \/ LCommitSetBalance(r) \/ LCommitDropAsset(r)
    <2>1. End(r)
      BY <1>5, EndIsRollback DEF LCommitTransfer, LCommitSetBalance, LCommitDropAsset,
         CommitCreate, CommitUpdate, CommitDelete, CommitSetBalance, CommitDropAsset
    <2> QED BY <2>1 DEF End
  <1> QED BY <1>1, <1>2, <1>3, <1>4, <1>5

\* A request that ends returns to the state of an idle one.
LEMMA Ended ==
  ASSUME TypeOK, NEW r \in Requests,
         LEnd(r) \/ LCommitTransfer(r) \/ LCommitSetBalance(r) \/ LCommitDropAsset(r)
  PROVE  /\ End(r)
         /\ pc'[r] = "idle" /\ call'[r] = Null
         /\ \A x \in Rows : lock'[x] = IF lock[x] = r THEN Null ELSE lock[x]
         /\ issued' = issued /\ group' = group
  <1>1. End(r)
    BY EndIsRollback DEF LCommitTransfer, LCommitSetBalance, LCommitDropAsset,
       CommitCreate, CommitUpdate, CommitDelete, CommitSetBalance, CommitDropAsset
  <1> QED BY <1>1 DEF End, TypeOK, Goto, env

LEMMA ShapesStep == IInv /\ [LNext]_lvars => Shapes'
  <1> SUFFICES ASSUME IInv, [LNext]_lvars, NEW q \in Requests PROVE CallShape(q)'
    BY DEF Shapes
  <1>0. TypeOK /\ Shapes /\ RowsRead /\ Identities /\ CallShape(q)
    BY DEF IInv, Shapes
  <1>1. ASSUME NEW r \in Requests, Arrive(r) PROVE CallShape(q)'
    <2>1. CASE q # r
      BY <1>0, <1>1, <2>1, OthersStay, ShapeFrame
    <2>2. CASE q = r
      <3>1. PICK c \in Call, p \in Points : Begin(r, c, p) /\ Arrival(c, p)
        BY <1>0, <1>1, ArriveIsArrival
      <3>2. pc'[q] = p /\ call'[q] = c /\ c # Null /\ p # "idle"
        BY <1>0, <2>2, <3>1, ConstantsAssumption DEF Begin, Goto, TypeOK, Arrival
      <3> QED BY <3>1, <3>2 DEF CallShape, Arrival, RowOps, AssetOps, TransferOps
    <2> QED BY <2>1, <2>2
  <1>2. ASSUME NEW r \in Requests, Read(r) PROVE CallShape(q)'
    <2>1. CASE q # r
      BY <1>0, <1>2, <2>1, OthersStay, ShapeFrame
    <2>2. CASE q = r
      <3> USE <1>0, <2>2 DEF Goto, store, env
      <3>1. CASE ReadRow(r)
        <4>1. /\ pc[q] = "readRow" /\ pc'[q] = "readFrom" /\ issued' = issued
              /\ call'[q] = [call[q] EXCEPT !.from = transfer[call[q].t].from,
                                            !.to = transfer[call[q].t].to]
          BY <3>1 DEF ReadRow, TypeOK
        <4>2. call[q] \in Call /\ call[q].op \in RowOps /\ call[q].t \in TransferIds
          BY <4>1 DEF CallShape, TypeOK, RowOps, TransferOps
        <4>3. transfer[call[q].t] \in TransferRow
              /\ transfer[call[q].t].from # transfer[call[q].t].to
          BY <3>1, <4>2 DEF ReadRow, TypeOK, RowsRead
        <4>4. /\ call'[q].op = call[q].op /\ call'[q].t = call[q].t
              /\ call'[q].amount = call[q].amount /\ call'[q].fee = call[q].fee
              /\ call'[q].from \in Assets /\ call'[q].to \in Assets
              /\ call'[q].from # call'[q].to
              /\ call'[q] \in Call
          BY <4>1, <4>2, <4>3 DEF Call, TransferRow
        <4> QED BY <4>1, <4>2, <4>4, ConstantsAssumption
                DEF CallShape, RowOps, TransferOps, AssetOps
      <3>2. CASE ReadFrom(r)
        BY <3>2 DEF ReadFrom, TypeOK, CallShape
      <3>3. CASE ReadTo(r)
        BY <3>3 DEF ReadTo, TypeOK, CallShape
      <3>4. CASE ReadOwner(r)
        BY <3>4 DEF ReadOwner, TypeOK, CallShape, TransferOps
      <3>5. CASE ReadAsset(r)
        BY <3>5 DEF ReadAsset, TypeOK, CallShape
      <3> QED BY <1>2, <3>1, <3>2, <3>3, <3>4, <3>5 DEF Read
    <2> QED BY <2>1, <2>2
  <1>3. ASSUME NEW r \in Requests, Write(r) PROVE CallShape(q)'
    <2>1. CASE q # r
      BY <1>0, <1>3, <2>1, OthersStay, ShapeFrame
    <2>2. CASE q = r
      <3> USE <1>0, <2>2 DEF Goto, env, TypeOK, CallShape
      <3>1. CASE WriteFrom(r)
        BY <3>1 DEF WriteFrom
      <3>2. CASE WriteTo(r)
        BY <3>2 DEF WriteTo
      <3>3. CASE WriteRow(r)
        BY <3>3 DEF WriteRow
      <3>4. CASE WriteAsset(r)
        BY <3>4 DEF WriteAsset
      <3> QED BY <1>3, <3>1, <3>2, <3>3, <3>4 DEF Write
    <2> QED BY <2>1, <2>2
  <1>4. ASSUME NEW r \in Requests,
               LEnd(r) \/ LCommitTransfer(r) \/ LCommitSetBalance(r) \/ LCommitDropAsset(r)
        PROVE  CallShape(q)'
    <2>1. CASE q # r
      BY <1>0, <1>4, <2>1, OthersStay, ShapeFrame
    <2>2. CASE q = r
      BY <1>0, <1>4, <2>2, Ended DEF CallShape
    <2> QED BY <2>1, <2>2
  <1>5. ASSUME NEW a \in Assets, NEW b \in Balances \cup {Null}, NEW g \in Groups \cup {Null},
               LCreateAsset(a, b, g)
        PROVE  CallShape(q)'
    BY <1>0, <1>5, ShapeFrame DEF LCreateAsset, CreateAsset
  <1>6. ASSUME NEW u \in Users, NEW g \in Groups \cup {Null}, ChangeFamily(u, g)
        PROVE  CallShape(q)'
    BY <1>0, <1>6, ShapeFrame DEF ChangeFamily, store
  <1>7. CASE UNCHANGED lvars
    BY <1>0, <1>7, ShapeFrame DEF lvars, vars
  <1> QED BY <1>1, <1>2, <1>3, <1>4, <1>5, <1>6, <1>7 DEF LNext

-----------------------------------------------------------------------------
(* What a step does to the database.                                       *)

\* A transfer's commit brings no asset back and removes none.
LEMMA TransfersKeepAssets ==
  ASSUME TypeOK, Shapes, RowsRead, NEW r \in Requests, pc[r] = "commit",
         call[r].op \in TransferOps, CommitBalances(r), NEW a \in Assets
  PROVE  Live(a)' <=> Live(a)
  <1>1. NewBalances(r).from \in Int /\ NewBalances(r).to \in Int
    BY BalancesAreIntegers
  <1>2. CASE ~Live(a)
    BY <1>2 DEF CommitBalances, Live
  <1>3. CASE Live(a)
    <2>1. asset[a] \in AssetRow
      BY <1>3 DEF TypeOK, Live
    <2>2. PICK b \in Int : asset'[a] = [asset[a] EXCEPT !.balance = b] \/ asset'[a] = asset[a]
      BY <1>1 DEF CommitBalances
    <2>3. asset'[a] \in AssetRow
      BY <2>1, <2>2 DEF AssetRow
    <2> QED BY <1>3, <2>3, ConstantsAssumption DEF Live
  <1> QED BY <1>2, <1>3

\* Only the commit of a dropAsset removes an asset, and only a new id gets one.
LEMMA AssetsComeAndGo ==
  ASSUME IInv, [LNext]_lvars, NEW a \in Assets
  PROVE  /\ Live(a)' /\ ~Live(a) => a \notin issued /\ a \in issued'
         /\ Live(a) /\ ~Live(a)' =>
              \E r \in Requests : pc[r] = "commit" /\ call[r].op = "dropAsset" /\ call[r].from = a
                                  /\ LCommitDropAsset(r)
  <1> DEFINE P == /\ Live(a)' /\ ~Live(a) => a \notin issued /\ a \in issued'
                  /\ Live(a) /\ ~Live(a)' =>
                       \E r \in Requests : pc[r] = "commit" /\ call[r].op = "dropAsset"
                                           /\ call[r].from = a /\ LCommitDropAsset(r)
  <1>0. TypeOK /\ Shapes /\ RowsRead /\ LockDiscipline
    BY DEF IInv
  <1>1. ASSUME UNCHANGED asset PROVE P
    BY <1>1 DEF Live
  <1>2. ASSUME NEW r \in Requests, Arrive(r) PROVE UNCHANGED asset
    BY <1>2 DEF Arrive, Begin, BeginCreate, BeginUpdate, BeginDelete, BeginSetBalance,
                BeginDropAsset
  <1>3. ASSUME NEW r \in Requests, Read(r) \/ Write(r) PROVE UNCHANGED asset
    BY <1>3 DEF Read, ReadRow, ReadFrom, ReadTo, ReadOwner, ReadAsset, store,
                Write, WriteFrom, WriteTo, WriteRow, WriteAsset
  <1>4. ASSUME NEW r \in Requests, LCommitTransfer(r) PROVE P
    <2>1. CommitCreate(r) \/ CommitUpdate(r) \/ CommitDelete(r)
      BY <1>4 DEF LCommitTransfer
    <2>2. pc[r] = "commit" /\ call[r].op \in TransferOps /\ CommitBalances(r)
      BY <1>0, <2>1, CommitRowTypes
    <2>3. Live(a)' <=> Live(a)
      BY <1>0, <2>2, TransfersKeepAssets
    <2> QED BY <2>3
  <1>5. ASSUME NEW r \in Requests, LCommitSetBalance(r) PROVE P
    <2>1. CommitSetBalance(r) /\ pc[r] = "commit" /\ call[r].op = "setBalance" /\ call[r] # Null
      BY <1>0, <1>5 DEF LCommitSetBalance, CommitSetBalance, Shapes, CallShape
    <2>2. Live(call[r].from) /\ call[r].from \in Assets /\ call[r].amount \in Int \cup {Null}
      BY <1>0, <2>1 DEF LockDiscipline, Shapes, CallShape, AssetOps, TypeOK, Call
    <2>3. CASE a = call[r].from /\ call[r].amount # Null
      <3>1. asset[a] \in AssetRow
        BY <1>0, <2>2, <2>3 DEF TypeOK, Live
      <3>2. asset'[a] = [asset[a] EXCEPT !.balance = call[r].amount]
        BY <1>0, <2>1, <2>3 DEF CommitSetBalance, TypeOK
      <3>3. asset'[a] \in AssetRow
        BY <2>2, <3>1, <3>2 DEF AssetRow
      <3> QED BY <2>2, <2>3, <3>3, ConstantsAssumption DEF Live
    <2>4. CASE a # call[r].from \/ call[r].amount = Null
      <3>1. asset'[a] = asset[a]
        BY <1>0, <2>1, <2>4 DEF CommitSetBalance, TypeOK
      <3> QED BY <3>1 DEF Live
    <2> QED BY <2>3, <2>4
  <1>6. ASSUME NEW r \in Requests, LCommitDropAsset(r) PROVE P
    BY <1>0, <1>6 DEF LCommitDropAsset, CommitDropAsset, TypeOK, Live
  <1>7. ASSUME NEW r \in Requests, LEnd(r) PROVE UNCHANGED asset
    BY <1>7, EndIsRollback
  <1>8. ASSUME NEW x \in Assets, NEW b \in Balances \cup {Null}, NEW g \in Groups \cup {Null},
               LCreateAsset(x, b, g)
        PROVE  P
    <2>1. PICK h \in Groups \cup {Null} :
            asset' = [asset EXCEPT ![x] = [balance |-> b, group |-> h]]
      BY <1>0, <1>8, ConstantsAssumption DEF LCreateAsset, CreateAsset, TypeOK
    <2>2. [balance |-> b, group |-> h] \in AssetRow
      BY ConstantsAssumption DEF AssetRow
    <2>3. x \notin issued /\ x \in issued'
      BY <1>8 DEF LCreateAsset, CreateAsset
    <2> QED BY <1>0, <2>1, <2>2, <2>3, ConstantsAssumption DEF TypeOK, Live
  <1>9. ASSUME NEW u \in Users, NEW g \in Groups \cup {Null}, ChangeFamily(u, g)
        PROVE  UNCHANGED asset
    BY <1>9 DEF ChangeFamily, store
  <1>10. ASSUME UNCHANGED lvars PROVE P
    BY <1>1, <1>10 DEF lvars, vars
  <1> HIDE DEF P
  <1>11. P
    BY <1>1, <1>2, <1>3, <1>4, <1>5, <1>6, <1>7, <1>8, <1>9, <1>10 DEF LNext
  <1> QED BY <1>11 DEF P

\* A transfer changes in the commit of a request on it, and keeps its source and target.
LEMMA RowChanges ==
  ASSUME IInv, [LNext]_lvars, NEW t \in TransferIds, transfer'[t] # transfer[t]
  PROVE  \E r \in Requests :
            /\ LCommitTransfer(r) /\ call[r].t = t /\ pc[r] = "commit"
            /\ call[r].op \in TransferOps /\ CommitBalances(r) /\ End(r)
            /\ \/ /\ call[r].op = "create" /\ transfer[t] = Null /\ transfer'[t] \in TransferRow
                  /\ transfer'[t].from = call[r].from /\ transfer'[t].to = call[r].to
                  /\ transfer'[t].amount = call[r].amount /\ transfer'[t].fee = call[r].fee
               \/ /\ call[r].op = "update" /\ transfer[t] \in TransferRow
                  /\ transfer'[t] = Revised(transfer[t], call[r])
               \/ /\ call[r].op = "delete" /\ transfer'[t] = Null
  <1>0. TypeOK /\ Shapes /\ RowsRead /\ LockDiscipline /\ Identities
    BY DEF IInv
  <1>1. ASSUME NEW r \in Requests, Arrive(r) PROVE UNCHANGED transfer
    BY <1>1 DEF Arrive, Begin, BeginCreate, BeginUpdate, BeginDelete, BeginSetBalance,
                BeginDropAsset
  <1>2. ASSUME NEW r \in Requests, Read(r) \/ Write(r) PROVE UNCHANGED transfer
    BY <1>2 DEF Read, ReadRow, ReadFrom, ReadTo, ReadOwner, ReadAsset, store,
                Write, WriteFrom, WriteTo, WriteRow, WriteAsset
  <1>3. ASSUME NEW r \in Requests, LEnd(r) \/ LCommitSetBalance(r) \/ LCommitDropAsset(r)
        PROVE UNCHANGED transfer
    BY <1>3, EndIsRollback
       DEF LCommitSetBalance, LCommitDropAsset, CommitSetBalance, CommitDropAsset
  <1>4. ASSUME NEW x \in Assets, NEW b \in Balances \cup {Null}, NEW g \in Groups \cup {Null},
               LCreateAsset(x, b, g)
        PROVE  UNCHANGED transfer
    BY <1>4 DEF LCreateAsset, CreateAsset
  <1>5. ASSUME NEW u \in Users, NEW g \in Groups \cup {Null}, ChangeFamily(u, g)
        PROVE  UNCHANGED transfer
    BY <1>5 DEF ChangeFamily, store
  <1>6. ~ UNCHANGED lvars
    BY DEF lvars, vars
  <1>7. PICK r \in Requests : LCommitTransfer(r)
    BY <1>1, <1>2, <1>3, <1>4, <1>5, <1>6 DEF LNext
  <1>8. CommitCreate(r) \/ CommitUpdate(r) \/ CommitDelete(r)
    BY <1>7 DEF LCommitTransfer
  <1>9. /\ pc[r] = "commit" /\ call[r].op \in TransferOps /\ CommitBalances(r) /\ End(r)
        /\ call[r].t = t
    BY <1>0, <1>8, CommitRowTypes
  <1>10. call[r] \in Call /\ CallShape(r)
    BY <1>0, <1>9 DEF Shapes, CallShape, TypeOK
  <1>11. CASE CommitCreate(r)
    <2>1. call[r].op = "create" /\ transfer[t] = Null
      BY <1>0, <1>9, <1>11 DEF CommitCreate, Identities
    <2>2. PICK g \in Groups \cup {Null} :
            transfer' = [transfer EXCEPT ![call[r].t] =
              [user |-> call[r].user, from |-> call[r].from, to |-> call[r].to,
               amount |-> call[r].amount, fee |-> call[r].fee, group |-> g]]
      BY <1>10, <1>11 DEF CommitCreate, Call
    <2>3. transfer'[t] = [user |-> call[r].user, from |-> call[r].from, to |-> call[r].to,
                          amount |-> call[r].amount, fee |-> call[r].fee, group |-> g]
      BY <1>0, <1>9, <2>2 DEF TypeOK
    <2>4. transfer'[t] \in TransferRow
      BY <1>9, <1>10, <2>1, <2>3 DEF CallShape, TransferOps, TransferRow, Call
    <2> QED BY <1>7, <1>9, <2>1, <2>3, <2>4
  <1>12. CASE CommitUpdate(r)
    <2>1. call[r].op = "update" /\ transfer'[t] = Revised(transfer[t], call[r])
      BY <1>0, <1>9, <1>12 DEF CommitUpdate, TypeOK
    <2>2. transfer[t] \in TransferRow
      BY <1>0, <1>9, <2>1 DEF LockDiscipline, TypeOK
    <2> QED BY <1>7, <1>9, <2>1, <2>2
  <1>13. CASE CommitDelete(r)
    <2>1. call[r].op = "delete" /\ transfer'[t] = Null
      BY <1>0, <1>9, <1>13 DEF CommitDelete, TypeOK
    <2> QED BY <1>7, <1>9, <2>1
  <1> QED BY <1>8, <1>11, <1>12, <1>13

LEMMA IssuedGrows == IInv /\ [LNext]_lvars => issued \subseteq issued'
  <1> SUFFICES ASSUME IInv, [LNext]_lvars PROVE issued \subseteq issued'
    OBVIOUS
  <1>0. TypeOK
    BY DEF IInv
  <1>1. ASSUME NEW r \in Requests,
               \/ Arrive(r) \/ Read(r) \/ Write(r) \/ LEnd(r)
               \/ LCommitTransfer(r) \/ LCommitSetBalance(r) \/ LCommitDropAsset(r)
        PROVE  issued \subseteq issued'
    BY <1>0, <1>1, OthersStay
  <1> QED BY <1>1 DEF LNext, LCreateAsset, CreateAsset, ChangeFamily, store, lvars, vars

\* A request in flight after a step was in flight before it, with the same arguments, or
\* has just arrived.
LEMMA CallsPersist ==
  ASSUME IInv, [LNext]_lvars, NEW r \in Requests, pc'[r] # "idle"
  PROVE  \/ /\ pc[r] # "idle"
            /\ call'[r].op = call[r].op /\ call'[r].t = call[r].t
            /\ pc[r] # "readRow" => call'[r] = call[r] /\ pc'[r] # "readRow"
         \/ /\ pc[r] = "idle" /\ Arrival(call'[r], pc'[r])
            /\ UNCHANGED <<asset, transfer, lock, seen, expected, stale, raced>>
            /\ \A q \in Requests \ {r} : pc'[q] = pc[q] /\ call'[q] = call[q]
  <1> DEFINE P == \/ /\ pc[r] # "idle"
                     /\ call'[r].op = call[r].op /\ call'[r].t = call[r].t
                     /\ pc[r] # "readRow" => call'[r] = call[r] /\ pc'[r] # "readRow"
                  \/ /\ pc[r] = "idle" /\ Arrival(call'[r], pc'[r])
                     /\ UNCHANGED <<asset, transfer, lock, seen, expected, stale, raced>>
                     /\ \A q \in Requests \ {r} : pc'[q] = pc[q] /\ call'[q] = call[q]
  <1>0. TypeOK /\ Shapes
    BY DEF IInv
  <1>1. ASSUME pc'[r] = pc[r], call'[r] = call[r] PROVE P
    BY <1>1
  <1>2. ASSUME NEW q \in Requests, Arrive(q), UNCHANGED history PROVE P
    <2>1. CASE q # r
      BY <1>0, <1>1, <1>2, <2>1, OthersStay
    <2>2. CASE q = r
      <3>1. PICK c \in Call, p \in Points : Begin(r, c, p) /\ Arrival(c, p)
        BY <1>0, <1>2, <2>2, ArriveIsArrival
      <3>2. pc[r] = "idle" /\ pc'[r] = p /\ call'[r] = c
        BY <1>0, <3>1 DEF Begin, Goto, TypeOK
      <3>3. \A s \in Requests \ {r} : pc'[s] = pc[s] /\ call'[s] = call[s]
        BY <1>0, <1>2, <2>2, OthersStay
      <3> QED BY <1>2, <3>1, <3>2, <3>3 DEF Begin, history
    <2> QED BY <2>1, <2>2
  <1>3. ASSUME NEW q \in Requests, Read(q) PROVE P
    <2>1. CASE q # r
      BY <1>0, <1>1, <1>3, <2>1, OthersStay
    <2>2. CASE q = r
      <3>1. CASE ReadRow(r)
        <4>1. pc[r] = "readRow" /\ call[r] \in Call
          BY <1>0, <3>1 DEF ReadRow, Shapes, CallShape, TypeOK
        <4>2. call'[r] = [call[r] EXCEPT !.from = transfer[call[r].t].from,
                                         !.to = transfer[call[r].t].to]
          BY <1>0, <3>1 DEF ReadRow, TypeOK
        <4> QED BY <4>1, <4>2 DEF Call
      <3>2. CASE ReadFrom(r) \/ ReadTo(r) \/ ReadOwner(r) \/ ReadAsset(r)
        BY <1>0, <3>2 DEF ReadFrom, ReadTo, ReadOwner, ReadAsset, Goto, TypeOK
      <3> QED BY <1>3, <2>2, <3>1, <3>2 DEF Read
    <2> QED BY <2>1, <2>2
  <1>4. ASSUME NEW q \in Requests, Write(q) PROVE P
    <2>1. CASE q # r
      BY <1>0, <1>1, <1>4, <2>1, OthersStay
    <2>2. CASE q = r
      BY <1>0, <1>4, <2>2 DEF Write, WriteFrom, WriteTo, WriteRow, WriteAsset, Goto, TypeOK
    <2> QED BY <2>1, <2>2
  <1>5. ASSUME NEW q \in Requests,
               LEnd(q) \/ LCommitTransfer(q) \/ LCommitSetBalance(q) \/ LCommitDropAsset(q)
        PROVE  P
    <2>1. CASE q # r
      BY <1>0, <1>1, <1>5, <2>1, OthersStay
    <2>2. CASE q = r
      BY <1>0, <1>5, <2>2, Ended
    <2> QED BY <2>1, <2>2
  <1>6. ASSUME NEW a \in Assets, NEW b \in Balances \cup {Null}, NEW g \in Groups \cup {Null},
               LCreateAsset(a, b, g)
        PROVE  P
    BY <1>1, <1>6 DEF LCreateAsset, CreateAsset
  <1>7. ASSUME NEW u \in Users, NEW g \in Groups \cup {Null}, ChangeFamily(u, g) PROVE P
    BY <1>1, <1>7 DEF ChangeFamily
  <1>8. ASSUME UNCHANGED lvars PROVE P
    BY <1>1, <1>8 DEF lvars, vars
  <1> HIDE DEF P
  <1>9. P
    BY <1>2, <1>3, <1>4, <1>5, <1>6, <1>7, <1>8 DEF LNext
  <1> QED BY <1>9 DEF P

-----------------------------------------------------------------------------
(* Identities and rows read.                                               *)

LEMMA IdentitiesStep == IInv /\ [LNext]_lvars => Identities'
  <1> SUFFICES ASSUME IInv, [LNext]_lvars PROVE Identities'
    OBVIOUS
  <1>0. TypeOK /\ Shapes /\ Identities /\ RowsRead /\ issued \subseteq issued'
    BY IssuedGrows DEF IInv
  <1>1. ASSUME NEW a \in Assets, a \notin issued' PROVE ~Live(a)'
    BY <1>0, <1>1, AssetsComeAndGo DEF Identities
  <1>2. ASSUME NEW t \in TransferIds, t \notin issued' PROVE transfer'[t] = Null
    <2>1. transfer[t] = Null
      BY <1>0, <1>2 DEF Identities
    <2>2. \A r \in Requests : pc[r] = "commit" /\ call[r].op \in TransferOps => call[r].t # t
      BY <1>0, <1>2 DEF Shapes, CallShape
    <2> QED BY <2>1, <2>2, RowChanges
  <1>3. ASSUME NEW r \in Requests, pc'[r] # "idle", call'[r].op = "create"
        PROVE  transfer'[call'[r].t] = Null
    <2>1. CASE pc[r] # "idle" /\ call'[r].op = call[r].op /\ call'[r].t = call[r].t
      <3>1. transfer[call[r].t] = Null /\ call[r].t \in TransferIds
        BY <1>0, <1>3, <2>1 DEF Identities, Shapes, CallShape, TransferOps
      <3>2. SUFFICES ASSUME transfer'[call[r].t] # transfer[call[r].t] PROVE FALSE
        BY <2>1, <3>1
      <3>3. PICK q \in Requests :
              /\ LCommitTransfer(q) /\ call[q].t = call[r].t /\ pc[q] = "commit"
              /\ call[q].op \in TransferOps
        BY <3>1, <3>2, RowChanges
      <3>4. q # r
        BY <1>0, <1>3, <3>3, Ended
      <3>5. CASE call[q].op = "create"
        BY <1>0, <1>3, <2>1, <3>3, <3>4, <3>5 DEF Identities
      <3>6. CASE call[q].op \in RowOps
        BY <1>0, <1>3, <2>1, <3>3, <3>6 DEF RowsRead
      <3> QED BY <3>3, <3>5, <3>6 DEF TransferOps, RowOps
    <2>2. CASE Arrival(call'[r], pc'[r]) /\ UNCHANGED transfer
      BY <1>0, <1>3, <2>2 DEF Arrival, Identities, RowOps, AssetOps
    <2> QED BY <1>3, <2>1, <2>2, CallsPersist
  <1>4. ASSUME NEW r \in Requests, pc'[r] # "idle", call'[r].op = "create",
               NEW q \in Requests \ {r}, pc'[q] # "idle", call'[q].op = "create"
        PROVE  call'[q].t # call'[r].t
    <2>1. CASE pc[r] # "idle" /\ pc[q] # "idle"
      BY <1>0, <1>4, <2>1, CallsPersist DEF Identities
    <2>2. CASE pc[r] = "idle"
      <3>1. call'[r].t \notin issued /\ pc'[q] = pc[q] /\ call'[q] = call[q]
        BY <1>4, <2>2, CallsPersist DEF Arrival, RowOps, AssetOps
      <3>2. call[q].t \in issued
        BY <1>0, <1>4, <3>1 DEF Shapes, CallShape, TransferOps
      <3> QED BY <3>1, <3>2
    <2>3. CASE pc[q] = "idle"
      <3>1. call'[q].t \notin issued /\ pc'[r] = pc[r] /\ call'[r] = call[r]
        BY <1>4, <2>3, CallsPersist DEF Arrival, RowOps, AssetOps
      <3>2. call[r].t \in issued
        BY <1>0, <1>4, <3>1 DEF Shapes, CallShape, TransferOps
      <3> QED BY <3>1, <3>2
    <2> QED BY <2>1, <2>2, <2>3
  <1> QED BY <1>1, <1>2, <1>3, <1>4 DEF Identities

\* A request in flight after a step stood still, took a step of its own, or arrived.
LEMMA Moves ==
  ASSUME IInv, [LNext]_lvars, NEW r \in Requests, pc'[r] # "idle"
  PROVE  \/ pc[r] # "idle" /\ pc'[r] = pc[r] /\ call'[r] = call[r] /\ seen'[r] = seen[r]
         \/ pc[r] # "idle" /\ (Read(r) \/ Write(r)) /\ UNCHANGED history
         \/ pc[r] = "idle" /\ Arrive(r) /\ UNCHANGED history
  <1> DEFINE S == pc'[r] = pc[r] /\ call'[r] = call[r] /\ seen'[r] = seen[r]
  <1>0. TypeOK
    BY DEF IInv
  <1>1. ASSUME NEW q \in Requests \ {r},
               \/ Arrive(q) \/ Read(q) \/ Write(q) \/ LEnd(q)
               \/ LCommitTransfer(q) \/ LCommitSetBalance(q) \/ LCommitDropAsset(q)
        PROVE  S
    BY <1>0, <1>1, OthersStay
  <1>2. ~(LEnd(r) \/ LCommitTransfer(r) \/ LCommitSetBalance(r) \/ LCommitDropAsset(r))
    BY <1>0, Ended
  <1>3. ASSUME NEW a \in Assets, NEW b \in Balances \cup {Null}, NEW g \in Groups \cup {Null},
               LCreateAsset(a, b, g)
        PROVE  S
    BY <1>3 DEF LCreateAsset, CreateAsset
  <1>4. ASSUME NEW u \in Users, NEW g \in Groups \cup {Null}, ChangeFamily(u, g) PROVE S
    BY <1>4 DEF ChangeFamily
  <1>5. ASSUME UNCHANGED lvars PROVE S
    BY <1>5 DEF lvars, vars
  <1>6. Read(r) \/ Write(r) => pc[r] # "idle"
    BY DEF Read, ReadRow, ReadFrom, ReadTo, ReadOwner, ReadAsset,
           Write, WriteFrom, WriteTo, WriteRow, WriteAsset
  <1>7. Arrive(r) => pc[r] = "idle"
    BY DEF Arrive, Begin, BeginCreate, BeginUpdate, BeginDelete, BeginSetBalance, BeginDropAsset
  <1> HIDE DEF S
  <1>8. S \/ ((Read(r) \/ Write(r) \/ Arrive(r)) /\ UNCHANGED history)
    BY <1>1, <1>2, <1>3, <1>4, <1>5 DEF LNext
  <1> QED BY <1>6, <1>7, <1>8 DEF S

LEMMA RowsReadStep == IInv /\ [LNext]_lvars => RowsRead'
  <1> SUFFICES ASSUME IInv, [LNext]_lvars PROVE RowsRead'
    OBVIOUS
  <1>0. TypeOK /\ Shapes /\ Identities /\ RowsRead
    BY DEF IInv
  <1>1. ASSUME NEW t \in TransferIds, transfer'[t] # Null
        PROVE  /\ transfer'[t].from # transfer'[t].to
               /\ transfer[t] # Null => transfer'[t].from = transfer[t].from
                                        /\ transfer'[t].to = transfer[t].to
    <2>1. CASE transfer'[t] = transfer[t]
      BY <1>0, <1>1, <2>1 DEF RowsRead
    <2>2. CASE transfer'[t] # transfer[t]
      <3>1. PICK r \in Requests :
              /\ pc[r] = "commit" /\ call[r].op \in TransferOps
              /\ \/ /\ call[r].op = "create" /\ transfer[t] = Null
                    /\ transfer'[t].from = call[r].from /\ transfer'[t].to = call[r].to
                 \/ /\ call[r].op = "update" /\ transfer[t] \in TransferRow
                    /\ transfer'[t] = Revised(transfer[t], call[r])
        BY <1>1, <2>2, RowChanges
      <3>2. CASE call[r].op = "create"
        BY <1>0, <3>1, <3>2 DEF Shapes, CallShape
      <3>3. CASE call[r].op = "update"
        <4>1. CallShape(r) /\ transfer[t] \in TransferRow /\ transfer[t] # Null
          BY <1>0, <3>1, <3>3, ConstantsAssumption DEF Shapes
        <4>2. Revised(transfer[t], call[r]).from = transfer[t].from
              /\ Revised(transfer[t], call[r]).to = transfer[t].to
          BY <3>1, <3>3, <4>1, RevisedIsRow DEF CallShape
        <4> QED BY <1>0, <3>1, <3>3, <4>1, <4>2 DEF RowsRead
      <3> QED BY <3>1, <3>2, <3>3
    <2> QED BY <2>1, <2>2
  <1>2. ASSUME NEW r \in Requests, pc'[r] \notin {"idle", "readRow"}, call'[r].op \in RowOps
        PROVE  /\ call'[r].t \in TransferIds /\ call'[r].t \in issued
               /\ seen'[r].row \in TransferRow
               /\ seen'[r].row.from = call'[r].from /\ seen'[r].row.to = call'[r].to
               /\ transfer'[call'[r].t] # Null =>
                    transfer'[call'[r].t].from = call'[r].from
                    /\ transfer'[call'[r].t].to = call'[r].to
               /\ \A q \in Requests : pc[q] # "idle" /\ call[q].op = "create" =>
                      call[q].t # call'[r].t
    <2>1. CASE ReadRow(r)
      <3>1. pc[r] = "readRow" /\ call[r] \in Call /\ CallShape(r)
        BY <1>0, <2>1 DEF ReadRow, Shapes, CallShape, TypeOK
      <3>2. call[r].op \in RowOps /\ call[r].t \in TransferIds /\ call[r].t \in issued
        BY <3>1 DEF CallShape, RowOps, TransferOps
      <3>3. transfer[call[r].t] \in TransferRow /\ transfer' = transfer
        BY <1>0, <2>1, <3>2 DEF ReadRow, TypeOK, store
      <3>4. /\ call'[r] = [call[r] EXCEPT !.from = transfer[call[r].t].from,
                                          !.to = transfer[call[r].t].to]
            /\ seen'[r] = [seen[r] EXCEPT !.row = transfer[call[r].t]]
            /\ seen[r] \in Seen
        BY <1>0, <2>1 DEF ReadRow, TypeOK
      <3>5. /\ call'[r].t = call[r].t /\ call'[r].from = transfer[call[r].t].from
            /\ call'[r].to = transfer[call[r].t].to
        BY <3>1, <3>4 DEF Call
      <3>6. seen'[r].row = transfer[call[r].t]
        BY <3>4 DEF Seen
      <3>7. \A q \in Requests : pc[q] # "idle" /\ call[q].op = "create" => call[q].t # call[r].t
        BY <1>0, <2>1 DEF ReadRow, Identities
      <3> QED BY <3>2, <3>3, <3>5, <3>6, <3>7
    <2>2. CASE /\ pc[r] \notin {"idle", "readRow"} /\ call'[r] = call[r]
               /\ seen'[r].row = seen[r].row
      <3>1. call[r].t \in TransferIds /\ call[r].t \in issued
        BY <1>0, <1>2, <2>2 DEF Shapes, CallShape, RowOps, TransferOps
      <3>2. transfer'[call[r].t] # Null => transfer[call[r].t] # Null
        <4> SUFFICES ASSUME transfer'[call[r].t] # Null, transfer[call[r].t] = Null PROVE FALSE
          OBVIOUS
        <4>1. PICK q \in Requests :
                pc[q] = "commit" /\ call[q].t = call[r].t /\ call[q].op = "create"
          BY <3>1, RowChanges, ConstantsAssumption
        <4> QED BY <1>0, <1>2, <2>2, <4>1 DEF RowsRead
      <3> QED BY <1>0, <1>1, <1>2, <2>2, <3>1, <3>2 DEF RowsRead
    <2>3. CASE pc[r] # "idle" /\ pc'[r] = pc[r] /\ call'[r] = call[r] /\ seen'[r] = seen[r]
      BY <1>2, <2>2, <2>3
    <2>4. CASE ReadFrom(r) \/ ReadTo(r) \/ ReadOwner(r) \/ ReadAsset(r) \/ Write(r)
      <3>1. seen'[r].row = seen[r].row
        BY <1>0, <2>4 DEF TypeOK, Seen, ReadFrom, ReadTo, ReadOwner, ReadAsset, Write,
                          WriteFrom, WriteTo, WriteRow, WriteAsset
      <3>2. pc[r] \notin {"idle", "readRow"}
        BY <2>4 DEF ReadFrom, ReadTo, ReadOwner, ReadAsset, Write,
                    WriteFrom, WriteTo, WriteRow, WriteAsset
      <3>3. call'[r] = call[r]
        BY <2>4 DEF ReadFrom, ReadTo, ReadOwner, ReadAsset, Write,
                    WriteFrom, WriteTo, WriteRow, WriteAsset
      <3> QED BY <2>2, <3>1, <3>2, <3>3
    <2>5. ~(pc[r] = "idle" /\ Arrive(r))
      <3> SUFFICES ASSUME pc[r] = "idle", Arrive(r) PROVE FALSE
        OBVIOUS
      <3>1. Arrival(call'[r], pc'[r])
        BY <1>2, CallsPersist
      <3> QED BY <1>2, <3>1 DEF Arrival, RowOps, AssetOps
    <2> QED BY <1>2, <2>1, <2>3, <2>4, <2>5, Moves DEF Read
  <1>3. ASSUME NEW r \in Requests, pc'[r] \notin {"idle", "readRow"}, call'[r].op \in RowOps,
               NEW q \in Requests, pc'[q] # "idle", call'[q].op = "create"
        PROVE  call'[q].t # call'[r].t
    <2>1. CASE pc[q] # "idle" /\ call'[q].op = call[q].op /\ call'[q].t = call[q].t
      BY <1>2, <1>3, <2>1
    <2>2. CASE Arrival(call'[q], pc'[q])
      BY <1>2, <1>3, <2>2 DEF Arrival, RowOps, AssetOps
    <2> QED BY <1>3, <2>1, <2>2, CallsPersist
  <1> QED BY <1>1, <1>2, <1>3 DEF RowsRead

-----------------------------------------------------------------------------
(* Row locks.                                                              *)

\* The two halves of LockDiscipline, for one request.
Holds(r, x) ==
    /\ pc[r] # "idle"
    /\ \/ x = call[r].from /\ call[r].op \in TransferOps /\ pc[r] \in FromLocked
       \/ x = call[r].to /\ call[r].op \in TransferOps /\ pc[r] \in ToLocked
       \/ x = call[r].t /\ call[r].op \in RowOps /\ pc[r] = "commit"
       \/ x = call[r].from /\ call[r].op \in AssetOps /\ pc[r] = "commit"

Keeps(r) ==
    pc[r] # "idle" =>
        /\ call[r].op \in TransferOps /\ pc[r] \in FromLocked =>
               lock[call[r].from] = r /\ Live(call[r].from)
        /\ call[r].op \in TransferOps /\ pc[r] \in ToLocked =>
               lock[call[r].to] = r /\ Live(call[r].to)
        /\ call[r].op = "update" /\ pc[r] = "commit" =>
               lock[call[r].t] = r /\ transfer[call[r].t] # Null
        /\ call[r].op = "delete" /\ pc[r] = "commit" =>
               lock[call[r].t] = r \/ transfer[call[r].t] = Null
        /\ call[r].op = "setBalance" /\ pc[r] = "commit" =>
               lock[call[r].from] = r /\ Live(call[r].from)
        /\ call[r].op = "dropAsset" /\ pc[r] = "commit" =>
               lock[call[r].from] = r \/ ~Live(call[r].from)

LEMMA LockHalves ==
  LockDiscipline <=> /\ \A r \in Requests, x \in Rows : lock[x] = r => Holds(r, x)
                     /\ \A r \in Requests : Keeps(r)
  BY DEF LockDiscipline, Holds, Keeps

\* A lock is taken by a write of its row and released when its holder ends.
LEMMA LockChanges ==
  ASSUME IInv, [LNext]_lvars, NEW x \in Rows, lock'[x] # lock[x]
  PROVE  \/ \E r \in Requests : Write(r) /\ lock[x] = Null /\ lock'[x] = r
         \/ \E r \in Requests : pc'[r] = "idle" /\ lock[x] = r /\ lock'[x] = Null
  <1>0. TypeOK
    BY DEF IInv
  <1>1. ASSUME NEW r \in Requests, Arrive(r) PROVE UNCHANGED lock
    BY <1>1 DEF Arrive, Begin, BeginCreate, BeginUpdate, BeginDelete, BeginSetBalance,
                BeginDropAsset
  <1>2. ASSUME NEW r \in Requests, Read(r) PROVE UNCHANGED lock
    BY <1>2 DEF Read, ReadRow, ReadFrom, ReadTo, ReadOwner, ReadAsset, store
  <1>3. ASSUME NEW r \in Requests, Write(r), lock'[x] # lock[x]
        PROVE  lock[x] = Null /\ lock'[x] = r
    BY <1>0, <1>3 DEF Write, WriteFrom, WriteTo, WriteRow, WriteAsset, Acquire, TypeOK
  <1>4. ASSUME NEW r \in Requests, lock'[x] # lock[x],
               LEnd(r) \/ LCommitTransfer(r) \/ LCommitSetBalance(r) \/ LCommitDropAsset(r)
        PROVE  pc'[r] = "idle" /\ lock[x] = r /\ lock'[x] = Null
    BY <1>0, <1>4, Ended
  <1>5. ASSUME NEW a \in Assets, NEW b \in Balances \cup {Null}, NEW g \in Groups \cup {Null},
               LCreateAsset(a, b, g)
        PROVE  UNCHANGED lock
    BY <1>5 DEF LCreateAsset, CreateAsset
  <1>6. ASSUME NEW u \in Users, NEW g \in Groups \cup {Null}, ChangeFamily(u, g)
        PROVE  UNCHANGED lock
    BY <1>6 DEF ChangeFamily, store
  <1>7. UNCHANGED lvars => UNCHANGED lock
    BY DEF lvars, vars
  <1> QED BY <1>1, <1>2, <1>3, <1>4, <1>5, <1>6, <1>7 DEF LNext

LEMMA LocksKept ==
  ASSUME IInv, [LNext]_lvars, NEW x \in Rows, NEW r \in Requests, lock[x] = r, pc'[r] # "idle"
  PROVE  lock'[x] = r
  BY LockChanges, ConstantsAssumption

\* A locked asset stays as long as its holder; so does a locked transfer.
LEMMA LockedRowsStay ==
  ASSUME IInv, [LNext]_lvars, NEW r \in Requests, pc'[r] # "idle"
  PROVE  /\ \A a \in Assets : lock[a] = r /\ Live(a) => Live(a)'
         /\ \A t \in TransferIds : lock[t] = r /\ transfer[t] # Null => transfer'[t] # Null
  <1>0. TypeOK /\ LockDiscipline
    BY DEF IInv
  <1>1. ASSUME NEW a \in Assets, lock[a] = r, Live(a), ~Live(a)' PROVE FALSE
    <2>1. PICK q \in Requests : /\ pc[q] = "commit" /\ call[q].op = "dropAsset"
                                /\ call[q].from = a /\ LCommitDropAsset(q)
      BY <1>1, AssetsComeAndGo
    <2>2. lock[a] = q
      BY <1>0, <1>1, <2>1 DEF LockDiscipline
    <2> QED BY <1>0, <1>1, <2>1, <2>2, Ended
  <1>2. ASSUME NEW t \in TransferIds, lock[t] = r, transfer[t] # Null, transfer'[t] = Null
        PROVE  FALSE
    <2>1. PICK q \in Requests :
            /\ LCommitTransfer(q) /\ call[q].t = t /\ pc[q] = "commit" /\ call[q].op \in RowOps
      BY <1>2, RowChanges, ConstantsAssumption DEF RowOps
    <2>2. lock[t] = q
      BY <1>0, <1>2, <2>1 DEF LockDiscipline, RowOps
    <2> QED BY <1>0, <1>2, <2>1, <2>2, Ended
  <1> QED BY <1>1, <1>2

LEMMA WriteLocks ==
  ASSUME IInv, NEW r \in Requests, Write(r)
  PROVE  /\ \A x \in Rows : lock'[x] = r => Holds(r, x)'
         /\ Keeps(r)'
  <1>0. TypeOK /\ CallShape(r) /\ (\A x \in Rows : lock[x] = r => Holds(r, x)) /\ Keeps(r)
    BY LockHalves DEF IInv, Shapes
  <1>00. pc[r] # "idle" /\ call'[r] = call[r] /\ UNCHANGED <<asset, transfer>>
    BY DEF Write, WriteFrom, WriteTo, WriteRow, WriteAsset
  <1> USE <1>0, <1>00 DEF Goto, Acquire, TypeOK, Live, Rows
  <1>1. CASE WriteFrom(r)
    <2>1. /\ pc[r] = "writeFrom" /\ pc'[r] = "writeTo" /\ call[r].from \in Assets
          /\ asset[call[r].from] # Null
          /\ call[r].op \in TransferOps /\ lock' = [lock EXCEPT ![call[r].from] = r]
      BY <1>1 DEF WriteFrom, CallShape, Wanted
    <2>2. \A x \in Rows : lock[x] # r
      BY <2>1 DEF Holds, FromLocked, ToLocked
    <2>3. \A x \in Rows : lock'[x] = r => Holds(r, x)'
      BY <2>1, <2>2 DEF Holds, FromLocked
    <2>4. Keeps(r)'
      BY <2>1 DEF Keeps, ToLocked
    <2> QED BY <2>3, <2>4
  <1>2. CASE WriteTo(r)
    <2>1. /\ pc[r] = "writeTo" /\ pc'[r] = "writeRow" /\ call[r].from \in Assets
          /\ call[r].to \in Assets /\ asset[call[r].to] # Null
          /\ call[r].op \in TransferOps /\ lock' = [lock EXCEPT ![call[r].to] = r]
      BY <1>2 DEF WriteTo, CallShape, Wanted
    <2>2. \A x \in Rows : lock'[x] = r => Holds(r, x)'
      BY <2>1 DEF Holds, FromLocked, ToLocked, AssetOps, TransferOps
    <2>3. Keeps(r)'
      BY <2>1 DEF Keeps, FromLocked, ToLocked
    <2> QED BY <2>2, <2>3
  <1>3. CASE WriteRow(r)
    <2>1. /\ pc[r] = "writeRow" /\ pc'[r] = "commit" /\ call[r].from \in Assets
          /\ call[r].to \in Assets /\ call[r].t \in TransferIds /\ call[r].op \in TransferOps
      BY <1>3 DEF WriteRow, CallShape
    <2>2. \/ call[r].op = "create" /\ lock' = lock
          \/ /\ call[r].op \in {"update", "delete"} /\ transfer[call[r].t] # Null
             /\ lock' = [lock EXCEPT ![call[r].t] = r]
          \/ call[r].op = "delete" /\ transfer[call[r].t] = Null /\ lock' = lock
      BY <1>3 DEF WriteRow
    <2>3. \A x \in Rows : lock'[x] = r => Holds(r, x)'
      BY <2>1, <2>2 DEF Holds, FromLocked, ToLocked, AssetOps, TransferOps, RowOps
    <2>4. lock'[call[r].from] = r /\ lock'[call[r].to] = r
          /\ asset[call[r].from] # Null /\ asset[call[r].to] # Null
      BY <2>1, <2>2 DEF Keeps, FromLocked, ToLocked
    <2>5. Keeps(r)'
      BY <2>1, <2>2, <2>4 DEF Keeps, FromLocked, ToLocked, TransferOps
    <2> QED BY <2>3, <2>5
  <1>4. CASE WriteAsset(r)
    <2>1. /\ pc[r] = "writeAsset" /\ pc'[r] = "commit" /\ call[r].from \in Assets
          /\ call[r].op \in AssetOps
      BY <1>4 DEF WriteAsset, CallShape
    <2>2. \/ asset[call[r].from] # Null /\ lock' = [lock EXCEPT ![call[r].from] = r]
          \/ call[r].op = "dropAsset" /\ asset[call[r].from] = Null /\ lock' = lock
      BY <1>4 DEF WriteAsset
    <2>3. \A x \in Rows : lock[x] # r
      BY <2>1 DEF Holds, FromLocked, ToLocked
    <2>4. \A x \in Rows : lock'[x] = r => Holds(r, x)'
      BY <2>1, <2>2, <2>3 DEF Holds
    <2>5. Keeps(r)'
      BY <2>1, <2>2 DEF Keeps, AssetOps, TransferOps
    <2> QED BY <2>4, <2>5
  <1> QED BY <1>1, <1>2, <1>3, <1>4 DEF Write

\* A request stops being in flight by ending.
LEMMA ReturnsToIdle ==
  ASSUME IInv, [LNext]_lvars, NEW r \in Requests, pc[r] # "idle", pc'[r] = "idle"
  PROVE  LEnd(r) \/ LCommitTransfer(r) \/ LCommitSetBalance(r) \/ LCommitDropAsset(r)
  <1>0. TypeOK
    BY DEF IInv
  <1>1. ASSUME NEW q \in Requests \ {r},
               \/ Arrive(q) \/ Read(q) \/ Write(q) \/ LEnd(q)
               \/ LCommitTransfer(q) \/ LCommitSetBalance(q) \/ LCommitDropAsset(q)
        PROVE  FALSE
    BY <1>0, <1>1, OthersStay
  <1>2. ASSUME Read(r) \/ Write(r) PROVE FALSE
    BY <1>0, <1>2 DEF Read, ReadRow, ReadFrom, ReadTo, ReadOwner, ReadAsset, Goto, TypeOK,
                      Write, WriteFrom, WriteTo, WriteRow, WriteAsset
  <1>3. ~Arrive(r)
    BY DEF Arrive, Begin, BeginCreate, BeginUpdate, BeginDelete, BeginSetBalance, BeginDropAsset
  <1>4. ASSUME NEW a \in Assets, NEW b \in Balances \cup {Null}, NEW g \in Groups \cup {Null},
               LCreateAsset(a, b, g)
        PROVE  FALSE
    BY <1>4 DEF LCreateAsset, CreateAsset
  <1>5. ASSUME NEW u \in Users, NEW g \in Groups \cup {Null}, ChangeFamily(u, g) PROVE FALSE
    BY <1>5 DEF ChangeFamily
  <1>6. ASSUME UNCHANGED lvars PROVE FALSE
    BY <1>6 DEF lvars, vars
  <1> QED BY <1>1, <1>2, <1>3, <1>4, <1>5, <1>6 DEF LNext

LEMMA LockStep == IInv /\ [LNext]_lvars => LockDiscipline'
  <1> SUFFICES ASSUME IInv, [LNext]_lvars PROVE LockDiscipline'
    OBVIOUS
  <1>0. /\ TypeOK /\ Shapes /\ Identities /\ RowsRead
        /\ \A r \in Requests, x \in Rows : lock[x] = r => Holds(r, x)
        /\ \A r \in Requests : Keeps(r)
    BY LockHalves DEF IInv
  <1>1. ASSUME NEW r \in Requests, NEW x \in Rows, lock'[x] = r PROVE Holds(r, x)'
    <2>1. CASE lock[x] = r
      <3>1. Holds(r, x)
        BY <1>0, <2>1
      <3>2. pc'[r] # "idle"
        <4> SUFFICES ASSUME pc'[r] = "idle" PROVE FALSE
          OBVIOUS
        <4>1. LEnd(r) \/ LCommitTransfer(r) \/ LCommitSetBalance(r) \/ LCommitDropAsset(r)
          BY <1>0, <3>1, ReturnsToIdle DEF Holds
        <4> QED BY <1>0, <1>1, <2>1, <4>1, Ended, ConstantsAssumption
      <3>3. CASE pc'[r] = pc[r] /\ call'[r] = call[r]
        BY <3>1, <3>3 DEF Holds
      <3>4. CASE Write(r)
        BY <1>1, <3>4, WriteLocks
      <3>5. ~Read(r)
        BY <3>1 DEF Holds, FromLocked, ToLocked, Read, ReadRow, ReadFrom, ReadTo, ReadOwner,
                    ReadAsset
      <3> QED BY <3>1, <3>2, <3>3, <3>4, <3>5, Moves DEF Holds
    <2>2. CASE lock[x] # r
      BY <1>1, <2>2, LockChanges, WriteLocks, ConstantsAssumption
    <2> QED BY <2>1, <2>2
  <1>2. ASSUME NEW r \in Requests, pc'[r] # "idle" PROVE Keeps(r)'
    <2>1. CASE pc[r] # "idle" /\ pc'[r] = pc[r] /\ call'[r] = call[r]
      <3>1. CallShape(r) /\ Keeps(r)
        BY <1>0 DEF Shapes
      <3>2. \A a \in Assets : lock[a] = r /\ Live(a) => lock'[a] = r /\ Live(a)'
        BY <1>2, LocksKept, LockedRowsStay DEF Rows
      <3>3. \A t \in TransferIds : lock[t] = r => lock'[t] = r
        BY <1>2, LocksKept DEF Rows
      <3>4. \A t \in TransferIds : lock[t] = r /\ transfer[t] # Null => transfer'[t] # Null
        BY <1>2, LockedRowsStay
      <3>5. ASSUME call[r].op \in TransferOps, pc[r] \in FromLocked
            PROVE  (lock[call[r].from] = r /\ Live(call[r].from))'
        BY <2>1, <3>1, <3>2, <3>5 DEF Keeps, CallShape, FromLocked, Live
      <3>6. ASSUME call[r].op \in TransferOps, pc[r] \in ToLocked
            PROVE  (lock[call[r].to] = r /\ Live(call[r].to))'
        BY <2>1, <3>1, <3>2, <3>6 DEF Keeps, CallShape, ToLocked, Live
      <3>7. ASSUME call[r].op = "update", pc[r] = "commit"
            PROVE  (lock[call[r].t] = r /\ transfer[call[r].t] # Null)'
        BY <2>1, <3>1, <3>3, <3>4, <3>7 DEF Keeps, CallShape, TransferOps
      <3>8. ASSUME call[r].op = "delete", pc[r] = "commit"
            PROVE  (lock[call[r].t] = r \/ transfer[call[r].t] = Null)'
        <4>1. call[r].t \in TransferIds
          BY <2>1, <3>1, <3>8 DEF CallShape, TransferOps
        <4>2. CASE lock[call[r].t] = r
          BY <2>1, <3>3, <4>1, <4>2
        <4>3. ASSUME transfer[call[r].t] = Null PROVE transfer'[call[r].t] = Null
          <5> SUFFICES ASSUME transfer'[call[r].t] # Null PROVE FALSE
            OBVIOUS
          <5>1. PICK q \in Requests :
                  pc[q] = "commit" /\ call[q].t = call[r].t /\ call[q].op = "create"
            BY <4>1, <4>3, RowChanges, ConstantsAssumption
          <5> QED BY <1>0, <3>8, <5>1 DEF RowsRead, RowOps
        <4> QED BY <2>1, <3>1, <3>8, <4>2, <4>3 DEF Keeps
      <3>9. ASSUME call[r].op = "setBalance", pc[r] = "commit"
            PROVE  (lock[call[r].from] = r /\ Live(call[r].from))'
        BY <2>1, <3>1, <3>2, <3>9 DEF Keeps, CallShape, AssetOps, Live
      <3>10. ASSUME call[r].op = "dropAsset", pc[r] = "commit"
             PROVE  (lock[call[r].from] = r \/ ~Live(call[r].from))'
        <4>1. call[r].from \in Assets /\ call[r].from \in issued
          BY <2>1, <3>1, <3>10 DEF CallShape, AssetOps
        <4>2. CASE lock[call[r].from] = r
          BY <1>2, <2>1, <4>1, <4>2, LocksKept DEF Rows
        <4>3. \A a \in Assets : a \in issued /\ asset[a] = Null => asset'[a] = Null
          BY AssetsComeAndGo DEF Live
        <4> QED BY <2>1, <3>1, <3>10, <4>1, <4>2, <4>3 DEF Keeps, Live
      <3> QED BY <2>1, <3>5, <3>6, <3>7, <3>8, <3>9, <3>10 DEF Keeps
    <2>2. CASE Write(r)
      BY <2>2, WriteLocks
    <2>3. CASE Read(r)
      <3>1. pc'[r] \in {"readFrom", "readTo", "readOwner", "writeFrom", "writeAsset"}
        BY <1>0, <2>3 DEF Read, ReadRow, ReadFrom, ReadTo, ReadOwner, ReadAsset, Goto, TypeOK
      <3> QED BY <3>1 DEF Keeps, FromLocked, ToLocked
    <2>4. CASE Arrival(call'[r], pc'[r])
      <3>1. pc'[r] \in {"readFrom", "readRow", "readAsset"}
        BY <2>4 DEF Arrival
      <3> QED BY <3>1 DEF Keeps, FromLocked, ToLocked
    <2> QED BY <1>2, <2>1, <2>2, <2>3, <2>4, Moves, CallsPersist
  <1>3. \A r \in Requests : Keeps(r)'
    BY <1>2 DEF Keeps
  <1>4. LockDiscipline' <=> /\ \A r \in Requests, x \in Rows : lock'[x] = r => Holds(r, x)'
                            /\ \A r \in Requests : Keeps(r)'
    BY DEF LockDiscipline, Holds, Keeps
  <1> QED BY <1>1, <1>3, <1>4

-----------------------------------------------------------------------------
(* What requests remember.                                                 *)

FromRead == {"readTo", "readOwner", "writeFrom", "writeTo", "writeRow", "commit"}
ToRead == {"readOwner", "writeFrom", "writeTo", "writeRow", "commit"}

LEMMA RemembersWhat ==
  ASSUME NEW r \in Requests, CallShape(r), pc[r] # "idle", call[r].op \in TransferOps
  PROVE  /\ call[r].op \in RowOps /\ pc[r] # "readRow" <=> call[r].t \in Remembers(r)
         /\ pc[r] \in FromRead <=> call[r].from \in Remembers(r)
         /\ pc[r] \in ToRead <=> call[r].to \in Remembers(r)
  BY ConstantsAssumption DEF CallShape, Remembers, RowOps, FromRead, ToRead, TransferOps, Rows

LEMMA RemembersWhatNext ==
  ASSUME NEW r \in Requests, CallShape(r)', pc'[r] # "idle", call'[r].op \in TransferOps
  PROVE  /\ call'[r].op \in RowOps /\ pc'[r] # "readRow" <=> call'[r].t \in Remembers(r)'
         /\ pc'[r] \in FromRead <=> call'[r].from \in Remembers(r)'
         /\ pc'[r] \in ToRead <=> call'[r].to \in Remembers(r)'
  BY ConstantsAssumption DEF CallShape, Remembers, RowOps, FromRead, ToRead, TransferOps, Rows

LEMMA OutdateTells ==
  ASSUME TypeOK, NEW q \in Requests, NEW rows, Outdate(q, rows),
         NEW r \in Requests \ {q}, pc[r] # "idle"
  PROVE  stale[r] \subseteq stale'[r] /\ rows \cap Remembers(r) \subseteq stale'[r]
  BY DEF Outdate

\* While a request is in flight, a row it remembers is either as it was or marked stale.
LEMMA ChangesAreNoticed ==
  ASSUME IInv, [LNext]_lvars, NEW r \in Requests, pc[r] # "idle", pc'[r] # "idle"
  PROVE  /\ stale[r] \subseteq stale'[r]
         /\ \A a \in Assets : a \in Remembers(r) \ stale'[r] => asset'[a] = asset[a]
         /\ \A t \in TransferIds : t \in Remembers(r) \ stale'[r] => transfer'[t] = transfer[t]
  <1> DEFINE P == /\ stale[r] \subseteq stale'[r]
                  /\ \A a \in Assets : a \in Remembers(r) \ stale'[r] => asset'[a] = asset[a]
                  /\ \A t \in TransferIds :
                        t \in Remembers(r) \ stale'[r] => transfer'[t] = transfer[t]
  <1>0. TypeOK /\ Shapes /\ Fresh /\ Identities
    BY DEF IInv
  <1>1. ASSUME UNCHANGED <<asset, transfer, stale>> PROVE P
    BY <1>1
  <1>2. ASSUME NEW q \in Requests, Arrive(q) \/ Read(q) \/ Write(q), UNCHANGED history PROVE P
    <2>1. UNCHANGED <<asset, transfer>>
      BY <1>2 DEF Arrive, Begin, BeginCreate, BeginUpdate, BeginDelete, BeginSetBalance,
                  BeginDropAsset, Read, ReadRow, ReadFrom, ReadTo, ReadOwner, ReadAsset, store,
                  Write, WriteFrom, WriteTo, WriteRow, WriteAsset
    <2> QED BY <1>1, <1>2, <2>1 DEF history
  <1>3. ASSUME NEW q \in Requests, LEnd(q) PROVE P
    <2>1. q # r /\ Forget(q) /\ UNCHANGED <<asset, transfer>>
      BY <1>0, <1>3, Ended, EndIsRollback
    <2>2. stale'[r] = stale[r]
      BY <1>0, <2>1 DEF Forget, TypeOK
    <2> QED BY <2>1, <2>2
  <1>4. ASSUME NEW q \in Requests, LCommitTransfer(q) PROVE P
    <2>1. q # r
      BY <1>0, <1>4, Ended
    <2>2. CommitBalances(q) /\ \A t \in TransferIds \ {call[q].t} : transfer'[t] = transfer[t]
      BY <1>0, <1>4, CommitRowTypes DEF IInv, LCommitTransfer
    <2>3. stale[r] \subseteq stale'[r]
          /\ {call[q].from, call[q].to, call[q].t} \cap Remembers(r) \subseteq stale'[r]
      BY <1>0, <1>4, <2>1, OutdateTells DEF LCommitTransfer
    <2>4. \A a \in Assets \ {call[q].from, call[q].to} : asset'[a] = asset[a]
      BY <2>2 DEF CommitBalances
    <2> QED BY <2>2, <2>3, <2>4
  <1>5. ASSUME NEW q \in Requests, LCommitSetBalance(q) PROVE P
    <2>1. q # r /\ transfer' = transfer
      BY <1>0, <1>5, Ended DEF LCommitSetBalance, CommitSetBalance
    <2>2. CASE call[q].amount = Null
      <3>1. stale'[r] = stale[r] /\ asset' = asset
        BY <1>0, <1>5, <2>1, <2>2 DEF LCommitSetBalance, CommitSetBalance, Forget, TypeOK
      <3> QED BY <2>1, <3>1
    <2>3. CASE call[q].amount # Null
      <3>1. stale[r] \subseteq stale'[r] /\ {call[q].from} \cap Remembers(r) \subseteq stale'[r]
        BY <1>0, <1>5, <2>1, <2>3, OutdateTells DEF LCommitSetBalance
      <3>2. \A a \in Assets \ {call[q].from} : asset'[a] = asset[a]
        BY <1>0, <1>5, <2>3 DEF LCommitSetBalance, CommitSetBalance, TypeOK
      <3> QED BY <2>1, <3>1, <3>2
    <2> QED BY <2>2, <2>3
  <1>6. ASSUME NEW q \in Requests, LCommitDropAsset(q) PROVE P
    <2>1. q # r /\ transfer' = transfer
      BY <1>0, <1>6, Ended DEF LCommitDropAsset, CommitDropAsset
    <2>2. stale[r] \subseteq stale'[r] /\ {call[q].from} \cap Remembers(r) \subseteq stale'[r]
      BY <1>0, <1>6, <2>1, OutdateTells DEF LCommitDropAsset
    <2>3. \A a \in Assets \ {call[q].from} : asset'[a] = asset[a]
      BY <1>0, <1>6 DEF LCommitDropAsset, CommitDropAsset, TypeOK
    <2> QED BY <2>1, <2>2, <2>3
  <1>7. ASSUME NEW x \in Assets, NEW b \in Balances \cup {Null}, NEW g \in Groups \cup {Null},
               LCreateAsset(x, b, g)
        PROVE  P
    <2>1. /\ x \notin issued /\ UNCHANGED <<transfer, stale>>
          /\ \A a \in Assets \ {x} : asset'[a] = asset[a]
      BY <1>0, <1>7 DEF LCreateAsset, CreateAsset, TypeOK
    <2>2. ASSUME x \in Remembers(r) \ stale[r] PROVE FALSE
      <3>1. call[r].op \in TransferOps /\ (x = call[r].from \/ x = call[r].to)
        BY <1>0, <2>2, ConstantsAssumption
           DEF Remembers, Shapes, CallShape, TransferOps
      <3>2. Live(x)
        BY <1>0, <2>2, <3>1 DEF Fresh
      <3> QED BY <1>0, <2>1, <3>2 DEF Identities
    <2> QED BY <2>1, <2>2
  <1>8. ASSUME NEW u \in Users, NEW g \in Groups \cup {Null}, ChangeFamily(u, g), UNCHANGED history
        PROVE  P
    BY <1>1, <1>8 DEF ChangeFamily, store, history
  <1>9. ASSUME UNCHANGED lvars PROVE P
    BY <1>1, <1>9 DEF lvars, vars, history
  <1> HIDE DEF P
  <1>10. P
    BY <1>2, <1>3, <1>4, <1>5, <1>6, <1>7, <1>8, <1>9 DEF LNext
  <1> QED BY <1>10 DEF P

LEMMA FreshStep == IInv /\ [LNext]_lvars => Fresh'
  <1> SUFFICES ASSUME IInv, [LNext]_lvars, NEW r \in Requests,
                      pc'[r] # "idle", call'[r].op \in TransferOps
               PROVE
        /\ call'[r].op \in RowOps /\ pc'[r] # "readRow" /\ call'[r].t \notin stale'[r] =>
               transfer'[call'[r].t] = seen'[r].row
        /\ call'[r].from \in (Remembers(r) \ stale[r])' =>
               Live(call[r].from)' /\ Worth(asset[call[r].from].balance)' = seen'[r].from
        /\ call'[r].to \in (Remembers(r) \ stale[r])' =>
               Live(call[r].to)' /\ Worth(asset[call[r].to].balance)' = seen'[r].to
    BY DEF Fresh
  <1> DEFINE Q == /\ call'[r].op \in RowOps /\ pc'[r] # "readRow" /\ call'[r].t \notin stale'[r] =>
                         transfer'[call'[r].t] = seen'[r].row
                  /\ pc'[r] \in FromRead /\ call'[r].from \notin stale'[r] =>
                         /\ asset'[call'[r].from] # Null
                         /\ Worth(asset'[call'[r].from].balance) = seen'[r].from
                  /\ pc'[r] \in ToRead /\ call'[r].to \notin stale'[r] =>
                         /\ asset'[call'[r].to] # Null
                         /\ Worth(asset'[call'[r].to].balance) = seen'[r].to
  <1>0. TypeOK /\ Shapes /\ Fresh /\ CallShape(r)
    BY DEF IInv, Shapes
  <1>1. CallShape(r)'
    BY ShapesStep DEF Shapes
  <1>2. ASSUME pc[r] # "idle"
        PROVE  /\ call[r].op \in TransferOps
               /\ call[r].op \in RowOps /\ pc[r] # "readRow" /\ call[r].t \notin stale'[r] =>
                      call[r].t \in TransferIds
                      /\ transfer'[call[r].t] = seen[r].row
               /\ pc[r] \in FromRead /\ call[r].from \notin stale'[r] =>
                      /\ asset'[call[r].from] # Null
                      /\ Worth(asset'[call[r].from].balance) = seen[r].from
               /\ pc[r] \in ToRead /\ call[r].to \notin stale'[r] =>
                      /\ asset'[call[r].to] # Null
                      /\ Worth(asset'[call[r].to].balance) = seen[r].to
    <2>1. call[r].op \in TransferOps /\ call[r].t \in TransferIds
      BY <1>0, <1>2, CallsPersist DEF CallShape
    <2>2. /\ call[r].op \in RowOps /\ pc[r] # "readRow" <=> call[r].t \in Remembers(r)
          /\ pc[r] \in FromRead <=> call[r].from \in Remembers(r)
          /\ pc[r] \in ToRead <=> call[r].to \in Remembers(r)
      BY <1>0, <1>2, <2>1, RemembersWhat
    <2>3. pc[r] \in FromRead => call[r].from \in Assets /\ call[r].to \in Assets
      BY <1>0, <2>1 DEF CallShape, FromRead
    <2>4. ToRead \subseteq FromRead
      BY DEF ToRead, FromRead
    <2> QED BY <1>0, <1>2, <2>1, <2>2, <2>3, <2>4, ChangesAreNoticed DEF Fresh, Live
  <1>3. ASSUME pc[r] # "idle", pc'[r] = pc[r], call'[r] = call[r], seen'[r] = seen[r]
        PROVE  Q
    BY <1>2, <1>3
  <1>4. ASSUME Read(r), UNCHANGED history PROVE Q
    <2>0. pc[r] # "idle" /\ UNCHANGED <<asset, transfer, stale>> /\ seen[r] \in Seen
      BY <1>0, <1>4 DEF Read, ReadRow, ReadFrom, ReadTo, ReadOwner, ReadAsset, store, history, TypeOK
    <2>1. call[r].op \in TransferOps
      BY <1>2, <2>0
    <2>2. CASE ReadRow(r)
      <3>1. pc'[r] = "readFrom" /\ seen'[r] = [seen[r] EXCEPT !.row = transfer[call[r].t]]
        BY <1>0, <2>2 DEF ReadRow, TypeOK, Goto
      <3>2. seen'[r].row = transfer[call[r].t]
        BY <2>0, <3>1 DEF Seen
      <3>3. call'[r].t = call[r].t
        BY <2>0, CallsPersist, <2>2, <3>1 DEF Arrival
      <3> QED BY <2>0, <3>1, <3>2, <3>3 DEF FromRead, ToRead
    <2>3. CASE ReadFrom(r)
      <3>1. /\ pc[r] = "readFrom" /\ pc'[r] = "readTo" /\ call'[r] = call[r]
            /\ asset[call[r].from] # Null
            /\ seen'[r] = [seen[r] EXCEPT !.from = Worth(asset[call[r].from].balance)]
        BY <1>0, <2>3 DEF ReadFrom, TypeOK, Goto, Live
      <3>2. seen'[r].row = seen[r].row /\ seen'[r].from = Worth(asset[call[r].from].balance)
        BY <2>0, <3>1 DEF Seen
      <3> QED BY <1>2, <2>0, <3>1, <3>2 DEF FromRead, ToRead
    <2>4. CASE ReadTo(r)
      <3>1. /\ pc[r] = "readTo" /\ call'[r] = call[r] /\ asset[call[r].to] # Null
            /\ seen'[r] = [seen[r] EXCEPT !.to = Worth(asset[call[r].to].balance)]
        BY <1>0, <2>4 DEF ReadTo, TypeOK, Goto, Live
      <3>2. /\ seen'[r].row = seen[r].row /\ seen'[r].from = seen[r].from
            /\ seen'[r].to = Worth(asset[call[r].to].balance)
        BY <2>0, <3>1 DEF Seen
      <3> QED BY <1>2, <2>0, <3>1, <3>2 DEF FromRead, ToRead
    <2>5. CASE ReadOwner(r)
      <3>1. pc[r] = "readOwner" /\ call'[r] = call[r] /\ seen'[r] = seen[r]
        BY <2>5 DEF ReadOwner
      <3> QED BY <1>2, <3>1 DEF FromRead, ToRead
    <2>6. ~ReadAsset(r)
      BY <1>0, <2>1 DEF ReadAsset, CallShape, AssetOps, TransferOps
    <2> QED BY <1>4, <2>2, <2>3, <2>4, <2>5, <2>6 DEF Read
  <1>5. ASSUME Write(r), UNCHANGED history PROVE Q
    <2>1. /\ pc[r] \in {"writeFrom", "writeTo", "writeRow", "writeAsset"}
          /\ call'[r] = call[r] /\ seen'[r] = seen[r]
      BY <1>5 DEF Write, WriteFrom, WriteTo, WriteRow, WriteAsset
    <2>2. call[r].op \in TransferOps
      BY <1>2, <2>1
    <2>3. pc[r] # "writeAsset"
      BY <1>0, <2>2 DEF CallShape, AssetOps, TransferOps
    <2> QED BY <1>2, <2>1, <2>3 DEF FromRead, ToRead
  <1>6. ASSUME pc[r] = "idle", Arrival(call'[r], pc'[r]) PROVE Q
    BY <1>6 DEF Arrival, FromRead, ToRead, TransferOps, RowOps, AssetOps
  <1> HIDE DEF Q
  <1>7. pc[r] = "idle" => Q
    BY <1>6, CallsPersist
  <1>8. Q
    BY <1>3, <1>4, <1>5, <1>7, Moves
  <1> QED BY <1>1, <1>8, RemembersWhatNext DEF Live, Q

-----------------------------------------------------------------------------
(* Balances.                                                               *)

\* A commit based on rows nobody changed moves both balances by what its row gains.
LEMMA FreshCommitsAreExact ==
  ASSUME IInv, [LNext]_lvars, NEW r \in Requests, LCommitTransfer(r),
         NEW a \in {call[r].from, call[r].to}, a \notin stale[r], call[r].t \notin stale[r]
  PROVE  /\ Live(a)
         /\ (IF a = call[r].from THEN NewBalances(r).from ELSE NewBalances(r).to)
              = Worth(asset[a].balance) + Effect(transfer'[call[r].t], a)
                                        - Effect(transfer[call[r].t], a)
  <1> DEFINE c == call[r]
             s == seen[r]
             b == IF a = c.from THEN s.from ELSE s.to
  <1>0. TypeOK /\ Shapes /\ RowsRead /\ LockDiscipline /\ Fresh /\ Identities /\ CallShape(r)
        /\ s.from \in Int /\ s.to \in Int
    BY DEF IInv, Shapes, TypeOK, Seen
  <1>1. CommitCreate(r) \/ CommitUpdate(r) \/ CommitDelete(r)
    BY DEF LCommitTransfer
  <1>2. /\ pc[r] = "commit" /\ c.op \in TransferOps /\ c.t \in TransferIds
        /\ c.from # c.to /\ c.from \in Assets /\ c.to \in Assets
    BY <1>0, <1>1, CommitRowTypes DEF CallShape
  <1>3. c.from \in Remembers(r) /\ c.to \in Remembers(r)
    BY <1>0, <1>2, RemembersWhat DEF FromRead, ToRead
  <1>4. Live(a) /\ Worth(asset[a].balance) = b
    BY <1>0, <1>2, <1>3 DEF Fresh
  <1>5. CASE CommitCreate(r)
    <2>1. c.op = "create" /\ transfer[c.t] = Null /\ c.amount \in Nat /\ c.fee \in Nat
      BY <1>0, <1>2, <1>5 DEF CommitCreate, Identities, CallShape
    <2>2. PICK g \in Groups \cup {Null} : transfer' = [transfer EXCEPT ![c.t] =
            [user |-> c.user, from |-> c.from, to |-> c.to,
             amount |-> c.amount, fee |-> c.fee, group |-> g]]
      BY <1>0, <1>2, <1>5 DEF CommitCreate, TypeOK, Call, CallShape
    <2> DEFINE n == [user |-> c.user, from |-> c.from, to |-> c.to,
                     amount |-> c.amount, fee |-> c.fee, group |-> g]
    <2>3. transfer'[c.t] = n /\ n # Null
      <3>1. transfer'[c.t] = n
        BY <1>0, <1>2, <2>2 DEF TypeOK
      <3>2. n \in TransferRow
        BY <1>0, <1>2, <2>1 DEF TransferRow, TypeOK, Call, CallShape
      <3> QED BY <3>1, <3>2, ConstantsAssumption
    <2>4. Effect(transfer'[c.t], a) = IF a = c.from THEN 0 - (c.amount + c.fee) ELSE c.amount
      BY <1>2, <2>1, <2>2, <2>3 DEF Effect
    <2>5. Effect(transfer[c.t], a) = 0
      BY <2>1 DEF Effect
    <2>6. NewBalances(r) = CreateBalances(c, s)
      BY <2>1 DEF NewBalances
    <2> QED BY <1>0, <1>2, <1>4, <2>1, <2>4, <2>5, <2>6 DEF CreateBalances
  <1>6. ASSUME c.op \in RowOps
        PROVE  /\ transfer[c.t] = s.row /\ s.row \in TransferRow /\ s.row # Null
               /\ s.row.from = c.from /\ s.row.to = c.to
               /\ Effect(s.row, a) = IF a = c.from THEN 0 - (s.row.amount + s.row.fee)
                                     ELSE s.row.amount
    <2>1. transfer[c.t] = s.row
      BY <1>0, <1>2, <1>6 DEF Fresh
    <2>2. s.row \in TransferRow /\ s.row # Null /\ s.row.from = c.from /\ s.row.to = c.to
      BY <1>0, <1>2, <1>6, ConstantsAssumption DEF RowsRead
    <2>3. Effect(s.row, a) = IF a = c.from THEN 0 - (s.row.amount + s.row.fee)
                             ELSE s.row.amount
      BY <1>2, <2>2 DEF Effect, TransferRow
    <2> QED BY <2>1, <2>2, <2>3
  <1>7. CASE CommitUpdate(r)
    <2>1. c.op = "update" /\ c.op \in RowOps /\ transfer'[c.t] = Revised(s.row, c)
      BY <1>0, <1>2, <1>6, <1>7 DEF CommitUpdate, TypeOK, RowOps
    <2>2. Revised(s.row, c) \in TransferRow /\ Revised(s.row, c).from = c.from
          /\ Revised(s.row, c).to = c.to /\ Revised(s.row, c) # Null
      BY <1>0, <1>2, <1>6, <2>1, RevisedIsRow, ConstantsAssumption DEF CallShape
    <2> DEFINE n == Revised(s.row, c)
    <2>3. n.amount \in Nat /\ n.fee \in Nat /\ s.row.amount \in Nat /\ s.row.fee \in Nat
      BY <1>6, <2>1, <2>2 DEF TransferRow
    <2> HIDE DEF n
    <2>4. Effect(n, a) = IF a = c.from THEN 0 - (n.amount + n.fee) ELSE n.amount
      BY <1>2, <2>2, <2>3 DEF Effect, n
    <2>5. NewBalances(r) = [from |-> s.from + s.row.amount + s.row.fee - (n.amount + n.fee),
                            to   |-> s.to - s.row.amount + n.amount]
      BY <2>1 DEF NewBalances, UpdateBalances, n
    <2>6. transfer'[c.t] = n
      BY <2>1 DEF n
    <2> QED BY <1>0, <1>2, <1>4, <1>6, <2>1, <2>3, <2>4, <2>5, <2>6
  <1>8. CASE CommitDelete(r)
    <2>1. c.op = "delete" /\ c.op \in RowOps /\ transfer'[c.t] = Null
      BY <1>0, <1>2, <1>8 DEF CommitDelete, TypeOK, RowOps
    <2>2. NewBalances(r) = DeleteBalances(c, s)
      BY <2>1 DEF NewBalances
    <2>3. Effect(transfer'[c.t], a) = 0
      BY <2>1 DEF Effect
    <2>4. s.row.amount \in Nat /\ s.row.fee \in Nat
      BY <1>6, <2>1 DEF TransferRow
    <2> QED BY <1>0, <1>2, <1>4, <1>6, <2>1, <2>2, <2>3, <2>4 DEF DeleteBalances
  <1> QED BY <1>1, <1>5, <1>7, <1>8

\* A commit leaves the ledger of the assets it does not write alone.
LEMMA OtherEffectsStay ==
  ASSUME IInv, [LNext]_lvars, NEW r \in Requests, LCommitTransfer(r),
         NEW a \in Assets \ {call[r].from, call[r].to}
  PROVE  Effect(transfer'[call[r].t], a) = 0 /\ Effect(transfer[call[r].t], a) = 0
  <1>0. TypeOK /\ Shapes /\ RowsRead /\ LockDiscipline /\ Identities
    BY DEF IInv
  <1>1. CommitCreate(r) \/ CommitUpdate(r) \/ CommitDelete(r)
    BY DEF LCommitTransfer
  <1>2. /\ pc[r] = "commit" /\ call[r].op \in TransferOps /\ call[r].t \in TransferIds
        /\ CallShape(r)
    BY <1>0, <1>1, CommitRowTypes DEF Shapes
  <1>3. transfer[call[r].t] # Null =>
            transfer[call[r].t].from = call[r].from /\ transfer[call[r].t].to = call[r].to
    BY <1>0, <1>2 DEF RowsRead, Identities, RowOps, TransferOps
  <1>4. ASSUME transfer'[call[r].t] # Null
        PROVE  transfer'[call[r].t].from = call[r].from /\ transfer'[call[r].t].to = call[r].to
    <2>1. CASE transfer'[call[r].t] = transfer[call[r].t]
      BY <1>3, <1>4, <2>1
    <2>2. ASSUME transfer'[call[r].t] # transfer[call[r].t], call[r].op = "create"
          PROVE  transfer'[call[r].t].from = call[r].from /\ transfer'[call[r].t].to = call[r].to
      <3>1. PICK g : transfer' = [transfer EXCEPT ![call[r].t] =
              [user |-> call[r].user, from |-> call[r].from, to |-> call[r].to,
               amount |-> call[r].amount, fee |-> call[r].fee, group |-> g]]
        BY <1>1, <2>2 DEF CommitCreate, CommitUpdate, CommitDelete
      <3> QED BY <1>0, <1>2, <3>1 DEF TypeOK
    <2>3. CASE call[r].op = "update"
      <3>1. transfer'[call[r].t] = Revised(transfer[call[r].t], call[r])
        BY <1>0, <1>1, <1>2, <2>3 DEF CommitCreate, CommitUpdate, CommitDelete, TypeOK
      <3>2. transfer[call[r].t] \in TransferRow /\ transfer[call[r].t] # Null
        BY <1>0, <1>2, <2>3 DEF LockDiscipline, TypeOK
      <3>3. Revised(transfer[call[r].t], call[r]).from = transfer[call[r].t].from
            /\ Revised(transfer[call[r].t], call[r]).to = transfer[call[r].t].to
        BY <1>2, <2>3, <3>2, RevisedIsRow DEF CallShape
      <3> QED BY <1>3, <3>1, <3>2, <3>3
    <2>4. call[r].op # "delete"
      BY <1>0, <1>1, <1>2, <1>4 DEF CommitCreate, CommitUpdate, CommitDelete, TypeOK
    <2> QED BY <1>2, <2>1, <2>2, <2>3, <2>4 DEF TransferOps
  <1> QED BY <1>3, <1>4 DEF Effect

\* What a commit writes is what the balance is worth then.
LEMMA CommitWrites ==
  ASSUME TypeOK, Shapes, RowsRead, NEW r \in Requests, pc[r] = "commit",
         call[r].op \in TransferOps, CommitBalances(r),
         NEW a \in Assets, a \in {call[r].from, call[r].to}, Live(a)
  PROVE  Worth(asset'[a].balance)
            = IF a = call[r].from THEN NewBalances(r).from ELSE NewBalances(r).to
  <1> DEFINE b == IF a = call[r].from THEN NewBalances(r).from ELSE NewBalances(r).to
  <1>1. asset[a] \in AssetRow
    BY DEF TypeOK, Live
  <1>2. asset'[a] = [asset[a] EXCEPT !.balance = b]
    BY DEF CommitBalances
  <1>3. b \in Int
    BY BalancesAreIntegers
  <1> HIDE DEF b
  <1>4. asset'[a].balance = b
    BY <1>1, <1>2 DEF AssetRow
  <1>5. Worth(asset'[a].balance) = b
    BY <1>3, <1>4, ConstantsAssumption DEF Worth
  <1> QED BY <1>5 DEF b

LEMMA ExactStep == IInv /\ [LNext]_lvars => ExactUnlessRaced'
  <1> SUFFICES ASSUME IInv, [LNext]_lvars, NEW a \in Assets, a \notin raced', asset'[a] # Null
               PROVE  Worth(asset'[a].balance) = expected'[a]
    BY DEF ExactUnlessRaced, Live
  <1> DEFINE P == Worth(asset'[a].balance) = expected'[a]
  <1>0. TypeOK /\ Shapes /\ LockDiscipline
        /\ (a \notin raced /\ asset[a] # Null => Worth(asset[a].balance) = expected[a])
    BY DEF IInv, ExactUnlessRaced, Live
  <1>1. ASSUME asset'[a] = asset[a], expected'[a] = expected[a], a \notin raced PROVE P
    BY <1>0, <1>1
  <1>2. ASSUME NEW r \in Requests, Arrive(r) \/ Read(r) \/ Write(r), UNCHANGED history PROVE P
    <2>1. UNCHANGED asset
      BY <1>2 DEF Arrive, Begin, BeginCreate, BeginUpdate, BeginDelete, BeginSetBalance,
                  BeginDropAsset, Read, ReadRow, ReadFrom, ReadTo, ReadOwner, ReadAsset, store,
                  Write, WriteFrom, WriteTo, WriteRow, WriteAsset
    <2> QED BY <1>1, <1>2, <2>1 DEF history
  <1>3. ASSUME NEW r \in Requests, LEnd(r) PROVE P
    BY <1>1, <1>3, EndIsRollback
  <1>4. ASSUME NEW r \in Requests, LCommitTransfer(r) PROVE P
    <2> DEFINE c == call[r]
    <2>1. /\ pc[r] = "commit" /\ c.op \in TransferOps /\ CommitBalances(r)
          /\ c.t \in TransferIds
      BY <1>0, <1>4, CommitRowTypes DEF LCommitTransfer
    <2>2. /\ expected'[a] = expected[a] + Effect(transfer'[c.t], a) - Effect(transfer[c.t], a)
          /\ raced' = raced \cup {x \in {c.from, c.to} : stale[r] \cap {x, c.t} # {}}
      BY <1>4 DEF LCommitTransfer
    <2>3. CASE a \in {c.from, c.to}
      <3>1. a \notin stale[r] /\ c.t \notin stale[r]
        BY <2>2, <2>3
      <3>2. /\ Live(a)
            /\ (IF a = c.from THEN NewBalances(r).from ELSE NewBalances(r).to)
                 = Worth(asset[a].balance) + Effect(transfer'[c.t], a) - Effect(transfer[c.t], a)
        BY <1>4, <2>3, <3>1, FreshCommitsAreExact
      <3>3. Worth(asset'[a].balance)
              = IF a = c.from THEN NewBalances(r).from ELSE NewBalances(r).to
        BY <1>0, <2>1, <2>3, <3>2, CommitWrites DEF IInv
      <3>4. Worth(asset[a].balance) = expected[a]
        BY <1>0, <2>2, <3>2 DEF Live
      <3> QED BY <2>2, <3>2, <3>3, <3>4
    <2>4. CASE a \notin {c.from, c.to}
      <3>1. asset'[a] = asset[a]
        BY <2>1, <2>4 DEF CommitBalances
      <3>2. Effect(transfer'[c.t], a) = 0 /\ Effect(transfer[c.t], a) = 0
        BY <1>4, <2>4, OtherEffectsStay
      <3>3. expected'[a] = expected[a]
        BY <1>0, <2>2, <3>2 DEF TypeOK
      <3> QED BY <1>1, <2>2, <3>1, <3>3
    <2> QED BY <2>3, <2>4
  <1>5. ASSUME NEW r \in Requests, LCommitSetBalance(r) PROVE P
    <2>1. CommitSetBalance(r) /\ pc[r] = "commit" /\ call[r].op = "setBalance"
      BY <1>5 DEF LCommitSetBalance, CommitSetBalance
    <2>2. call[r].from \in Assets /\ Live(call[r].from) /\ call[r].amount \in Int \cup {Null}
      BY <1>0, <2>1 DEF Shapes, CallShape, AssetOps, LockDiscipline, TypeOK, Call
    <2>3. CASE a = call[r].from /\ call[r].amount # Null
      <3>1. asset'[a] = [asset[a] EXCEPT !.balance = call[r].amount]
        BY <1>0, <2>1, <2>3 DEF CommitSetBalance, TypeOK
      <3>2. asset'[a].balance = call[r].amount
        BY <1>0, <2>2, <2>3, <3>1 DEF TypeOK, Live, AssetRow
      <3> QED BY <1>0, <1>5, <2>2, <2>3, <3>2 DEF LCommitSetBalance, TypeOK, Worth
    <2>4. CASE a # call[r].from \/ call[r].amount = Null
      <3>1. asset'[a] = asset[a] /\ expected'[a] = expected[a] /\ a \notin raced
        BY <1>0, <1>5, <2>1, <2>4 DEF LCommitSetBalance, CommitSetBalance, TypeOK
      <3> QED BY <1>1, <3>1
    <2> QED BY <2>3, <2>4
  <1>6. ASSUME NEW r \in Requests, LCommitDropAsset(r) PROVE P
    <2>1. asset'[a] = asset[a] /\ UNCHANGED <<expected, raced>>
      BY <1>0, <1>6 DEF LCommitDropAsset, CommitDropAsset, TypeOK
    <2> QED BY <1>1, <2>1
  <1>7. ASSUME NEW x \in Assets, NEW b \in Balances \cup {Null}, NEW g \in Groups \cup {Null},
               LCreateAsset(x, b, g)
        PROVE  P
    <2>1. PICK h : asset' = [asset EXCEPT ![x] = [balance |-> b, group |-> h]]
      BY <1>7 DEF LCreateAsset, CreateAsset
    <2>2. expected' = [expected EXCEPT ![x] = Worth(b)] /\ raced' = raced
      BY <1>7 DEF LCreateAsset
    <2> QED BY <1>0, <1>1, <2>1, <2>2 DEF TypeOK
  <1>8. ASSUME NEW u \in Users, NEW g \in Groups \cup {Null}, ChangeFamily(u, g), UNCHANGED history
        PROVE  P
    BY <1>1, <1>8 DEF ChangeFamily, store, history
  <1>9. ASSUME UNCHANGED lvars PROVE P
    BY <1>1, <1>9 DEF lvars, vars, history
  <1> QED BY <1>2, <1>3, <1>4, <1>5, <1>6, <1>7, <1>8, <1>9 DEF LNext

-----------------------------------------------------------------------------
(* The theorems.                                                           *)

LEMMA IInvStep == IInv /\ [LNext]_lvars => IInv'
  BY TypeStep, ShapesStep, IdentitiesStep, RowsReadStep, LockStep, FreshStep, ExactStep DEF IInv

LEMMA Invariance == LSpec => []IInv
  BY InitIInv, IInvStep, PTL DEF LSpec

\* Every variable always holds a value of its type: no interleaving of requests makes
\* a commit write a balance that was never computed or a row that was never read.
THEOREM TypeCorrect == LSpec => []TypeOK
  <1>1. IInv => TypeOK
    BY DEF IInv
  <1> QED BY Invariance, <1>1, PTL

\* For any number of requests, assets and transfers: a balance is what the committed
\* requests add up to, unless a commit was computed from a row that another request had
\* changed since it was read (create_transfer, update_transfer, delete_transfer).
THEOREM BalancesExactUnlessRaced == LSpec => []ExactUnlessRaced
  <1>1. IInv => ExactUnlessRaced
    BY DEF IInv
  <1> QED BY Invariance, <1>1, PTL

\* Every request of a deadlock waits to write the balance of its target, the source of
\* another one: the order in which the service updates its rows admits no other cycle.
THEOREM CrossedTransfersOnly == LSpec => []OnlyCrossedTransfersDeadlock
  <1>1. ASSUME IInv, NEW r \in Requests, Deadlocked(r)
        PROVE  /\ pc[r] = "writeTo"
               /\ \E q \in Requests \ {r} : pc[q] = "writeTo" /\ call[q].from = call[r].to
    <2>0. /\ TypeOK /\ Shapes
          /\ \A q \in Requests, x \in Rows : lock[x] = q => Holds(q, x)
      BY <1>1, LockHalves DEF IInv
    <2>1. PICK S \in SUBSET Requests :
            /\ r \in S
            /\ \A p \in S : \E q \in S : WaitsFor(p, q)
            /\ \A p \in S : \E q \in S : WaitsFor(q, p)
      BY <1>1 DEF Deadlocked
    <2>2. ASSUME NEW p \in S
          PROVE  pc[p] \in {"writeFrom", "writeTo", "writeRow", "writeAsset"} /\ Wanted(p) \in Rows
      <3>1. Wanted(p) # Null
        BY <2>1 DEF WaitsFor
      <3>2. pc[p] \in {"writeFrom", "writeTo", "writeRow", "writeAsset"}
        BY <3>1 DEF Wanted
      <3>3. CallShape(p)
        BY <2>0, <2>1 DEF Shapes
      <3> QED BY <3>1, <3>2, <3>3 DEF Wanted, CallShape, Rows
    <2>3. ASSUME NEW p \in S, NEW q \in S, WaitsFor(p, q)
          PROVE  /\ pc[q] \in {"writeTo", "writeRow"} /\ call[q].op \in TransferOps
                 /\ \/ Wanted(p) = call[q].from
                    \/ Wanted(p) = call[q].to /\ pc[q] = "writeRow"
      <3>1. Holds(q, Wanted(p))
        BY <2>0, <2>1, <2>2, <2>3 DEF WaitsFor
      <3> QED BY <2>2, <3>1 DEF Holds, FromLocked, ToLocked
    <2>4. ASSUME NEW p \in S PROVE pc[p] = "writeTo"
      <3>1. pc[p] \in {"writeTo", "writeRow"} /\ CallShape(p)
        BY <2>0, <2>1, <2>3 DEF Shapes
      <3>2. ASSUME pc[p] = "writeRow" PROVE FALSE
        <4>1. PICK q \in S : WaitsFor(p, q)
          BY <2>1
        <4>2. Wanted(p) \in TransferIds
          BY <2>2, <3>1, <3>2, <4>1 DEF WaitsFor, Wanted, CallShape
        <4>3. call[q].from \in Assets /\ call[q].to \in Assets
          BY <2>0, <2>1, <2>3, <4>1 DEF Shapes, CallShape
        <4> QED BY <2>3, <4>1, <4>2, <4>3, ConstantsAssumption
      <3> QED BY <3>1, <3>2
    <2>5. PICK q \in S : WaitsFor(r, q)
      BY <2>1
    <2>6. q # r /\ Wanted(r) = call[q].from
      BY <2>1, <2>3, <2>4, <2>5 DEF WaitsFor
    <2>7. Wanted(r) = call[r].to
      BY <2>1, <2>4 DEF Wanted
    <2> QED BY <2>1, <2>4, <2>6, <2>7
  <1>2. IInv => OnlyCrossedTransfersDeadlock
    BY <1>1 DEF OnlyCrossedTransfersDeadlock
  <1> QED BY Invariance, <1>2, PTL

\* Once an asset of a transfer is deleted (AssetService.delete looks for no references),
\* no request ever changes or deletes the transfer again.
THEOREM OrphansStay == LSpec => OrphansAreFrozen
  <1>1. ASSUME IInv, [LNext]_lvars, NEW t \in TransferIds, Orphaned(t)
        PROVE  transfer'[t] = transfer[t]
    <2> SUFFICES ASSUME transfer'[t] # transfer[t] PROVE FALSE
      OBVIOUS
    <2>0. RowsRead /\ LockDiscipline
      BY <1>1 DEF IInv
    <2>1. PICK r \in Requests :
            /\ call[r].t = t /\ pc[r] = "commit" /\ call[r].op \in TransferOps
            /\ call[r].op \in RowOps \/ (call[r].op = "create" /\ transfer[t] = Null)
      BY <1>1, RowChanges DEF RowOps
    <2>2. Live(call[r].from) /\ Live(call[r].to)
      BY <2>0, <2>1 DEF LockDiscipline, FromLocked, ToLocked
    <2>3. transfer[t].from = call[r].from /\ transfer[t].to = call[r].to
      BY <1>1, <2>0, <2>1 DEF RowsRead, Orphaned
    <2> QED BY <1>1, <2>2, <2>3 DEF Orphaned
  <1>2. IInv /\ [LNext]_lvars =>
          [\A t \in TransferIds : Orphaned(t) => transfer'[t] = transfer[t]]_vars
    BY <1>1
  <1> QED BY Invariance, <1>2, PTL DEF LSpec, OrphansAreFrozen

-----------------------------------------------------------------------------
(* Transfers between members of a family.                                  *)

LEMMA AuthorisedStep == IInv /\ Authorised /\ [LNext]_lvars => Authorised'
  <1> SUFFICES ASSUME IInv, Authorised, [LNext]_lvars, NEW r \in Requests,
                      pc'[r] \in Checked, call'[r].op = "create"
               PROVE  MayTransfer(call'[r])
    BY DEF Authorised, MayTransfer
  <1>0. TypeOK /\ Shapes /\ CallShape(r)
    BY DEF IInv, Shapes
  <1>1. pc'[r] # "idle"
    BY DEF Checked
  <1>2. CASE pc'[r] = pc[r] /\ call'[r] = call[r]
    BY <1>2 DEF Authorised
  <1>3. CASE Read(r)
    <2>1. CASE ReadTo(r)
      BY <1>0, <2>1 DEF ReadTo
    <2>2. CASE ReadOwner(r)
      BY <1>0, <2>2 DEF ReadOwner, Authorised, Checked
    <2>3. CASE ReadRow(r) \/ ReadFrom(r) \/ ReadAsset(r)
      BY <1>0, <2>3 DEF ReadRow, ReadFrom, ReadAsset, Goto, TypeOK, Checked
    <2> QED BY <1>3, <2>1, <2>2, <2>3 DEF Read
  <1>4. CASE Write(r)
    <2>1. call' = call /\ pc[r] \in Checked \cup {"writeAsset"}
      BY <1>4 DEF Write, WriteFrom, WriteTo, WriteRow, WriteAsset, Checked
    <2>2. pc[r] # "writeAsset"
      BY <1>0, <2>1 DEF CallShape, AssetOps
    <2> QED BY <2>1, <2>2 DEF Authorised
  <1>5. CASE pc[r] = "idle" /\ Arrive(r)
    <2>1. PICK c \in Call, p \in Points : Begin(r, c, p) /\ Arrival(c, p)
      BY <1>0, <1>5, ArriveIsArrival
    <2> QED BY <1>0, <2>1 DEF Begin, Goto, Arrival, TypeOK, Checked
  <1> QED BY <1>1, <1>2, <1>3, <1>4, <1>5, Moves

LEMMA TaggedStep ==
  IInv /\ Authorised /\ FamilyTransfersAreTagged /\ [LNext]_lvars => FamilyTransfersAreTagged'
  <1> SUFFICES ASSUME IInv, Authorised, FamilyTransfersAreTagged, [LNext]_lvars,
                      NEW t \in TransferIds, transfer'[t] # Null
               PROVE  /\ Owner[transfer'[t].from] = transfer'[t].user
                      /\ (transfer'[t].group = Null) <=>
                             (Owner[transfer'[t].to] = transfer'[t].user)
    BY DEF FamilyTransfersAreTagged
  <1>0. TypeOK /\ Shapes
    BY DEF IInv
  <1>1. CASE transfer'[t] = transfer[t]
    BY <1>1 DEF FamilyTransfersAreTagged
  <1>2. CASE transfer'[t] # transfer[t]
    <2>1. PICK r \in Requests :
            /\ LCommitTransfer(r) /\ call[r].t = t /\ pc[r] = "commit"
            /\ call[r].op \in {"create", "update"}
            /\ call[r].op = "update" => /\ transfer[t] \in TransferRow
                                        /\ transfer'[t] = Revised(transfer[t], call[r])
      BY <1>2, RowChanges
    <2>2. CASE call[r].op = "create"
      <3>1. MayTransfer(call[r])
        BY <2>1, <2>2 DEF Authorised, Checked
      <3>2. CommitCreate(r)
        BY <2>1, <2>2 DEF LCommitTransfer, CommitUpdate, CommitDelete
      <3>3. transfer'[t] =
              [user |-> call[r].user, from |-> call[r].from, to |-> call[r].to,
               amount |-> call[r].amount, fee |-> call[r].fee,
               group |-> IF Owner[call[r].to] = call[r].user THEN Null ELSE call[r].group]
        BY <1>0, <2>1, <3>2 DEF CommitCreate, TypeOK
      <3> QED BY <3>1, <3>3 DEF MayTransfer
    <2>3. CASE call[r].op = "update"
      <3>1. call[r].amount \in (Nat \ {0}) \cup {Null} /\ call[r].fee \in Nat \cup {Null}
        BY <1>0, <2>1, <2>3 DEF Shapes, CallShape
      <3>2. /\ transfer'[t].from = transfer[t].from /\ transfer'[t].to = transfer[t].to
            /\ transfer'[t].user = transfer[t].user /\ transfer'[t].group = transfer[t].group
        BY <2>1, <2>3, <3>1, RevisedIsRow
      <3>3. transfer[t] # Null
        BY <2>1, <2>3, ConstantsAssumption
      <3> QED BY <3>2, <3>3 DEF FamilyTransfersAreTagged
    <2> QED BY <2>1, <2>2, <2>3
  <1> QED BY <1>1, <1>2

\* A transfer between two people is in the family of the sender, and a transfer always
\* leaves an asset of the person who makes it: create_transfer checks both on what it
\* loaded at the start, and no later update of a row changes its parties.
THEOREM TransfersAreTagged == LSpec => []FamilyTransfersAreTagged
  <1>1. LInit => Authorised /\ FamilyTransfersAreTagged
    BY DEF LInit, Init, Authorised, Checked, FamilyTransfersAreTagged
  <1> QED BY Invariance, <1>1, AuthorisedStep, TaggedStep, PTL DEF LSpec

-----------------------------------------------------------------------------
(* One request at a time, the transfer API implements AtomicLedger.        *)

LEMMA SentStep == IInv /\ Sent /\ [LNext]_lvars => Sent'
  <1> SUFFICES ASSUME IInv, Sent, [LNext]_lvars, NEW r \in Requests, pc'[r] # "idle"
               PROVE  SentBy(call'[r])
    BY DEF Sent, SentBy
  <1>0. TypeOK /\ Shapes
    BY DEF IInv
  <1>1. CASE pc[r] # "idle" /\ call'[r] = call[r]
    BY <1>1 DEF Sent
  <1>2. CASE ReadRow(r)
    <2>1. pc[r] # "idle" /\ call[r] \in Call
      BY <1>0, <1>2 DEF ReadRow, Shapes, CallShape, TypeOK
    <2>2. call'[r] = [call[r] EXCEPT !.from = transfer[call[r].t].from,
                                     !.to = transfer[call[r].t].to]
      BY <1>0, <1>2 DEF ReadRow, TypeOK
    <2>3. call'[r].op = call[r].op /\ call'[r].amount = call[r].amount
          /\ call'[r].fee = call[r].fee
      BY <2>1, <2>2 DEF Call
    <2> QED BY <2>1, <2>3 DEF Sent, SentBy
  <1>3. CASE pc[r] # "idle" /\ (Read(r) \/ Write(r)) /\ ~ReadRow(r)
    <2>1. call' = call
      BY <1>3 DEF Read, ReadFrom, ReadTo, ReadOwner, ReadAsset,
                  Write, WriteFrom, WriteTo, WriteRow, WriteAsset
    <2> QED BY <1>1, <1>3, <2>1
  <1>4. CASE pc[r] = "idle" /\ Arrive(r)
    <2>1. PICK c \in Call, p \in Points : Begin(r, c, p) /\ Arrival(c, p)
      BY <1>0, <1>4, ArriveIsArrival
    <2>2. call'[r] = c
      BY <1>0, <2>1 DEF Begin, TypeOK
    <2> QED BY <2>1, <2>2 DEF Arrival
  <1> QED BY <1>1, <1>2, <1>3, <1>4, Moves

LEMMA UpToDateStep ==
  ASSUME OneAtATime
  PROVE  IInv /\ UpToDate /\ [LNext]_lvars => UpToDate'
  <1> SUFFICES ASSUME IInv, UpToDate, [LNext]_lvars, NEW q \in Requests PROVE stale'[q] = {}
    BY DEF UpToDate
  <1>0. stale[q] = {} /\ stale \in [Requests -> SUBSET Rows]
    BY DEF UpToDate, IInv, TypeOK
  <1>1. ASSUME UNCHANGED stale PROVE stale'[q] = {}
    BY <1>0, <1>1
  <1>2. ASSUME NEW r \in Requests, NEW rows, Outdate(r, rows) \/ Forget(r)
        PROVE  stale'[q] = {}
    <2>1. q = r
      BY DEF OneAtATime
    <2> QED BY <1>0, <1>2, <2>1 DEF Outdate, Forget
  <1>3. ASSUME NEW r \in Requests,
               LCommitTransfer(r) \/ LCommitSetBalance(r) \/ LCommitDropAsset(r) \/ LEnd(r)
        PROVE  stale'[q] = {}
    BY <1>2, <1>3 DEF LCommitTransfer, LCommitSetBalance, LCommitDropAsset, LEnd
  <1> QED BY <1>1, <1>3 DEF LNext, LCreateAsset, history, lvars

LEMMA LedgerFacts ==
  ASSUME TypeOK
  PROVE  /\ LedgerBalance \in [Assets -> Int \cup {Null}]
         /\ \A a \in Assets :
               /\ Live(a) => /\ LedgerBalance[a] = Worth(asset[a].balance)
                             /\ LedgerBalance[a] \in Int
               /\ ~Live(a) => LedgerBalance[a] = Null
               /\ Ledger!Exists(a) <=> Live(a)
         /\ \A t \in TransferIds : LedgerRows[t] = LedgerRow(transfer[t])
  <1>1. ASSUME NEW a \in Assets, Live(a)
        PROVE  LedgerBalance[a] = Worth(asset[a].balance) /\ LedgerBalance[a] \in Int
    <2>1. asset[a] \in AssetRow
      BY <1>1 DEF TypeOK, Live
    <2> QED BY <1>1, <2>1 DEF LedgerBalance, Worth, AssetRow
  <1>2. ASSUME NEW a \in Assets, ~Live(a) PROVE LedgerBalance[a] = Null
    BY <1>2 DEF LedgerBalance
  <1>3. LedgerBalance \in [Assets -> Int \cup {Null}]
    <2>1. \A a \in Assets : LedgerBalance[a] \in Int \cup {Null}
      BY <1>1, <1>2
    <2> QED BY <2>1 DEF LedgerBalance
  <1>4. \A a \in Assets : Ledger!Exists(a) <=> Live(a)
    BY <1>1, <1>2, ConstantsAssumption DEF Ledger!Exists
  <1> QED BY <1>1, <1>2, <1>3, <1>4 DEF LedgerRows

LEMMA LedgerRowFacts ==
  ASSUME NEW row \in TransferRow
  PROVE  /\ LedgerRow(row) =
              [from |-> row.from, to |-> row.to, amount |-> row.amount, fee |-> row.fee]
         /\ LedgerRow(row) # Null
  <1>1. row # Null
    BY ConstantsAssumption
  <1>2. LedgerRow(row) =
          [from |-> row.from, to |-> row.to, amount |-> row.amount, fee |-> row.fee]
    BY <1>1 DEF LedgerRow
  <1>3. LedgerRow(row) \in LedgerEntry
    BY <1>2 DEF LedgerEntry, TransferRow
  <1> QED BY <1>2, <1>3, LedgerAssumption

\* Taking one row back and applying another is what the effects of the two rows do.
LEMMA Rebalanced ==
  ASSUME TypeOK, NEW old, NEW new, new.from \in Assets, new.to \in Assets,
         new.from # new.to, Live(new.from), Live(new.to),
         old.amount \in Int, old.fee \in Int, new.amount \in Int, new.fee \in Int,
         LedgerBalance' \in [Assets -> Int \cup {Null}],
         LedgerBalance'[new.from]
            = LedgerBalance[new.from] + (old.amount + old.fee) - (new.amount + new.fee),
         LedgerBalance'[new.to] = LedgerBalance[new.to] - old.amount + new.amount,
         \A a \in Assets \ {new.from, new.to} : LedgerBalance'[a] = LedgerBalance[a]
  PROVE  Ledger!Rebalance(old, new)
  <1>1. LedgerBalance \in [Assets -> Int \cup {Null}]
    BY LedgerFacts
  <1> QED BY <1>1 DEF Ledger!Rebalance

\* Alone, a transfer request moves the ledger by the effects of the two rows.
LEMMA CommitMoves ==
  ASSUME LedgerInv, UpToDate, [LNext]_lvars, NEW r \in Requests, LCommitTransfer(r)
  PROVE  LET c == call[r]
         IN  /\ c.from \in Assets /\ c.to \in Assets /\ c.from # c.to /\ c.t \in TransferIds
             /\ Live(c.from) /\ Live(c.to)
             /\ LedgerBalance' \in [Assets -> Int \cup {Null}]
             /\ LedgerBalance'[c.from] = LedgerBalance[c.from]
                  + Effect(transfer'[c.t], c.from) - Effect(transfer[c.t], c.from)
             /\ LedgerBalance'[c.to] = LedgerBalance[c.to]
                  + Effect(transfer'[c.t], c.to) - Effect(transfer[c.t], c.to)
             /\ \A a \in Assets \ {c.from, c.to} : LedgerBalance'[a] = LedgerBalance[a]
             /\ \A t \in TransferIds \ {c.t} : transfer'[t] = transfer[t]
             /\ transfer' \in [TransferIds -> TransferRow \cup {Null}]
  <1> DEFINE c == call[r]
  <1>0. IInv /\ TypeOK /\ Shapes /\ RowsRead /\ LockDiscipline
    BY DEF LedgerInv, IInv
  <1>1. CommitCreate(r) \/ CommitUpdate(r) \/ CommitDelete(r)
    BY DEF LCommitTransfer
  <1>2. /\ pc[r] = "commit" /\ c.op \in TransferOps /\ CommitBalances(r)
        /\ c.t \in TransferIds /\ c.from \in Assets /\ c.to \in Assets /\ c.from # c.to
        /\ transfer' \in [TransferIds -> TransferRow \cup {Null}]
        /\ \A t \in TransferIds \ {c.t} : transfer'[t] = transfer[t]
    BY <1>0, <1>1, CommitRowTypes DEF Shapes, CallShape
  <1>3. stale[r] = {}
    BY DEF UpToDate
  <1>4. TypeOK'
    BY <1>0, TypeStep
  <1>5. LedgerBalance' = [a \in Assets |-> IF Live(a)' THEN Worth(asset'[a].balance) ELSE Null]
    BY DEF LedgerBalance, Worth
  <1>6. \A a \in Assets : Live(a)' <=> Live(a)
    BY <1>0, <1>2, TransfersKeepAssets
  <1>7. ASSUME NEW a \in {c.from, c.to}
        PROVE  /\ Live(a)
               /\ LedgerBalance'[a] = LedgerBalance[a]
                     + Effect(transfer'[c.t], a) - Effect(transfer[c.t], a)
    <2>1. a \in Assets
      BY <1>2
    <2>2. /\ Live(a)
          /\ (IF a = c.from THEN NewBalances(r).from ELSE NewBalances(r).to)
               = Worth(asset[a].balance) + Effect(transfer'[c.t], a) - Effect(transfer[c.t], a)
      BY <1>0, <1>3, FreshCommitsAreExact
    <2>3. Worth(asset'[a].balance) = IF a = c.from THEN NewBalances(r).from ELSE NewBalances(r).to
      BY <1>0, <1>2, <2>1, <2>2, CommitWrites
    <2>4. LedgerBalance[a] = Worth(asset[a].balance)
      BY <1>0, <2>1, <2>2, LedgerFacts
    <2>5. LedgerBalance'[a] = Worth(asset'[a].balance)
      BY <1>5, <1>6, <2>1, <2>2
    <2> QED BY <2>2, <2>3, <2>4, <2>5
  <1>8. ASSUME NEW a \in Assets \ {c.from, c.to} PROVE LedgerBalance'[a] = LedgerBalance[a]
    <2>1. asset'[a] = asset[a]
      BY <1>2 DEF CommitBalances
    <2> QED BY <1>5, <1>6, <2>1 DEF LedgerBalance
  <1>9. LedgerBalance' \in [Assets -> Int \cup {Null}]
    <2>1. \A a \in Assets : Live(a)' => Worth(asset'[a].balance) \in Int
      BY <1>4 DEF TypeOK, Live, Worth, AssetRow
    <2> QED BY <1>5, <2>1
  <1> QED BY <1>2, <1>7, <1>8, <1>9

LEMMA CommitIsLedgerStep ==
  ASSUME LedgerInv, UpToDate, [LNext]_lvars, NEW r \in Requests, LCommitTransfer(r)
  PROVE  Ledger!ANext
  <1> DEFINE c == call[r]
             t == c.t
  <1>0. /\ IInv /\ TypeOK /\ Shapes /\ RowsRead /\ LockDiscipline /\ Fresh /\ Identities
        /\ SentBy(c)
    <2>1. pc[r] # "idle"
      BY DEF LCommitTransfer, CommitCreate, CommitUpdate, CommitDelete
    <2> QED BY <2>1 DEF LedgerInv, IInv, Sent
  <1>1. CommitCreate(r) \/ CommitUpdate(r) \/ CommitDelete(r)
    BY DEF LCommitTransfer
  <1>2. /\ c.from \in Assets /\ c.to \in Assets /\ c.from # c.to /\ t \in TransferIds
        /\ Live(c.from) /\ Live(c.to)
        /\ LedgerBalance' \in [Assets -> Int \cup {Null}]
        /\ LedgerBalance'[c.from] = LedgerBalance[c.from]
             + Effect(transfer'[t], c.from) - Effect(transfer[t], c.from)
        /\ LedgerBalance'[c.to] = LedgerBalance[c.to]
             + Effect(transfer'[t], c.to) - Effect(transfer[t], c.to)
        /\ \A a \in Assets \ {c.from, c.to} : LedgerBalance'[a] = LedgerBalance[a]
        /\ \A x \in TransferIds \ {t} : transfer'[x] = transfer[x]
        /\ transfer' \in [TransferIds -> TransferRow \cup {Null}]
    BY CommitMoves
  <1>3. Ledger!Exists(c.from) /\ Ledger!Exists(c.to)
    BY <1>0, <1>2, LedgerFacts
  <1>4. LedgerBalance[c.from] \in Int /\ LedgerBalance[c.to] \in Int
    BY <1>0, <1>2, LedgerFacts
  <1>5. LedgerRows' = [LedgerRows EXCEPT ![t] = LedgerRow(transfer'[t])]
    <2>1. LedgerRows = [x \in TransferIds |-> LedgerRow(transfer[x])]
      BY DEF LedgerRows
    <2>2. LedgerRows' = [x \in TransferIds |-> LedgerRow(transfer'[x])]
      BY DEF LedgerRows, LedgerRow
    <2>3. \A x \in TransferIds \ {t} : LedgerRow(transfer'[x]) = LedgerRow(transfer[x])
      BY <1>2
    <2> QED BY <2>1, <2>2, <2>3
  <1>6. LedgerRows[t] = LedgerRow(transfer[t])
    BY <1>2 DEF LedgerRows
  <1>7. pc[r] = "commit" /\ CallShape(r)
    BY <1>0, <1>1 DEF CommitCreate, CommitUpdate, CommitDelete, Shapes
  <1>8. ASSUME NEW row \in TransferRow, row.from = c.from, row.to = c.to
        PROVE  /\ Effect(row, c.from) = 0 - (row.amount + row.fee)
               /\ Effect(row, c.to) = row.amount
               /\ row.amount \in Int /\ row.fee \in Int
    <2>1. row # Null /\ row.amount \in Int /\ row.fee \in Int
      BY ConstantsAssumption DEF TransferRow
    <2> QED BY <1>2, <1>8, <2>1 DEF Effect
  <1>9. Effect(Null, c.from) = 0 /\ Effect(Null, c.to) = 0
    BY DEF Effect
  <1>10. CASE CommitCreate(r)
    <2> DEFINE new == transfer'[t]
               entry == [from |-> c.from, to |-> c.to, amount |-> c.amount, fee |-> c.fee]
    <2>1. c.op = "create" /\ transfer[t] = Null /\ c.amount \in Amounts /\ c.fee \in Fees
      BY <1>0, <1>7, <1>10 DEF CommitCreate, Identities, SentBy
    <2>2. /\ new # Null /\ new.from = c.from /\ new.to = c.to
          /\ new.amount = c.amount /\ new.fee = c.fee
      <3>0. c \in Call
        BY <1>0, <1>7 DEF TypeOK, CallShape
      <3>1. PICK x \in Groups \cup {Null} : transfer' = [transfer EXCEPT ![t] =
              [user |-> c.user, from |-> c.from, to |-> c.to, amount |-> c.amount,
               fee |-> c.fee, group |-> x]]
        BY <1>10, <3>0 DEF CommitCreate, Call
      <3>2. new = [user |-> c.user, from |-> c.from, to |-> c.to, amount |-> c.amount,
                   fee |-> c.fee, group |-> x]
        BY <1>0, <1>2, <3>1 DEF TypeOK
      <3>3. new \in TransferRow
        BY <1>2, <1>7, <2>1, <3>0, <3>2 DEF CallShape, TransferRow, Call
      <3> QED BY <3>2, <3>3, ConstantsAssumption
    <2>3. new \in TransferRow
      BY <1>2, <2>2
    <2>4. LedgerRow(new) = entry
      BY <2>2, <2>3, LedgerRowFacts
    <2>5. Ledger!Blank(entry).amount = 0 /\ Ledger!Blank(entry).fee = 0
      BY DEF Ledger!Blank
    <2>6. /\ LedgerBalance'[c.from] = LedgerBalance[c.from] + (0 + 0) - (c.amount + c.fee)
          /\ LedgerBalance'[c.to] = LedgerBalance[c.to] - 0 + c.amount
          /\ c.amount \in Int /\ c.fee \in Int
      BY <1>2, <1>4, <1>8, <1>9, <2>1, <2>2, <2>3
    <2>7. Ledger!Rebalance(Ledger!Blank(entry), entry)
      BY <1>0, <1>2, <2>5, <2>6, Rebalanced
    <2>8. Ledger!Transfer(t, c.from, c.to, c.amount, c.fee)
      BY <1>2, <1>3, <1>5, <1>6, <2>1, <2>4, <2>7 DEF Ledger!Transfer, LedgerRow
    <2> QED BY <1>2, <2>1, <2>8 DEF Ledger!ANext
  <1> DEFINE old == transfer[t]
  <1>11. ASSUME c.op \in RowOps
         PROVE  old \in TransferRow /\ old.from = c.from /\ old.to = c.to
    BY <1>0, <1>2, <1>7, <1>11 DEF Fresh, RowsRead, UpToDate, TransferOps, RowOps
  <1>12. CASE CommitUpdate(r)
    <2> DEFINE new == Revised(old, c)
               entry == LedgerRow(old)
               amended == [entry EXCEPT !.amount = IF c.amount = Null THEN @ ELSE c.amount,
                                        !.fee = IF c.fee = Null THEN @ ELSE c.fee]
    <2>1. /\ c.op = "update" /\ transfer'[t] = new
          /\ c.amount \in Amounts \cup {Null} /\ c.fee \in Fees \cup {Null}
      BY <1>0, <1>2, <1>12 DEF CommitUpdate, TypeOK, SentBy
    <2>2. old \in TransferRow /\ old.from = c.from /\ old.to = c.to
      BY <1>11, <2>1 DEF RowOps
    <2>3. /\ new \in TransferRow /\ new.from = c.from /\ new.to = c.to
          /\ new.amount = IF c.amount = Null THEN old.amount ELSE c.amount
          /\ new.fee = IF c.fee = Null THEN old.fee ELSE c.fee
      BY <1>7, <2>1, <2>2, RevisedIsRow DEF CallShape
    <2>4. entry = [from |-> c.from, to |-> c.to, amount |-> old.amount, fee |-> old.fee]
          /\ entry # Null
      BY <2>2, LedgerRowFacts
    <2>5. LedgerRow(new) =
            [from |-> c.from, to |-> c.to, amount |-> new.amount, fee |-> new.fee]
      BY <2>3, LedgerRowFacts
    <2> HIDE DEF new, entry
    <2>6. /\ amended = LedgerRow(new)
          /\ amended.from = c.from /\ amended.to = c.to
          /\ amended.amount = new.amount /\ amended.fee = new.fee
      <3>1. amended = [entry EXCEPT !.amount = new.amount, !.fee = new.fee]
        BY <2>3, <2>4
      <3> HIDE DEF amended
      <3>2. amended = [from |-> c.from, to |-> c.to, amount |-> new.amount, fee |-> new.fee]
        BY <2>4, <3>1
      <3> QED BY <2>5, <3>2
    <2>7. /\ LedgerBalance'[c.from]
               = LedgerBalance[c.from] + (old.amount + old.fee) - (new.amount + new.fee)
          /\ LedgerBalance'[c.to] = LedgerBalance[c.to] - old.amount + new.amount
          /\ old.amount \in Int /\ old.fee \in Int /\ new.amount \in Int /\ new.fee \in Int
      BY <1>2, <1>4, <1>8, <2>1, <2>2, <2>3
    <2>8. Ledger!Rebalance(entry, amended)
      <3>1. entry.amount = old.amount /\ entry.fee = old.fee
        BY <2>4
      <3> HIDE DEF amended
      <3> QED BY <1>0, <1>2, <2>6, <2>7, <3>1, Rebalanced
    <2>9. Ledger!Amend(t, c.amount, c.fee)
      BY <1>3, <1>5, <1>6, <2>1, <2>4, <2>6, <2>8 DEF Ledger!Amend, entry
    <2> QED BY <1>2, <2>1, <2>9 DEF Ledger!ANext
  <1>13. CASE CommitDelete(r)
    <2> DEFINE entry == LedgerRow(old)
    <2>1. c.op = "delete" /\ transfer'[t] = Null
      BY <1>0, <1>2, <1>13 DEF CommitDelete, TypeOK
    <2>2. old \in TransferRow /\ old.from = c.from /\ old.to = c.to
      BY <1>11, <2>1 DEF RowOps
    <2>3. entry = [from |-> c.from, to |-> c.to, amount |-> old.amount, fee |-> old.fee]
          /\ entry # Null
      BY <2>2, LedgerRowFacts
    <2> HIDE DEF entry
    <2>4. /\ Ledger!Blank(entry).amount = 0 /\ Ledger!Blank(entry).fee = 0
          /\ Ledger!Blank(entry).from = c.from /\ Ledger!Blank(entry).to = c.to
      BY <2>3 DEF Ledger!Blank
    <2>5. /\ LedgerBalance'[c.from] = LedgerBalance[c.from] + (old.amount + old.fee) - (0 + 0)
          /\ LedgerBalance'[c.to] = LedgerBalance[c.to] - old.amount + 0
          /\ old.amount \in Int /\ old.fee \in Int
      <3>1. /\ Effect(old, c.from) = 0 - (old.amount + old.fee) /\ Effect(old, c.to) = old.amount
            /\ old.amount \in Int /\ old.fee \in Int
        BY <1>8, <2>2
      <3>2. Effect(transfer'[t], c.from) = 0 /\ Effect(transfer'[t], c.to) = 0
        BY <1>9, <2>1
      <3> QED BY <1>2, <1>4, <3>1, <3>2
    <2>6. Ledger!Rebalance(entry, Ledger!Blank(entry))
      <3> DEFINE blank == Ledger!Blank(entry)
      <3>1. entry.amount = old.amount /\ entry.fee = old.fee
        BY <2>3
      <3>2. blank.from = c.from /\ blank.to = c.to /\ blank.amount = 0 /\ blank.fee = 0
        BY <2>4
      <3> HIDE DEF blank
      <3>3. /\ LedgerBalance'[blank.from] = LedgerBalance[blank.from]
                 + (entry.amount + entry.fee) - (blank.amount + blank.fee)
            /\ LedgerBalance'[blank.to] = LedgerBalance[blank.to] - entry.amount + blank.amount
            /\ entry.amount \in Int /\ entry.fee \in Int
            /\ blank.amount \in Int /\ blank.fee \in Int
        BY <2>5, <3>1, <3>2
      <3>4. Ledger!Rebalance(entry, blank)
        BY <1>0, <1>2, <3>2, <3>3, Rebalanced
      <3> QED BY <3>4 DEF blank
    <2>7. LedgerRow(transfer'[t]) = Null
      BY <2>1 DEF LedgerRow
    <2>8. Ledger!Cancel(t)
      BY <1>3, <1>5, <1>6, <2>3, <2>6, <2>7 DEF Ledger!Cancel, entry
    <2> QED BY <1>2, <2>8 DEF Ledger!ANext
  <1> QED BY <1>1, <1>10, <1>12, <1>13

\* A write to one asset is a write to one balance.
LEMMA OneBalance ==
  ASSUME TypeOK, NEW a \in Assets, NEW row, asset' = [asset EXCEPT ![a] = row],
         NEW v, row # Null => v = Worth(row.balance), row = Null => v = Null
  PROVE  LedgerBalance' = [LedgerBalance EXCEPT ![a] = v]
  <1>1. LedgerBalance' =
          [b \in Assets |-> IF asset'[b] # Null THEN Worth(asset'[b].balance) ELSE Null]
    BY DEF LedgerBalance, Worth, Live
  <1>2. asset'[a] = row /\ \A b \in Assets \ {a} : asset'[b] = asset[b]
    BY DEF TypeOK
  <1>3. \A b \in Assets : LedgerBalance'[b] = IF b = a THEN v ELSE LedgerBalance[b]
    BY <1>1, <1>2 DEF LedgerBalance, Live
  <1>4. LedgerBalance \in [Assets -> Int \cup {Null}]
    BY LedgerFacts
  <1> QED BY <1>1, <1>3, <1>4

LEMMA LedgerStays ==
  ASSUME UNCHANGED <<asset, transfer>>
  PROVE  UNCHANGED Ledger!avars
  BY DEF Ledger!avars, LedgerBalance, LedgerRows, LedgerRow, Live, Worth

LEMMA RowsStay ==
  ASSUME UNCHANGED transfer
  PROVE  UNCHANGED LedgerRows
  BY DEF LedgerRows, LedgerRow

LEMMA SetBalanceIsLedgerStep ==
  ASSUME LedgerInv, [LNext]_lvars, NEW r \in Requests, CommitSetBalance(r)
  PROVE  [Ledger!ANext]_(Ledger!avars)
  <1> DEFINE c == call[r]
  <1>0. /\ TypeOK /\ Shapes /\ LockDiscipline /\ pc[r] = "commit" /\ c.op = "setBalance"
        /\ SentBy(c)
    BY DEF LedgerInv, IInv, CommitSetBalance, Sent
  <1>1. c.from \in Assets /\ Live(c.from) /\ c.amount \in Balances \cup {Null}
    BY <1>0 DEF Shapes, CallShape, AssetOps, LockDiscipline, SentBy
  <1>2. CASE c.amount = Null
    BY <1>2, LedgerStays DEF CommitSetBalance
  <1>3. CASE c.amount # Null
    <2> DEFINE row == [asset[c.from] EXCEPT !.balance = c.amount]
    <2>1. asset' = [asset EXCEPT ![c.from] = row] /\ UNCHANGED transfer
      BY <1>0, <1>3 DEF CommitSetBalance, TypeOK
    <2>2. row.balance = c.amount /\ row # Null
      <3>1. asset[c.from] \in AssetRow /\ c.amount \in Int
        BY <1>0, <1>1, <1>3, ConstantsAssumption DEF TypeOK, Live
      <3>2. row.balance = c.amount /\ row \in AssetRow
        BY <3>1 DEF AssetRow
      <3> QED BY <3>2, ConstantsAssumption
    <2> HIDE DEF row
    <2>3. LedgerBalance' = [LedgerBalance EXCEPT ![c.from] = c.amount]
      BY <1>0, <1>1, <1>3, <2>1, <2>2, OneBalance DEF Worth
    <2>4. Ledger!Exists(c.from) /\ UNCHANGED LedgerRows
      BY <1>0, <1>1, <2>1, LedgerFacts, RowsStay
    <2>5. Ledger!SetBalance(c.from, c.amount)
      BY <2>3, <2>4 DEF Ledger!SetBalance
    <2> QED BY <1>1, <1>3, <2>5 DEF Ledger!ANext
  <1> QED BY <1>2, <1>3

LEMMA DropAssetIsLedgerStep ==
  ASSUME LedgerInv, NEW r \in Requests, CommitDropAsset(r)
  PROVE  [Ledger!ANext]_(Ledger!avars)
  <1> DEFINE a == call[r].from
  <1>0. TypeOK /\ Shapes /\ pc[r] = "commit" /\ call[r].op = "dropAsset"
    BY DEF LedgerInv, IInv, CommitDropAsset
  <1>1. a \in Assets /\ asset' = [asset EXCEPT ![a] = Null] /\ UNCHANGED transfer
    BY <1>0 DEF Shapes, CallShape, AssetOps, CommitDropAsset
  <1>2. CASE Live(a)
    <2>1. LedgerBalance' = [LedgerBalance EXCEPT ![a] = Null]
      BY <1>0, <1>1, OneBalance
    <2>2. Ledger!Exists(a) /\ UNCHANGED LedgerRows
      BY <1>0, <1>1, <1>2, LedgerFacts, RowsStay
    <2>3. Ledger!Close(a)
      BY <2>1, <2>2 DEF Ledger!Close
    <2> QED BY <1>1, <2>3 DEF Ledger!ANext
  <1>3. CASE ~Live(a)
    <2>1. asset' = asset
      BY <1>0, <1>1, <1>3 DEF TypeOK, Live
    <2> QED BY <1>1, <2>1, LedgerStays
  <1> QED BY <1>2, <1>3

LEMMA CreateAssetIsLedgerStep ==
  ASSUME LedgerInv, NEW a \in Assets, NEW b \in Balances \cup {Null},
         NEW g \in Groups \cup {Null}, CreateAsset(a, b, g)
  PROVE  Ledger!ANext
  <1>0. TypeOK /\ ~Live(a) /\ UNCHANGED transfer
    BY DEF LedgerInv, IInv, Identities, CreateAsset
  <1>1. PICK h \in Groups \cup {Null} : asset' = [asset EXCEPT ![a] = [balance |-> b, group |-> h]]
    BY <1>0, ConstantsAssumption DEF CreateAsset, TypeOK
  <1> DEFINE row == [balance |-> b, group |-> h]
  <1>2. row # Null /\ row.balance = b
    <2>1. row \in AssetRow
      BY ConstantsAssumption DEF AssetRow
    <2> QED BY <2>1, ConstantsAssumption
  <1>3. asset' = [asset EXCEPT ![a] = row]
    BY <1>1
  <1> HIDE DEF row
  <1>4. LedgerBalance' = [LedgerBalance EXCEPT ![a] = Worth(b)]
    <2> DEFINE v == Worth(b)
    <2>1. row # Null => v = Worth(row.balance)
      BY <1>2
    <2>2. row = Null => v = Null
      BY <1>2
    <2> HIDE DEF v
    <2>3. LedgerBalance' = [LedgerBalance EXCEPT ![a] = v]
      BY <1>0, <1>3, <2>1, <2>2, OneBalance
    <2> QED BY <2>3 DEF v
  <1>5. ~Ledger!Exists(a) /\ UNCHANGED LedgerRows
    BY <1>0, LedgerFacts, RowsStay
  <1>6. Ledger!Open(a, Worth(b))
    BY <1>4, <1>5 DEF Ledger!Open
  <1>7. Worth(b) \in Balances \cup {0}
    BY DEF Worth
  <1> QED BY <1>6, <1>7 DEF Ledger!ANext

LEMMA StepIsLedgerStep ==
  ASSUME LedgerInv, UpToDate, [LNext]_lvars
  PROVE  [Ledger!ANext]_(Ledger!avars)
  <1>1. ASSUME NEW r \in Requests, Arrive(r) \/ Read(r) \/ Write(r)
        PROVE  UNCHANGED <<asset, transfer>>
    BY <1>1 DEF Arrive, Begin, BeginCreate, BeginUpdate, BeginDelete, BeginSetBalance,
                BeginDropAsset, Read, ReadRow, ReadFrom, ReadTo, ReadOwner, ReadAsset, store,
                Write, WriteFrom, WriteTo, WriteRow, WriteAsset
  <1>2. ASSUME NEW r \in Requests, LEnd(r) PROVE UNCHANGED <<asset, transfer>>
    BY <1>2, EndIsRollback
  <1>3. ASSUME NEW u \in Users, NEW g \in Groups \cup {Null}, ChangeFamily(u, g)
        PROVE  UNCHANGED <<asset, transfer>>
    BY <1>3 DEF ChangeFamily, store
  <1>4. ASSUME UNCHANGED lvars PROVE UNCHANGED <<asset, transfer>>
    BY <1>4 DEF lvars, vars
  <1>5. CASE UNCHANGED <<asset, transfer>>
    BY <1>5, LedgerStays
  <1>6. ASSUME NEW r \in Requests,
               LCommitTransfer(r) \/ LCommitSetBalance(r) \/ LCommitDropAsset(r)
        PROVE  [Ledger!ANext]_(Ledger!avars)
    BY <1>6, CommitIsLedgerStep, SetBalanceIsLedgerStep, DropAssetIsLedgerStep
       DEF LCommitSetBalance, LCommitDropAsset
  <1>7. ASSUME NEW a \in Assets, NEW b \in Balances \cup {Null}, NEW g \in Groups \cup {Null},
               LCreateAsset(a, b, g)
        PROVE  [Ledger!ANext]_(Ledger!avars)
    BY <1>7, CreateAssetIsLedgerStep DEF LCreateAsset
  <1> QED BY <1>1, <1>2, <1>3, <1>4, <1>5, <1>6, <1>7 DEF LNext

\* When requests run one at a time, whatever fails or changes in between, every commit is
\* one operation of the ledger that the API documents, and nothing else moves a balance
\* or a transfer.
THEOREM RequestsAreAtomic == OneAtATime => (LSpec => ImplementsAtomicLedger)
  <1> SUFFICES ASSUME OneAtATime PROVE LSpec => ImplementsAtomicLedger
    OBVIOUS
  <1>1. LInit => LedgerInv /\ UpToDate
    <2>1. LInit => Authorised /\ FamilyTransfersAreTagged /\ Sent /\ UpToDate
      BY DEF LInit, Init, Authorised, Checked, FamilyTransfersAreTagged, Sent, UpToDate
    <2> QED BY <2>1, InitIInv DEF LedgerInv
  <1>2. LInit => Ledger!AInit
    BY DEF LInit, Init, Ledger!AInit, LedgerBalance, LedgerRows, LedgerRow, Live
  <1>3. LedgerInv /\ UpToDate /\ [LNext]_lvars => (LedgerInv /\ UpToDate)'
    BY IInvStep, AuthorisedStep, TaggedStep, SentStep, UpToDateStep DEF LedgerInv
  <1>4. LedgerInv /\ UpToDate /\ [LNext]_lvars => [Ledger!ANext]_(Ledger!avars)
    BY StepIsLedgerStep
  <1> QED BY <1>1, <1>2, <1>3, <1>4, PTL DEF LSpec, ImplementsAtomicLedger, Ledger!ASpec
=============================================================================

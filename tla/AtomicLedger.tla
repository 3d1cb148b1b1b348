---------------------------- MODULE AtomicLedger -----------------------------
(***************************************************************************)
(* What the transfer API promises a client (docs/API.md, section 11): each *)
(* request is one indivisible change of the balances and of the list of    *)
(* transfers.  A transfer debits amount + fee and credits amount; changing *)
(* it re-balances both assets; deleting it restores them.                  *)
(***************************************************************************)
EXTENDS Integers

CONSTANTS Assets, TransferIds, Amounts, Fees, Balances, Null

VARIABLES
    balance,  \* the balance of each asset, Null when there is no such asset
    rows      \* the transfers: [from, to, amount, fee], or Null

avars == <<balance, rows>>

AInit ==
    /\ balance = [a \in Assets |-> Null]
    /\ rows = [t \in TransferIds |-> Null]

Exists(a) == balance[a] # Null

\* Take the effect of one row back, and apply that of another.
Rebalance(old, new) ==
    balance' = [balance EXCEPT
        ![new.from] = @ + (old.amount + old.fee) - (new.amount + new.fee),
        ![new.to] = @ - old.amount + new.amount]

Blank(row) == [row EXCEPT !.amount = 0, !.fee = 0]

Transfer(t, from, to, amount, fee) ==
    LET row == [from |-> from, to |-> to, amount |-> amount, fee |-> fee]
    IN  /\ from # to /\ Exists(from) /\ Exists(to)
        /\ rows[t] = Null
        /\ rows' = [rows EXCEPT ![t] = row]
        /\ Rebalance(Blank(row), row)

\* A field that is Null keeps its value.
Amend(t, amount, fee) ==
    LET row == rows[t]
        new == [row EXCEPT !.amount = IF amount = Null THEN @ ELSE amount,
                           !.fee = IF fee = Null THEN @ ELSE fee]
    IN  /\ row # Null
        /\ Exists(row.from) /\ Exists(row.to)
        /\ rows' = [rows EXCEPT ![t] = new]
        /\ Rebalance(row, new)

Cancel(t) ==
    LET row == rows[t]
    IN  /\ row # Null
        /\ Exists(row.from) /\ Exists(row.to)
        /\ rows' = [rows EXCEPT ![t] = Null]
        /\ Rebalance(row, Blank(row))

Open(a, b) ==
    /\ ~Exists(a)
    /\ balance' = [balance EXCEPT ![a] = b]
    /\ UNCHANGED rows

SetBalance(a, b) ==
    /\ Exists(a)
    /\ balance' = [balance EXCEPT ![a] = b]
    /\ UNCHANGED rows

Close(a) ==
    /\ Exists(a)
    /\ balance' = [balance EXCEPT ![a] = Null]
    /\ UNCHANGED rows

ANext ==
    \/ \E t \in TransferIds :
          \/ \E from, to \in Assets, amount \in Amounts, fee \in Fees :
                 Transfer(t, from, to, amount, fee)
          \/ \E amount \in Amounts \cup {Null}, fee \in Fees \cup {Null} : Amend(t, amount, fee)
          \/ Cancel(t)
    \/ \E a \in Assets :
          \/ \E b \in Balances \cup {0} : Open(a, b)
          \/ \E b \in Balances : SetBalance(a, b)
          \/ Close(a)

ASpec == AInit /\ [][ANext]_avars
=============================================================================

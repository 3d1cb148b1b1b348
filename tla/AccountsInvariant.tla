-------------------------- MODULE AccountsInvariant ---------------------------
(***************************************************************************)
(* The inductive invariant behind the theorems of UserDataProofs.          *)
(***************************************************************************)
EXTENDS Accounts

InFlight(r) == call[r] # Null

\* A person's own account, as opposed to one a provider vouches for.
Own(row) == row.password # Null

\* The statement a request is at goes with its operation and with what it has read.
Shape(p, c) ==
    CASE c.op = "register" -> p = "commit" /\ c.seen = Null /\ c.arg \in Passwords /\ ~c.hidden
      [] c.op = "login" -> p = "commit" /\ c.seen # Null /\ Own(c.seen)
      [] c.op = "oauth" -> p = "commit" /\ (c.hidden => c.seen = Null)
      [] c.op = "verify" -> p \in {"readCode", "commit"} /\ c.seen # Null /\ c.arg \in Ids
      [] c.op = "resend" -> p \in {"snapshot", "commit"} /\ c.seen # Null
      [] c.op = "change" ->
            p = "commit" /\ c.seen # Null /\ Own(c.seen) /\ c.arg \in Passwords
      [] c.op = "deactivate" -> p = "commit" /\ c.seen # Null /\ Own(c.seen)

Shapes ==
    \A r \in Requests : IF InFlight(r) THEN Shape(pc[r], call[r]) ELSE pc[r] = "idle"

\* Requests are numbered as they begin: one overlaps every later one that began before
\* its end.
Numbers ==
    /\ \A r \in Requests : InFlight(r) =>
          /\ call[r].no <= begun
          /\ \A k \in Ids : call[r].no < k /\ k <= begun => Overlapped(call[r].no, k)
    /\ \A q, r \in Requests : q # r /\ InFlight(q) /\ InFlight(r) => call[q].no # call[r].no

\* A number not given out yet, or given to a request that has not ended.
Reserved(i) == i > begun \/ \E r \in Requests : InFlight(r) /\ call[r].no = i

\* No code bears such a number.
Unborn == \A i \in Ids : Reserved(i) => codes[i] = Null

-----------------------------------------------------------------------------
(* Accounts.                                                               *)

\* An account that was found is still there, and still of the same kind.
FoundOf(r) ==
    call[r].seen # Null =>
        account[call[r].address] # Null /\ (Own(account[call[r].address]) <=> Own(call[r].seen))

\* An account that was not found has been made since.
MadeSinceOf(r) ==
    call[r].op \in {"register", "oauth"} /\ call[r].seen = Null /\ ~call[r].hidden
        /\ account[call[r].address] # Null =>
            Overlapped(call[r].no, createdBy[call[r].address])

\* CredentialsInForce, of one request.
CredentialOf(r) ==
    pc[r] = "commit" /\ call[r].op \in {"login", "change", "deactivate"} =>
        /\ call[r].seen.password # account[call[r].address].password =>
              Overlapped(call[r].no, setBy[call[r].address])
        /\ call[r].op = "login" /\ account[call[r].address].status = "WITHDRAWN" =>
              \E i \in withdrawnBy[call[r].address] : Overlapped(call[r].no, i)

\* The index was violated by an account that is still there.
Broken == \A c \in broken : account[c.address] # Null

-----------------------------------------------------------------------------
(* Codes.                                                                  *)

CodeOf(k, a) == codes[k] # Null /\ codes[k].address = a

\* A code is of an account, and a valid one has no attempt on record.
CodesFit ==
    \A k \in Ids : codes[k] # Null =>
        /\ account[codes[k].address] # Null
        /\ codes[k].valid => codes[k].attempts = 0

\* The codes a request works on are of its address.
HoldsOf(r) ==
    /\ call[r].op = "verify" /\ pc[r] = "commit" => CodeOf(call[r].arg, call[r].address)
    /\ call[r].op = "resend" /\ pc[r] = "commit" =>
          \A k \in call[r].codes : CodeOf(k, call[r].address)

\* A valid code that a resend will not invalidate, although it is older than one that it
\* will, was committed after that one.
SparedOf(r) ==
    call[r].op = "resend" /\ pc[r] = "commit" =>
        \A k \in call[r].codes, i \in Ids \ call[r].codes :
            i < k /\ CodeOf(i, call[r].address) /\ codes[i].valid => Overlapped(i, k)

\* The second part of VerifiedByNewestCode, of one request.
NewestOf(r) ==
    call[r].op = "verify" /\ pc[r] = "commit" /\ ~account[call[r].address].verified =>
        \A k \in Ids : CodeOf(k, call[r].address) /\ k > call[r].arg =>
            Overlapped(k, call[r].no) \/ Overlapped(k, call[r].arg)

\* Of two codes of an unverified account, the older is valid and the newer is not only
\* when their requests were in flight together.
Superseded ==
    \A i, k \in Ids :
        i < k /\ codes[i] # Null /\ CodeOf(k, codes[i].address)
            /\ ~account[codes[i].address].verified /\ codes[i].valid /\ ~codes[k].valid =>
                Overlapped(i, k)

Found == \A r \in Requests : InFlight(r) => FoundOf(r)
MadeSince == \A r \in Requests : InFlight(r) => MadeSinceOf(r)
Credentials == \A r \in Requests : InFlight(r) => CredentialOf(r)
Holds == \A r \in Requests : InFlight(r) => HoldsOf(r)
Spared == \A r \in Requests : InFlight(r) => SparedOf(r)
Newest == \A r \in Requests : InFlight(r) => NewestOf(r)

AInv ==
    /\ TypeOK /\ Shapes /\ Numbers /\ Unborn
    /\ Found /\ MadeSince /\ Credentials /\ Broken /\ ServerErrorsExplained
    /\ CodesFit /\ Holds /\ Spared /\ Newest /\ Superseded
==============================================================================

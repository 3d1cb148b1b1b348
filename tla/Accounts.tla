------------------------------- MODULE Accounts ------------------------------
(***************************************************************************)
(* Accounts: registration, e-mail verification, login, password change and *)
(* withdrawal (app/services/auth_service.py), and login through an OAuth   *)
(* provider (app/services/oauth_service.py), under concurrent requests.    *)
(*                                                                         *)
(* A request reads the account of an address (or of the caller), decides   *)
(* on what it has read, and writes.  A request refused on its first read   *)
(* changes nothing, and is not started here: what a request presents is    *)
(* what the row it read asks for.  The index on users.email admits one row *)
(* for an address: an INSERT that meets an uncommitted one waits for it,   *)
(* and fails if it commits.  As in Confirmations, the last writes of a     *)
(* request and its commit are one step.                                    *)
(*                                                                         *)
(* created_at is the time at which a transaction began: requests, and the  *)
(* codes they insert, are numbered in that order.  Two codes never happen  *)
(* to have the same six digits here.                                       *)
(***************************************************************************)
EXTENDS Integers

CONSTANTS
    Addresses,   \* e-mail addresses
    Passwords,
    Requests,    \* requests that may be in flight at the same time
    Null,        \* None, a row that does not exist
    MaxAttempts, \* _MAX_VERIFICATION_ATTEMPTS
    MaxRequests  \* bound: how many requests are started in a behaviour

VARIABLES
    account,     \* the row of each address
    codes,       \* the verification codes, by the request that inserted them
    pc,          \* the statement each request is at
    call,        \* its arguments and what it has read
    begun,       \* requests started so far: they number the requests
    overlapped,  \* history: pairs of requests that were in flight at the same time
    createdBy,   \* history: the request that inserted each account
    setBy,       \* history: the request that set each password
    withdrawnBy, \* history: the requests that withdrew each account
    broken       \* history: the requests that met the unique index

vars == <<account, codes, pc, call, begun, overlapped, createdBy, setBy, withdrawnBy, broken>>
histories == <<createdBy, setBy, withdrawnBy, broken>>
known == <<begun, overlapped>>

Ids == 1 .. MaxRequests

\* An account made by a provider has no password: it can be neither changed nor withdrawn.
Account ==
    [provider : {"EMAIL"}, password : Passwords, verified : BOOLEAN,
     status : {"ACTIVE", "WITHDRAWN"}]
    \cup [provider : {"OAUTH"}, password : {Null}, verified : {TRUE}, status : {"ACTIVE"}]

Code == [address : Addresses, expired : BOOLEAN, valid : BOOLEAN, attempts : Nat]

\* seen: the account as read; arg: the password to set, or the code that was mailed;
\* codes: the code a verification has found, or those a resend will invalidate.
Call == [op : {"register", "login", "oauth", "verify", "resend", "change", "deactivate"},
         no : Ids, address : Addresses, seen : Account \cup {Null},
         arg : Passwords \cup Ids \cup {Null}, hidden : BOOLEAN, codes : SUBSET Ids]

\* None is neither a password nor a row.
ASSUME AccountsAssumption ==
    /\ MaxAttempts \in Nat /\ MaxRequests \in Nat
    /\ Null \notin Passwords /\ Null \notin Account /\ Null \notin Code /\ Null \notin Call

Init ==
    /\ account = [a \in Addresses |-> Null]
    /\ codes = [i \in Ids |-> Null]
    /\ pc = [r \in Requests |-> "idle"]
    /\ call = [r \in Requests |-> Null]
    /\ begun = 0
    /\ overlapped = {}
    /\ createdBy = [a \in Addresses |-> Null]
    /\ setBy = [a \in Addresses |-> Null]
    /\ withdrawnBy = [a \in Addresses |-> {}]
    /\ broken = {}

Goto(r, p) == pc' = [pc EXCEPT ![r] = p]

-----------------------------------------------------------------------------
(* Requests begin with the read of the account.                            *)

Begin(r, p, op, a, seen, arg, hidden) ==
    /\ pc[r] = "idle"
    /\ begun < MaxRequests
    /\ begun' = begun + 1
    /\ call' = [call EXCEPT ![r] =
           [op |-> op, no |-> begun + 1, address |-> a, seen |-> seen, arg |-> arg,
            hidden |-> hidden, codes |-> {}]]
    /\ overlapped' = overlapped \cup
           {{call[q].no, begun + 1} : q \in {q \in Requests : pc[q] # "idle"}}
    /\ Goto(r, p)
    /\ UNCHANGED <<account, codes, histories>>

\* Mutant: the address is not looked up.
BeginRegisterBlind(r, a, password) ==
    Begin(r, "commit", "register", a, Null, password, FALSE)

\* register: the address is not taken.
BeginRegister(r, a, password) ==
    /\ account[a] = Null
    /\ Begin(r, "commit", "register", a, Null, password, FALSE)

\* Mutant: a withdrawn account can log in.
MayLogInWithdrawn(row) == row.password # Null /\ row.verified

\* login: the password is right, the account neither withdrawn nor unverified.
MayLogIn(row) == row.password # Null /\ row.status # "WITHDRAWN" /\ row.verified

BeginLogin(r, a) ==
    /\ account[a] # Null
    /\ MayLogIn(account[a])
    /\ Begin(r, "commit", "login", a, account[a], Null, FALSE)

\* authenticate, once the provider has told the profile; a profile that hides its
\* address is not looked up, and its account has the relay address made from its id.
BeginOAuth(r, a, hidden) ==
    LET seen == IF hidden THEN Null ELSE account[a]
    IN  /\ seen # Null => ~(seen.provider = "EMAIL" /\ seen.password # Null)
        /\ Begin(r, "commit", "oauth", a, seen, Null, hidden)

BeginVerify(r, a, code) ==
    /\ account[a] # Null
    /\ codes[code] # Null
    /\ Begin(r, "readCode", "verify", a, account[a], code, FALSE)

BeginResend(r, a) ==
    /\ account[a] # Null
    /\ Begin(r, "snapshot", "resend", a, account[a], Null, FALSE)

\* change_password, deactivate_account: get_current_user reads the caller, whose token
\* stays good whatever becomes of the account.
BeginChange(r, a, password) ==
    /\ account[a] # Null
    /\ account[a].password # Null
    /\ Begin(r, "commit", "change", a, account[a], password, FALSE)

BeginDeactivate(r, a) ==
    /\ account[a] # Null
    /\ account[a].password # Null
    /\ Begin(r, "commit", "deactivate", a, account[a], Null, FALSE)

\* Ten minutes pass.
Expire(k) ==
    /\ codes[k] # Null
    /\ codes' = [codes EXCEPT ![k].expired = TRUE]
    /\ UNCHANGED <<account, pc, call, known, histories>>

-----------------------------------------------------------------------------
(* Statements in between.                                                  *)

ValidCodes(a) == {k \in Ids : codes[k] # Null /\ codes[k].address = a /\ codes[k].valid}

\* get_email_verification
LatestCode(a, k) == k \in ValidCodes(a) /\ \A other \in ValidCodes(a) : other <= k

ReadCode(r) ==
    LET c == call[r]
    IN  /\ pc[r] = "readCode"
        /\ LatestCode(c.address, c.arg)
        /\ ~codes[c.arg].expired
        /\ call' = [call EXCEPT ![r].codes = {c.arg}]
        /\ Goto(r, "commit")
        /\ UNCHANGED <<account, codes, known, histories>>

\* The UPDATE of invalidate_all_verifications begins: it sees no code committed later.
Snapshot(r) ==
    /\ pc[r] = "snapshot"
    /\ call' = [call EXCEPT ![r].codes = ValidCodes(call[r].address)]
    /\ Goto(r, "commit")
    /\ UNCHANGED <<account, codes, known, histories>>

-----------------------------------------------------------------------------
(* Last statements and commits.                                            *)

End(r) ==
    /\ Goto(r, "idle")
    /\ call' = [call EXCEPT ![r] = Null]
    /\ UNCHANGED known

AtCommit(r, op) == pc[r] = "commit" /\ call[r].op = op

NewCode(c) ==
    [address |-> c.address, expired |-> FALSE, valid |-> TRUE, attempts |-> 0]

\* The user, the code, the default categories and the default asset.
CommitRegister(r) ==
    LET c == call[r]
    IN  /\ AtCommit(r, "register")
        /\ account[c.address] = Null
        /\ account' = [account EXCEPT ![c.address] =
               [provider |-> "EMAIL", password |-> c.arg, verified |-> FALSE,
                status |-> "ACTIVE"]]
        /\ codes' = [codes EXCEPT ![c.no] = NewCode(c)]
        /\ createdBy' = [createdBy EXCEPT ![c.address] = c.no]
        /\ setBy' = [setBy EXCEPT ![c.address] = c.no]
        /\ UNCHANGED <<withdrawnBy, broken>>
        /\ End(r)

\* last_login_at, which nothing reads, is left out.
CommitLogin(r) ==
    /\ AtCommit(r, "login")
    /\ UNCHANGED <<account, codes, histories>>
    /\ End(r)

\* An account found, whoever the provider was, or a new one.
CommitOAuth(r) ==
    LET c == call[r]
    IN  /\ AtCommit(r, "oauth")
        /\ \/ c.seen # Null /\ UNCHANGED <<account, createdBy>>
           \/ /\ c.seen = Null
              /\ account[c.address] = Null
              /\ account' = [account EXCEPT ![c.address] =
                     [provider |-> "OAUTH", password |-> Null, verified |-> TRUE,
                      status |-> "ACTIVE"]]
              /\ createdBy' = [createdBy EXCEPT ![c.address] = c.no]
        /\ UNCHANGED <<codes, setBy, withdrawnBy, broken>>
        /\ End(r)

\* The INSERT violates the unique index: a server error.
UniqueViolation(r) ==
    LET c == call[r]
    IN  /\ AtCommit(r, "register") \/ AtCommit(r, "oauth")
        /\ c.seen = Null
        /\ account[c.address] # Null
        /\ broken' = broken \cup {c}
        /\ UNCHANGED <<account, codes, createdBy, setBy, withdrawnBy>>
        /\ End(r)

\* Mutant: the code stays valid.
CommitVerifyReusable(r) ==
    LET c == call[r]
    IN  /\ AtCommit(r, "verify")
        /\ codes[c.arg].attempts < MaxAttempts
        /\ codes' = [codes EXCEPT ![c.arg].attempts = @ + 1]
        /\ account' = [account EXCEPT ![c.address].verified = TRUE]
        /\ UNCHANGED histories
        /\ End(r)

\* The attempt is counted, and the code compared with the one read.
CommitVerify(r) ==
    LET c == call[r]
    IN  /\ AtCommit(r, "verify")
        /\ codes[c.arg].attempts < MaxAttempts
        /\ codes' = [codes EXCEPT ![c.arg].attempts = @ + 1, ![c.arg].valid = FALSE]
        /\ account' = [account EXCEPT ![c.address].verified = TRUE]
        /\ UNCHANGED histories
        /\ End(r)

CommitResend(r) ==
    LET c == call[r]
    IN  /\ AtCommit(r, "resend")
        /\ codes' = [k \in Ids |->
               IF k = c.no THEN NewCode(c)
               ELSE IF k \in c.codes THEN [codes[k] EXCEPT !.valid = FALSE]
               ELSE codes[k]]
        /\ UNCHANGED <<account, histories>>
        /\ End(r)

CommitChange(r) ==
    LET c == call[r]
    IN  /\ AtCommit(r, "change")
        /\ account' = [account EXCEPT ![c.address].password = c.arg]
        /\ setBy' = [setBy EXCEPT ![c.address] = c.no]
        /\ UNCHANGED <<codes, createdBy, withdrawnBy, broken>>
        /\ End(r)

CommitDeactivate(r) ==
    LET c == call[r]
    IN  /\ AtCommit(r, "deactivate")
        /\ account' = [account EXCEPT ![c.address].status = "WITHDRAWN"]
        /\ withdrawnBy' = [withdrawnBy EXCEPT ![c.address] = @ \cup {c.no}]
        /\ UNCHANGED <<codes, createdBy, setBy, broken>>
        /\ End(r)

-----------------------------------------------------------------------------
(* Other ends.                                                             *)

\* No valid code, expired, another code, or too many attempts: the endpoint does not
\* commit, so that the attempt and the invalidation leave no trace.
Refused(r) ==
    LET c == call[r]
    IN  \/ pc[r] = "readCode" /\ (LatestCode(c.address, c.arg) => codes[c.arg].expired)
        \/ AtCommit(r, "verify") /\ codes[c.arg].attempts >= MaxAttempts

Rollback(r) ==
    /\ pc[r] # "idle"
    /\ UNCHANGED <<account, codes, histories>>
    /\ End(r)

Refuse(r) == Refused(r) /\ Rollback(r)

\* A statement fails, the connection is lost.
Crash(r) == Rollback(r)

-----------------------------------------------------------------------------

Arrive(r) ==
    \E a \in Addresses :
        \/ BeginLogin(r, a) \/ BeginResend(r, a) \/ BeginDeactivate(r, a)
        \/ \E hidden \in BOOLEAN : BeginOAuth(r, a, hidden)
        \/ \E password \in Passwords : BeginRegister(r, a, password) \/ BeginChange(r, a, password)
        \/ \E code \in Ids : BeginVerify(r, a, code)

Execute(r) ==
    \/ ReadCode(r) \/ Snapshot(r)
    \/ CommitRegister(r) \/ CommitLogin(r) \/ CommitOAuth(r) \/ UniqueViolation(r)
    \/ CommitVerify(r) \/ CommitResend(r) \/ CommitChange(r) \/ CommitDeactivate(r)

Next ==
    \/ \E r \in Requests : Arrive(r) \/ Execute(r) \/ Refuse(r) \/ Crash(r)
    \/ \E k \in Ids : Expire(k)

Spec == Init /\ [][Next]_vars

-----------------------------------------------------------------------------
(* Properties.                                                             *)

\* The two kinds of accounts stay apart: an account made by a provider never gets a
\* password, and with it is never withdrawn.
TypeOK ==
    /\ account \in [Addresses -> Account \cup {Null}]
    /\ codes \in [Ids -> Code \cup {Null}]
    /\ pc \in [Requests -> {"idle", "readCode", "snapshot", "commit"}]
    /\ call \in [Requests -> Call \cup {Null}]
    /\ begun \in 0 .. MaxRequests
    /\ overlapped \subseteq SUBSET Ids
    /\ createdBy \in [Addresses -> Ids \cup {Null}]
    /\ setBy \in [Addresses -> Ids \cup {Null}]
    /\ withdrawnBy \in [Addresses -> SUBSET Ids]
    /\ broken \subseteq Call

Overlapped(i, j) == {i, j} \in overlapped

\* A registration or a login ends in a violated index only when the account was made while
\* it was in flight, or when the profile hides its address and has logged in before: such
\* a profile is let in once.
ServerErrorsExplained ==
    \A c \in broken : c.hidden \/ Overlapped(c.no, createdBy[c.address])

\* An address is first verified by the newest code sent to it: a newer one belongs to a
\* request that was in flight together with the verification, or with the request that
\* sent the code used (of two resends, the one that began first may have the last word).
\* The attempts counted on a code never add up: a code still valid has none on record.
VerifiedByNewestCode ==
    /\ \A k \in Ids : codes[k] # Null /\ codes[k].valid => codes[k].attempts = 0
    /\ \A r \in Requests : LET c == call[r] IN
          AtCommit(r, "verify") /\ ~account[c.address].verified =>
              \A k \in Ids : codes[k] # Null /\ codes[k].address = c.address /\ k > c.arg =>
                  Overlapped(k, c.no) \/ Overlapped(k, c.arg)

\* A login, a password change or a withdrawal that commits was asked for with the password
\* then in force, and a login on an account then active, unless the change that overtook
\* it was in flight at the same time.
CredentialsInForce ==
    \A r \in Requests : LET c == call[r] IN
        pc[r] = "commit" /\ c.op \in {"login", "change", "deactivate"} =>
            /\ c.seen.password # account[c.address].password =>
                  Overlapped(c.no, setBy[c.address])
            /\ c.op = "login" /\ account[c.address].status = "WITHDRAWN" =>
                  \E i \in withdrawnBy[c.address] : Overlapped(c.no, i)
=============================================================================

-------------------------------- MODULE Goals --------------------------------
(***************************************************************************)
(* Savings goals (app/services/goal_service.py), under concurrent requests *)
(* of their owner.                                                         *)
(*                                                                         *)
(* An update reads the goal, refuses a closed one, and writes the fields   *)
(* it was sent; it then completes the goal if the object in the session    *)
(* has reached its target.  That object has the fields just written and,   *)
(* for the others, what was read before.  Reading the details of an        *)
(* expired goal marks it FAILED, in an endpoint that does not commit.      *)
(* As in Confirmations, the last writes and the commit are one step.       *)
(***************************************************************************)
EXTENDS Integers

CONSTANTS
    Amounts,     \* amounts a client may send
    Edits,       \* bodies of PUT /goals/{id}: partial updates
    Requests,    \* requests that may be in flight at the same time
    Null,        \* None, a row that does not exist, a field that is not sent
    MaxRequests  \* bound: how many requests are started in a behaviour

VARIABLES
    goal,        \* committed goals
    pc,          \* the statement each request is at
    call,        \* its arguments and what it has read
    begun,       \* requests started so far: they number the requests
    overlapped,  \* history: pairs of requests that were in flight at the same time
    raced,       \* history: goals written on the strength of an outdated row
    closedBy,    \* history: the request that completed each goal
    shown        \* history: the goals whose details were answered as FAILED

vars == <<goal, pc, call, begun, overlapped, raced, closedBy, shown>>
known == <<begun, overlapped>>
histories == <<raced, closedBy, shown>>

Ids == 1 .. MaxRequests

Goal == [target : Amounts \ {0}, current : Nat, expired : BOOLEAN,
         status : {"ACTIVE", "COMPLETED"}]

\* target, current, expired: the fields sent; expired stands for an end_date in the past.
Body == [target : (Amounts \ {0}) \cup {Null}, current : Amounts \cup {Null},
         expired : BOOLEAN \cup {Null}]

Call == [op : {"update", "delete", "detail"}, no : Ids, goal : Ids,
         body : Body \cup {Null}, seen : Goal \cup {Null}]

\* What the constants are assumed to be; UserData assumes it of its instance.
GoalsAssumption ==
    /\ Amounts \subseteq Nat
    /\ Edits \subseteq Body
    /\ MaxRequests \in Nat
    /\ Null \notin Amounts /\ Null \notin Ids /\ Null \notin BOOLEAN
    /\ Null \notin Goal /\ Null \notin Call

Init ==
    /\ goal = [g \in Ids |-> Null]
    /\ pc = [r \in Requests |-> "idle"]
    /\ call = [r \in Requests |-> Null]
    /\ begun = 0
    /\ overlapped = {}
    /\ raced = {}
    /\ closedBy = [g \in Ids |-> Null]
    /\ shown = {}

Goto(r, p) == pc' = [pc EXCEPT ![r] = p]

-----------------------------------------------------------------------------
(* Requests begin.                                                         *)

\* create: the target is positive, and nothing is saved yet.
Create(target, expired) ==
    /\ begun < MaxRequests
    /\ target > 0
    /\ begun' = begun + 1
    /\ goal' = [goal EXCEPT ![begun + 1] =
           [target |-> target, current |-> 0, expired |-> expired, status |-> "ACTIVE"]]
    /\ UNCHANGED <<pc, call, overlapped, histories>>

Begin(r, op, g, body) ==
    /\ pc[r] = "idle"
    /\ begun < MaxRequests
    /\ goal[g] # Null
    /\ begun' = begun + 1
    /\ call' = [call EXCEPT ![r] =
           [op |-> op, no |-> begun + 1, goal |-> g, body |-> body, seen |-> Null]]
    /\ overlapped' = overlapped \cup
           {{call[q].no, begun + 1} : q \in {q \in Requests : pc[q] # "idle"}}
    /\ Goto(r, "read")
    /\ UNCHANGED <<goal, histories>>

BeginUpdate(r, g, body) == Begin(r, "update", g, body)

BeginDelete(r, g) == Begin(r, "delete", g, Null)

BeginDetail(r, g) == Begin(r, "detail", g, Null)

\* The end_date of a goal goes by.
Expire(g) ==
    /\ goal[g] # Null
    /\ goal' = [goal EXCEPT ![g].expired = TRUE]
    /\ UNCHANGED <<pc, call, known, histories>>

-----------------------------------------------------------------------------
(* The statements.                                                         *)

\* A closed goal is not updated.
Open(c, row) == c.op = "update" => row.status \notin {"COMPLETED", "FAILED"}

Read(r) ==
    LET c == call[r]
        row == goal[c.goal]
    IN  /\ pc[r] = "read"
        /\ row # Null
        /\ Open(c, row)
        /\ call' = [call EXCEPT ![r].seen = row]
        /\ Goto(r, "commit")
        /\ UNCHANGED <<goal, known, histories>>

End(r) ==
    /\ Goto(r, "idle")
    /\ call' = [call EXCEPT ![r] = Null]
    /\ UNCHANGED known

AtCommit(r, op) == pc[r] = "commit" /\ call[r].op = op

\* The fields sent over those of a row.
Patched(body, row) ==
    [row EXCEPT !.target = IF body.target = Null THEN @ ELSE body.target,
                !.current = IF body.current = Null THEN @ ELSE body.current,
                !.expired = IF body.expired = Null THEN @ ELSE body.expired]

\* Mutant: more than the target is needed.
ReachedBeyond(row) == row.status = "ACTIVE" /\ row.current > row.target

Reached(row) == row.status = "ACTIVE" /\ row.current >= row.target

CommitUpdate(r) ==
    LET c == call[r]
        row == goal[c.goal]
        reached == Reached(Patched(c.body, c.seen))
        written == [Patched(c.body, row) EXCEPT !.status = IF reached THEN "COMPLETED" ELSE @]
    IN  /\ AtCommit(r, "update")
        /\ row # Null
        /\ goal' = [goal EXCEPT ![c.goal] = written]
        /\ raced' = IF row # c.seen THEN raced \cup {c.goal} ELSE raced
        /\ closedBy' = [closedBy EXCEPT ![c.goal] = IF reached /\ @ = Null THEN c.no ELSE @]
        /\ UNCHANGED shown
        /\ End(r)

CommitDelete(r) ==
    LET c == call[r]
    IN  /\ AtCommit(r, "delete")
        /\ goal' = [goal EXCEPT ![c.goal] = Null]
        /\ UNCHANGED histories
        /\ End(r)

Overdue(row) == row.status = "ACTIVE" /\ row.expired

\* Mutant: the endpoint commits what it has marked.
AnswerDetailCommitting(r) ==
    LET c == call[r]
    IN  /\ AtCommit(r, "detail")
        /\ Overdue(c.seen) => goal[c.goal] # Null
        /\ goal' = IF Overdue(c.seen) THEN [goal EXCEPT ![c.goal].status = "FAILED"] ELSE goal
        /\ shown' = IF Overdue(c.seen) THEN shown \cup {c.goal} ELSE shown
        /\ UNCHANGED <<raced, closedBy>>
        /\ End(r)

\* The goal is marked FAILED and answered, then the session is closed without a commit.
AnswerDetail(r) ==
    LET c == call[r]
    IN  /\ AtCommit(r, "detail")
        /\ Overdue(c.seen) => goal[c.goal] # Null
        /\ shown' = IF Overdue(c.seen) THEN shown \cup {c.goal} ELSE shown
        /\ UNCHANGED <<goal, raced, closedBy>>
        /\ End(r)

\* Not found, closed, or gone when its UPDATE comes (scalar_one).
Refused(r) ==
    LET c == call[r]
        row == goal[c.goal]
    IN  \/ pc[r] = "read" /\ (row # Null => ~Open(c, row))
        \/ AtCommit(r, "update") /\ row = Null
        \/ AtCommit(r, "detail") /\ Overdue(c.seen) /\ row = Null

Rollback(r) ==
    /\ pc[r] # "idle"
    /\ UNCHANGED <<goal, histories>>
    /\ End(r)

Refuse(r) == Refused(r) /\ Rollback(r)

\* A statement fails, the connection is lost.
Crash(r) == Rollback(r)

-----------------------------------------------------------------------------

Next ==
    \/ \E target \in Amounts, expired \in BOOLEAN : Create(target, expired)
    \/ \E g \in Ids : Expire(g)
    \/ \E r \in Requests :
        \/ \E g \in Ids :
            \/ \E body \in Edits : BeginUpdate(r, g, body)
            \/ BeginDelete(r, g)
            \/ BeginDetail(r, g)
        \/ Read(r) \/ CommitUpdate(r) \/ CommitDelete(r) \/ AnswerDetail(r)
        \/ Refuse(r) \/ Crash(r)

Spec == Init /\ [][Next]_vars

-----------------------------------------------------------------------------
(* Properties.                                                             *)

\* The stored status is never FAILED: the failure a detail view has shown is forgotten,
\* the list still has the goal as ACTIVE, and it can still be completed.
TypeOK ==
    /\ goal \in [Ids -> Goal \cup {Null}]
    /\ pc \in [Requests -> {"idle", "read", "commit"}]
    /\ call \in [Requests -> Call \cup {Null}]
    /\ begun \in 0 .. MaxRequests
    /\ overlapped \subseteq SUBSET Ids
    /\ raced \subseteq Ids
    /\ closedBy \in [Ids -> Ids \cup {Null}]
    /\ shown \subseteq Ids

\* A goal is COMPLETED exactly when it has reached its target, unless two updates have
\* been made on the strength of the same row: then one may close a goal the other has
\* moved away, or both may miss that they reach it together.  A completed goal is changed
\* only by an update that was in flight when it was completed.
CompletedWhenReached ==
    /\ \A g \in Ids \ raced :
          goal[g] # Null => (goal[g].status = "COMPLETED" <=> goal[g].current >= goal[g].target)
    /\ \A r \in Requests : LET c == call[r] IN
          AtCommit(r, "update") /\ goal[c.goal] # Null /\ goal[c.goal].status = "COMPLETED" =>
              {c.no, closedBy[c.goal]} \in overlapped
=============================================================================

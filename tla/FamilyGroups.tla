---------------------------- MODULE FamilyGroups -----------------------------
(***************************************************************************)
(* Family groups (app/services/family_group_service.py) under concurrent   *)
(* requests.                                                               *)
(*                                                                         *)
(* Every operation decides on the User row that get_current_user loaded    *)
(* when the request began and then writes rows of auth.users and           *)
(* auth.family_groups; no constraint ties the two tables together.  The    *)
(* database is the one of module Transfers: READ COMMITTED, a row lock per *)
(* write, everything visible at the commit.                                *)
(*                                                                         *)
(* An operation its checks refuse before its first statement leaves no     *)
(* trace; the guards of the Begin actions are those checks.                *)
(***************************************************************************)
EXTENDS Integers

CONSTANTS
    Users,       \* rows of auth.users
    GroupIds,    \* ids of family groups, each used for at most one group
    Codes,       \* invite codes, each drawn at most once
    Requests,    \* requests that may be in flight at the same time
    Null,        \* None, NULL, a row that does not exist
    MaxRequests  \* bound: how many requests are started in a behaviour

VARIABLES
    member,  \* committed family_group_id and role_in_group of each user
    groups,  \* committed family groups
    lock,    \* the request that holds the lock of a row, or Null
    used,    \* ids and codes drawn so far
    pc,      \* the statement each request is at
    call,    \* its arguments, what it has read and what it will write
    begun,   \* requests started so far
    late     \* history: the users whose join overlapped the end of their group

vars == <<member, groups, lock, used, pc, call, begun, late>>

Rows == Users \cup GroupIds

Roles == {"OWNER", "MEMBER"}

Membership == [group : GroupIds \cup {Null}, role : Roles]

\* fresh: the invite code has not expired.
Group == [owner : Users, code : Codes, fresh : BOOLEAN]

Free == [group |-> Null, role |-> "MEMBER"]

\* me: the User row as loaded; who: the user the request writes; g: the group it is
\* about; rows, cleared: the members a dissolve has still to visit, and has cleared;
\* lapsed: history, the codes that were no longer valid when the request began.
Call == [op : {"create", "join", "remove", "leave", "regenerate", "dissolve"},
         user : Users, me : Membership, who : Users, g : GroupIds \cup {Null},
         code : Codes \cup {Null}, rows : SUBSET Users, cleared : SUBSET Users,
         lapsed : SUBSET Codes]

Points == {"idle", "lookup", "writeUser", "snapshot", "clear", "writeGroup", "commit"}

ASSUME FamilyAssumption ==
    /\ Null \notin Users \cup GroupIds \cup Codes \cup Requests
    /\ Users \cap GroupIds = {}
    /\ MaxRequests \in Nat
    /\ Null \notin Group /\ Null \notin Call

\* Drawn, not on its way into a group, and valid for none.
Lapsed ==
    {c \in Codes \cap used :
        /\ \A r \in Requests : call[r] # Null /\ call[r].op # "join" => call[r].code # c
        /\ \A g \in GroupIds : groups[g] # Null => groups[g].code # c \/ ~groups[g].fresh}

Init ==
    /\ member = [u \in Users |-> Free]
    /\ groups = [g \in GroupIds |-> Null]
    /\ lock = [x \in Rows |-> Null]
    /\ used = {}
    /\ pc = [r \in Requests |-> "idle"]
    /\ call = [r \in Requests |-> Null]
    /\ begun = 0
    /\ late = {}

Goto(r, p) == pc' = [pc EXCEPT ![r] = p]

-----------------------------------------------------------------------------
(* A request begins: get_current_user reads the caller.                    *)

Begin(r, p, op, u, who, g, code) ==
    /\ pc[r] = "idle"
    /\ begun < MaxRequests
    /\ begun' = begun + 1
    /\ Goto(r, p)
    /\ call' = [call EXCEPT ![r] =
           [op |-> op, user |-> u, me |-> member[u], who |-> who, g |-> g, code |-> code,
            rows |-> {}, cleared |-> {}, lapsed |-> Lapsed]]
    /\ UNCHANGED <<member, groups, lock, late>>

\* The group's INSERT is invisible until the commit, and waits for nobody.
BeginCreate(r, u, g, code) ==
    /\ member[u].group = Null
    /\ g \notin used /\ code \notin used
    /\ used' = used \cup {g, code}
    /\ Begin(r, "writeUser", "create", u, u, g, code)

BeginJoin(r, u, code) ==
    /\ member[u].group = Null
    /\ code \in used
    /\ Begin(r, "lookup", "join", u, u, Null, code)
    /\ UNCHANGED used

\* remove_member does not read the member it clears.
BeginRemove(r, u, who) ==
    /\ member[u].group # Null
    /\ member[u].role = "OWNER"
    /\ who # u
    /\ Begin(r, "writeUser", "remove", u, who, member[u].group, Null)
    /\ UNCHANGED used

BeginLeave(r, u) ==
    /\ member[u].group # Null
    /\ member[u].role # "OWNER"
    /\ Begin(r, "writeUser", "leave", u, u, member[u].group, Null)
    /\ UNCHANGED used

BeginRegenerate(r, u, code) ==
    /\ member[u].group # Null
    /\ member[u].role = "OWNER"
    /\ code \notin used
    /\ used' = used \cup {code}
    /\ Begin(r, "writeGroup", "regenerate", u, u, member[u].group, code)

BeginDissolve(r, u) ==
    /\ member[u].group # Null
    /\ member[u].role = "OWNER"
    /\ Begin(r, "snapshot", "dissolve", u, u, member[u].group, Null)
    /\ UNCHANGED used

-----------------------------------------------------------------------------
(* The statements.                                                         *)

\* Mutant: an expired code still opens the group.
AdmitsAnyTime(g, code) == groups[g] # Null /\ groups[g].code = code

\* get_by_invite_code finds the group, and the code has not expired.
Admits(g, code) == groups[g] # Null /\ groups[g].code = code /\ groups[g].fresh

Lookup(r) ==
    /\ pc[r] = "lookup"
    /\ \E g \in GroupIds :
          /\ Admits(g, call[r].code)
          /\ call' = [call EXCEPT ![r].g = g]
    /\ Goto(r, "writeUser")
    /\ UNCHANGED <<member, groups, lock, used, begun, late>>

Acquire(r, x) ==
    /\ lock[x] = Null
    /\ lock' = [lock EXCEPT ![x] = r]

\* UPDATE auth.users ... WHERE id = who
WriteUser(r) ==
    /\ pc[r] = "writeUser"
    /\ Acquire(r, call[r].who)
    /\ Goto(r, "commit")
    /\ UNCHANGED <<member, groups, used, call, begun, late>>

\* clear_family_group_for_all starts: its snapshot decides which rows it visits.
Snapshot(r) ==
    /\ pc[r] = "snapshot"
    /\ call' = [call EXCEPT ![r].rows = {u \in Users : member[u].group = call[r].g}]
    /\ Goto(r, "clear")
    /\ UNCHANGED <<member, groups, lock, used, begun, late>>

\* It locks the next row, in any order, and looks at its latest version: a user who
\* is no longer in the group is skipped, and not kept locked.
ClearRow(r, u) ==
    /\ pc[r] = "clear"
    /\ u \in call[r].rows
    /\ lock[u] = Null
    /\ IF member[u].group = call[r].g
       THEN /\ lock' = [lock EXCEPT ![u] = r]
            /\ call' = [call EXCEPT ![r].rows = @ \ {u}, ![r].cleared = @ \cup {u}]
       ELSE /\ call' = [call EXCEPT ![r].rows = @ \ {u}]
            /\ UNCHANGED lock
    /\ UNCHANGED <<member, groups, used, pc, begun, late>>

Cleared(r) ==
    /\ pc[r] = "clear"
    /\ call[r].rows = {}
    /\ Goto(r, "writeGroup")
    /\ UNCHANGED <<member, groups, lock, used, call, begun, late>>

\* regenerate: UPDATE of the group; dissolve: its DELETE, which may find nothing.
WriteGroup(r) ==
    /\ pc[r] = "writeGroup"
    /\ \/ groups[call[r].g] # Null /\ Acquire(r, call[r].g)
       \/ groups[call[r].g] = Null /\ call[r].op = "dissolve" /\ UNCHANGED lock
    /\ Goto(r, "commit")
    /\ UNCHANGED <<member, groups, used, call, begun, late>>

-----------------------------------------------------------------------------
(* Commits and other ends.                                                 *)

End(r) ==
    /\ lock' = [x \in Rows |-> IF lock[x] = r THEN Null ELSE lock[x]]
    /\ Goto(r, "idle")
    /\ call' = [call EXCEPT ![r] = Null]
    /\ UNCHANGED <<used, begun>>

AtCommit(r, op) == pc[r] = "commit" /\ call[r].op = op

\* Mutant: the expiry of the first invite code is not set.
CommitCreateNoExpiry(r) ==
    LET c == call[r]
    IN  /\ AtCommit(r, "create")
        /\ groups' = [groups EXCEPT ![c.g] = [owner |-> c.user, code |-> c.code, fresh |-> Null]]
        /\ member' = [member EXCEPT ![c.user] = [group |-> c.g, role |-> "OWNER"]]
        /\ late' = late \ {c.user}
        /\ End(r)

CommitCreate(r) ==
    LET c == call[r]
    IN  /\ AtCommit(r, "create")
        /\ groups' = [groups EXCEPT ![c.g] = [owner |-> c.user, code |-> c.code, fresh |-> TRUE]]
        /\ member' = [member EXCEPT ![c.user] = [group |-> c.g, role |-> "OWNER"]]
        /\ late' = late \ {c.user}
        /\ End(r)

\* The group is gone, or its dissolve has already taken its snapshot.
Closing(g) ==
    \/ groups[g] = Null
    \/ \E q \in Requests : /\ pc[q] \in {"clear", "writeGroup", "commit"}
                           /\ call[q].op = "dissolve" /\ call[q].g = g

CommitJoin(r) ==
    LET c == call[r]
    IN  /\ AtCommit(r, "join")
        /\ member' = [member EXCEPT ![c.user] = [group |-> c.g, role |-> "MEMBER"]]
        /\ late' = IF Closing(c.g) THEN late \cup {c.user} ELSE late \ {c.user}
        /\ UNCHANGED groups
        /\ End(r)

\* Mutant: the role survives the membership.
CommitClearKeepsRole(r) ==
    /\ AtCommit(r, "remove") \/ AtCommit(r, "leave")
    /\ member' = [member EXCEPT ![call[r].who].group = Null]
    /\ late' = late \ {call[r].who}
    /\ UNCHANGED groups
    /\ End(r)

\* remove, leave: clear_family_group
CommitClear(r) ==
    /\ AtCommit(r, "remove") \/ AtCommit(r, "leave")
    /\ member' = [member EXCEPT ![call[r].who] = Free]
    /\ late' = late \ {call[r].who}
    /\ UNCHANGED groups
    /\ End(r)

CommitRegenerate(r) ==
    /\ AtCommit(r, "regenerate")
    /\ groups' = [groups EXCEPT ![call[r].g].code = call[r].code, ![call[r].g].fresh = TRUE]
    /\ UNCHANGED <<member, late>>
    /\ End(r)

\* Mutant: the group goes, and its members are left where they are.
CommitDissolveOnly(r) ==
    /\ AtCommit(r, "dissolve")
    /\ groups' = [groups EXCEPT ![call[r].g] = Null]
    /\ UNCHANGED <<member, late>>
    /\ End(r)

CommitDissolve(r) ==
    LET c == call[r]
    IN  /\ AtCommit(r, "dissolve")
        /\ groups' = [groups EXCEPT ![c.g] = Null]
        /\ member' = [u \in Users |-> IF u \in c.cleared THEN Free ELSE member[u]]
        /\ late' = late \ c.cleared
        /\ End(r)

\* The code is unknown or expired, or the group to update is gone (scalar_one).
Refused(r) ==
    \/ pc[r] = "lookup" /\ \A g \in GroupIds : ~Admits(g, call[r].code)
    \/ pc[r] = "writeGroup" /\ call[r].op = "regenerate" /\ groups[call[r].g] = Null

Rollback(r) ==
    /\ pc[r] # "idle"
    /\ UNCHANGED <<member, groups, late>>
    /\ End(r)

Refuse(r) == Refused(r) /\ Rollback(r)

\* A statement fails, the connection is lost, PostgreSQL breaks a deadlock (two
\* dissolves that clear the same users): anywhere before the commit.
Crash(r) == Rollback(r)

\* Seven days pass.
Expire(g) ==
    /\ groups[g] # Null /\ groups[g].fresh
    /\ groups' = [groups EXCEPT ![g].fresh = FALSE]
    /\ UNCHANGED <<member, lock, used, pc, call, begun, late>>

-----------------------------------------------------------------------------

Arrive(r) ==
    \E u \in Users :
        \/ \E g \in GroupIds, code \in Codes : BeginCreate(r, u, g, code)
        \/ \E code \in Codes : BeginJoin(r, u, code) \/ BeginRegenerate(r, u, code)
        \/ \E who \in Users : BeginRemove(r, u, who)
        \/ BeginLeave(r, u) \/ BeginDissolve(r, u)

Execute(r) ==
    \/ Lookup(r) \/ WriteUser(r) \/ Snapshot(r) \/ Cleared(r) \/ WriteGroup(r)
    \/ \E u \in Users : ClearRow(r, u)

Commit(r) ==
    \/ CommitCreate(r) \/ CommitJoin(r) \/ CommitClear(r) \/ CommitRegenerate(r)
    \/ CommitDissolve(r)

Next ==
    \/ \E r \in Requests : Arrive(r) \/ Execute(r) \/ Commit(r) \/ Refuse(r) \/ Crash(r)
    \/ \E g \in GroupIds : Expire(g)

Spec == Init /\ [][Next]_vars

-----------------------------------------------------------------------------
(* Properties.                                                             *)

TypeOK ==
    /\ member \in [Users -> Membership]
    /\ groups \in [GroupIds -> Group \cup {Null}]
    /\ lock \in [Rows -> Requests \cup {Null}]
    /\ used \subseteq GroupIds \cup Codes
    /\ pc \in [Requests -> Points]
    /\ call \in [Requests -> Call \cup {Null}]
    /\ begun \in 0 .. MaxRequests
    /\ late \subseteq Users

\* Whoever has the role OWNER has a group, the group exists, and it is the one they
\* founded: so nobody ever leads, or dissolves, a group founded by somebody else, and
\* no group has two OWNERs, whatever stale rows their requests decided on.
OwnersLead ==
    \A u \in Users : member[u].role = "OWNER" =>
        /\ member[u].group # Null
        /\ groups[member[u].group] # Null
        /\ groups[member[u].group].owner = u

\* A user is left in a group that no longer exists only by a join that overlapped the
\* dissolve: every member whose join was over before it started has been released.
StrandedOnlyByLateJoins ==
    \A u \in Users : member[u].group # Null /\ groups[member[u].group] = Null => u \in late

\* A code that had been replaced, had expired or had lost its group when a request
\* began admits nobody through that request.
LapsedCodesAdmitNobody ==
    [][\A r \in Requests : CommitJoin(r) => call[r].code \notin call[r].lapsed]_vars

\* "create_group, join_group: BadRequestError when already in a family group": a
\* commit of either starts from a user without one.
OneGroupAtATime ==
    [][\A r \in Requests : CommitCreate(r) \/ CommitJoin(r) =>
          member[call[r].user].group = Null]_vars
=============================================================================

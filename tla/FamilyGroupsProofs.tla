-------------------------- MODULE FamilyGroupsProofs --------------------------
(***************************************************************************)
(* Theorems about FamilyGroups, for every value of its constants.          *)
(***************************************************************************)
EXTENDS FamilyGroupsInvariant, TLAPS

LEMMA InitIInv == Init => IInv
  <1> SUFFICES ASSUME Init PROVE IInv
    OBVIOUS
  <1> USE FamilyAssumption DEF Init, Free
  <1>1. TypeOK
    BY DEF TypeOK, Membership, Roles, Points
  <1>2. Shapes /\ Identities /\ LockDiscipline /\ DissolvesReach /\ OwnersInTime /\ LapsesLast
    BY DEF Shapes, CallShape, Identities, LockDiscipline, DissolvesReach, OwnersInTime, LapsesLast
  <1>3. OwnersLead /\ StrandedOnlyByLateJoins
    BY DEF OwnersLead, StrandedOnlyByLateJoins
  <1> QED BY <1>1, <1>2, <1>3 DEF IInv

-----------------------------------------------------------------------------
(* The steps of Next, summarised.                                          *)

\* What a request that arrives with call c at statement p looks like.
Arrival(c, p) ==
    /\ c.rows = {} /\ c.cleared = {} /\ c.lapsed = Lapsed
    /\ \/ /\ c.op = "create" /\ p = "writeUser" /\ c.who = c.user
          /\ c.g \in GroupIds \ used /\ c.code \in Codes \ used
          /\ used' = used \cup {c.g, c.code}
       \/ /\ c.op = "join" /\ p = "lookup" /\ c.who = c.user
          /\ c.g = Null /\ c.code \in Codes
          /\ UNCHANGED used
       \/ /\ \/ c.op \in {"remove", "leave"} /\ p = "writeUser" /\ c.code = Null
             \/ c.op = "dissolve" /\ p = "snapshot" /\ c.code = Null
             \/ c.op = "regenerate" /\ p = "writeGroup" /\ c.code \in Codes \ used
          /\ c.g \in GroupIds /\ member[c.user].group = c.g
          /\ used' = used \cup ({c.code} \ {Null})

\* The request r arrives.
Arrives(r, c, p) ==
    /\ Arrival(c, p)
    /\ pc[r] = "idle"
    /\ begun < MaxRequests /\ begun' = begun + 1
    /\ pc' = [pc EXCEPT ![r] = p] /\ call' = [call EXCEPT ![r] = c]
    /\ UNCHANGED <<member, groups, lock, late>>

LEMMA LapsedAreUsedCodes == Lapsed \subseteq Codes /\ Lapsed \subseteq used
  BY DEF Lapsed

LEMMA ArriveIsArrival ==
  ASSUME TypeOK, NEW r \in Requests, Arrive(r)
  PROVE  \E c \in Call, p \in Points : Arrives(r, c, p)
  <1> USE FamilyAssumption, LapsedAreUsedCodes DEF Points, Arrives, Arrival, Begin, Goto
  <1> PICK u \in Users :
        \/ \E g \in GroupIds, code \in Codes : BeginCreate(r, u, g, code)
        \/ \E code \in Codes : BeginJoin(r, u, code) \/ BeginRegenerate(r, u, code)
        \/ \E who \in Users : BeginRemove(r, u, who)
        \/ BeginLeave(r, u) \/ BeginDissolve(r, u)
    BY DEF Arrive
  <1> DEFINE Made(op, who, g, code) ==
        [op |-> op, user |-> u, me |-> member[u], who |-> who, g |-> g, code |-> code,
         rows |-> {}, cleared |-> {}, lapsed |-> Lapsed]
  <1>0. /\ member[u] \in Membership
        /\ \A op \in {"create", "join", "remove", "leave", "regenerate", "dissolve"},
              who \in Users, g \in GroupIds \cup {Null}, code \in Codes \cup {Null} :
              Made(op, who, g, code) \in Call
    BY DEF TypeOK, Call
  <1>1. ASSUME NEW g \in GroupIds, NEW code \in Codes, BeginCreate(r, u, g, code)
        PROVE  \E c \in Call, p \in Points : Arrives(r, c, p)
    <2>1. Made("create", u, g, code) \in Call
      BY <1>0
    <2>2. Arrives(r, Made("create", u, g, code), "writeUser")
      BY <1>1 DEF BeginCreate
    <2> QED BY <2>1, <2>2
  <1>2. ASSUME NEW code \in Codes, BeginJoin(r, u, code)
        PROVE  \E c \in Call, p \in Points : Arrives(r, c, p)
    <2>1. Made("join", u, Null, code) \in Call
      BY <1>0
    <2>2. Arrives(r, Made("join", u, Null, code), "lookup")
      BY <1>2 DEF BeginJoin
    <2> QED BY <2>1, <2>2
  <1>3. ASSUME NEW code \in Codes, BeginRegenerate(r, u, code)
        PROVE  \E c \in Call, p \in Points : Arrives(r, c, p)
    <2> DEFINE c == Made("regenerate", u, member[u].group, code)
    <2>0. member[u].group \in GroupIds
      BY <1>0, <1>3 DEF BeginRegenerate, Membership
    <2>1. c \in Call
      BY <1>0, <2>0
    <2>2. Arrives(r, c, "writeGroup")
      BY <1>3, <2>0 DEF BeginRegenerate
    <2> QED BY <2>1, <2>2
  <1>4. ASSUME NEW who \in Users, BeginRemove(r, u, who)
        PROVE  \E c \in Call, p \in Points : Arrives(r, c, p)
    <2> DEFINE c == Made("remove", who, member[u].group, Null)
    <2>0. member[u].group \in GroupIds
      BY <1>0, <1>4 DEF BeginRemove, Membership
    <2>1. c \in Call
      BY <1>0, <2>0
    <2>2. Arrives(r, c, "writeUser")
      BY <1>4, <2>0 DEF BeginRemove
    <2> QED BY <2>1, <2>2
  <1>5. ASSUME BeginLeave(r, u)
        PROVE  \E c \in Call, p \in Points : Arrives(r, c, p)
    <2> DEFINE c == Made("leave", u, member[u].group, Null)
    <2>0. member[u].group \in GroupIds
      BY <1>0, <1>5 DEF BeginLeave, Membership
    <2>1. c \in Call
      BY <1>0, <2>0
    <2>2. Arrives(r, c, "writeUser")
      BY <1>5, <2>0 DEF BeginLeave
    <2> QED BY <2>1, <2>2
  <1>6. ASSUME BeginDissolve(r, u)
        PROVE  \E c \in Call, p \in Points : Arrives(r, c, p)
    <2> DEFINE c == Made("dissolve", u, member[u].group, Null)
    <2>0. member[u].group \in GroupIds
      BY <1>0, <1>6 DEF BeginDissolve, Membership
    <2>1. c \in Call
      BY <1>0, <2>0
    <2>2. Arrives(r, c, "snapshot")
      BY <1>6, <2>0 DEF BeginDissolve
    <2> QED BY <2>1, <2>2
  <1> QED BY <1>1, <1>2, <1>3, <1>4, <1>5, <1>6

\* The request r, with call c, goes on to the statement p.
Advances(r, c, p) ==
    LET old == call[r]
    IN  /\ \A x \in Rows : lock[x] # Null => lock'[x] = lock[x]
        /\ pc[r] \notin {"idle", "commit"}
        /\ pc' = [pc EXCEPT ![r] = p] /\ call' = [call EXCEPT ![r] = c]
        /\ UNCHANGED <<member, groups, used, begun, late>>
        /\ c.op = old.op /\ c.user = old.user /\ c.who = old.who /\ c.code = old.code
        /\ c.lapsed = old.lapsed
        /\ \/ /\ pc[r] = "lookup" /\ p = "writeUser"
              /\ c.g \in GroupIds /\ Admits(c.g, c.code)
           \/ pc[r] = "writeUser" /\ p = "commit" /\ c = old
           \/ /\ pc[r] = "snapshot" /\ p = "clear" /\ c.g = old.g
              /\ c.rows = {u \in Users : member[u].group = c.g}
           \/ /\ pc[r] = "clear" /\ p = "clear" /\ c.g = old.g
              /\ \E u \in Users :
                    /\ c.rows = old.rows \ {u}
                    /\ c.cleared = IF member[u].group = c.g THEN old.cleared \cup {u}
                                   ELSE old.cleared
           \/ pc[r] = "clear" /\ p = "writeGroup" /\ c = old /\ c.rows = {}
           \/ /\ pc[r] = "writeGroup" /\ p = "commit" /\ c = old
              /\ \/ groups[c.g] # Null /\ lock'[c.g] = r
                 \/ groups[c.g] = Null /\ c.op = "dissolve"

LEMMA ExecuteAdvances ==
  ASSUME TypeOK, Shapes, NEW r \in Requests, Execute(r)
  PROVE  /\ \E c \in Call, p \in Points : Advances(r, c, p)
         /\ lock' \in [Rows -> Requests \cup {Null}]
  <1> DEFINE Goal == /\ \E c \in Call, p \in Points : Advances(r, c, p)
                     /\ lock' \in [Rows -> Requests \cup {Null}]
  <1> USE FamilyAssumption DEF TypeOK, Points, Advances, Goto, Acquire
  <1>0. CallShape(r) /\ (pc[r] # "idle" => call[r] \in Call)
    BY DEF Shapes, CallShape
  <1>1. ASSUME Lookup(r) PROVE Goal
    <2>1. PICK g \in GroupIds : Admits(g, call[r].code) /\ call' = [call EXCEPT ![r].g = g]
      BY <1>1 DEF Lookup
    <2> DEFINE c == [call[r] EXCEPT !.g = g]
    <2>2. c \in Call /\ call' = [call EXCEPT ![r] = c]
      BY <1>0, <1>1, <2>1 DEF Call, Lookup
    <2>3. Advances(r, c, "writeUser")
      BY <1>0, <1>1, <2>1, <2>2 DEF Lookup, Call
    <2> QED BY <1>1, <2>2, <2>3 DEF Lookup
  <1>2. ASSUME WriteUser(r) PROVE Goal
    <2>1. call[r].who \in Rows /\ call' = [call EXCEPT ![r] = call[r]]
      BY <1>0, <1>2 DEF WriteUser, Call, Rows
    <2>2. Advances(r, call[r], "commit")
      BY <1>0, <1>2, <2>1 DEF WriteUser
    <2> QED BY <1>0, <1>2, <2>2 DEF WriteUser
  <1>3. ASSUME Snapshot(r) PROVE Goal
    <2> DEFINE c == [call[r] EXCEPT !.rows = {u \in Users : member[u].group = call[r].g}]
    <2>1. c \in Call /\ call' = [call EXCEPT ![r] = c]
      BY <1>0, <1>3 DEF Call, Snapshot
    <2>2. Advances(r, c, "clear")
      BY <1>0, <1>3, <2>1 DEF Snapshot, Call
    <2> QED BY <1>3, <2>1, <2>2 DEF Snapshot
  <1>4. ASSUME NEW u \in Users, ClearRow(r, u) PROVE Goal
    <2> DEFINE c == [call[r] EXCEPT !.rows = @ \ {u},
                         !.cleared = IF member[u].group = call[r].g THEN @ \cup {u} ELSE @]
    <2>0. /\ pc[r] = "clear" /\ call[r] \in Call /\ lock[u] = Null
          /\ pc' = [pc EXCEPT ![r] = "clear"]
          /\ UNCHANGED <<member, groups, used, begun, late>>
      BY <1>0, <1>4 DEF ClearRow
    <2>1. /\ \A x \in Rows : lock[x] # Null => lock'[x] = lock[x]
          /\ lock' \in [Rows -> Requests \cup {Null}]
      BY <1>4, <2>0 DEF ClearRow, Rows
    <2>2. call' = [call EXCEPT ![r] = c]
      <3>1. CASE member[u].group = call[r].g
        <4>1. call' = [call EXCEPT ![r].rows = @ \ {u}, ![r].cleared = @ \cup {u}]
          BY <1>4, <3>1 DEF ClearRow
        <4>2. c = [call[r] EXCEPT !.rows = @ \ {u}, !.cleared = @ \cup {u}]
          BY <3>1
        <4> HIDE DEF c
        <4> QED BY <2>0, <4>1, <4>2 DEF Call
      <3>2. CASE member[u].group # call[r].g
        <4>1. call' = [call EXCEPT ![r].rows = @ \ {u}]
          BY <1>4, <3>2 DEF ClearRow
        <4>2. c = [call[r] EXCEPT !.rows = @ \ {u}]
          BY <2>0, <3>2 DEF Call
        <4> HIDE DEF c
        <4> QED BY <2>0, <4>1, <4>2 DEF Call
      <3> QED BY <3>1, <3>2
    <2>3. /\ c \in Call /\ c.op = call[r].op /\ c.user = call[r].user /\ c.who = call[r].who
          /\ c.code = call[r].code /\ c.lapsed = call[r].lapsed /\ c.g = call[r].g
          /\ c.rows = call[r].rows \ {u}
          /\ c.cleared = IF member[u].group = c.g THEN call[r].cleared \cup {u}
                         ELSE call[r].cleared
      <3> DEFINE rows == call[r].rows \ {u}
                 cleared == IF member[u].group = call[r].g THEN call[r].cleared \cup {u}
                            ELSE call[r].cleared
      <3>1. rows \in SUBSET Users /\ cleared \in SUBSET Users
        BY <2>0 DEF Call
      <3>2. c = [call[r] EXCEPT !.rows = rows, !.cleared = cleared]
        OBVIOUS
      <3> HIDE DEF c, rows, cleared
      <3>3. /\ c \in Call /\ c.op = call[r].op /\ c.user = call[r].user /\ c.who = call[r].who
            /\ c.code = call[r].code /\ c.lapsed = call[r].lapsed /\ c.g = call[r].g
            /\ c.rows = rows /\ c.cleared = cleared
        BY <2>0, <3>1, <3>2 DEF Call
      <3> QED BY <3>3 DEF rows, cleared
    <2> HIDE DEF c
    <2>4. Advances(r, c, "clear")
      BY <2>0, <2>1, <2>2, <2>3
    <2> QED BY <2>1, <2>3, <2>4
  <1>5. ASSUME Cleared(r) PROVE Goal
    <2>1. Advances(r, call[r], "writeGroup")
      BY <1>0, <1>5 DEF Cleared
    <2> QED BY <1>0, <1>5, <2>1 DEF Cleared
  <1>6. ASSUME WriteGroup(r) PROVE Goal
    <2>1. call[r].g \in Rows
      BY <1>0, <1>6 DEF WriteGroup, CallShape, Rows
    <2>2. Advances(r, call[r], "commit")
      BY <1>0, <1>6, <2>1 DEF WriteGroup
    <2> QED BY <1>0, <1>6, <2>2 DEF WriteGroup
  <1> QED BY <1>1, <1>2, <1>3, <1>4, <1>5, <1>6 DEF Execute

\* The request r ends, whatever it leaves behind.
Ends(r) ==
    /\ pc[r] # "idle"
    /\ pc' = [pc EXCEPT ![r] = "idle"] /\ call' = [call EXCEPT ![r] = Null]
    /\ \A x \in Rows : lock'[x] = IF lock[x] = r THEN Null ELSE lock[x]
    /\ UNCHANGED <<used, begun>>

LEMMA LastSteps ==
  ASSUME TypeOK, NEW r \in Requests, Commit(r) \/ Refuse(r) \/ Crash(r)
  PROVE  Ends(r) /\ lock' \in [Rows -> Requests \cup {Null}]
  BY DEF TypeOK, Ends, End, Goto, Commit, CommitCreate, CommitJoin, CommitClear, CommitRegenerate,
         CommitDissolve, AtCommit, Refuse, Crash, Rollback

-----------------------------------------------------------------------------
(* The commits.                                                            *)

LEMMA AtCommits ==
  ASSUME TypeOK, Shapes, NEW r \in Requests, Commit(r)
  PROVE  /\ pc[r] = "commit" /\ call[r] \in Call /\ CallShape(r) /\ call[r].g \in GroupIds
  BY DEF TypeOK, Shapes, CallShape, Commit, CommitCreate, CommitJoin, CommitClear,
         CommitRegenerate, CommitDissolve, AtCommit

\* What a commit leaves of the membership of u, and of its being late.
UserAfter(r, u) ==
    /\ CommitCreate(r) /\ u = call[r].user =>
           member'[u] = [group |-> call[r].g, role |-> "OWNER"] /\ u \notin late'
    /\ CommitJoin(r) /\ u = call[r].user =>
           /\ member'[u] = [group |-> call[r].g, role |-> "MEMBER"]
           /\ Closing(call[r].g) => u \in late'
    /\ \/ CommitClear(r) /\ u = call[r].who
       \/ CommitDissolve(r) /\ u \in call[r].cleared
       => member'[u] = Free
    /\ \/ CommitCreate(r) /\ u # call[r].user
       \/ CommitJoin(r) /\ u # call[r].user
       \/ CommitClear(r) /\ u # call[r].who
       \/ CommitRegenerate(r)
       \/ CommitDissolve(r) /\ u \notin call[r].cleared
       => member'[u] = member[u] /\ (u \in late' <=> u \in late)

LEMMA UsersAfter ==
  ASSUME TypeOK, Shapes, NEW r \in Requests, Commit(r), NEW u \in Users
  PROVE  UserAfter(r, u) /\ member' \in [Users -> Membership] /\ late' \subseteq Users
  <1>0. pc[r] = "commit" /\ call[r] \in Call /\ CallShape(r) /\ call[r].g \in GroupIds
    BY AtCommits
  <1>1. Free \in Membership
    BY DEF Free, Membership, Roles
  <1> USE DEF AtCommit, UserAfter
  <1>2. CASE CommitCreate(r)
    <2>1. ~(CommitJoin(r) \/ CommitClear(r) \/ CommitRegenerate(r) \/ CommitDissolve(r))
      BY <1>2 DEF CommitCreate, CommitJoin, CommitClear, CommitRegenerate, CommitDissolve
    <2>2. [group |-> call[r].g, role |-> "OWNER"] \in Membership
      BY <1>0 DEF Membership, Roles
    <2> QED BY <1>0, <1>2, <2>1, <2>2 DEF TypeOK, CommitCreate, Call
  <1>3. CASE CommitJoin(r)
    <2>1. ~(CommitCreate(r) \/ CommitClear(r) \/ CommitRegenerate(r) \/ CommitDissolve(r))
      BY <1>3 DEF CommitCreate, CommitJoin, CommitClear, CommitRegenerate, CommitDissolve
    <2>2. [group |-> call[r].g, role |-> "MEMBER"] \in Membership
      BY <1>0 DEF Membership, Roles
    <2> QED BY <1>0, <1>3, <2>1, <2>2 DEF TypeOK, CommitJoin, Call
  <1>4. CASE CommitClear(r)
    <2>1. ~(CommitCreate(r) \/ CommitJoin(r) \/ CommitRegenerate(r) \/ CommitDissolve(r))
      BY <1>4 DEF CommitCreate, CommitJoin, CommitClear, CommitRegenerate, CommitDissolve
    <2> QED BY <1>0, <1>1, <1>4, <2>1 DEF TypeOK, CommitClear, Call
  <1>5. CASE CommitRegenerate(r)
    <2>1. ~(CommitCreate(r) \/ CommitJoin(r) \/ CommitClear(r) \/ CommitDissolve(r))
      BY <1>5 DEF CommitCreate, CommitJoin, CommitClear, CommitRegenerate, CommitDissolve
    <2> QED BY <1>0, <1>5, <2>1 DEF TypeOK, CommitRegenerate
  <1>6. CASE CommitDissolve(r)
    <2>1. ~(CommitCreate(r) \/ CommitJoin(r) \/ CommitClear(r) \/ CommitRegenerate(r))
      BY <1>6 DEF CommitCreate, CommitJoin, CommitClear, CommitRegenerate, CommitDissolve
    <2> QED BY <1>0, <1>1, <1>6, <2>1 DEF TypeOK, CommitDissolve
  <1> QED BY <1>2, <1>3, <1>4, <1>5, <1>6 DEF Commit

\* What a commit leaves of the groups.
LEMMA GroupsAfter ==
  ASSUME TypeOK, Shapes, LockDiscipline, NEW r \in Requests, Commit(r), NEW g \in GroupIds
  PROVE  /\ CommitCreate(r) /\ g = call[r].g =>
                groups'[g] = [owner |-> call[r].user, code |-> call[r].code, fresh |-> TRUE]
         /\ CommitRegenerate(r) /\ g = call[r].g =>
                /\ groups[g] \in Group
                /\ groups'[g] \in Group /\ groups'[g].owner = groups[g].owner
                /\ groups'[g].code = call[r].code
         /\ CommitDissolve(r) /\ g = call[r].g => groups'[g] = Null
         /\ CommitJoin(r) \/ CommitClear(r) \/ g # call[r].g => groups'[g] = groups[g]
         /\ groups' \in [GroupIds -> Group \cup {Null}]
  <1>0. pc[r] = "commit" /\ call[r] \in Call /\ CallShape(r) /\ call[r].g \in GroupIds
    BY AtCommits
  <1>2. CASE CommitCreate(r)
    <2>1. [owner |-> call[r].user, code |-> call[r].code, fresh |-> TRUE] \in Group
      BY <1>0, <1>2 DEF CommitCreate, AtCommit, CallShape, Group, Call
    <2> QED BY <1>0, <1>2, <2>1 DEF TypeOK, CommitCreate, CommitJoin, CommitClear,
               CommitRegenerate, CommitDissolve, AtCommit
  <1>3. CASE CommitJoin(r) \/ CommitClear(r)
    BY <1>0, <1>3 DEF TypeOK, CommitCreate, CommitJoin, CommitClear, CommitRegenerate,
       CommitDissolve, AtCommit
  <1>4. CASE CommitRegenerate(r)
    <2> DEFINE h == call[r].g
    <2>0. call[r].op = "regenerate" /\ call[r].code \in Codes
      BY <1>0, <1>4 DEF CommitRegenerate, AtCommit, CallShape
    <2>1. groups[h] \in Group
      BY <1>0, <2>0 DEF LockDiscipline, TypeOK
    <2>2. groups' = [groups EXCEPT ![h].code = call[r].code, ![h].fresh = TRUE]
      BY <1>4 DEF CommitRegenerate
    <2>3. groups' = [groups EXCEPT ![h] = [@ EXCEPT !.code = call[r].code, !.fresh = TRUE]]
      BY <1>0, <2>1, <2>2 DEF TypeOK, Group
    <2> DEFINE row == [groups[h] EXCEPT !.code = call[r].code, !.fresh = TRUE]
    <2>4. row \in Group /\ row.owner = groups[h].owner /\ row.code = call[r].code
      BY <2>0, <2>1 DEF Group
    <2>5. groups' = [groups EXCEPT ![h] = row]
      BY <2>3
    <2> HIDE DEF row
    <2> QED BY <1>0, <1>4, <2>0, <2>1, <2>4, <2>5
            DEF TypeOK, CommitCreate, CommitJoin, CommitClear, CommitDissolve, AtCommit
  <1>5. CASE CommitDissolve(r)
    BY <1>0, <1>5 DEF TypeOK, CommitCreate, CommitJoin, CommitClear, CommitRegenerate,
       CommitDissolve, AtCommit
  <1> QED BY <1>2, <1>3, <1>4, <1>5 DEF Commit

LEMMA TypeStep == IInv /\ [Next]_vars => TypeOK'
  <1> SUFFICES ASSUME IInv, [Next]_vars PROVE TypeOK'
    OBVIOUS
  <1>0. TypeOK /\ Shapes /\ LockDiscipline
    BY DEF IInv
  <1>1. ASSUME NEW r \in Requests, Arrive(r) PROVE TypeOK'
    <2>1. PICK c \in Call, p \in Points : Arrives(r, c, p)
      BY <1>0, <1>1, ArriveIsArrival
    <2>2. used' \subseteq GroupIds \cup Codes /\ begun' \in 0 .. MaxRequests
      BY <1>0, <2>1, FamilyAssumption DEF Arrives, Arrival, TypeOK
    <2> QED BY <1>0, <2>1, <2>2 DEF Arrives, TypeOK
  <1>2. ASSUME NEW r \in Requests, Execute(r) PROVE TypeOK'
    BY <1>0, <1>2, ExecuteAdvances DEF Advances, TypeOK
  <1>3. ASSUME NEW r \in Requests, Commit(r) PROVE TypeOK'
    <2>1. /\ member' \in [Users -> Membership]
          /\ late' \subseteq Users
      BY <1>0, <1>3, AtCommits, UsersAfter DEF Call
    <2>2. groups' \in [GroupIds -> Group \cup {Null}]
      BY <1>0, <1>3, AtCommits, GroupsAfter
    <2> QED BY <1>0, <1>3, <2>1, <2>2, LastSteps DEF TypeOK, Ends, Points
  <1>4. ASSUME NEW r \in Requests, Refuse(r) \/ Crash(r) PROVE TypeOK'
    BY <1>0, <1>4, LastSteps DEF TypeOK, Ends, Points, Refuse, Crash, Rollback
  <1>5. ASSUME NEW g \in GroupIds, Expire(g) PROVE TypeOK'
    <2>1. groups' = [groups EXCEPT ![g] = [@ EXCEPT !.fresh = FALSE]] /\ groups[g] \in Group
      BY <1>0, <1>5 DEF Expire, TypeOK
    <2>2. [groups[g] EXCEPT !.fresh = FALSE] \in Group
      BY <2>1 DEF Group
    <2> QED BY <1>0, <1>5, <2>1, <2>2 DEF Expire, TypeOK
  <1>6. CASE UNCHANGED vars
    BY <1>0, <1>6 DEF TypeOK, vars
  <1> QED BY <1>1, <1>2, <1>3, <1>4, <1>5, <1>6 DEF Next

-----------------------------------------------------------------------------
(* One lemma per conjunct of IInv.                                         *)

LEMMA ShapesStep == IInv /\ [Next]_vars => Shapes'
  <1> SUFFICES ASSUME IInv, [Next]_vars, NEW q \in Requests PROVE CallShape(q)'
    BY DEF Shapes
  <1>0. TypeOK /\ Shapes /\ CallShape(q)
    BY DEF IInv, Shapes
  <1> USE FamilyAssumption
  <1>1. ASSUME NEW r \in Requests, Arrive(r) PROVE CallShape(q)'
    <2>1. PICK c \in Call, p \in Points : Arrives(r, c, p)
      BY <1>0, <1>1, ArriveIsArrival
    <2> QED BY <1>0, <2>1 DEF Arrives, Arrival, CallShape, TypeOK
  <1>2. ASSUME NEW r \in Requests, Execute(r) PROVE CallShape(q)'
    <2>1. PICK c \in Call, p \in Points : Advances(r, c, p)
      BY <1>0, <1>2, ExecuteAdvances
    <2>2. CallShape(r)
      BY <1>0 DEF Shapes
    <2>3. CASE q # r
      BY <1>0, <2>1, <2>3 DEF Advances, CallShape, TypeOK
    <2>4. CASE q = r
      BY <1>0, <2>1, <2>2, <2>4 DEF Advances, CallShape, TypeOK
    <2> QED BY <2>3, <2>4
  <1>3. ASSUME NEW r \in Requests, Commit(r) \/ Refuse(r) \/ Crash(r) PROVE CallShape(q)'
    BY <1>0, <1>3, LastSteps DEF Ends, CallShape, TypeOK
  <1>4. ASSUME NEW g \in GroupIds, Expire(g) PROVE CallShape(q)'
    BY <1>0, <1>4 DEF Expire, CallShape
  <1>5. CASE UNCHANGED vars
    BY <1>0, <1>5 DEF CallShape, vars
  <1> QED BY <1>1, <1>2, <1>3, <1>4, <1>5 DEF Next

\* An id on record, or in the hands of a request, is used; the id of a group that is
\* being created is in nobody else's.
LEMMA IdentitiesStep == IInv /\ [Next]_vars => Identities'
  <1> SUFFICES ASSUME IInv, [Next]_vars PROVE Identities'
    OBVIOUS
  <1>0. TypeOK /\ Shapes /\ Identities /\ LockDiscipline
    BY DEF IInv
  <1> USE FamilyAssumption
  <1>1. ASSUME NEW r \in Requests, Arrive(r) PROVE Identities'
    <2>1. PICK c \in Call, p \in Points : Arrives(r, c, p)
      BY <1>0, <1>1, ArriveIsArrival
    <2>2. /\ c.user \in Users /\ UNCHANGED <<member, groups>>
          /\ used \subseteq used'
          /\ c.op = "create" => c.g \in GroupIds \ used /\ c.g \in used'
          /\ c.op # "create" => c.g = Null \/ (c.g \in GroupIds /\ member[c.user].group = c.g)
          /\ \A q \in Requests : pc'[q] # "idle" =>
                (q = r /\ call'[q] = c) \/ (q # r /\ pc[q] # "idle" /\ call'[q] = call[q])
      BY <1>0, <2>1 DEF Arrives, Arrival, TypeOK, Call
    <2>3. ASSUME NEW g \in GroupIds \ used'
          PROVE  /\ groups'[g] = Null
                 /\ \A u \in Users : member'[u].group # g
                 /\ \A q \in Requests : pc'[q] # "idle" => call'[q].g # g
      BY <1>0, <2>2, <2>3 DEF Identities
    <2>4. ASSUME NEW q \in Requests, pc'[q] # "idle", call'[q].op = "create"
          PROVE  /\ groups'[call'[q].g] = Null
                 /\ \A u \in Users : member'[u].group # call'[q].g
                 /\ \A s \in Requests \ {q} : pc'[s] # "idle" => call'[s].g # call'[q].g
      <3>1. CASE q = r
        BY <1>0, <2>2, <2>4, <3>1 DEF Identities
      <3>2. CASE q # r
        <4>1. pc[q] # "idle" /\ call'[q] = call[q] /\ call[q].g \in GroupIds
          BY <1>0, <2>2, <2>4, <3>2 DEF Shapes, CallShape
        <4>2. call[q].g \in used
          BY <1>0, <4>1 DEF Identities
        <4>3. c.g # call[q].g
          BY <1>0, <2>2, <2>4, <4>1, <4>2 DEF Identities
        <4> QED BY <1>0, <2>2, <2>4, <4>1, <4>3 DEF Identities
      <3> QED BY <3>1, <3>2
    <2> QED BY <2>3, <2>4 DEF Identities
  <1>2. ASSUME NEW r \in Requests, Execute(r) PROVE Identities'
    <2>1. PICK c \in Call, p \in Points : Advances(r, c, p)
      BY <1>0, <1>2, ExecuteAdvances
    <2>2. c.g = call[r].g \/ (c.g \in GroupIds /\ groups[c.g] # Null /\ c.op = "join")
      BY <1>0, <2>1 DEF Advances, Admits, Shapes, CallShape
    <2> QED BY <1>0, <2>1, <2>2 DEF Advances, Identities, TypeOK
  <1>3. ASSUME NEW r \in Requests, Commit(r) PROVE Identities'
    <2>0. /\ pc[r] = "commit" /\ call[r] \in Call /\ CallShape(r) /\ call[r].g \in GroupIds
          /\ call[r].g \in used
      BY <1>0, <1>3, AtCommits DEF Identities
    <2>1. Ends(r)
      BY <1>0, <1>3, LastSteps
    <2>2. ASSUME NEW u \in Users
          PROVE  \/ member'[u].group = member[u].group \/ member'[u].group = call[r].g
                 \/ member'[u].group = Null
      <3>1. \/ member'[u] = [group |-> call[r].g, role |-> "OWNER"]
            \/ member'[u] = [group |-> call[r].g, role |-> "MEMBER"]
            \/ member'[u] = Free \/ member'[u] = member[u]
        BY <1>0, <1>3, UsersAfter DEF UserAfter, Commit
      <3> QED BY <3>1 DEF Free
    <2>3. \A g \in GroupIds : groups'[g] = groups[g] \/ g = call[r].g
      BY <1>0, <1>3, GroupsAfter
    <2>4. used' = used
          /\ \A q \in Requests : pc'[q] # "idle" => pc[q] # "idle" /\ q # r /\ call'[q] = call[q]
      BY <1>0, <2>0, <2>1 DEF Ends, TypeOK
    <2>5. ASSUME NEW g \in GroupIds \ used'
          PROVE  /\ groups'[g] = Null
                 /\ \A u \in Users : member'[u].group # g
                 /\ \A q \in Requests : pc'[q] # "idle" => call'[q].g # g
      BY <1>0, <2>0, <2>2, <2>3, <2>4 DEF Identities
    <2>6. ASSUME NEW q \in Requests, pc'[q] # "idle", call'[q].op = "create"
          PROVE  /\ groups'[call'[q].g] = Null
                 /\ \A u \in Users : member'[u].group # call'[q].g
                 /\ \A p \in Requests \ {q} : pc'[p] # "idle" => call'[p].g # call'[q].g
      <3>1. pc[q] # "idle" /\ q # r /\ call'[q] = call[q] /\ call[q].g \in GroupIds
        BY <1>0, <2>4, <2>6 DEF Shapes, CallShape
      <3>2. call[r].g # call[q].g
        BY <1>0, <2>0, <2>6, <3>1 DEF Identities
      <3> QED BY <1>0, <2>2, <2>3, <2>4, <2>6, <3>1, <3>2 DEF Identities
    <2> QED BY <2>5, <2>6 DEF Identities
  <1>4. ASSUME NEW r \in Requests, Refuse(r) \/ Crash(r) PROVE Identities'
    <2>1. Ends(r) /\ UNCHANGED <<member, groups>>
      BY <1>0, <1>4, LastSteps DEF Refuse, Crash, Rollback
    <2> QED BY <1>0, <2>1 DEF Identities, Ends, TypeOK
  <1>5. ASSUME NEW g \in GroupIds, Expire(g) PROVE Identities'
    BY <1>0, <1>5 DEF Expire, Identities, TypeOK
  <1>6. CASE UNCHANGED vars
    BY <1>0, <1>6 DEF Identities, vars
  <1> QED BY <1>1, <1>2, <1>3, <1>4, <1>5, <1>6 DEF Next

LEMMA LockStep == IInv /\ [Next]_vars => LockDiscipline'
  <1> SUFFICES ASSUME IInv, [Next]_vars, NEW q \in Requests, pc'[q] = "commit"
               PROVE  /\ call'[q].op = "regenerate" =>
                            lock'[call'[q].g] = q /\ groups'[call'[q].g] # Null
                      /\ call'[q].op = "dissolve" =>
                            groups'[call'[q].g] = Null \/ lock'[call'[q].g] = q
    BY DEF LockDiscipline
  <1> DEFINE Goal == /\ call'[q].op = "regenerate" =>
                            lock'[call'[q].g] = q /\ groups'[call'[q].g] # Null
                     /\ call'[q].op = "dissolve" =>
                            groups'[call'[q].g] = Null \/ lock'[call'[q].g] = q
  <1>0. TypeOK /\ Shapes /\ Identities /\ LockDiscipline /\ CallShape(q)
    BY DEF IInv, Shapes
  <1> USE FamilyAssumption
  <1>1. ASSUME NEW r \in Requests, Arrive(r) PROVE Goal
    <2>1. PICK c \in Call, p \in Points : Arrives(r, c, p)
      BY <1>0, <1>1, ArriveIsArrival
    <2> QED BY <1>0, <2>1 DEF Arrives, Arrival, LockDiscipline, TypeOK
  <1>2. ASSUME NEW r \in Requests, Execute(r) PROVE Goal
    <2>1. PICK c \in Call, p \in Points : Advances(r, c, p)
      BY <1>0, <1>2, ExecuteAdvances
    <2>2. CASE q # r
      <3>1. pc[q] = "commit" /\ call'[q] = call[q] /\ call[q].g \in Rows
        BY <1>0, <2>1, <2>2 DEF Advances, TypeOK, CallShape, Rows
      <3> QED BY <1>0, <2>1, <3>1 DEF Advances, LockDiscipline
    <2>3. CASE q = r
      BY <1>0, <2>1, <2>3 DEF Advances, CallShape, TypeOK
    <2> QED BY <2>2, <2>3
  <1>3. ASSUME NEW r \in Requests, Commit(r) PROVE Goal
    <2>0. pc[r] = "commit" /\ call[r] \in Call /\ CallShape(r) /\ call[r].g \in GroupIds /\ Ends(r)
      BY <1>0, <1>3, AtCommits, LastSteps
    <2>1. q # r /\ pc[q] = "commit" /\ call'[q] = call[q]
      BY <1>0, <2>0 DEF Ends, TypeOK
    <2>2. call[q].g \in GroupIds /\ call[q].g \in Rows
      BY <1>0, <2>1 DEF CallShape, Rows
    <2> DEFINE h == call[q].g
    <2>3. lock[h] = q => lock'[h] = q
      BY <2>0, <2>1, <2>2 DEF Ends
    <2>4. CASE h # call[r].g
      <3>1. groups'[h] = groups[h]
        BY <1>0, <1>3, <2>2, <2>4, GroupsAfter
      <3> QED BY <1>0, <2>1, <2>3, <3>1 DEF LockDiscipline
    <2>5. CASE h = call[r].g /\ CommitCreate(r)
      BY <1>0, <2>0, <2>1, <2>5 DEF Identities, CommitCreate, AtCommit
    <2>6. CASE h = call[r].g /\ (CommitJoin(r) \/ CommitClear(r))
      <3>1. groups'[h] = groups[h]
        BY <1>0, <1>3, <2>2, <2>6, GroupsAfter
      <3> QED BY <1>0, <2>1, <2>3, <3>1 DEF LockDiscipline
    <2>7. CASE h = call[r].g /\ CommitRegenerate(r)
      <3>1. lock[h] = r /\ groups[h] # Null
        BY <1>0, <2>0, <2>7 DEF LockDiscipline, CommitRegenerate, AtCommit
      <3> QED BY <1>0, <2>1, <3>1 DEF LockDiscipline
    <2>8. CASE h = call[r].g /\ CommitDissolve(r)
      <3>1. groups'[h] = Null
        BY <1>0, <1>3, <2>2, <2>8, GroupsAfter
      <3>2. groups[h] = Null \/ lock[h] = r
        BY <1>0, <2>0, <2>8 DEF LockDiscipline, CommitDissolve, AtCommit
      <3> QED BY <1>0, <2>1, <3>1, <3>2 DEF LockDiscipline
    <2> QED BY <1>3, <2>4, <2>5, <2>6, <2>7, <2>8 DEF Commit
  <1>4. ASSUME NEW r \in Requests, Refuse(r) \/ Crash(r) PROVE Goal
    <2>1. Ends(r) /\ UNCHANGED <<member, groups>>
      BY <1>0, <1>4, LastSteps DEF Refuse, Crash, Rollback
    <2>2. q # r /\ pc[q] = "commit" /\ call'[q] = call[q] /\ call[q].g \in Rows
      BY <1>0, <2>1 DEF Ends, TypeOK, CallShape, Rows
    <2> QED BY <1>0, <2>1, <2>2 DEF LockDiscipline, Ends
  <1>5. ASSUME NEW g \in GroupIds, Expire(g) PROVE Goal
    <2>1. groups' = [groups EXCEPT ![g] = [@ EXCEPT !.fresh = FALSE]] /\ groups[g] \in Group
      BY <1>0, <1>5 DEF Expire, TypeOK
    <2>2. [groups[g] EXCEPT !.fresh = FALSE] \in Group
      BY <2>1 DEF Group
    <2>3. \A h \in GroupIds : groups'[h] = Null <=> groups[h] = Null
      BY <1>0, <2>1, <2>2 DEF TypeOK
    <2>4. UNCHANGED <<pc, call, lock>> /\ (pc[q] = "commit" => call[q].g \in GroupIds)
      BY <1>0, <1>5 DEF Expire, CallShape
    <2> QED BY <1>0, <2>3, <2>4 DEF LockDiscipline
  <1>6. CASE UNCHANGED vars
    BY <1>0, <1>6 DEF LockDiscipline, vars
  <1> QED BY <1>1, <1>2, <1>3, <1>4, <1>5, <1>6 DEF Next

\* A dissolve loses none of the members it has to release: whoever comes into its group
\* after the snapshot comes late.
LEMMA DissolvesStep == IInv /\ [Next]_vars => DissolvesReach'
  <1> SUFFICES ASSUME IInv, [Next]_vars PROVE DissolvesReach'
    OBVIOUS
  <1> DEFINE Reaches(q) ==
        pc[q] \in {"clear", "writeGroup", "commit"} /\ call[q].op = "dissolve" =>
            /\ \A u \in Users \ late :
                  member[u].group = call[q].g => u \in call[q].rows \cup call[q].cleared
            /\ pc[q] # "clear" => call[q].rows = {}
  <1> SUFFICES ASSUME NEW q \in Requests PROVE Reaches(q)'
    BY DEF DissolvesReach
  <1>0. TypeOK /\ Shapes /\ Identities /\ Reaches(q) /\ CallShape(q)
    BY DEF IInv, Shapes, DissolvesReach
  <1> USE FamilyAssumption
  <1>1. ASSUME NEW r \in Requests, Arrive(r) PROVE Reaches(q)'
    <2>1. PICK c \in Call, p \in Points : Arrives(r, c, p)
      BY <1>0, <1>1, ArriveIsArrival
    <2> QED BY <1>0, <2>1 DEF Arrives, Arrival, TypeOK
  <1>2. ASSUME NEW r \in Requests, Execute(r) PROVE Reaches(q)'
    <2>1. PICK c \in Call, p \in Points : Advances(r, c, p)
      BY <1>0, <1>2, ExecuteAdvances
    <2>2. CASE q # r
      BY <1>0, <2>1, <2>2 DEF Advances, TypeOK
    <2>3. CASE q = r
      <3>1. pc'[q] = p /\ call'[q] = c
        BY <1>0, <2>1, <2>3 DEF Advances, TypeOK
      <3>3. pc[q] = "writeUser" => c.op # "dissolve"
        BY <1>0, <2>1, <2>3 DEF Advances, CallShape
      <3>4. UNCHANGED <<member, late>> /\ c.op = call[q].op
        BY <2>1, <2>3 DEF Advances
      <3>5. CASE p = "clear" /\ pc[q] = "snapshot"
        <4>1. c.rows = {u \in Users : member[u].group = c.g}
          BY <2>1, <2>3, <3>5 DEF Advances
        <4> QED BY <3>1, <3>4, <3>5, <4>1
      <3>6. CASE p = "clear" /\ pc[q] = "clear"
        <4>1. PICK u \in Users :
                /\ c.g = call[q].g /\ c.rows = call[q].rows \ {u}
                /\ c.cleared = IF member[u].group = c.g THEN call[q].cleared \cup {u}
                               ELSE call[q].cleared
          BY <2>1, <2>3, <3>6 DEF Advances
        <4> QED BY <1>0, <3>1, <3>4, <3>6, <4>1
      <3>7. CASE p = "writeGroup" /\ pc[q] = "clear"
        <4>1. c = call[q] /\ c.rows = {}
          BY <2>1, <2>3, <3>7 DEF Advances
        <4> QED BY <1>0, <3>1, <3>4, <3>7, <4>1
      <3>8. CASE p = "commit" /\ pc[q] = "writeGroup"
        <4>1. c = call[q]
          BY <2>1, <2>3, <3>8 DEF Advances
        <4> QED BY <1>0, <3>1, <3>4, <3>8, <4>1
      <3>9. CASE p = "commit" /\ pc[q] = "writeUser"
        BY <3>1, <3>3, <3>9
      <3>10. CASE p = "writeUser"
        BY <3>1, <3>10
      <3>11. \/ p = "clear" /\ pc[q] \in {"snapshot", "clear"}
             \/ p = "writeGroup" /\ pc[q] = "clear"
             \/ p = "commit" /\ pc[q] \in {"writeGroup", "writeUser"}
             \/ p = "writeUser"
        BY <2>1, <2>3 DEF Advances
      <3> QED BY <3>5, <3>6, <3>7, <3>8, <3>9, <3>10, <3>11
    <2> QED BY <2>2, <2>3
  <1>3. ASSUME NEW r \in Requests, Commit(r) PROVE Reaches(q)'
    <2>0. pc[r] = "commit" /\ call[r] \in Call /\ CallShape(r) /\ call[r].g \in GroupIds /\ Ends(r)
      BY <1>0, <1>3, AtCommits, LastSteps
    <2> SUFFICES ASSUME pc'[q] \in {"clear", "writeGroup", "commit"}, call'[q].op = "dissolve",
                        NEW u \in Users \ late', member'[u].group = call'[q].g
                 PROVE  u \in call'[q].rows \cup call'[q].cleared
      BY <1>0, <2>0 DEF Ends, TypeOK
    <2>1. /\ q # r /\ pc[q] \in {"clear", "writeGroup", "commit"}
          /\ call'[q] = call[q] /\ call[q].op = "dissolve" /\ call[q].g \in GroupIds
      BY <1>0, <2>0 DEF Ends, TypeOK, CallShape
    <2>2. UserAfter(r, u)
      BY <1>0, <1>3, UsersAfter
    <2>3. ~(CommitCreate(r) /\ u = call[r].user)
      <3> SUFFICES ASSUME CommitCreate(r), u = call[r].user PROVE FALSE
        OBVIOUS
      <3>1. call[q].g # call[r].g
        BY <1>0, <2>0, <2>1 DEF Identities, CommitCreate, AtCommit
      <3> QED BY <2>1, <2>2, <3>1 DEF UserAfter
    <2>4. ~(CommitJoin(r) /\ u = call[r].user)
      <3> SUFFICES ASSUME CommitJoin(r), u = call[r].user PROVE FALSE
        OBVIOUS
      <3>1. Closing(call[q].g)
        BY <2>1 DEF Closing
      <3>2. member'[u] = [group |-> call[r].g, role |-> "MEMBER"] /\ ~Closing(call[r].g)
        BY <2>2 DEF UserAfter
      <3> QED BY <2>1, <3>1, <3>2
    <2>5. ~(CommitClear(r) /\ u = call[r].who) /\ ~(CommitDissolve(r) /\ u \in call[r].cleared)
      BY <2>1, <2>2 DEF UserAfter, Free
    <2>6. member'[u] = member[u] /\ u \notin late
      BY <1>3, <2>2, <2>3, <2>4, <2>5 DEF UserAfter, Commit
    <2> QED BY <1>0, <2>1, <2>6
  <1>4. ASSUME NEW r \in Requests, Refuse(r) \/ Crash(r) PROVE Reaches(q)'
    <2>1. Ends(r) /\ UNCHANGED <<member, groups, late>>
      BY <1>0, <1>4, LastSteps DEF Refuse, Crash, Rollback
    <2> QED BY <1>0, <2>1 DEF Ends, TypeOK
  <1>5. ASSUME NEW g \in GroupIds, Expire(g) PROVE Reaches(q)'
    BY <1>0, <1>5 DEF Expire
  <1>6. CASE UNCHANGED vars
    BY <1>0, <1>6 DEF vars
  <1> QED BY <1>1, <1>2, <1>3, <1>4, <1>5, <1>6 DEF Next

\* The steps that change neither table, nor the history of late joins.
LEMMA QuietSteps ==
  ASSUME TypeOK, Shapes, [Next]_vars
  PROVE  \/ UNCHANGED <<member, groups, late>>
         \/ \E r \in Requests : Commit(r)
         \/ \E g \in GroupIds : Expire(g)
  <1>1. ASSUME NEW r \in Requests, Arrive(r) PROVE UNCHANGED <<member, groups, late>>
    BY <1>1, ArriveIsArrival DEF Arrives
  <1>2. ASSUME NEW r \in Requests, Execute(r) PROVE UNCHANGED <<member, groups, late>>
    BY <1>2, ExecuteAdvances DEF Advances
  <1>3. ASSUME NEW r \in Requests, Refuse(r) \/ Crash(r) PROVE UNCHANGED <<member, groups, late>>
    BY <1>3 DEF Refuse, Crash, Rollback
  <1> QED BY <1>1, <1>2, <1>3 DEF Next, vars

LEMMA InTimeStep == IInv /\ [Next]_vars => OwnersInTime'
  <1> SUFFICES ASSUME IInv, [Next]_vars, NEW u \in Users, member'[u].role = "OWNER"
               PROVE  u \notin late'
    BY DEF OwnersInTime
  <1>0. TypeOK /\ Shapes /\ OwnersInTime
    BY DEF IInv
  <1>1. CASE UNCHANGED <<member, groups, late>>
    BY <1>0, <1>1 DEF OwnersInTime
  <1>2. ASSUME NEW r \in Requests, Commit(r) PROVE u \notin late'
    <2>1. UserAfter(r, u)
      BY <1>0, <1>2, UsersAfter
    <2>2. /\ ~(CommitJoin(r) /\ u = call[r].user)
          /\ ~(CommitClear(r) /\ u = call[r].who)
          /\ ~(CommitDissolve(r) /\ u \in call[r].cleared)
      BY <2>1 DEF UserAfter, Free
    <2>3. CASE CommitCreate(r) /\ u = call[r].user
      BY <2>1, <2>3 DEF UserAfter
    <2>4. CASE ~(CommitCreate(r) /\ u = call[r].user)
      <3>1. member'[u] = member[u] /\ (u \in late' <=> u \in late)
        BY <1>2, <2>1, <2>2, <2>4 DEF UserAfter, Commit
      <3> QED BY <1>0, <3>1 DEF OwnersInTime
    <2> QED BY <2>3, <2>4
  <1>3. ASSUME NEW g \in GroupIds, Expire(g) PROVE u \notin late'
    BY <1>0, <1>3 DEF Expire, OwnersInTime
  <1> QED BY <1>0, <1>1, <1>2, <1>3, QuietSteps

\* The passing of a code's seven days leaves a group that exists with its owner.
LEMMA ExpireKeepsOwner ==
  ASSUME TypeOK, NEW g \in GroupIds, Expire(g), NEW h \in GroupIds
  PROVE  /\ groups'[h] = Null <=> groups[h] = Null
         /\ groups[h] # Null => groups'[h].owner = groups[h].owner
         /\ groups'[h] # Null /\ groups'[h].fresh =>
                groups[h].fresh /\ groups'[h].code = groups[h].code
  <1> DEFINE row == [groups[g] EXCEPT !.fresh = FALSE]
  <1>1. groups[g] \in Group /\ groups' = [groups EXCEPT ![g] = row]
    BY DEF Expire, TypeOK
  <1>2. row \in Group /\ row.owner = groups[g].owner /\ row.fresh = FALSE
    BY <1>1 DEF Group
  <1> HIDE DEF row
  <1> QED BY <1>1, <1>2, FamilyAssumption DEF TypeOK

LEMMA LeadStep == IInv /\ [Next]_vars => OwnersLead'
  <1> SUFFICES ASSUME IInv, [Next]_vars, NEW u \in Users, member'[u].role = "OWNER"
               PROVE  /\ member'[u].group # Null
                      /\ groups'[member'[u].group] # Null
                      /\ groups'[member'[u].group].owner = u
    BY DEF OwnersLead
  <1> DEFINE Leads == /\ member'[u].group # Null
                      /\ groups'[member'[u].group] # Null
                      /\ groups'[member'[u].group].owner = u
  <1>0. /\ TypeOK /\ Shapes /\ Identities /\ LockDiscipline /\ DissolvesReach /\ OwnersInTime
        /\ OwnersLead
    BY DEF IInv
  <1> USE FamilyAssumption
  <1>1. CASE UNCHANGED <<member, groups, late>>
    BY <1>0, <1>1 DEF OwnersLead
  <1>2. ASSUME NEW r \in Requests, Commit(r) PROVE Leads
    <2>0. pc[r] = "commit" /\ call[r] \in Call /\ CallShape(r) /\ call[r].g \in GroupIds
      BY <1>0, <1>2, AtCommits
    <2>9. UserAfter(r, u)
      BY <1>0, <1>2, UsersAfter
    <2>1. CASE CommitCreate(r) /\ u = call[r].user
      <3>1. member'[u] = [group |-> call[r].g, role |-> "OWNER"]
        BY <2>9, <2>1 DEF UserAfter
      <3>2. groups'[call[r].g] = [owner |-> u, code |-> call[r].code, fresh |-> TRUE]
        BY <1>0, <1>2, <2>0, <2>1, GroupsAfter
      <3>3. call[r].code \in Codes
        BY <2>0, <2>1 DEF CommitCreate, AtCommit, CallShape
      <3>4. groups'[call[r].g] \in Group
        BY <3>2, <3>3 DEF Group
      <3> QED BY <2>0, <3>1, <3>2, <3>4
    <2>2. CASE ~(CommitCreate(r) /\ u = call[r].user)
      <3>0. /\ ~(CommitJoin(r) /\ u = call[r].user)
            /\ ~(CommitClear(r) /\ u = call[r].who)
            /\ ~(CommitDissolve(r) /\ u \in call[r].cleared)
        BY <2>9 DEF UserAfter, Free
      <3>1. member'[u] = member[u]
        BY <1>2, <2>9, <2>2, <3>0 DEF UserAfter, Commit
      <3> DEFINE g == member[u].group
      <3>2. g \in GroupIds /\ groups[g] # Null /\ groups[g].owner = u
        BY <1>0, <3>1 DEF OwnersLead, TypeOK, Membership
      <3>3. CASE g # call[r].g \/ CommitJoin(r) \/ CommitClear(r)
        <4>1. groups'[g] = groups[g]
          BY <1>0, <1>2, <3>2, <3>3, GroupsAfter
        <4> QED BY <3>1, <3>2, <4>1
      <3>4. CASE g = call[r].g /\ CommitCreate(r)
        BY <1>0, <2>0, <3>2, <3>4 DEF Identities, CommitCreate, AtCommit
      <3>5. CASE g = call[r].g /\ CommitRegenerate(r)
        <4>1. groups'[g] \in Group /\ groups'[g].owner = groups[g].owner
          BY <1>0, <1>2, <3>2, <3>5, GroupsAfter
        <4> QED BY <3>1, <3>2, <4>1
      <3>6. CASE g = call[r].g /\ CommitDissolve(r)
        <4>1. u \notin late
          BY <1>0, <3>1 DEF OwnersInTime
        <4>2. u \in call[r].cleared
          BY <1>0, <2>0, <3>6, <4>1 DEF DissolvesReach, CommitDissolve, AtCommit
        <4> QED BY <3>0, <3>6, <4>2
      <3> QED BY <1>2, <3>3, <3>4, <3>5, <3>6 DEF Commit
    <2> QED BY <2>1, <2>2
  <1>3. ASSUME NEW g \in GroupIds, Expire(g) PROVE Leads
    <2>1. member'[u] = member[u]
      BY <1>3 DEF Expire
    <2>2. /\ member[u].group \in GroupIds /\ groups[member[u].group] # Null
          /\ groups[member[u].group].owner = u
      BY <1>0, <2>1 DEF OwnersLead, TypeOK, Membership
    <2> QED BY <1>0, <1>3, <2>1, <2>2, ExpireKeepsOwner
  <1> QED BY <1>0, <1>1, <1>2, <1>3, QuietSteps

LEMMA StrandedStep == IInv /\ [Next]_vars => StrandedOnlyByLateJoins'
  <1> SUFFICES ASSUME IInv, [Next]_vars, NEW u \in Users,
                      member'[u].group # Null, groups'[member'[u].group] = Null
               PROVE  u \in late'
    BY DEF StrandedOnlyByLateJoins
  <1>0. /\ TypeOK /\ Shapes /\ Identities /\ LockDiscipline /\ DissolvesReach
        /\ StrandedOnlyByLateJoins
    BY DEF IInv
  <1> USE FamilyAssumption
  <1>1. CASE UNCHANGED <<member, groups, late>>
    BY <1>0, <1>1 DEF StrandedOnlyByLateJoins
  <1>2. ASSUME NEW r \in Requests, Commit(r) PROVE u \in late'
    <2>0. pc[r] = "commit" /\ call[r] \in Call /\ CallShape(r) /\ call[r].g \in GroupIds
      BY <1>0, <1>2, AtCommits
    <2>1. UserAfter(r, u)
      BY <1>0, <1>2, UsersAfter
    <2>2. ~(CommitClear(r) /\ u = call[r].who) /\ ~(CommitDissolve(r) /\ u \in call[r].cleared)
      BY <2>1 DEF UserAfter, Free
    <2>3. CASE CommitCreate(r) /\ u = call[r].user
      <3>1. member'[u] = [group |-> call[r].g, role |-> "OWNER"]
        BY <2>1, <2>3 DEF UserAfter
      <3>2. groups'[call[r].g] = [owner |-> u, code |-> call[r].code, fresh |-> TRUE]
        BY <1>0, <1>2, <2>0, <2>3, GroupsAfter
      <3>3. call[r].code \in Codes
        BY <2>0, <2>3 DEF CommitCreate, AtCommit, CallShape
      <3>4. groups'[call[r].g] \in Group
        BY <3>2, <3>3 DEF Group
      <3> QED BY <3>1, <3>4
    <2>4. CASE CommitJoin(r) /\ u = call[r].user
      <3>1. /\ member'[u] = [group |-> call[r].g, role |-> "MEMBER"]
            /\ Closing(call[r].g) => u \in late'
        BY <2>1, <2>4 DEF UserAfter
      <3>2. groups'[call[r].g] = groups[call[r].g]
        BY <1>0, <1>2, <2>0, <2>4, GroupsAfter
      <3>3. Closing(call[r].g)
        BY <3>1, <3>2 DEF Closing
      <3> QED BY <3>1, <3>3
    <2>5. CASE ~(CommitCreate(r) /\ u = call[r].user) /\ ~(CommitJoin(r) /\ u = call[r].user)
      <3>1. member'[u] = member[u] /\ (u \in late' <=> u \in late)
        BY <1>2, <2>1, <2>2, <2>5 DEF UserAfter, Commit
      <3> DEFINE g == member[u].group
      <3>2. g \in GroupIds /\ groups'[g] = Null
        BY <1>0, <3>1 DEF TypeOK, Membership
      <3>3. CASE groups[g] = Null
        BY <1>0, <3>1, <3>2, <3>3 DEF StrandedOnlyByLateJoins
      <3>4. CASE groups[g] # Null
        <4>1. g = call[r].g /\ ~CommitJoin(r) /\ ~CommitClear(r)
          BY <1>0, <1>2, <3>2, <3>4, GroupsAfter
        <4>2. ~CommitCreate(r)
          BY <1>0, <2>0, <3>4, <4>1 DEF Identities, CommitCreate, AtCommit
        <4>3. ~CommitRegenerate(r)
          BY <1>0, <1>2, <3>2, <4>1, GroupsAfter
        <4>4. CommitDissolve(r) /\ call[r].op = "dissolve" /\ u \notin call[r].cleared
          BY <1>2, <2>2, <4>1, <4>2, <4>3 DEF Commit, CommitDissolve, AtCommit
        <4> QED BY <1>0, <2>0, <3>1, <4>1, <4>4 DEF DissolvesReach
      <3> QED BY <3>3, <3>4
    <2> QED BY <2>3, <2>4, <2>5
  <1>3. ASSUME NEW g \in GroupIds, Expire(g) PROVE u \in late'
    <2>1. UNCHANGED <<member, late>>
      BY <1>3 DEF Expire
    <2>2. member[u].group \in GroupIds
      BY <1>0, <2>1 DEF TypeOK, Membership
    <2> QED BY <1>0, <1>3, <2>1, <2>2, ExpireKeepsOwner DEF StrandedOnlyByLateJoins
  <1> QED BY <1>0, <1>1, <1>2, <1>3, QuietSteps

-----------------------------------------------------------------------------
(* Invite codes.                                                           *)

\* What makes a code lapse, for one code.
Spent(x) ==
    /\ x \in Codes /\ x \in used
    /\ \A r \in Requests : call[r] # Null /\ call[r].op # "join" => call[r].code # x
    /\ \A g \in GroupIds : groups[g] # Null => groups[g].code # x \/ ~groups[g].fresh

LEMMA LapsedIsSpent == ASSUME NEW x PROVE x \in Lapsed <=> Spent(x)
  BY DEF Lapsed, Spent

LEMMA LapsedIsSpentNext == ASSUME NEW x PROVE x \in Lapsed' <=> Spent(x)'
  BY DEF Lapsed, Spent

\* A lapsed code is never valid again.
LEMMA LapsedGrows == IInv /\ [Next]_vars => Lapsed \subseteq Lapsed'
  <1> SUFFICES ASSUME IInv, [Next]_vars, NEW x, Spent(x) PROVE Spent(x)'
    BY LapsedIsSpent, LapsedIsSpentNext
  <1>0. TypeOK /\ Shapes /\ LockDiscipline
    BY DEF IInv
  <1> USE FamilyAssumption
  <1>1. ASSUME NEW r \in Requests, Arrive(r) PROVE Spent(x)'
    <2>1. PICK c \in Call, p \in Points : Arrives(r, c, p)
      BY <1>0, <1>1, ArriveIsArrival
    <2>2. /\ c.op # "join" => c.code # x
          /\ used \subseteq used' /\ groups' = groups
      BY <2>1 DEF Arrives, Arrival, Spent
    <2>3. \A q \in Requests : call'[q] = IF q = r THEN c ELSE call[q]
      BY <1>0, <2>1 DEF Arrives, TypeOK
    <2> QED BY <2>2, <2>3 DEF Spent
  <1>2. ASSUME NEW r \in Requests, Execute(r) PROVE Spent(x)'
    <2>1. PICK c \in Call, p \in Points : Advances(r, c, p)
      BY <1>0, <1>2, ExecuteAdvances
    <2>2. c.op = call[r].op /\ c.code = call[r].code /\ UNCHANGED <<used, groups>>
      BY <2>1 DEF Advances
    <2>3. \A q \in Requests : call'[q] = IF q = r THEN c ELSE call[q]
      BY <1>0, <2>1 DEF Advances, TypeOK
    <2>4. call[r] # Null
      BY <1>0, <2>1 DEF Advances, Shapes, CallShape
    <2> QED BY <2>2, <2>3, <2>4 DEF Spent
  <1>3. ASSUME NEW r \in Requests, Commit(r) PROVE Spent(x)'
    <2>0. pc[r] = "commit" /\ call[r] \in Call /\ CallShape(r) /\ call[r].g \in GroupIds /\ Ends(r)
      BY <1>0, <1>3, AtCommits, LastSteps
    <2>1. used' = used /\ \A q \in Requests : call'[q] = IF q = r THEN Null ELSE call[q]
      BY <1>0, <2>0 DEF Ends, TypeOK
    <2>2. ASSUME NEW g \in GroupIds, groups'[g] # Null
          PROVE  groups'[g].code # x \/ ~groups'[g].fresh
      <3>1. CASE groups'[g] = groups[g]
        BY <2>2, <3>1 DEF Spent
      <3>2. CASE groups'[g] # groups[g]
        <4>1. g = call[r].g /\ ~CommitJoin(r) /\ ~CommitClear(r) /\ ~CommitDissolve(r)
          BY <1>0, <1>3, <2>2, <3>2, GroupsAfter
        <4>2. call[r].op # "join"
          BY <1>3, <4>1 DEF Commit, CommitCreate, CommitRegenerate, AtCommit
        <4>3. CASE CommitCreate(r)
          <5>1. groups'[g] = [owner |-> call[r].user, code |-> call[r].code, fresh |-> TRUE]
            BY <1>0, <1>3, <4>1, <4>3, GroupsAfter
          <5> QED BY <2>0, <4>2, <5>1 DEF Spent
        <4>4. CASE CommitRegenerate(r)
          <5>1. groups'[g].code = call[r].code
            BY <1>0, <1>3, <4>1, <4>4, GroupsAfter
          <5> QED BY <2>0, <4>2, <5>1 DEF Spent
        <4> QED BY <1>3, <4>1, <4>3, <4>4 DEF Commit
      <3> QED BY <3>1, <3>2
    <2> QED BY <2>1, <2>2 DEF Spent
  <1>4. ASSUME NEW r \in Requests, Refuse(r) \/ Crash(r) PROVE Spent(x)'
    <2>1. Ends(r) /\ UNCHANGED <<member, groups>>
      BY <1>0, <1>4, LastSteps DEF Refuse, Crash, Rollback
    <2>2. used' = used /\ \A q \in Requests : call'[q] = IF q = r THEN Null ELSE call[q]
      BY <1>0, <2>1 DEF Ends, TypeOK
    <2> QED BY <2>1, <2>2 DEF Spent
  <1>5. ASSUME NEW g \in GroupIds, Expire(g) PROVE Spent(x)'
    <2>1. UNCHANGED <<used, call>>
      BY <1>5 DEF Expire
    <2>2. ASSUME NEW h \in GroupIds, groups'[h] # Null
          PROVE  groups'[h].code # x \/ ~groups'[h].fresh
      BY <1>0, <1>5, <2>2, ExpireKeepsOwner DEF Spent
    <2> QED BY <2>1, <2>2 DEF Spent
  <1>6. CASE UNCHANGED vars
    BY <1>6 DEF vars, Spent
  <1> QED BY <1>1, <1>2, <1>3, <1>4, <1>5, <1>6 DEF Next

LEMMA LapsesStep == IInv /\ [Next]_vars => LapsesLast'
  <1> SUFFICES ASSUME IInv, [Next]_vars, NEW q \in Requests, pc'[q] # "idle"
               PROVE  /\ call'[q].lapsed \subseteq Lapsed'
                      /\ call'[q].op = "join" /\ pc'[q] # "lookup" =>
                             call'[q].code \notin call'[q].lapsed
    BY DEF LapsesLast
  <1> DEFINE Goal == /\ call'[q].lapsed \subseteq Lapsed'
                     /\ call'[q].op = "join" /\ pc'[q] # "lookup" =>
                            call'[q].code \notin call'[q].lapsed
  <1>0. TypeOK /\ Shapes /\ LapsesLast /\ Lapsed \subseteq Lapsed'
    BY LapsedGrows DEF IInv
  <1>9. CASE pc'[q] = pc[q] /\ call'[q] = call[q]
    BY <1>0, <1>9 DEF LapsesLast
  <1>1. ASSUME NEW r \in Requests, Arrive(r) PROVE Goal
    <2>1. PICK c \in Call, p \in Points : Arrives(r, c, p)
      BY <1>0, <1>1, ArriveIsArrival
    <2>2. CASE q = r
      <3>1. call'[q] = c /\ pc'[q] = p
        BY <1>0, <2>1, <2>2 DEF Arrives, TypeOK
      <3> QED BY <1>0, <2>1, <3>1 DEF Arrives, Arrival
    <2> QED BY <1>0, <1>9, <2>1, <2>2 DEF Arrives, TypeOK
  <1>2. ASSUME NEW r \in Requests, Execute(r) PROVE Goal
    <2>1. PICK c \in Call, p \in Points : Advances(r, c, p)
      BY <1>0, <1>2, ExecuteAdvances
    <2>2. CASE q = r
      <3>1. /\ call'[q] = c /\ pc'[q] = p /\ pc[q] # "idle"
            /\ c.lapsed = call[q].lapsed /\ c.op = call[q].op /\ c.code = call[q].code
        BY <1>0, <2>1, <2>2 DEF Advances, TypeOK
      <3>2. c.lapsed \subseteq Lapsed
        BY <1>0, <3>1 DEF LapsesLast
      <3>3. CASE pc[q] # "lookup"
        BY <1>0, <3>1, <3>2, <3>3 DEF LapsesLast
      <3>4. CASE pc[q] = "lookup"
        <4>1. c.g \in GroupIds /\ Admits(c.g, c.code)
          BY <2>1, <2>2, <3>4 DEF Advances
        <4>2. ~Spent(c.code)
          BY <4>1 DEF Admits, Spent
        <4> QED BY <1>0, <3>1, <3>2, <4>2, LapsedIsSpent
      <3> QED BY <3>3, <3>4
    <2> QED BY <1>0, <1>9, <2>1, <2>2 DEF Advances, TypeOK
  <1>3. ASSUME NEW r \in Requests, Commit(r) \/ Refuse(r) \/ Crash(r) PROVE Goal
    BY <1>0, <1>9, <1>3, LastSteps DEF Ends, TypeOK
  <1>4. ASSUME NEW g \in GroupIds, Expire(g) PROVE Goal
    BY <1>9, <1>4 DEF Expire
  <1>5. CASE UNCHANGED vars
    BY <1>9, <1>5 DEF vars
  <1> QED BY <1>1, <1>2, <1>3, <1>4, <1>5 DEF Next

-----------------------------------------------------------------------------
(* The theorems.                                                           *)

LEMMA IInvStep == IInv /\ [Next]_vars => IInv'
  BY TypeStep, ShapesStep, IdentitiesStep, LockStep, DissolvesStep, InTimeStep, LapsesStep,
     LeadStep, StrandedStep DEF IInv

LEMMA Invariance == Spec => []IInv
  <1> QED BY InitIInv, IInvStep, PTL DEF Spec

\* Every variable keeps its type, for all users, groups, codes and requests.
THEOREM TypeCorrect == Spec => []TypeOK
  <1>1. IInv => TypeOK
    BY DEF IInv
  <1> QED BY <1>1, Invariance, PTL

\* Whoever has the role OWNER leads an existing group, the one they founded, whatever
\* outdated rows create_group, join_group and dissolve decide on.
THEOREM OwnersAlwaysLead == Spec => []OwnersLead
  <1>1. IInv => OwnersLead
    BY DEF IInv
  <1> QED BY <1>1, Invariance, PTL

\* clear_family_group_for_all releases every member but those whose join overlaps it.
THEOREM OnlyLateJoinsStrand == Spec => []StrandedOnlyByLateJoins
  <1>1. IInv => StrandedOnlyByLateJoins
    BY DEF IInv
  <1> QED BY <1>1, Invariance, PTL

\* join_group never commits with an invite code that had lapsed before it began.
THEOREM LapsedCodesStayOut == Spec => LapsedCodesAdmitNobody
  <1>1. ASSUME IInv, NEW r \in Requests, CommitJoin(r) PROVE call[r].code \notin call[r].lapsed
    BY <1>1 DEF IInv, LapsesLast, CommitJoin, AtCommit
  <1>2. IInv /\ [Next]_vars =>
          [\A r \in Requests : CommitJoin(r) => call[r].code \notin call[r].lapsed]_vars
    BY <1>1
  <1> QED BY <1>2, Invariance, PTL DEF Spec, LapsedCodesAdmitNobody

==============================================================================

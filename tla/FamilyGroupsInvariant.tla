------------------------ MODULE FamilyGroupsInvariant ------------------------
(***************************************************************************)
(* The inductive invariant behind the theorems of FamilyGroupsProofs.      *)
(***************************************************************************)
EXTENDS FamilyGroups

\* Operations on a group that exists when they begin.
GroupOps == {"remove", "leave", "regenerate", "dissolve"}

\* The arguments fit the operation and the statement the request is at.
CallShape(r) ==
    LET c == call[r]
    IN  /\ pc[r] = "idle" <=> c = Null
        /\ pc[r] # "idle" =>
            /\ c.op # "join" => c.g \in GroupIds
            /\ c.op = "join" => c.g \in GroupIds <=> pc[r] # "lookup"
            /\ c.op \in {"create", "join"} => c.who = c.user
            /\ c.op \in {"create", "join", "regenerate"} => c.code \in Codes
            /\ pc[r] = "lookup" => c.op = "join"
            /\ pc[r] \in {"snapshot", "clear"} => c.op = "dissolve"
            /\ pc[r] = "writeGroup" => c.op \in {"regenerate", "dissolve"}
            /\ pc[r] = "writeUser" => c.op \in {"create", "join", "remove", "leave"}

Shapes == \A r \in Requests : CallShape(r)

\* Ids are drawn once: nothing refers to an id that is not used, and nothing but its
\* create refers to the id of a group that is being created.
Identities ==
    /\ \A g \in GroupIds \ used :
          /\ groups[g] = Null
          /\ \A u \in Users : member[u].group # g
          /\ \A r \in Requests : pc[r] # "idle" => call[r].g # g
    /\ \A r \in Requests : pc[r] # "idle" /\ call[r].op = "create" =>
          /\ groups[call[r].g] = Null
          /\ \A u \in Users : member[u].group # call[r].g
          /\ \A q \in Requests \ {r} : pc[q] # "idle" => call[q].g # call[r].g

\* A group whose row has been written exists until the writer ends.
LockDiscipline ==
    \A r \in Requests : pc[r] = "commit" =>
        /\ call[r].op = "regenerate" => lock[call[r].g] = r /\ groups[call[r].g] # Null
        /\ call[r].op = "dissolve" => groups[call[r].g] = Null \/ lock[call[r].g] = r

\* A dissolve has visited, or has still to visit, every member of its group whose join
\* did not overlap it.
DissolvesReach ==
    /\ \A r \in Requests : pc[r] \in {"clear", "writeGroup", "commit"} /\ call[r].op = "dissolve" =>
          \A u \in Users \ late : member[u].group = call[r].g => u \in call[r].rows \cup call[r].cleared
    /\ \A r \in Requests : pc[r] \in {"writeGroup", "commit"} /\ call[r].op = "dissolve" =>
          call[r].rows = {}

\* Founders do not join late.
OwnersInTime == \A u \in Users : member[u].role = "OWNER" => u \notin late

\* A code that has lapsed has lapsed for good, and a join past its lookup was admitted
\* by one that had not.
LapsesLast ==
    \A r \in Requests : pc[r] # "idle" =>
        /\ call[r].lapsed \subseteq Lapsed
        /\ call[r].op = "join" /\ pc[r] # "lookup" => call[r].code \notin call[r].lapsed

IInv ==
    /\ TypeOK /\ Shapes /\ Identities /\ LockDiscipline /\ DissolvesReach /\ OwnersInTime
    /\ LapsesLast /\ OwnersLead /\ StrandedOnlyByLateJoins
==============================================================================

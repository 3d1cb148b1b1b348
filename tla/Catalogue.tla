------------------------------ MODULE Catalogue ------------------------------
(***************************************************************************)
(* The ordered lists a user keeps: assets (app/services/asset_service.py)  *)
(* and categories (app/services/category_service.py), under concurrent     *)
(* requests.  Registration seeds them; a new asset is placed after as many *)
(* assets as the user is shown, a new category after the last of its       *)
(* section.  Places are computed from a read and no constraint keeps them  *)
(* apart.  As in Confirmations, the last write and the commit are one step.*)
(*                                                                         *)
(* A row bears the number of the request that inserted it, a seed the name *)
(* of its user (and its section).  Nothing creates a category for a family *)
(* group: every category belongs to a user here.  Of an update only the    *)
(* name counts, of a category; balances are in Transfers.                  *)
(***************************************************************************)
EXTENDS Integers, FiniteSets, FiniteSetsExt

CONSTANTS
    Users,       \* rows of auth.users
    Registered,  \* those who registered by e-mail: accounts of a provider have no seeds
    Groups,      \* family groups
    Sections,    \* pairs of an area and a type
    Places,      \* bound: the places a client may ask for in a reorder
    Requests,    \* requests that may be in flight at the same time
    Null,        \* None, a row that does not exist
    MaxRequests  \* bound: how many requests are started in a behaviour

VARIABLES
    assets,      \* committed assets
    favourite,   \* default_asset_id of each user: no constraint ties it to an asset
    categories,  \* committed categories
    groupOf,     \* the family group of each user
    pc,          \* the statement each request is at
    call,        \* its arguments and what it has read
    begun,       \* requests started so far: they number the requests
    overlapped,  \* history: pairs of requests that were in flight at the same time
    moved,       \* history: the rows a reorder has placed
    disturbed    \* history: the users whose list of assets may have got shorter

vars == <<assets, favourite, categories, groupOf, pc, call, begun, overlapped, moved, disturbed>>
rows == <<assets, favourite, categories>>
known == <<begun, overlapped>>
histories == <<moved, disturbed>>

Ids == 1 .. MaxRequests

Asset == [user : Users, group : Groups \cup {Null}, shared : BOOLEAN, place : Nat]

Category == [user : Users, section : Sections, default : BOOLEAN, renamed : BOOLEAN, place : Nat]

AssetIds == (Ids \cup Registered) \X {Null}

CategoryIds == (Ids \X {Null}) \cup (Registered \X Sections)

\* row: the row to change; group: the caller's family group as read; sent: the group a client
\* asks for, any or none; place: the place found.
Ops == {"addAsset", "dropAsset", "favour", "addCategory", "rename", "dropCategory"}

Call == [op : Ops, no : Ids, user : Users, row : AssetIds \cup CategoryIds \cup {Null},
         group : Groups \cup {Null}, section : Sections \cup {Null}, shared : BOOLEAN,
         sent : Groups \cup {Null}, place : Nat]

\* What the constants are assumed to be; UserData assumes it of its instance.
CatalogueAssumption ==
    /\ Registered \subseteq Users /\ IsFiniteSet(Registered) /\ IsFiniteSet(Sections)
    /\ Places \subseteq Nat /\ MaxRequests \in Nat
    /\ Registered \cap Ids = {} /\ Null \notin Sections /\ Null \notin Groups
    /\ Null \notin Asset /\ Null \notin Category /\ Null \notin Call
    /\ Null \notin AssetIds /\ Null \notin CategoryIds

\* seed_defaults of both services: one default category stands for those of its section.
Init ==
    /\ assets = [i \in AssetIds |->
           IF i[1] \in Registered
           THEN [user |-> i[1], group |-> Null, shared |-> FALSE, place |-> 0] ELSE Null]
    /\ favourite = [u \in Users |-> IF u \in Registered THEN <<u, Null>> ELSE Null]
    /\ categories = [i \in CategoryIds |->
           IF i[1] \in Registered
           THEN [user |-> i[1], section |-> i[2], default |-> TRUE, renamed |-> FALSE,
                 place |-> 1] ELSE Null]
    /\ groupOf = [u \in Users |-> Null]
    /\ pc = [r \in Requests |-> "idle"]
    /\ call = [r \in Requests |-> Null]
    /\ begun = 0
    /\ overlapped = {}
    /\ moved = {}
    /\ disturbed = {}

Goto(r, p) == pc' = [pc EXCEPT ![r] = p]

\* get_list_by_user
Listed(u, group) ==
    {i \in AssetIds : /\ assets[i] # Null
                      /\ \/ assets[i].user = u
                         \/ group # Null /\ assets[i].group = group}

-----------------------------------------------------------------------------
(* Requests begin: get_current_user reads the caller.                      *)

Begin(r, op, u, row, section, shared, sent) ==
    /\ pc[r] = "idle"
    /\ begun < MaxRequests
    /\ begun' = begun + 1
    /\ call' = [call EXCEPT ![r] =
           [op |-> op, no |-> begun + 1, user |-> u, row |-> row, group |-> groupOf[u],
            section |-> section, shared |-> shared, sent |-> sent, place |-> 0]]
    /\ overlapped' = overlapped \cup
           {{call[q].no, begun + 1} : q \in {q \in Requests : pc[q] # "idle"}}
    /\ Goto(r, "read")
    /\ UNCHANGED <<rows, groupOf, histories>>

BeginAddAsset(r, u, shared, sent) == Begin(r, "addAsset", u, Null, Null, shared, sent)

\* A change of a row that exists.
BeginChange(r, op, u, i) == Begin(r, op, u, i, Null, FALSE, Null)

BeginDropAsset(r, u, i) == assets[i] # Null /\ BeginChange(r, "dropAsset", u, i)

BeginFavour(r, u, i) == assets[i] # Null /\ BeginChange(r, "favour", u, i)

BeginAddCategory(r, u, section) == Begin(r, "addCategory", u, Null, section, FALSE, Null)

BeginRename(r, u, i) == categories[i] # Null /\ BeginChange(r, "rename", u, i)

BeginDropCategory(r, u, i) == categories[i] # Null /\ BeginChange(r, "dropCategory", u, i)

\* A request of one statement.
Single ==
    /\ begun < MaxRequests
    /\ begun' = begun + 1
    /\ UNCHANGED <<pc, call, overlapped>>

\* A user joins a family group or leaves it.
Move(u, group) ==
    /\ Single
    /\ group # groupOf[u]
    /\ groupOf' = [groupOf EXCEPT ![u] = group]
    /\ disturbed' = IF groupOf[u] = Null THEN disturbed ELSE disturbed \cup {u}
    /\ UNCHANGED <<rows, moved>>

\* update_sort_order writes the rows it is sent, one item here, with no other test.
ReorderAsset(i, place) ==
    /\ Single
    /\ assets[i] # Null
    /\ assets' = [assets EXCEPT ![i].place = place]
    /\ moved' = moved \cup {i}
    /\ UNCHANGED <<favourite, categories, groupOf, disturbed>>

ReorderCategory(i, place) ==
    /\ Single
    /\ categories[i] # Null
    /\ categories' = [categories EXCEPT ![i].place = place]
    /\ moved' = moved \cup {i}
    /\ UNCHANGED <<assets, favourite, groupOf, disturbed>>

-----------------------------------------------------------------------------
(* Reads.                                                                  *)

\* _check_permission
Permitted(c, row) ==
    \/ ~row.shared /\ row.user = c.user
    \/ row.shared /\ c.group # Null /\ row.group = c.group

\* Mutant: a new category is placed as a new asset is, by counting.
NextPlaceByCount(u, section) ==
    Cardinality({i \in CategoryIds : categories[i] # Null /\ categories[i].user = u
                                     /\ categories[i].section = section})

\* get_max_sort_order, plus one
NextPlace(u, section) ==
    Max({0} \cup {categories[i].place : i \in {i \in CategoryIds :
            categories[i] # Null /\ categories[i].user = u /\ categories[i].section = section}})
    + 1

ReadForAdd(r) ==
    LET c == call[r]
    IN  /\ pc[r] = "read"
        /\ \/ /\ c.op = "addAsset"
              /\ call' = [call EXCEPT ![r].place = Cardinality(Listed(c.user, c.group))]
           \/ /\ c.op = "addCategory"
              /\ call' = [call EXCEPT ![r].place = NextPlace(c.user, c.section)]
        /\ Goto(r, "commit")
        /\ UNCHANGED <<rows, groupOf, known, histories>>

\* What update and delete ask of the row: it exists, it is the caller's, and a default
\* category is neither renamed nor deleted.
Admits(c) ==
    IF c.op \in {"dropAsset", "favour"} THEN assets[c.row] # Null /\ Permitted(c, assets[c.row])
    ELSE /\ categories[c.row] # Null
         /\ categories[c.row].user = c.user
         /\ ~categories[c.row].default

ReadRow(r) ==
    /\ pc[r] = "read"
    /\ call[r].op \in {"dropAsset", "favour", "rename", "dropCategory"}
    /\ Admits(call[r])
    /\ Goto(r, "commit")
    /\ UNCHANGED <<rows, groupOf, call, known, histories>>

-----------------------------------------------------------------------------
(* Last statements and commits.                                            *)

End(r) ==
    /\ Goto(r, "idle")
    /\ call' = [call EXCEPT ![r] = Null]
    /\ UNCHANGED <<groupOf, known>>

AtCommit(r, op) == pc[r] = "commit" /\ call[r].op = op

\* The group that is sent, of any kind of asset and whether the caller is in it or not.
CommitAddAsset(r) ==
    LET c == call[r]
    IN  /\ AtCommit(r, "addAsset")
        /\ assets' = [assets EXCEPT ![<<c.no, Null>>] =
               [user |-> c.user,
                group |-> IF c.sent # Null THEN c.sent ELSE IF c.shared THEN c.group ELSE Null,
                shared |-> c.shared, place |-> c.place]]
        /\ UNCHANGED <<favourite, categories, histories>>
        /\ End(r)

CommitFavour(r) ==
    LET c == call[r]
    IN  /\ AtCommit(r, "favour")
        /\ favourite' = [favourite EXCEPT ![c.user] = c.row]
        /\ UNCHANGED <<assets, categories, histories>>
        /\ End(r)

CommitDropAsset(r) ==
    LET c == call[r]
    IN  /\ AtCommit(r, "dropAsset")
        /\ assets' = [assets EXCEPT ![c.row] = Null]
        /\ disturbed' = disturbed \cup {u \in Users : c.row \in Listed(u, groupOf[u])}
        /\ UNCHANGED <<favourite, categories, moved>>
        /\ End(r)

CommitAddCategory(r) ==
    LET c == call[r]
    IN  /\ AtCommit(r, "addCategory")
        /\ categories' = [categories EXCEPT ![<<c.no, Null>>] =
               [user |-> c.user, section |-> c.section, default |-> FALSE, renamed |-> FALSE,
                place |-> c.place]]
        /\ UNCHANGED <<assets, favourite, histories>>
        /\ End(r)

CommitRename(r) ==
    LET c == call[r]
    IN  /\ AtCommit(r, "rename")
        /\ categories[c.row] # Null
        /\ categories' = [categories EXCEPT ![c.row].renamed = TRUE]
        /\ UNCHANGED <<assets, favourite, histories>>
        /\ End(r)

CommitDropCategory(r) ==
    LET c == call[r]
    IN  /\ AtCommit(r, "dropCategory")
        /\ categories' = [categories EXCEPT ![c.row] = Null]
        /\ UNCHANGED <<assets, favourite, histories>>
        /\ End(r)

\* Not found, forbidden, a default category, or gone when its UPDATE comes (scalar_one).
Refused(r) ==
    LET c == call[r]
    IN  \/ pc[r] = "read" /\ c.op \notin {"addAsset", "addCategory"} /\ ~Admits(c)
        \/ AtCommit(r, "rename") /\ categories[c.row] = Null

Rollback(r) ==
    /\ pc[r] # "idle"
    /\ UNCHANGED <<rows, histories>>
    /\ End(r)

Refuse(r) == Refused(r) /\ Rollback(r)

\* A statement fails, the connection is lost.
Crash(r) == Rollback(r)

-----------------------------------------------------------------------------

Arrive(r) ==
    \E u \in Users :
        \/ \E shared \in BOOLEAN, sent \in Groups \cup {Null} : BeginAddAsset(r, u, shared, sent)
        \/ \E i \in AssetIds : BeginDropAsset(r, u, i) \/ BeginFavour(r, u, i)
        \/ \E section \in Sections : BeginAddCategory(r, u, section)
        \/ \E i \in CategoryIds : BeginRename(r, u, i) \/ BeginDropCategory(r, u, i)

Execute(r) ==
    \/ ReadForAdd(r) \/ ReadRow(r)
    \/ CommitAddAsset(r) \/ CommitDropAsset(r) \/ CommitFavour(r)
    \/ CommitAddCategory(r) \/ CommitRename(r) \/ CommitDropCategory(r)

Next ==
    \/ \E r \in Requests : Arrive(r) \/ Execute(r) \/ Refuse(r) \/ Crash(r)
    \/ \E u \in Users, group \in Groups \cup {Null} : Move(u, group)
    \/ \E place \in Places :
        \/ \E i \in AssetIds : ReorderAsset(i, place)
        \/ \E i \in CategoryIds : ReorderCategory(i, place)

Spec == Init /\ [][Next]_vars

-----------------------------------------------------------------------------
(* Properties.                                                             *)

TypeOK ==
    /\ assets \in [AssetIds -> Asset \cup {Null}]
    /\ favourite \in [Users -> AssetIds \cup {Null}]
    /\ categories \in [CategoryIds -> Category \cup {Null}]
    /\ groupOf \in [Users -> Groups \cup {Null}]
    /\ pc \in [Requests -> {"idle", "read", "commit"}]
    /\ call \in [Requests -> Call \cup {Null}]
    /\ begun \in 0 .. MaxRequests
    /\ overlapped \subseteq SUBSET Ids
    /\ moved \subseteq AssetIds \cup CategoryIds
    /\ disturbed \subseteq Users

\* Two rows that were not in flight together, and that no reorder has placed.
Settled(i, j) == {i[1], j[1]} \notin overlapped /\ {i, j} \cap moved = {}

\* Two categories of a section, or two assets of a user, get the same place only when they
\* were created at the same time or a reorder placed one of them; for assets, also once
\* the list they are counted in has got shorter or the user has left a group.  The
\* default categories of a registered user are always there, under their own name, and a
\* default asset that has not been deleted is one of the user's or a shared one.
ListsInOrder ==
    /\ \A i, j \in CategoryIds :
          /\ i # j /\ Settled(i, j)
          /\ categories[i] # Null /\ categories[j] # Null
          /\ categories[i].user = categories[j].user
          /\ categories[i].section = categories[j].section
          => categories[i].place # categories[j].place
    /\ \A i, j \in AssetIds :
          /\ i # j /\ Settled(i, j)
          /\ assets[i] # Null /\ assets[j] # Null
          /\ assets[i].user = assets[j].user /\ assets[i].user \notin disturbed
          => assets[i].place # assets[j].place
    /\ \A u \in Users : favourite[u] # Null /\ assets[favourite[u]] # Null =>
          assets[favourite[u]].user = u \/ assets[favourite[u]].shared
    /\ \A i \in Registered \X Sections : categories[i] # Null /\ ~categories[i].renamed
=============================================================================

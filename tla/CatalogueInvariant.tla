-------------------------- MODULE CatalogueInvariant ---------------------------
(***************************************************************************)
(* The inductive invariant behind ListsInOrder.                            *)
(*                                                                         *)
(* A place is found by a read and written by a commit, so the invariant    *)
(* follows it between the two: what a request finds lies behind the places *)
(* of all rows that were there when it began, and the list from which the  *)
(* next request counts is by then the longer one.                          *)
(***************************************************************************)
EXTENDS Catalogue

InFlight(r) == pc[r] # "idle"

AddsAsset(r) == InFlight(r) /\ call[r].op = "addAsset"

AddsCategory(r) == InFlight(r) /\ call[r].op = "addCategory"

\* What a request is about, by its operation.
Shapes ==
    \A r \in Requests : InFlight(r) =>
        /\ call[r] \in Call /\ call[r].no <= begun
        /\ call[r].op \in {"dropAsset", "favour"} => call[r].row \in AssetIds
        /\ call[r].op \in {"rename", "dropCategory"} => call[r].row \in CategoryIds
        /\ call[r].op = "addCategory" => call[r].section \in Sections

\* Requests in flight have numbers of their own, and have been so together.
Numbers ==
    \A q, r \in Requests : q # r /\ InFlight(q) /\ InFlight(r) =>
        /\ call[q].no # call[r].no
        /\ {call[q].no, call[r].no} \in overlapped

\* A number belongs to a row once its request has ended.
Taken(i) == i[1] \in Ids => /\ i[1] <= begun
                            /\ \A r \in Requests : InFlight(r) => call[r].no # i[1]

Unborn ==
    /\ \A i \in AssetIds : assets[i] # Null => Taken(i)
    /\ \A i \in CategoryIds : categories[i] # Null => Taken(i)

\* The defaults: of the user and section they are named for; nothing is about to rename
\* or delete a default category.
Defaults ==
    /\ \A i \in Registered \X Sections :
          /\ categories[i] \in Category
          /\ categories[i].user = i[1] /\ categories[i].section = i[2]
          /\ categories[i].default /\ ~categories[i].renamed
    /\ \A r \in Requests :
          pc[r] = "commit" /\ call[r].op \in {"rename", "dropCategory"} =>
              call[r].row \notin Registered \X Sections

\* A default asset, and one that is about to be: it has its number for good.
Usable(i, u) ==
    Taken(i) /\ (assets[i] # Null => assets[i].user = u \/ assets[i].shared)

Favourites ==
    /\ \A u \in Users : favourite[u] # Null => Usable(favourite[u], u)
    /\ \A r \in Requests : AtCommit(r, "favour") => Usable(call[r].row, call[r].user)

\* A row of the same list that was there when the request began, and has not been moved.
Before(i, r) == {i[1], call[r].no} \notin overlapped /\ i \notin moved

\* A new category goes behind those that were there.
CategoriesBehind ==
    \A r \in Requests : AtCommit(r, "addCategory") =>
        \A i \in CategoryIds :
            /\ categories[i] # Null /\ Before(i, r)
            /\ categories[i].user = call[r].user /\ categories[i].section = call[r].section
            => categories[i].place < call[r].place

Length(u, group) == Cardinality(Listed(u, group))

\* Nobody has left a group whose list has not been disturbed.
GroupKept ==
    \A r \in Requests : InFlight(r) /\ call[r].user \notin disturbed =>
        call[r].group \in {Null, groupOf[call[r].user]}

\* The places of a user's assets are below the length of the list, and a new one goes
\* behind those that were there: it is the length of a list that has them all.
AssetsBehind ==
    /\ \A i \in AssetIds :
          assets[i] # Null /\ i \notin moved /\ assets[i].user \notin disturbed =>
              assets[i].place < Length(assets[i].user, groupOf[assets[i].user])
    /\ \A r \in Requests : AddsAsset(r) /\ call[r].user \notin disturbed =>
          LET list == Length(call[r].user, call[r].group)
              place == IF pc[r] = "read" THEN list ELSE call[r].place
          IN  /\ place <= list
              /\ \A i \in AssetIds :
                    assets[i] # Null /\ Before(i, r) /\ assets[i].user = call[r].user =>
                        assets[i].place < place

CInv ==
    /\ TypeOK /\ Shapes /\ Numbers /\ Unborn /\ Defaults /\ Favourites /\ CategoriesBehind
    /\ GroupKept /\ AssetsBehind /\ ListsInOrder
=============================================================================

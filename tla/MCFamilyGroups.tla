--------------------------- MODULE MCFamilyGroups ----------------------------
(***************************************************************************)
(* FamilyGroups for TLC: users, requests and codes are interchangeable.    *)
(***************************************************************************)
EXTENDS FamilyGroups, TLC

Symmetry == Permutations(Requests) \cup Permutations(Users) \cup Permutations(Codes)
=============================================================================

----------------------------- MODULE MCTransfers -----------------------------
(***************************************************************************)
(* Instances of TransfersLedger for TLC.                                   *)
(***************************************************************************)
EXTENDS TransfersInvariant, TLC

CONSTANTS a1, a2, u1, u2

\* Both assets belong to one user: the concurrent runs.
OneOwner == (a1 :> u1) @@ (a2 :> u1)

\* One asset each: the family run.
TwoOwners == (a1 :> u1) @@ (a2 :> u2)
=============================================================================

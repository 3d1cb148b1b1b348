------------------------------- MODULE UserData -------------------------------
(***************************************************************************)
(* The modules about a user's own data side by side: Accounts,             *)
(* RateLimiter, Goals and Catalogue.  They share no variable, so that one  *)
(* run explores them together: each behaviour is one of a single part,     *)
(* chosen in its first state, and the others stay as they begin.           *)
(***************************************************************************)
EXTENDS AccountsInvariant

CONSTANTS
    Clients, Limit, Window, MaxTime,         \* RateLimiter
    Amounts, Edits,                          \* Goals
    Users, Registered, Groups, Sections,     \* Catalogue
    Places, ListRequests, MaxListRequests

VARIABLES
    part,
    clock, requests, admitted, refused,
    goal, goalPc, goalCall, goalBegun, goalOverlapped, raced, closedBy, shown,
    assets, favourite, categories, groupOf, listPc, listCall, listBegun, listOverlapped, moved,
    disturbed

limiter == INSTANCE RateLimiter WITH Keys <- Clients

goals == INSTANCE GoalsInvariant WITH
    pc <- goalPc, call <- goalCall, begun <- goalBegun, overlapped <- goalOverlapped

lists == INSTANCE CatalogueInvariant WITH
    Requests <- ListRequests, MaxRequests <- MaxListRequests,
    pc <- listPc, call <- listCall, begun <- listBegun, overlapped <- listOverlapped

ASSUME LimiterAssumption == limiter!RateLimiterAssumption
ASSUME GoalsAssumption == goals!GoalsAssumption
ASSUME ListsAssumption == lists!CatalogueAssumption

limiterVars == <<clock, requests, admitted, refused>>
goalVars == <<goal, goalPc, goalCall, goalBegun, goalOverlapped, raced, closedBy, shown>>
listVars == <<assets, favourite, categories, groupOf, listPc, listCall, listBegun,
              listOverlapped, moved, disturbed>>

partVars == <<part, vars, limiterVars, goalVars, listVars>>

PartInit ==
    /\ part \in {"accounts", "limiter", "goals", "lists"}
    /\ Init /\ limiter!Init /\ goals!Init /\ lists!Init

PartNext ==
    /\ UNCHANGED part
    /\ \/ /\ part = "accounts" /\ Next
          /\ UNCHANGED <<limiterVars, goalVars, listVars>>
       \/ /\ part = "limiter" /\ limiter!Next
          /\ UNCHANGED <<vars, goalVars, listVars>>
       \/ /\ part = "goals" /\ goals!Next
          /\ UNCHANGED <<vars, limiterVars, listVars>>
       \/ /\ part = "lists" /\ lists!Next
          /\ UNCHANGED <<vars, limiterVars, goalVars>>

PartSpec == PartInit /\ [][PartNext]_partVars

-----------------------------------------------------------------------------
(* The properties of the parts, where they are stated and explained.       *)

\* A provider's account never gets a password (Accounts), a goal is never stored as FAILED
\* although it has been shown so (Goals).
TypesOK == TypeOK /\ goals!TypeOK /\ lists!TypeOK

\* RateLimiter: no window has more than Limit admissions.
LimitHolds == limiter!LimitHolds

\* Goals: completed exactly when reached, and then left alone, but for races.
CompletedWhenReached == goals!CompletedWhenReached

\* Catalogue: places clash only after a race, a reorder or a shrunk list.
ListsInOrder == lists!ListsInOrder
=============================================================================

----------------------------- MODULE RateLimiter -----------------------------
(***************************************************************************)
(* The sliding window of app/core/rate_limit.py, in front of registration, *)
(* login and verification.  Each client has the list of the times at which *)
(* it was let in; a call prunes it, then compares its length with the      *)
(* limit.  Nothing depends on the order of the list: it is a set here, in  *)
(* which the time of each admission has its number.  The calls of one      *)
(* process run one after the other (is_allowed does not await), and        *)
(* time.time() does not go back here.                                      *)
(***************************************************************************)
EXTENDS Integers, FiniteSets

CONSTANTS
    Keys,     \* client addresses
    Limit,    \* RATE_LIMIT_REQUESTS
    Window,   \* RATE_LIMIT_WINDOW_SECONDS
    MaxTime   \* bound: how far the clock goes

\* What the constants are assumed to be; UserData assumes it of its instance.
RateLimiterAssumption == {Limit, Window} \subseteq Nat /\ MaxTime \in Nat \ {0}

VARIABLES
    clock,     \* time.time()
    requests,  \* the times kept for each client, as Admission records
    admitted,  \* history: all the admissions of each client
    refused    \* history: the times at which each client was turned away

Admission == [no : Nat \ {0}, time : 1 .. MaxTime]

vars == <<clock, requests, admitted, refused>>

Init ==
    /\ clock = 1
    /\ requests = [k \in Keys |-> {}]
    /\ admitted = [k \in Keys |-> {}]
    /\ refused = [k \in Keys |-> {}]

\* Mutant: a time on the edge of the window is pruned one second late.
CleanupLate(k) == {e \in requests[k] : e.time >= clock - Window}

\* _cleanup: what is inside the window.
Cleanup(k) == {e \in requests[k] : e.time > clock - Window}

Allow(k) ==
    LET new == [no |-> Cardinality(admitted[k]) + 1, time |-> clock]
    IN  /\ Cardinality(Cleanup(k)) < Limit
        /\ requests' = [requests EXCEPT ![k] = Cleanup(k) \cup {new}]
        /\ admitted' = [admitted EXCEPT ![k] = @ \cup {new}]
        /\ UNCHANGED <<clock, refused>>

Refuse(k) ==
    /\ Cardinality(Cleanup(k)) >= Limit
    /\ requests' = [requests EXCEPT ![k] = Cleanup(k)]
    /\ refused' = [refused EXCEPT ![k] = @ \cup {clock}]
    /\ UNCHANGED <<clock, admitted>>

Tick ==
    /\ clock < MaxTime
    /\ clock' = clock + 1
    /\ UNCHANGED <<requests, admitted, refused>>

Next == Tick \/ \E k \in Keys : Allow(k) \/ Refuse(k)

Spec == Init /\ [][Next]_vars

-----------------------------------------------------------------------------
(* Properties.                                                             *)

\* What the lists keep: times at which the client was let in, and all of them that are
\* still inside the window.
Remembered ==
    /\ clock \in 1 .. MaxTime
    /\ admitted \in [Keys -> SUBSET Admission]
    /\ requests \in [Keys -> SUBSET Admission]
    /\ refused \in [Keys -> SUBSET (1 .. clock)]
    /\ \A k \in Keys :
          /\ IsFiniteSet(admitted[k])
          /\ \A e \in admitted[k] : e.time <= clock /\ e.no <= Cardinality(admitted[k])
          /\ requests[k] \subseteq admitted[k]
          /\ {e \in admitted[k] : e.time > clock - Window} \subseteq requests[k]

\* How often a client was let in during the Window seconds that end at t.
Inside(k, t) == {e \in admitted[k] : e.time > t - Window /\ e.time <= t}

Load(k, t) == Cardinality(Inside(k, t))

\* In every window, aligned or not, a client is let in at most Limit times, although the
\* times are pruned at each call; and it is turned away only when it has been let in that
\* often.
LimitHolds ==
    \A k \in Keys :
        /\ \A t \in 1 .. clock : Load(k, t) <= Limit
        /\ \A t \in refused[k] : Load(k, t) = Limit
=============================================================================

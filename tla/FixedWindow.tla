----------------------------- MODULE FixedWindow -----------------------------
(***************************************************************************)
(* What the rate limiter promises, without Redis: every (identity, window) *)
(* has Limit places.  A request that is counted in its window takes the    *)
(* next place; it is served if that place exists and turned away only if   *)
(* it does not.  A request whose answer from Redis is lost is let through  *)
(* although its place is taken.                                            *)
(***************************************************************************)
EXTENDS Naturals

CONSTANTS
    Counters,       \* (identity, window) pairs
    Limit(_)        \* places of a counter

VARIABLES
    taken,          \* requests counted in a window, in time
    served,         \* those that were let through because they had a place
    refused         \* those that were answered 429

vars == <<taken, served, refused>>

Zero == [c \in Counters |-> 0]
Bump(f, c) == [f EXCEPT ![c] = @ + 1]

Init ==
    /\ taken = Zero
    /\ served = Zero
    /\ refused = Zero

Serve(c) ==
    /\ taken[c] < Limit(c)
    /\ taken' = Bump(taken, c)
    /\ served' = Bump(served, c)
    /\ UNCHANGED refused

Refuse(c) ==
    /\ taken[c] >= Limit(c)
    /\ taken' = Bump(taken, c)
    /\ refused' = Bump(refused, c)
    /\ UNCHANGED served

\* Counted, but the answer was lost: the limiter fails open.
Spend(c) ==
    /\ taken' = Bump(taken, c)
    /\ UNCHANGED <<served, refused>>

Next == \E c \in Counters : Serve(c) \/ Refuse(c) \/ Spend(c)

Spec == Init /\ [][Next]_vars
=============================================================================

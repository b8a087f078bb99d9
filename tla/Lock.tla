-------------------------------- MODULE Lock --------------------------------
(***************************************************************************)
(* What the mutexes of mutex.hpp promise: one owner at a time, who may     *)
(* enter again up to a depth of max and releases as often as it entered.   *)
(***************************************************************************)
EXTENDS Integers

CONSTANTS Worker, NoWorker

VARIABLES
    owner, depth,
    max              \* how deep the owner may enter, fixed for each kind of lock

vars == <<owner, depth, max>>

Init == owner = NoWorker /\ depth = 0 /\ max \in Nat \ {0}

Acquire(w) == owner = NoWorker /\ owner' = w /\ depth' = 1

Reenter(w) == owner = w /\ depth < max /\ depth' = depth + 1 /\ UNCHANGED owner

Release(w) ==
    /\ owner = w
    /\ depth' = depth - 1
    /\ owner' = IF depth = 1 THEN NoWorker ELSE owner

Next ==
    /\ \E w \in Worker : Acquire(w) \/ Reenter(w) \/ Release(w)
    /\ UNCHANGED max

Spec == Init /\ [][Next]_vars
=============================================================================

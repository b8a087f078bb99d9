----------------------------- MODULE SharedLock -----------------------------
(***************************************************************************)
(* What a shared mutex promises: one writer alone, or readers only.        *)
(***************************************************************************)
CONSTANT Worker

VARIABLE held                \* how each worker holds the mutex

Init == held = [w \in Worker |-> "none"]

AcquireShared(w) ==
    /\ held[w] = "none"
    /\ \A v \in Worker : held[v] # "write"
    /\ held' = [held EXCEPT ![w] = "read"]

Acquire(w) ==
    /\ \A v \in Worker : held[v] = "none"
    /\ held' = [held EXCEPT ![w] = "write"]

Release(w) ==
    /\ held[w] # "none"
    /\ held' = [held EXCEPT ![w] = "none"]

Next == \E w \in Worker : AcquireShared(w) \/ Acquire(w) \/ Release(w)

Spec == Init /\ [][Next]_held
=============================================================================

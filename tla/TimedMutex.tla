------------------------------ MODULE TimedMutex ------------------------------
(***************************************************************************)
(* Timed_mutex and Recursive_timed_mutex (mutex.cpp) on their Mutex m_mtx  *)
(* and Condition_variable m_cv.  m_locks_count stands for the m_locked of  *)
(* Timed_mutex, which is 0 or 1.                                           *)
(***************************************************************************)
EXTENDS ConditionVariable

CONSTANTS
    MaxRec,                  \* max_rec_locks
    MaxCalls                 \* bound: lock calls of all workers together

ASSUME TimedAssumption ==
    /\ Cv = {"m_cv"} /\ Mtx = {"m_mtx"}
    /\ MaxRec \in Nat /\ MaxRec > 1 /\ MaxCalls \in Nat

VARIABLES
    kind,                    \* the class: Timed_mutex or Recursive_timed_mutex
    m_tid, m_locks_count,
    depth,                   \* per worker: locks it was given and still owes
    calls                    \* how many calls were made

mtx_vars == <<kind, m_tid, m_locks_count, depth, calls>>
vars == <<cv_vars, mtx_vars>>

Recursive == kind = "Recursive_timed_mutex"

Init ==
    /\ CvInit
    /\ kind \in {"Timed_mutex", "Recursive_timed_mutex"}
    /\ m_tid = NoWorker /\ m_locks_count = 0
    /\ depth = [w \in Worker |-> 0]
    /\ calls = 0

\* User code makes one more call.  It does not lock a Timed_mutex that it holds.
MayCall(w) ==
    /\ pc[w] = "user" /\ calls < MaxCalls
    /\ Recursive \/ depth[w] = 0
    /\ calls' = calls + 1
    /\ UNCHANGED kind

\* lock (no time point) and try_lock_until or for (one that may be over already).
Call(w) ==
    /\ MayCall(w)
    /\ \E t \in TimerState : timer' = [timer EXCEPT ![w] = t]
    /\ Goto(w, "enter")
    /\ UNCHANGED <<m_mtx, waiters, on, cond, m_tid, m_locks_count, depth>>

\* The owner of the recursive one re-enters.
Mine(w) == Recursive /\ m_tid = w

\* Mutant: the limit is tested before the count is increased.
Take_PastLimit(w) ==
    IF Recursive /\ m_locks_count = MaxRec
       THEN UNCHANGED <<m_tid, m_locks_count, depth>>
       ELSE /\ m_locks_count' = IF Recursive THEN m_locks_count + 1 ELSE 1
            /\ m_tid' = IF Recursive THEN w ELSE m_tid
            /\ depth' = [depth EXCEPT ![w] = @ + 1]

\* w gets the lock; the recursive one counts, and refuses at max_rec_locks by an
\* exception or by returning false (rmtx_inc_lc).
Take(w) ==
    IF Recursive /\ m_locks_count + 1 = MaxRec
       THEN UNCHANGED <<m_tid, m_locks_count, depth>>
       ELSE /\ m_locks_count' = IF Recursive THEN m_locks_count + 1 ELSE 1
            /\ m_tid' = IF Recursive THEN w ELSE m_tid
            /\ depth' = [depth EXCEPT ![w] = @ + 1]

\* try_lock: one critical section of m_mtx, if that is free.
TryLock(w) ==
    /\ MayCall(w)
    /\ IF Free("m_mtx") /\ (m_locks_count = 0 \/ Mine(w))
          THEN Take(w)
          ELSE UNCHANGED <<m_tid, m_locks_count, depth>>
    /\ UNCHANGED cv_vars

\* lock and try_lock_until_internal: m_mtx is locked.
Enter(w) ==
    /\ pc[w] = "enter"
    /\ Acquire(w, "m_mtx")
    /\ Goto(w, "test")
    /\ UNCHANGED <<waiters, on, cond, timer, mtx_vars>>

\* The call returns and releases m_mtx.
Return(w) ==
    /\ Release("m_mtx")
    /\ timer' = [timer EXCEPT ![w] = "max"]
    /\ Goto(w, "user")
    /\ UNCHANGED on

\* Mutant: a timed call that has timed out takes the lock without another test.
Test_NoRetest(w) ==
    /\ pc[w] = "test"
    /\ \/ /\ Mine(w) \/ m_locks_count = 0 \/ timer[w] = "due"
          /\ Take(w) /\ Return(w)
       \/ /\ ~ Mine(w) /\ m_locks_count # 0 /\ timer[w] # "due"
          /\ Wait(w, "m_cv")
          /\ UNCHANGED <<m_mtx, timer, m_tid, m_locks_count, depth>>
    /\ UNCHANGED <<waiters, cond, calls, kind>>

\* With m_mtx held: re-entry of the owner, the predicate of the wait, its timeout.
Test(w) ==
    /\ pc[w] = "test"
    /\ \/ /\ Mine(w) \/ m_locks_count = 0
          /\ Take(w) /\ Return(w)
       \/ /\ ~ Mine(w) /\ m_locks_count # 0 /\ timer[w] = "due"
          /\ Return(w)
          /\ UNCHANGED <<m_tid, m_locks_count, depth>>
       \/ /\ ~ Mine(w) /\ m_locks_count # 0 /\ timer[w] # "due"
          /\ Wait(w, "m_cv")
          /\ UNCHANGED <<m_mtx, timer, m_tid, m_locks_count, depth>>
    /\ UNCHANGED <<waiters, cond, calls, kind>>

\* unlock: one critical section of m_mtx,
Unlock(w) ==
    /\ pc[w] = "user" /\ depth[w] > 0 /\ Free("m_mtx")
    /\ m_locks_count' = m_locks_count - 1
    /\ depth' = [depth EXCEPT ![w] = @ - 1]
    /\ m_tid' = IF m_locks_count = 1 THEN NoWorker ELSE m_tid
    /\ Goto(w, IF m_locks_count = 1 THEN "notify" ELSE "user")
    /\ UNCHANGED <<m_mtx, waiters, on, cond, timer, calls, kind>>

\* Mutant: unlock does not notify.
Notify_Missing(w) ==
    /\ pc[w] = "notify"
    /\ Goto(w, "user")
    /\ UNCHANGED <<m_mtx, waiters, on, cond, timer, mtx_vars>>

\* and m_cv.notify_one() after it.
Notify(w) ==
    /\ pc[w] = "notify"
    /\ NotifyOne("m_cv")
    /\ Goto(w, "user")
    /\ UNCHANGED <<m_mtx, waiters, on, timer, mtx_vars>>

\* The steps inside the calls.
CallStep(w) ==
    \/ Enter(w) \/ Test(w) \/ Notify(w)
    \/ /\ AddWaiter(w) \/ SetWaitInfo(w) \/ WaitOver(w) \/ Relock(w) \/ RemoveWaiter(w, "test")
       /\ UNCHANGED mtx_vars

Terminated ==
    /\ calls = MaxCalls
    /\ \A w \in Worker : pc[w] = "user" /\ depth[w] = 0
    /\ UNCHANGED vars

Next ==
    \/ \E w \in Worker : \/ Call(w) \/ TryLock(w) \/ Unlock(w) \/ CallStep(w)
                         \/ Tick(w) /\ UNCHANGED mtx_vars
    \/ Terminated

Spec == Init /\ [][Next]_vars

\* Workers go on with the calls they are in, user code unlocks what it locked and
\* time passes.
FairSpec ==
    /\ Spec
    /\ \A w \in Worker : WF_vars(CallStep(w)) /\ WF_vars(Unlock(w))
                         /\ WF_vars(Tick(w) /\ UNCHANGED mtx_vars)

-----------------------------------------------------------------------------
(* Properties. *)

\* The type of every variable of the timed mutexes and their callers.
TypeOK ==
    /\ CvTypeOK({"user", "enter", "test", "notify"})
    /\ kind \in {"Timed_mutex", "Recursive_timed_mutex"}
    /\ m_tid \in Worker \cup {NoWorker}
    /\ m_locks_count \in 0..(MaxRec - 1)
    /\ depth \in [Worker -> 0..(MaxRec - 1)]
    /\ calls \in 0..MaxCalls

\* A waiter that nobody has notified and no timeout will wake.
Asleep(w) == pc[w] = "parked" /\ ~ cond[w] /\ timer[w] = "max"

\* unlock's single notify_one is enough: while the mutex is free and somebody
\* sleeps for it, a worker is on its way to take it (and to notify the next one
\* when it unlocks) or about to notify.  Neither a waiter that times out after
\* it was notified, nor one that is notified twice, nor a worker that locks the
\* mutex in between makes the others sleep for ever.
NoLostNotify ==
    m_locks_count = 0 /\ (\E w \in Worker : Asleep(w))
       => \E w \in Worker : \/ pc[w] \in {"notify", "relock", "remove", "test"}
                            \/ pc[w] = "parked" /\ cond[w]

\* The mutex as its users see it.
LockOwner == IF \E w \in Worker : depth[w] > 0 THEN CHOOSE w \in Worker : depth[w] > 0 ELSE NoWorker
LockDepth == IF LockOwner = NoWorker THEN 0 ELSE depth[LockOwner]
LockMax == IF Recursive THEN MaxRec - 1 ELSE 1
Abstract == INSTANCE Lock WITH owner <- LockOwner, depth <- LockDepth, max <- LockMax

\* Both timed mutexes implement the abstract lock, timeouts included.
ImplementsLock == Abstract!Spec

\* Every call returns, provided that holders unlock: timed calls because of their
\* timeout, lock because it is notified.
CallsReturn == \A w \in Worker : (pc[w] = "enter") ~> (pc[w] = "user")
=============================================================================

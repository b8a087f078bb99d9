----------------------------- MODULE SharedMutex -----------------------------
(***************************************************************************)
(* Shared_mutex and Shared_timed_mutex (shared_mutex.cpp): a Mutex, the    *)
(* packed word m_state and two gates.  A writer passes gate 1 when nobody  *)
(* has the write bit, sets it, and waits at gate 2 for the readers to      *)
(* leave; readers pass gate 1 only.                                        *)
(***************************************************************************)
EXTENDS ConditionVariable, FiniteSets

CONSTANTS
    ReadersBits,             \* readers_bits, the limit of readers (2^31 - 1)
    MaxCalls                 \* bound: lock calls of one worker

ASSUME SharedAssumption ==
    /\ Cv = {"gate1", "gate2"} /\ Mtx = {"m_mtx"}
    /\ ReadersBits \in Nat \ {0} /\ MaxCalls \in Nat

VARIABLES
    m_state,                 \* the readers below the write bit
    held,                    \* per worker: the lock it was given and has not returned
    want,                    \* per worker: the lock its last call asks for
    calls                    \* per worker: how many calls it made

mtx_vars == <<m_state, held, want, calls>>
vars == <<cv_vars, mtx_vars>>

\* Shared_mutex_state
WriteBit == ReadersBits + 1
readers == m_state % WriteBit
has_readers == readers # 0
max_readers == readers = ReadersBits
has_write == m_state \div WriteBit = 1
\* Mutant: the write bit is one position too high.
set_write_Shifted == m_state' = readers + 2 * WriteBit

set_write == m_state' = readers + WriteBit
unset_write == m_state' = readers
inc_readers == m_state' = (m_state + 1) % (2 * WriteBit)
dec_readers == m_state' = (m_state - 1) % (2 * WriteBit)

Init ==
    /\ CvInit
    /\ m_state = 0
    /\ held = [w \in Worker |-> "none"]
    /\ want = [w \in Worker |-> "read"]
    /\ calls = [w \in Worker |-> 0]

\* User code makes one more call for the lock l.  It asks for no second lock.
MayCall(w, l) ==
    /\ pc[w] = "user" /\ held[w] = "none" /\ calls[w] < MaxCalls
    /\ calls' = [calls EXCEPT ![w] = @ + 1]
    /\ want' = [want EXCEPT ![w] = l]

\* lock and lock_shared (no time point), try_lock_until and try_lock_shared_until.
Call(w) ==
    /\ \E l \in {"read", "write"} : MayCall(w, l)
    /\ \E t \in TimerState : timer' = [timer EXCEPT ![w] = t]
    /\ Goto(w, "enter")
    /\ UNCHANGED <<m_mtx, waiters, on, cond, m_state, held>>

\* The lock is w's.
Give(w) == held' = [held EXCEPT ![w] = want'[w]]

\* Mutant: a writer that has announced itself does not keep readers out.
MayRead_Barges == ~ max_readers

\* The predicate of lock_shared.
MayRead == ~ has_write /\ ~ max_readers

\* try_lock: one critical section of m_mtx.
TryLock(w) ==
    /\ MayCall(w, "write") /\ Free("m_mtx")
    /\ IF ~ has_readers /\ ~ has_write
          THEN set_write /\ Give(w)
          ELSE UNCHANGED <<m_state, held>>
    /\ UNCHANGED cv_vars

\* try_lock_shared
TryLockShared(w) ==
    /\ MayCall(w, "read") /\ Free("m_mtx")
    /\ IF MayRead THEN inc_readers /\ Give(w) ELSE UNCHANGED <<m_state, held>>
    /\ UNCHANGED cv_vars

\* The calls that may wait lock m_mtx.
Enter(w) ==
    /\ pc[w] = "enter"
    /\ Acquire(w, "m_mtx")
    /\ Goto(w, "gate1")
    /\ UNCHANGED <<waiters, on, cond, timer, mtx_vars>>

\* m_mtx is released and the call goes on at l.
Leave(w, l) ==
    /\ Release("m_mtx")
    /\ timer' = [timer EXCEPT ![w] = "max"]
    /\ Goto(w, l)
    /\ UNCHANGED on

\* The predicate of gate c is false: timeout or another wait.
NotYet(w, c) ==
    IF timer[w] = "due" THEN Leave(w, "user") ELSE Wait(w, c) /\ UNCHANGED <<m_mtx, timer>>

\* At gate 1, with m_mtx held.  A writer goes on to gate 2 without releasing it.
Gate1(w) ==
    /\ pc[w] = "gate1"
    /\ \/ /\ want[w] = "read" /\ MayRead
          /\ inc_readers /\ held' = [held EXCEPT ![w] = "read"]
          /\ Leave(w, "user")
       \/ /\ want[w] = "write" /\ ~ has_write
          /\ set_write
          /\ Goto(w, "gate2")
          /\ UNCHANGED <<m_mtx, on, timer, held>>
       \/ /\ IF want[w] = "read" THEN ~ MayRead ELSE has_write
          /\ NotYet(w, "gate1")
          /\ UNCHANGED <<m_state, held>>
    /\ UNCHANGED <<waiters, cond, want, calls>>

\* Mutant: the writer that gives up leaves the write bit behind.
Gate2_KeepsBit(w) ==
    /\ pc[w] = "gate2"
    /\ \/ /\ ~ has_readers
          /\ held' = [held EXCEPT ![w] = "write"]
          /\ Leave(w, "user")
          /\ UNCHANGED m_state
       \/ /\ has_readers
          /\ NotYet(w, "gate2")
          /\ UNCHANGED <<held, m_state>>
    /\ UNCHANGED <<waiters, cond, want, calls>>

\* Mutant: the writer does not wait at gate 2.
Gate2_NoWait(w) ==
    /\ pc[w] = "gate2"
    /\ held' = [held EXCEPT ![w] = "write"]
    /\ Leave(w, "user")
    /\ UNCHANGED <<waiters, cond, want, calls, m_state>>

\* At gate 2, with m_mtx held.  A writer that times out gives the bit back.
Gate2(w) ==
    /\ pc[w] = "gate2"
    /\ \/ /\ ~ has_readers
          /\ held' = [held EXCEPT ![w] = "write"]
          /\ Leave(w, "user")
          /\ UNCHANGED m_state
       \/ /\ has_readers /\ timer[w] = "due"
          /\ unset_write
          /\ Leave(w, "notify_all")
          /\ UNCHANGED held
       \/ /\ has_readers /\ timer[w] # "due"
          /\ Wait(w, "gate2")
          /\ UNCHANGED <<m_mtx, timer, m_state, held>>
    /\ UNCHANGED <<waiters, cond, want, calls>>

\* unlock: one critical section of m_mtx; gate 1 is notified after it.
Unlock(w) ==
    /\ pc[w] = "user" /\ held[w] = "write" /\ Free("m_mtx")
    /\ unset_write
    /\ held' = [held EXCEPT ![w] = "none"]
    /\ Goto(w, "notify_all")
    /\ UNCHANGED <<m_mtx, waiters, on, cond, timer, want, calls>>

\* Mutant: every reader that leaves, not the last one, wakes the writer.
AfterUnlockShared_First ==
    CASE has_write /\ readers # 1 -> "notify_writer"
      [] ~ has_write /\ max_readers -> "notify_reader"
      [] OTHER -> "user"

\* Whom unlock_shared notifies, from what it saw in its critical section.
AfterUnlockShared ==
    CASE has_write /\ readers = 1 -> "notify_writer"
      [] ~ has_write /\ max_readers -> "notify_reader"
      [] OTHER -> "user"

\* unlock_shared
UnlockShared(w) ==
    /\ pc[w] = "user" /\ held[w] = "read" /\ Free("m_mtx")
    /\ dec_readers
    /\ held' = [held EXCEPT ![w] = "none"]
    /\ Goto(w, AfterUnlockShared)
    /\ UNCHANGED <<m_mtx, waiters, on, cond, timer, want, calls>>

\* The notification with which a call ends.
Notify(w) ==
    /\ \/ pc[w] = "notify_all" /\ NotifyAll("gate1")
       \/ pc[w] = "notify_writer" /\ NotifyOne("gate2")
       \/ pc[w] = "notify_reader" /\ NotifyOne("gate1")
    /\ Goto(w, "user")
    /\ UNCHANGED <<m_mtx, waiters, on, timer, mtx_vars>>

\* The steps inside the calls.
CallStep(w) ==
    \/ Enter(w) \/ Gate1(w) \/ Gate2(w) \/ Notify(w)
    \/ /\ AddWaiter(w) \/ SetWaitInfo(w) \/ WaitOver(w) \/ Relock(w) \/ RemoveWaiter(w, on[w])
       /\ UNCHANGED mtx_vars

\* All calls are made and over.  The number of calls is bounded, so every other
\* state without a step would be a call that never returns.
Terminated ==
    /\ \A w \in Worker : pc[w] = "user" /\ held[w] = "none" /\ calls[w] = MaxCalls
    /\ UNCHANGED vars

Next ==
    \/ \E w \in Worker : \/ Call(w) \/ TryLock(w) \/ TryLockShared(w)
                         \/ Unlock(w) \/ UnlockShared(w) \/ CallStep(w)
                         \/ Tick(w) /\ UNCHANGED mtx_vars
    \/ Terminated

Spec == Init /\ [][Next]_vars

-----------------------------------------------------------------------------
(* Properties. *)

\* The type of every variable of the shared mutexes and their callers.
TypeOK ==
    /\ CvTypeOK({"user", "enter", "gate1", "gate2", "notify_all", "notify_writer", "notify_reader"})
    /\ m_state \in 0..(2 * WriteBit - 1)
    /\ held \in [Worker -> {"none", "read", "write"}]
    /\ want \in [Worker -> {"read", "write"}]
    /\ calls \in [Worker -> 0..MaxCalls]

\* A waiter of gate c that nobody has notified and no timeout will wake.
Asleep(w, c) == pc[w] = "parked" /\ on[w] = c /\ ~ cond[w] /\ timer[w] = "max"

\* Inside wait at gate c, or about to test its predicate.
At(w, c) == pc[w] = c \/ (pc[w] \in CvPc /\ on[w] = c)

\* The packed word tells the truth: the readers it counts are the workers that
\* hold the mutex shared, and the write bit is set exactly while one worker, never
\* two, holds the mutex or waits for the readers at gate 2.  The count never runs
\* over into the write bit, and a writer that gives up leaves no bit behind.
StateMatches ==
    /\ readers = Cardinality({w \in Worker : held[w] = "read"})
    /\ Cardinality({w \in Worker : held[w] = "write" \/ At(w, "gate2")})
          = IF has_write THEN 1 ELSE 0

\* No notification of the gates is lost.  When gate 1 is open for a sleeper,
\* somebody is about to notify it or awake on the way through it (and notifies
\* when it leaves); when the readers are gone, the writer that sleeps at gate 2 is
\* about to be notified.  At most one worker may wait for the limit of readers:
\* unlock_shared notifies one when it leaves the limit, and the readers that leave
\* after it notify nobody.
NoLostNotify ==
    /\ (\E w \in Worker : Asleep(w, "gate1") /\ (IF want[w] = "read" THEN MayRead ELSE ~ has_write))
          => \E v \in Worker : \/ pc[v] \in {"notify_all", "notify_reader", "gate1"}
                               \/ on[v] = "gate1" /\ pc[v] \in {"relock", "remove"}
                               \/ on[v] = "gate1" /\ pc[v] = "parked" /\ cond[v]
    /\ (\E w \in Worker : Asleep(w, "gate2")) /\ ~ has_readers
          => \E v \in Worker : pc[v] = "notify_writer"

\* Writers are not starved by readers: once a writer waits at gate 2 no further
\* worker gets the mutex shared.
WriterFirst ==
    [][(\E w \in Worker : At(w, "gate2")) =>
          \A v \in Worker : held'[v] = "read" => held[v] = "read"]_vars

\* The mutex as its users see it.
Abstract == INSTANCE SharedLock

\* Both shared mutexes implement the abstract shared lock, timeouts included.
ImplementsSharedLock == Abstract!Spec
=============================================================================

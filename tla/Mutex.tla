-------------------------------- MODULE Mutex --------------------------------
(***************************************************************************)
(* Mutex and Recursive_mutex (mutex.cpp) down to the two atomics they are  *)
(* made of: the Spinlock's m_flag and m_tid, the owner as far as it is     *)
(* known.  Workers of one scheduler share its CPU: the head of runq[s] runs*)
(* and gives way only by yielding, so a worker that spins on a lock whose  *)
(* owner is queued behind it must yield (Plain_mutex::lock).  A step is one*)
(* access to an atomic; m_locks_count is only touched by the owner.        *)
(***************************************************************************)
EXTENDS Integers, Sequences

CONSTANTS
    Worker, NoWorker,
    Scheduler,
    Queues,          \* the run queue of each scheduler in the initial state
    MaxTry,          \* max_try of Spinlock::lock_with_timeout (256)
    MaxRec           \* max_rec_locks (2^32 - 1)

ASSUME WorkerAssumption == NoWorker \notin Worker
ASSUME QueueAssumption ==
    /\ Queues \in [Scheduler -> Seq(Worker)]
    /\ \A w \in Worker : \E s \in Scheduler : \E i \in 1..Len(Queues[s]) : Queues[s][i] = w
ASSUME BoundAssumption == MaxTry \in Nat \ {0} /\ MaxRec \in Nat /\ MaxRec > 1

VARIABLES
    kind,                    \* the class of the mutex: Mutex or Recursive_mutex
    runq,                    \* workers of a scheduler, the running one in front
    pc, op, tries,           \* per worker: control point, its last call, the attempts
                             \* of the spin loop it is in (try_count)
    depth,                   \* per worker: locks it was given and still owes
    m_flag, m_tid, m_locks_count

vars == <<kind, runq, pc, op, tries, depth, m_flag, m_tid, m_locks_count>>

Recursive == kind = "Recursive_mutex"

Home(w) == CHOOSE s \in Scheduler : \E i \in 1..Len(Queues[s]) : Queues[s][i] = w
Runs(w) == runq[Home(w)] # <<>> /\ Head(runq[Home(w)]) = w

Init ==
    /\ kind \in {"Mutex", "Recursive_mutex"}
    /\ runq = Queues
    /\ pc = [w \in Worker |-> "user"]
    /\ op = [w \in Worker |-> "lock"]
    /\ tries = [w \in Worker |-> 0]
    /\ depth = [w \in Worker |-> 0]
    /\ m_flag = 0
    /\ m_tid = NoWorker
    /\ m_locks_count = 0

Goto(w, l) == pc' = [pc EXCEPT ![w] = l]

Return(w) == Goto(w, "user")

\* Worker::yield: to the end of the scheduler's queue.
yield(w) == runq' = [runq EXCEPT ![Home(w)] = Append(Tail(@), w)]

\* Mutant: the limit is tested before the count is increased.
Reenter_PastLimit(w) ==
    /\ Return(w)
    /\ IF m_locks_count = MaxRec
          THEN UNCHANGED <<depth, m_locks_count>>
          ELSE /\ m_locks_count' = m_locks_count + 1
               /\ depth' = [depth EXCEPT ![w] = @ + 1]

\* rmtx_inc_lc by the owner, which re-enters.  At max_rec_locks the call fails, by
\* an exception or by returning false.
Reenter(w) ==
    /\ Return(w)
    /\ IF m_locks_count + 1 = MaxRec
          THEN UNCHANGED <<depth, m_locks_count>>
          ELSE /\ m_locks_count' = m_locks_count + 1
               /\ depth' = [depth EXCEPT ![w] = @ + 1]

\* lock: m_tid tells the owner from the others; the owner of a Mutex gets the
\* exception resource_deadlock_would_occur.  User code does not lock a
\* Mutex again that it got by try_lock: m_tid is not set and lock would hang.
Lock(w) ==
    /\ pc[w] = "user"
    /\ op' = [op EXCEPT ![w] = "lock"]
    /\ \/ m_tid = w /\ Recursive /\ Reenter(w)
       \/ /\ m_tid = w /\ ~ Recursive
          /\ Return(w)
          /\ UNCHANGED <<depth, m_locks_count>>
       \/ /\ m_tid # w /\ depth[w] = 0
          /\ Goto(w, "spin")
          /\ UNCHANGED <<depth, m_locks_count>>
    /\ UNCHANGED <<runq, tries, m_flag, m_tid>>

\* try_lock: only the recursive one looks at m_tid.
TryLock(w) ==
    /\ pc[w] = "user"
    /\ op' = [op EXCEPT ![w] = "try_lock"]
    /\ \/ m_tid = w /\ Recursive /\ Reenter(w)
       \/ /\ ~ (m_tid = w /\ Recursive)
          /\ Goto(w, "try")
          /\ UNCHANGED <<depth, m_locks_count>>
    /\ UNCHANGED <<runq, tries, m_flag, m_tid>>

\* A failed attempt of lock_with_timeout, the last one included.
SpinAgain(w) ==
    \/ tries[w] + 1 = MaxTry /\ tries' = [tries EXCEPT ![w] = 0] /\ Goto(w, "try")
    \/ tries[w] + 1 # MaxTry /\ tries' = [tries EXCEPT ![w] = @ + 1] /\ Goto(w, "spin")

\* Spinlock::lock_with_timeout: the load,
SpinLoad(w) ==
    /\ pc[w] = "spin"
    /\ \/ m_flag = 0 /\ Goto(w, "spin_xchg") /\ UNCHANGED tries
       \/ m_flag # 0 /\ SpinAgain(w)
    /\ UNCHANGED <<runq, op, depth, m_flag, m_tid, m_locks_count>>

\* Mutant: the flag is stored without looking at what it was.
SpinExchange_Store(w) ==
    /\ pc[w] = "spin_xchg"
    /\ m_flag' = 1
    /\ Goto(w, "own")
    /\ UNCHANGED <<runq, op, tries, depth, m_tid, m_locks_count>>

\* and the exchange.
SpinExchange(w) ==
    /\ pc[w] = "spin_xchg"
    /\ m_flag' = 1
    /\ \/ m_flag = 0 /\ Goto(w, "own") /\ tries' = [tries EXCEPT ![w] = 0]
       \/ m_flag # 0 /\ SpinAgain(w)
    /\ UNCHANGED <<runq, op, depth, m_tid, m_locks_count>>

\* Mutant: Plain_mutex::lock retries without yielding.
TryFails_NoYield(w) ==
    IF op[w] = "lock"
       THEN Goto(w, "try") /\ UNCHANGED runq
       ELSE Return(w) /\ UNCHANGED runq

\* A failed Spinlock::try_lock: Plain_mutex::lock yields and tries again, try_lock
\* returns false.
TryFails(w) ==
    IF op[w] = "lock"
       THEN Goto(w, "try") /\ yield(w)
       ELSE Return(w) /\ UNCHANGED runq

\* Spinlock::try_lock: the load,
TryLoad(w) ==
    /\ pc[w] = "try"
    /\ \/ m_flag = 0 /\ Goto(w, "try_xchg") /\ UNCHANGED runq
       \/ m_flag # 0 /\ TryFails(w)
    /\ UNCHANGED <<op, tries, depth, m_flag, m_tid, m_locks_count>>

\* and the exchange.
TryExchange(w) ==
    /\ pc[w] = "try_xchg"
    /\ m_flag' = 1
    /\ \/ m_flag = 0 /\ Goto(w, "own") /\ UNCHANGED runq
       \/ m_flag # 0 /\ TryFails(w)
    /\ UNCHANGED <<op, tries, depth, m_tid, m_locks_count>>

\* The caller has the lock: it counts it and stores its id, except that
\* Mutex::try_lock stores none.
Own(w) ==
    /\ pc[w] = "own"
    /\ m_tid' = IF Recursive \/ op[w] = "lock" THEN w ELSE m_tid
    /\ m_locks_count' = IF Recursive THEN m_locks_count + 1 ELSE m_locks_count
    /\ depth' = [depth EXCEPT ![w] = @ + 1]
    /\ Return(w)
    /\ UNCHANGED <<runq, op, tries, m_flag>>

\* Mutant: the owner's id is left behind by the last unlock.
Unlock_KeepsTid(w) ==
    /\ pc[w] = "user" /\ depth[w] > 0
    /\ depth' = [depth EXCEPT ![w] = @ - 1]
    /\ m_locks_count' = IF Recursive THEN m_locks_count - 1 ELSE m_locks_count
    /\ Goto(w, IF depth[w] = 1 THEN "release" ELSE "user")
    /\ UNCHANGED <<runq, op, tries, m_flag, m_tid>>

\* Mutant: the recursive unlock releases at the first call.
Unlock_AtOnce(w) ==
    /\ pc[w] = "user" /\ depth[w] > 0
    /\ depth' = [depth EXCEPT ![w] = @ - 1]
    /\ m_locks_count' = IF Recursive THEN m_locks_count - 1 ELSE m_locks_count
    /\ m_tid' = NoWorker
    /\ Goto(w, "release")
    /\ UNCHANGED <<runq, op, tries, m_flag>>

\* unlock up to the store to m_tid,
Unlock(w) ==
    LET last == ~ Recursive \/ m_locks_count - 1 = 0 IN
    /\ pc[w] = "user" /\ depth[w] > 0
    /\ depth' = [depth EXCEPT ![w] = @ - 1]
    /\ m_locks_count' = IF Recursive THEN m_locks_count - 1 ELSE m_locks_count
    /\ m_tid' = IF last THEN NoWorker ELSE m_tid
    /\ Goto(w, IF last THEN "release" ELSE "user")
    /\ UNCHANGED <<runq, op, tries, m_flag>>

\* and Spinlock::unlock.
Release(w) ==
    /\ pc[w] = "release"
    /\ m_flag' = 0
    /\ Goto(w, "user")
    /\ UNCHANGED <<runq, op, tries, depth, m_tid, m_locks_count>>

\* User code gives way, with or without the lock.
UserYield(w) ==
    /\ pc[w] = "user"
    /\ yield(w)
    /\ UNCHANGED <<pc, op, tries, depth, m_flag, m_tid, m_locks_count>>

\* The steps inside the calls, which need no decision of user code.
CallStep(w) ==
    \/ SpinLoad(w) \/ SpinExchange(w) \/ TryLoad(w) \/ TryExchange(w) \/ Own(w) \/ Release(w)

Step(w) == Lock(w) \/ TryLock(w) \/ Unlock(w) \/ UserYield(w) \/ CallStep(w)

\* Only the running worker of a scheduler takes a step.
Running(w, A) == Runs(w) /\ A /\ UNCHANGED kind

Next == \E w \in Worker : Running(w, Step(w))

Spec == Init /\ [][Next]_vars

\* The running worker of a scheduler proceeds through the calls it makes; user
\* code gives its locks back at every depth it keeps returning to, and yields
\* eventually, as cooperative tasks must.
FairSpec ==
    /\ Spec
    /\ \A w \in Worker : /\ WF_vars(Running(w, CallStep(w)))
                         /\ \A d \in 1..(MaxRec - 1) : SF_vars(Running(w, depth[w] = d /\ Unlock(w)))
                         /\ SF_vars(Running(w, UserYield(w)))

-----------------------------------------------------------------------------
(* Properties. *)

\* The type of every variable of the mutex and its callers.
TypeOK ==
    /\ kind \in {"Mutex", "Recursive_mutex"}
    /\ runq \in [Scheduler -> Seq(Worker)]
    /\ pc \in [Worker -> {"user", "spin", "spin_xchg", "try", "try_xchg", "own", "release"}]
    /\ op \in [Worker -> {"lock", "try_lock"}]
    /\ tries \in [Worker -> 0..(MaxTry - 1)]
    /\ depth \in [Worker -> 0..(MaxRec - 1)]
    /\ m_flag \in {0, 1}
    /\ m_tid \in Worker \cup {NoWorker}
    /\ m_locks_count \in 0..(MaxRec - 1)

\* Between a successful exchange and the store of Spinlock::unlock.
Holds(w) == depth[w] > 0 \/ pc[w] \in {"own", "release"}

\* Mutual exclusion: two workers, of the same scheduler or of different ones,
\* never hold the mutex together, though one may be preempted by a yield
\* between any two accesses to the atomics.
MutualExclusion == \A v, w \in Worker : Holds(v) /\ Holds(w) => v = w

\* m_tid is read without the lock.  It never makes lock report a deadlock, or
\* re-enter, for a worker that does not hold the mutex, and a worker that holds
\* a Recursive_mutex always finds itself in it, with the count it owes.
OwnerKnown ==
    /\ m_tid # NoWorker => depth[m_tid] > 0
    /\ Recursive => \A w \in Worker : depth[w] > 0 => m_tid = w /\ m_locks_count = depth[w]

\* The lock as its users see it: held from the exchange to the release.
Owner == IF \E w \in Worker : Holds(w) THEN CHOOSE w \in Worker : Holds(w) ELSE NoWorker
Depth ==
    IF Owner = NoWorker THEN 0
    ELSE depth[Owner] + (IF pc[Owner] \in {"own", "release"} THEN 1 ELSE 0)

Abstract == INSTANCE Lock WITH owner <- Owner, depth <- Depth,
                               max <- IF Recursive THEN MaxRec - 1 ELSE 1

\* Both mutexes implement the abstract lock: every step is an acquisition by a
\* worker when nobody owns it, a re-entry or a release by its owner, or none.
ImplementsLock == Abstract!Spec

\* Somebody gets the mutex: workers that want it do not spin for ever in front
\* of an owner queued behind them on the same scheduler.
LockProgress ==
    (\E w \in Worker : pc[w] \in {"spin", "try"} /\ op[w] = "lock")
       ~> (\E w \in Worker : pc[w] = "own")
=============================================================================

----------------------------- MODULE MutexProofs -----------------------------
(***************************************************************************)
(* Mutual exclusion, the meaning of m_tid and the refinement of the        *)
(* abstract lock, for any number of workers, schedulers, attempts and      *)
(* re-entries.                                                             *)
(***************************************************************************)
EXTENDS Mutex, TLAPS

\* A caller on its way in, or about to clear the flag, owes nothing yet.
PathInv == \A w \in Worker : pc[w] \in {"spin", "spin_xchg", "own", "release"} => depth[w] = 0

\* m_flag is set exactly while somebody holds the mutex.
FlagInv == m_flag = 0 <=> \A w \in Worker : ~ Holds(w)

\* The count of a free mutex is 0; a Mutex counts nothing and is entered once.
CountInv ==
    /\ Recursive /\ (\A w \in Worker : depth[w] = 0) => m_locks_count = 0
    /\ ~ Recursive => m_locks_count = 0 /\ \A w \in Worker : depth[w] <= 1

IInv == TypeOK /\ PathInv /\ FlagInv /\ CountInv /\ MutualExclusion /\ OwnerKnown

-----------------------------------------------------------------------------
\* Every worker has a scheduler: the queue it starts in.
LEMMA HomeType == \A w \in Worker : Home(w) \in Scheduler
  BY QueueAssumption DEF Home

\* Worker::yield keeps the run queues sequences of workers.
LEMMA YieldType ==
    ASSUME NEW w \in Worker, runq \in [Scheduler -> Seq(Worker)], Runs(w), yield(w)
    PROVE  runq' \in [Scheduler -> Seq(Worker)]
<1> DEFINE s == Home(w)
<1>1. s \in Scheduler /\ runq[s] \in Seq(Worker) /\ runq[s] # <<>>
  BY HomeType DEF Runs
<1> HIDE DEF s
<1>2. Tail(runq[s]) \in Seq(Worker)
  BY <1>1
<1>3. Append(Tail(runq[s]), w) \in Seq(Worker)
  BY <1>2
<1>4. runq' = [runq EXCEPT ![s] = Append(Tail(runq[s]), w)]
  BY DEF yield, s
<1> QED
  BY <1>1, <1>3, <1>4

\* Nobody holds the mutex before the first call.
LEMMA InitOK == Init => IInv
  BY WorkerAssumption, QueueAssumption, BoundAssumption
  DEF Init, IInv, TypeOK, PathInv, FlagInv, CountInv, MutualExclusion, OwnerKnown, Holds

\* Every step of a running worker keeps the invariant.
LEMMA StepOK ==
    ASSUME IInv, NEW w \in Worker, Running(w, Step(w))
    PROVE  IInv'
<1> USE WorkerAssumption, BoundAssumption
<1>k. Runs(w) /\ Step(w) /\ kind' = kind /\ (Recursive' <=> Recursive)
  BY DEF Running, Recursive
<1> USE <1>k
<1>0. TypeOK /\ PathInv /\ FlagInv /\ CountInv /\ MutualExclusion /\ OwnerKnown
  BY DEF IInv
<1>1. CASE Lock(w)
  <2> DEFINE Entered == /\ m_tid = w /\ Recursive /\ m_locks_count + 1 # MaxRec
                        /\ m_locks_count' = m_locks_count + 1
                        /\ depth' = [depth EXCEPT ![w] = @ + 1]
                        /\ pc' = pc
             Same == depth' = depth /\ m_locks_count' = m_locks_count
  <2>1. /\ runq' = runq /\ tries' = tries /\ m_flag' = m_flag /\ m_tid' = m_tid
        /\ op' \in [Worker -> {"lock", "try_lock"}]
    BY <1>1, <1>0 DEF Lock, TypeOK
  <2>2. \/ Entered
        \/ Same /\ pc' = pc
        \/ Same /\ pc[w] = "user" /\ pc' = [pc EXCEPT ![w] = "try"]
        \/ Same /\ pc[w] = "user" /\ pc' = [pc EXCEPT ![w] = "spin"] /\ depth[w] = 0
    BY <1>1, <1>0 DEF Lock, Reenter, Return, Goto, TypeOK
  <2>3. CASE Entered
    <3>1. depth[w] > 0 /\ m_locks_count = depth[w]
      BY <2>3, <1>0 DEF OwnerKnown
    <3>2. TypeOK'
      BY <2>1, <2>3, <3>1, <1>0 DEF TypeOK
    <3>3. \A v \in Worker : Holds(v)' <=> Holds(v)
      BY <2>3, <3>1, <1>0 DEF Holds, TypeOK
    <3>4. PathInv'
      BY <2>3, <3>1, <1>0 DEF PathInv, TypeOK
    <3>5. FlagInv' /\ MutualExclusion'
      BY <2>1, <3>3, <1>0 DEF FlagInv, MutualExclusion
    <3>6. OwnerKnown' /\ CountInv'
      BY <2>1, <2>3, <3>1, <1>0 DEF OwnerKnown, CountInv, MutualExclusion, Holds, TypeOK
    <3> QED
      BY <3>2, <3>4, <3>5, <3>6 DEF IInv
  <2>4. CASE Same
    <3>1. \/ pc' = pc
          \/ pc[w] = "user" /\ pc' = [pc EXCEPT ![w] = "try"]
          \/ pc[w] = "user" /\ pc' = [pc EXCEPT ![w] = "spin"] /\ depth[w] = 0
      BY <2>2, <2>4, <1>0 DEF TypeOK
    <3>2. TypeOK'
      BY <2>1, <2>4, <3>1, <1>0 DEF TypeOK
    <3>3. \A v \in Worker : Holds(v)' <=> Holds(v)
      BY <2>4, <3>1, <1>0 DEF Holds, TypeOK
    <3>4. PathInv'
      BY <2>4, <3>1, <1>0 DEF PathInv, TypeOK
    <3>5. FlagInv' /\ MutualExclusion' /\ OwnerKnown' /\ CountInv'
      BY <2>1, <2>4, <3>3, <1>0 DEF FlagInv, MutualExclusion, OwnerKnown, CountInv
    <3> QED
      BY <3>2, <3>4, <3>5 DEF IInv
  <2> QED
    BY <2>2, <2>3, <2>4
<1>2. CASE TryLock(w)
  <2> DEFINE Entered == /\ m_tid = w /\ Recursive /\ m_locks_count + 1 # MaxRec
                        /\ m_locks_count' = m_locks_count + 1
                        /\ depth' = [depth EXCEPT ![w] = @ + 1]
                        /\ pc' = pc
             Same == depth' = depth /\ m_locks_count' = m_locks_count
  <2>1. /\ runq' = runq /\ tries' = tries /\ m_flag' = m_flag /\ m_tid' = m_tid
        /\ op' \in [Worker -> {"lock", "try_lock"}]
    BY <1>2, <1>0 DEF TryLock, TypeOK
  <2>2. \/ Entered
        \/ Same /\ pc' = pc
        \/ Same /\ pc[w] = "user" /\ pc' = [pc EXCEPT ![w] = "try"]
        \/ Same /\ pc[w] = "user" /\ pc' = [pc EXCEPT ![w] = "spin"] /\ depth[w] = 0
    BY <1>2, <1>0 DEF TryLock, Reenter, Return, Goto, TypeOK
  <2>3. CASE Entered
    <3>1. depth[w] > 0 /\ m_locks_count = depth[w]
      BY <2>3, <1>0 DEF OwnerKnown
    <3>2. TypeOK'
      BY <2>1, <2>3, <3>1, <1>0 DEF TypeOK
    <3>3. \A v \in Worker : Holds(v)' <=> Holds(v)
      BY <2>3, <3>1, <1>0 DEF Holds, TypeOK
    <3>4. PathInv'
      BY <2>3, <3>1, <1>0 DEF PathInv, TypeOK
    <3>5. FlagInv' /\ MutualExclusion'
      BY <2>1, <3>3, <1>0 DEF FlagInv, MutualExclusion
    <3>6. OwnerKnown' /\ CountInv'
      BY <2>1, <2>3, <3>1, <1>0 DEF OwnerKnown, CountInv, MutualExclusion, Holds, TypeOK
    <3> QED
      BY <3>2, <3>4, <3>5, <3>6 DEF IInv
  <2>4. CASE Same
    <3>1. \/ pc' = pc
          \/ pc[w] = "user" /\ pc' = [pc EXCEPT ![w] = "try"]
          \/ pc[w] = "user" /\ pc' = [pc EXCEPT ![w] = "spin"] /\ depth[w] = 0
      BY <2>2, <2>4, <1>0 DEF TypeOK
    <3>2. TypeOK'
      BY <2>1, <2>4, <3>1, <1>0 DEF TypeOK
    <3>3. \A v \in Worker : Holds(v)' <=> Holds(v)
      BY <2>4, <3>1, <1>0 DEF Holds, TypeOK
    <3>4. PathInv'
      BY <2>4, <3>1, <1>0 DEF PathInv, TypeOK
    <3>5. FlagInv' /\ MutualExclusion' /\ OwnerKnown' /\ CountInv'
      BY <2>1, <2>4, <3>3, <1>0 DEF FlagInv, MutualExclusion, OwnerKnown, CountInv
    <3> QED
      BY <3>2, <3>4, <3>5 DEF IInv
  <2> QED
    BY <2>2, <2>3, <2>4
<1>3. CASE Unlock(w)
  <2>2. runq' \in [Scheduler -> Seq(Worker)]
    BY <1>3, <1>0 DEF Unlock, TypeOK
  <2>3. TypeOK'
    BY <1>3, <1>0, <2>2 DEF Unlock, Goto, TypeOK, PathInv, FlagInv, CountInv, OwnerKnown, Holds
  <2>4. PathInv' /\ FlagInv' /\ MutualExclusion'
    BY <1>3, <1>0
    DEF Unlock, Goto, TypeOK, PathInv, FlagInv, CountInv, MutualExclusion, OwnerKnown,
        Holds
  <2>5. CountInv' /\ OwnerKnown'
    BY <1>3, <1>0
    DEF Unlock, Goto, TypeOK, PathInv, FlagInv, CountInv, MutualExclusion, OwnerKnown,
        Holds
  <2> QED
    BY <2>3, <2>4, <2>5 DEF IInv
<1>4. CASE UserYield(w)
  <2>1. runq' = runq \/ yield(w)
    BY <1>4 DEF UserYield
  <2>2. runq' \in [Scheduler -> Seq(Worker)]
    BY <2>1, <1>0, YieldType DEF TypeOK
  <2>3. TypeOK'
    BY <1>4, <1>0, <2>2 DEF UserYield, TypeOK, PathInv, FlagInv, CountInv, OwnerKnown, Holds
  <2>4. PathInv' /\ FlagInv' /\ MutualExclusion'
    BY <1>4, <1>0
    DEF UserYield, TypeOK, PathInv, FlagInv, CountInv, MutualExclusion, OwnerKnown,
        Holds
  <2>5. CountInv' /\ OwnerKnown'
    BY <1>4, <1>0
    DEF UserYield, TypeOK, PathInv, FlagInv, CountInv, MutualExclusion, OwnerKnown,
        Holds
  <2> QED
    BY <2>3, <2>4, <2>5 DEF IInv
<1>5. CASE SpinLoad(w)
  <2>2. runq' \in [Scheduler -> Seq(Worker)]
    BY <1>5, <1>0 DEF SpinLoad, TypeOK
  <2>1. tries' \in [Worker -> 0..(MaxTry - 1)]
    <3>1. tries[w] \in 0..(MaxTry - 1)
      BY <1>0 DEF TypeOK
    <3>2. PICK i \in 0..(MaxTry - 1) : tries' = tries \/ tries' = [tries EXCEPT ![w] = i]
      BY <1>5, <3>1 DEF SpinLoad, SpinAgain
    <3> QED
      BY <3>2, <1>0 DEF TypeOK
  <2>3. TypeOK'
    BY <1>5, <1>0, <2>1, <2>2 DEF SpinLoad, SpinAgain, Goto, TypeOK
  <2>4. PathInv' /\ FlagInv' /\ MutualExclusion'
    BY <1>5, <1>0
    DEF SpinLoad, SpinAgain, Goto, TypeOK, PathInv, FlagInv, CountInv, MutualExclusion,
        OwnerKnown, Holds
  <2>5. CountInv' /\ OwnerKnown'
    BY <1>5, <1>0
    DEF SpinLoad, SpinAgain, Goto, TypeOK, PathInv, FlagInv, CountInv, MutualExclusion,
        OwnerKnown, Holds
  <2> QED
    BY <2>3, <2>4, <2>5 DEF IInv
<1>6. CASE SpinExchange(w)
  <2>2. runq' \in [Scheduler -> Seq(Worker)]
    BY <1>6, <1>0 DEF SpinExchange, TypeOK
  <2>1. tries' \in [Worker -> 0..(MaxTry - 1)]
    <3>1. tries[w] \in 0..(MaxTry - 1)
      BY <1>0 DEF TypeOK
    <3>2. PICK i \in 0..(MaxTry - 1) : tries' = tries \/ tries' = [tries EXCEPT ![w] = i]
      BY <1>6, <3>1 DEF SpinExchange, SpinAgain
    <3> QED
      BY <3>2, <1>0 DEF TypeOK
  <2>3. TypeOK'
    BY <1>6, <1>0, <2>1, <2>2 DEF SpinExchange, SpinAgain, Goto, TypeOK
  <2>4. PathInv' /\ FlagInv' /\ MutualExclusion'
    BY <1>6, <1>0
    DEF SpinExchange, SpinAgain, Goto, TypeOK, PathInv, FlagInv, CountInv,
        MutualExclusion, OwnerKnown, Holds
  <2>5. CountInv' /\ OwnerKnown'
    BY <1>6, <1>0
    DEF SpinExchange, SpinAgain, Goto, TypeOK, PathInv, FlagInv, CountInv,
        MutualExclusion, OwnerKnown, Holds
  <2> QED
    BY <2>3, <2>4, <2>5 DEF IInv
<1>7. CASE TryLoad(w)
  <2>1. runq' = runq \/ yield(w)
    BY <1>7 DEF TryLoad, TryFails
  <2>2. runq' \in [Scheduler -> Seq(Worker)]
    BY <2>1, <1>0, YieldType DEF TypeOK
  <2>3. TypeOK'
    BY <1>7, <1>0, <2>2
    DEF TryLoad, TryFails, Return, Goto, TypeOK, PathInv, FlagInv, CountInv, OwnerKnown,
        Holds
  <2>4. PathInv' /\ FlagInv' /\ MutualExclusion'
    BY <1>7, <1>0
    DEF TryLoad, TryFails, Return, Goto, TypeOK, PathInv, FlagInv, CountInv,
        MutualExclusion, OwnerKnown, Holds
  <2>5. CountInv' /\ OwnerKnown'
    BY <1>7, <1>0
    DEF TryLoad, TryFails, Return, Goto, TypeOK, PathInv, FlagInv, CountInv,
        MutualExclusion, OwnerKnown, Holds
  <2> QED
    BY <2>3, <2>4, <2>5 DEF IInv
<1>8. CASE TryExchange(w)
  <2>1. runq' = runq \/ yield(w)
    BY <1>8 DEF TryExchange, TryFails
  <2>2. runq' \in [Scheduler -> Seq(Worker)]
    BY <2>1, <1>0, YieldType DEF TypeOK
  <2>3. TypeOK'
    BY <1>8, <1>0, <2>2
    DEF TryExchange, TryFails, Return, Goto, TypeOK, PathInv, FlagInv, CountInv,
        OwnerKnown, Holds
  <2>4. PathInv' /\ FlagInv' /\ MutualExclusion'
    BY <1>8, <1>0
    DEF TryExchange, TryFails, Return, Goto, TypeOK, PathInv, FlagInv, CountInv,
        MutualExclusion, OwnerKnown, Holds
  <2>5. CountInv' /\ OwnerKnown'
    BY <1>8, <1>0
    DEF TryExchange, TryFails, Return, Goto, TypeOK, PathInv, FlagInv, CountInv,
        MutualExclusion, OwnerKnown, Holds
  <2> QED
    BY <2>3, <2>4, <2>5 DEF IInv
<1>9. CASE Own(w)
  <2>2. runq' \in [Scheduler -> Seq(Worker)]
    BY <1>9, <1>0 DEF Own, TypeOK
  <2>1. depth[w] = 0 /\ m_tid = NoWorker /\ m_locks_count = 0
    <3>1. \A v \in Worker : depth[v] = 0
      <4>1. pc[w] = "own" /\ depth[w] = 0
        BY <1>9, <1>0 DEF Own, PathInv
      <4>2. ASSUME NEW v \in Worker, v # w
            PROVE  depth[v] = 0
        <5>1. ~ (depth[v] > 0)
          BY <4>1, <4>2, <1>0 DEF MutualExclusion, Holds
        <5>2. depth[v] \in 0..(MaxRec - 1)
          BY <1>0 DEF TypeOK
        <5> QED
          BY <5>1, <5>2
      <4> QED
        BY <4>1, <4>2
    <3> QED
      BY <3>1, <1>0 DEF CountInv, OwnerKnown, TypeOK
  <2>3. TypeOK'
    BY <1>9, <1>0, <2>1, <2>2 DEF Own, Return, Goto, TypeOK
  <2>4. PathInv' /\ FlagInv' /\ MutualExclusion'
    BY <1>9, <1>0
    DEF Own, Return, Goto, TypeOK, PathInv, FlagInv, CountInv, MutualExclusion,
        OwnerKnown, Holds
  <2>5. CountInv'
    BY <1>9, <1>0, <2>1 DEF Own, CountInv, TypeOK, MutualExclusion, Holds
  <2>6. OwnerKnown'
    BY <1>9, <1>0, <2>1 DEF Own, OwnerKnown, TypeOK, MutualExclusion, Holds
  <2> QED
    BY <2>3, <2>4, <2>5, <2>6 DEF IInv
<1>10. CASE Release(w)
  <2>2. runq' \in [Scheduler -> Seq(Worker)]
    BY <1>10, <1>0 DEF Release, TypeOK
  <2>3. TypeOK'
    BY <1>10, <1>0, <2>2
    DEF Release, Goto, TypeOK, PathInv, FlagInv, CountInv, OwnerKnown, Holds
  <2>4. PathInv' /\ FlagInv' /\ MutualExclusion'
    BY <1>10, <1>0
    DEF Release, Goto, TypeOK, PathInv, FlagInv, CountInv, MutualExclusion, OwnerKnown,
        Holds
  <2>5. CountInv' /\ OwnerKnown'
    BY <1>10, <1>0
    DEF Release, Goto, TypeOK, PathInv, FlagInv, CountInv, MutualExclusion, OwnerKnown,
        Holds
  <2> QED
    BY <2>3, <2>4, <2>5 DEF IInv
<1> QED
  BY <1>1, <1>2, <1>3, <1>4, <1>5, <1>6, <1>7, <1>8, <1>9, <1>10 DEF Step, CallStep

\* The invariant is inductive.
LEMMA NextOK == IInv /\ [Next]_vars => IInv'
<1>1. ASSUME IInv, UNCHANGED vars
      PROVE  IInv'
  BY <1>1
  DEF vars, IInv, TypeOK, PathInv, FlagInv, CountInv, MutualExclusion, OwnerKnown, Holds, Recursive
<1> QED
  BY <1>1, StepOK DEF Next

\* The inductive invariant holds in every reachable state of the mutexes.
THEOREM IInvHolds == Spec => []IInv
  BY InitOK, NextOK, PTL DEF Spec

\* Spinlock, Mutex and Recursive_mutex: types, the attempts and the count in
\* their bounds (the count stays below max_rec_locks).
THEOREM TypeCorrect == Spec => []TypeOK
<1>1. IInv => TypeOK
  BY DEF IInv
<1> QED
  BY <1>1, IInvHolds, PTL

\* Mutex and Recursive_mutex: at most one worker holds the mutex.
THEOREM Exclusive == Spec => []MutualExclusion
<1>1. IInv => MutualExclusion
  BY DEF IInv
<1> QED
  BY <1>1, IInvHolds, PTL

\* m_tid read without the lock: it names a worker only while that one holds the
\* mutex, and always the holder of a Recursive_mutex with the count it owes.
THEOREM TidIsOwner == Spec => []OwnerKnown
<1>1. IInv => OwnerKnown
  BY DEF IInv
<1> QED
  BY <1>1, IInvHolds, PTL

-----------------------------------------------------------------------------
\* The depth Lock sees: the mutex counts from the exchange to the release.
Pending(w) == IF pc[w] \in {"own", "release"} THEN 1 ELSE 0

\* Owner and Depth of a held mutex are those of its only holder, and of a free
\* one NoWorker and 0.
Seen ==
    /\ \A w \in Worker : Holds(w) => Owner = w /\ Depth = depth[w] + Pending(w)
    /\ (\A w \in Worker : ~ Holds(w)) => Owner = NoWorker /\ Depth = 0

\* What the refinement mapping gives, as long as there is at most one holder.
LEMMA HeldBy == MutualExclusion => Seen
<1> SUFFICES ASSUME MutualExclusion PROVE Seen
  OBVIOUS
<1>1. ASSUME NEW w \in Worker, Holds(w)
      PROVE  Owner = w /\ Depth = depth[w] + Pending(w)
  <2>1. Owner = w
    BY <1>1 DEF Owner, MutualExclusion
  <2> QED
    BY <1>1, <2>1, WorkerAssumption DEF Depth, Pending
<1>2. ASSUME \A w \in Worker : ~ Holds(w)
      PROVE  Owner = NoWorker /\ Depth = 0
  BY <1>2 DEF Owner, Depth
<1> QED
  BY <1>1, <1>2 DEF Seen

\* The same in the state after a step.
LEMMA HeldByNext == MutualExclusion' => Seen'
  BY HeldBy, PTL

\* A step that changes neither who holds the mutex nor how often is none of the
\* abstract lock's.
LEMMA StutterOK ==
    ASSUME IInv, IInv',
           \A v \in Worker : Holds(v)' <=> Holds(v),
           \A v \in Worker : depth'[v] + Pending(v)' = depth[v] + Pending(v)
    PROVE  UNCHANGED <<Owner, Depth>>
<1>1. Seen /\ Seen'
  BY HeldBy, HeldByNext DEF IInv
<1>2. CASE \E v \in Worker : Holds(v)
  BY <1>1, <1>2 DEF Seen
<1>3. CASE \A v \in Worker : ~ Holds(v)
  BY <1>1, <1>3 DEF Seen
<1> QED
  BY <1>2, <1>3

\* A worker whose exchange found the flag clear acquires the abstract lock.
LEMMA AcquireOK ==
    ASSUME IInv, IInv', NEW w \in Worker, m_flag = 0, pc' = [pc EXCEPT ![w] = "own"], depth' = depth
    PROVE  Abstract!Acquire(w)
<1>1. Seen /\ Seen'
  BY HeldBy, HeldByNext DEF IInv
<1>2. Owner = NoWorker
  BY <1>1 DEF Seen, IInv, FlagInv
<1>3. pc'[w] = "own" /\ depth'[w] = 0
  BY DEF IInv, PathInv, TypeOK
<1>4. Owner' = w /\ Depth' = 1
  BY <1>1, <1>3 DEF Seen, Holds, Pending
<1> QED
  BY <1>2, <1>4 DEF Abstract!Acquire

\* Outside the exchange, the acquisitions by the owner and the release, a caller
\* moves between control points the abstract lock does not see.
LEMMA MoveOK ==
    ASSUME IInv, IInv', NEW w \in Worker, depth' = depth,
           pc[w] \notin {"own", "release"},
           \/ pc' = pc
           \/ \E l \in {"user", "spin", "spin_xchg", "try", "try_xchg"} :
                 pc' = [pc EXCEPT ![w] = l]
    PROVE  UNCHANGED <<Owner, Depth>>
<1>1. \A v \in Worker : pc'[v] \in {"own", "release"} <=> pc[v] \in {"own", "release"}
  BY DEF IInv, TypeOK
<1>2. \A v \in Worker : (Holds(v)' <=> Holds(v)) /\ Pending(v)' = Pending(v)
  BY <1>1 DEF Holds, Pending
<1> QED
  BY <1>2, StutterOK

\* Every step of a caller is a step of the abstract lock or none.
LEMMA StepRefines ==
    ASSUME IInv, IInv', NEW w \in Worker, Running(w, Step(w))
    PROVE  Abstract!Next \/ UNCHANGED <<Owner, Depth>>
<1> USE WorkerAssumption, BoundAssumption
<1>k. Step(w) /\ (Recursive' <=> Recursive)
  BY DEF Running, Recursive
<1> USE <1>k
<1>0. TypeOK /\ PathInv /\ FlagInv /\ CountInv /\ MutualExclusion /\ OwnerKnown /\ Seen /\ Seen'
  BY HeldBy, HeldByNext DEF IInv
<1>1. CASE Lock(w) \/ TryLock(w)
  <2>1. CASE m_tid = w /\ Recursive /\ m_locks_count + 1 # MaxRec
    <3>1. depth' = [depth EXCEPT ![w] = @ + 1] /\ pc' = pc /\ pc[w] = "user"
      BY <1>1, <2>1, <1>0 DEF Lock, TryLock, Reenter, Return, Goto, TypeOK
    <3>2. depth[w] > 0 /\ m_locks_count = depth[w] /\ depth[w] \in 0..(MaxRec - 1)
      BY <2>1, <1>0 DEF OwnerKnown, TypeOK
    <3>3. depth'[w] = depth[w] + 1
      BY <3>1, <1>0 DEF TypeOK
    <3>4. Owner = w /\ Depth = depth[w] /\ Owner' = w /\ Depth' = depth[w] + 1
      BY <3>1, <3>2, <3>3, <1>0 DEF Seen, Holds, Pending
    <3>5. Abstract!Reenter(w)
      BY <2>1, <3>2, <3>4 DEF Abstract!Reenter
    <3> QED
      BY <3>5 DEF Abstract!Next
  <2>2. CASE ~ (m_tid = w /\ Recursive /\ m_locks_count + 1 # MaxRec)
    <3>1. /\ depth' = depth /\ pc[w] = "user"
          /\ \E l \in {"user", "spin", "try"} : pc' = [pc EXCEPT ![w] = l]
      BY <1>1, <2>2 DEF Lock, TryLock, Reenter, Return, Goto
    <3> QED
      BY <3>1, MoveOK
  <2> QED
    BY <2>1, <2>2
<1>2. CASE SpinLoad(w) \/ SpinExchange(w) \/ TryLoad(w) \/ TryExchange(w)
  <2>1. CASE pc' = [pc EXCEPT ![w] = "own"] /\ m_flag = 0
    <3>1. Abstract!Acquire(w)
      BY <1>2, <2>1, AcquireOK DEF SpinLoad, SpinExchange, TryLoad, TryExchange
    <3> QED
      BY <3>1 DEF Abstract!Next
  <2>2. CASE ~ (pc' = [pc EXCEPT ![w] = "own"] /\ m_flag = 0)
    <3>1. /\ depth' = depth
          /\ pc[w] \in {"spin", "spin_xchg", "try", "try_xchg"}
          /\ \E l \in {"user", "spin", "spin_xchg", "try", "try_xchg"} : pc' = [pc EXCEPT ![w] = l]
      BY <1>2, <2>2
      DEF SpinLoad, SpinExchange, TryLoad, TryExchange, SpinAgain, TryFails, Return, Goto
    <3> QED
      BY <3>1, MoveOK
  <2> QED
    BY <2>1, <2>2
<1>3. CASE Own(w)
  <2>1. /\ pc[w] = "own" /\ pc' = [pc EXCEPT ![w] = "user"]
        /\ depth[w] = 0 /\ depth' = [depth EXCEPT ![w] = @ + 1]
    BY <1>3, <1>0 DEF Own, Return, Goto, PathInv
  <2>2. Owner = w /\ Depth = 1
    BY <2>1, <1>0 DEF Seen, Holds, Pending
  <2>3. pc'[w] = "user" /\ depth'[w] = 1
    BY <2>1, <1>0 DEF TypeOK
  <2>4. Owner' = w /\ Depth' = 1
    BY <2>3, <1>0 DEF Seen, Holds, Pending
  <2> QED
    BY <2>2, <2>4
<1>4. CASE Unlock(w)
  <2>1. pc[w] = "user" /\ depth[w] > 0 /\ depth' = [depth EXCEPT ![w] = @ - 1]
    BY <1>4 DEF Unlock
  <2>2. depth[w] \in 0..(MaxRec - 1) /\ depth'[w] = depth[w] - 1
    BY <2>1, <1>0 DEF TypeOK
  <2>3. Owner = w /\ Depth = depth[w]
    BY <2>1, <2>2, <1>0 DEF Seen, Holds, Pending
  <2>4. CASE ~ Recursive \/ m_locks_count = 1
    <3>1. depth[w] = 1
      BY <2>1, <2>2, <2>4, <1>0 DEF OwnerKnown, CountInv
    <3>2. pc'[w] = "release"
      BY <1>4, <2>4, <1>0 DEF Unlock, Goto, TypeOK
    <3>3. Owner' = w /\ Depth' = 1
      BY <2>2, <3>1, <3>2, <1>0 DEF Seen, Holds, Pending
    <3> QED
      BY <2>3, <3>1, <3>3
  <2>5. CASE Recursive /\ m_locks_count # 1
    <3>1. depth[w] > 1
      BY <2>1, <2>2, <2>5, <1>0 DEF OwnerKnown
    <3>2. pc'[w] = "user"
      BY <1>4, <2>5, <1>0 DEF Unlock, Goto, TypeOK
    <3>3. Owner' = w /\ Depth' = depth[w] - 1
      BY <2>2, <3>1, <3>2, <1>0 DEF Seen, Holds, Pending
    <3>4. Abstract!Release(w)
      BY <2>2, <2>3, <3>1, <3>3 DEF Abstract!Release
    <3> QED
      BY <3>4 DEF Abstract!Next
  <2> QED
    BY <2>4, <2>5
<1>5. CASE Release(w)
  <2>1. /\ pc[w] = "release" /\ pc' = [pc EXCEPT ![w] = "user"]
        /\ depth[w] = 0 /\ depth' = depth /\ m_flag' = 0
    BY <1>5, <1>0 DEF Release, Goto, PathInv
  <2>2. Owner = w /\ Depth = 1
    BY <2>1, <1>0 DEF Seen, Holds, Pending
  <2>3. Owner' = NoWorker /\ Depth' = 0
    BY <2>1, <1>0 DEF IInv, FlagInv, Seen
  <2>4. Abstract!Release(w)
    BY <2>2, <2>3 DEF Abstract!Release
  <2> QED
    BY <2>4 DEF Abstract!Next
<1>6. CASE UserYield(w)
  BY <1>6, MoveOK DEF UserYield
<1> QED
  BY <1>1, <1>2, <1>3, <1>4, <1>5, <1>6 DEF Step, CallStep

\* Mutex and Recursive_mutex implement the abstract lock.
THEOREM Refinement == Spec => ImplementsLock
<1>1. Init => Abstract!Init
  <2> SUFFICES ASSUME Init PROVE Abstract!Init
    OBVIOUS
  <2>1. IInv /\ m_flag = 0
    BY InitOK DEF Init
  <2>2. Seen /\ \A w \in Worker : ~ Holds(w)
    BY <2>1, HeldBy DEF IInv, FlagInv
  <2> QED
    BY <2>2, BoundAssumption DEF Seen, Abstract!Init
<1>2. IInv /\ IInv' /\ [Next]_vars => [Abstract!Next]_(Abstract!vars)
  <2>0. [Next]_vars => (Recursive' <=> Recursive)
    BY DEF Next, Running, Recursive, vars
  <2> SUFFICES ASSUME IInv, IInv', [Next]_vars
               PROVE  Abstract!Next \/ UNCHANGED <<Owner, Depth>>
    BY <2>0 DEF Abstract!vars
  <2>1. CASE Next
    BY <2>1, StepRefines DEF Next
  <2>2. CASE UNCHANGED vars
    <3>1. \A v \in Worker : (Holds(v)' <=> Holds(v)) /\ Pending(v)' = Pending(v)
      BY <2>2 DEF vars, Holds, Pending
    <3> QED
      BY <2>2, <3>1, StutterOK DEF vars
  <2> QED
    BY <2>1, <2>2
<1> QED
  BY <1>1, <1>2, IInvHolds, PTL DEF Spec, ImplementsLock, Abstract!Spec

=============================================================================

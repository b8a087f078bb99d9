--------------------------- MODULE TimedMutexProofs ---------------------------
(***************************************************************************)
(* The timed mutexes, for any number of workers, calls and re-entries: at  *)
(* most one owner, no lost notification, and the abstract lock.            *)
(***************************************************************************)
EXTENDS TimedMutex, ListProofs

\* Control points at which a call holds m_mtx, and at which it is on m_cv's list.
Inside == {"test", "add", "set_wait", "remove"}
Listed == {w \in Worker : pc[w] \in {"set_wait", "parked", "relock", "remove"}}

\* m_mtx is held by the call that is inside,
MtxInv == \A w \in Worker : m_mtx["m_mtx"] = w <=> pc[w] \in Inside

\* who waits is on the list, once, from before it unlocks m_mtx to after it locked it,
ListInv == Enumerates(waiters["m_cv"], Listed)

\* and does not enter the list while the mutex is free.
BlockedInv == \A w \in Worker : pc[w] \in {"add", "set_wait"} => m_locks_count # 0

\* The locks of one worker at most are the ones that are counted; m_tid is that
\* worker, and unused by Timed_mutex.
OwnerInv ==
    /\ \A v, w \in Worker : depth[v] > 0 /\ depth[w] > 0 => v = w
    /\ \A w \in Worker : depth[w] > 0 => depth[w] = m_locks_count
    /\ m_locks_count > 0 => \E w \in Worker : depth[w] > 0
    /\ Recursive => \A w \in Worker : m_tid = w <=> depth[w] > 0
    /\ ~ Recursive => m_tid = NoWorker /\ m_locks_count <= 1

IInv == TypeOK /\ MtxInv /\ ListInv /\ BlockedInv /\ OwnerInv /\ NoLostNotify

-----------------------------------------------------------------------------
(* The steps of a worker. *)

\* There is one Mutex and one condition variable.
LEMMA One ==
    ASSUME TypeOK
    PROVE  /\ Cv = {"m_cv"} /\ Mtx = {"m_mtx"} /\ MtxOf["m_cv"] = "m_mtx" /\ NoWorker \notin Worker
           /\ \A w \in Worker : on[w] = "m_cv"
  BY WorkerAssumption, TimedAssumption DEF TypeOK, CvTypeOK

\* Test returns with the lock or without it, or goes on to wait.
Gets(w) == (Mine(w) \/ m_locks_count = 0) /\ Take(w) /\ Return(w)
TimesOut(w) == m_locks_count # 0 /\ Return(w) /\ UNCHANGED <<m_tid, m_locks_count, depth>>
Blocks(w) == m_locks_count # 0 /\ Wait(w, "m_cv") /\ UNCHANGED <<m_mtx, timer, m_tid, m_locks_count, depth>>
Tested(w) == pc[w] = "test" /\ UNCHANGED <<waiters, cond, calls, kind>>

Steps(w) ==
    \/ Call(w)
    \/ TryLock(w)
    \/ Unlock(w)
    \/ Enter(w)
    \/ Tested(w) /\ Gets(w)
    \/ Tested(w) /\ TimesOut(w)
    \/ Tested(w) /\ Blocks(w)
    \/ Notify(w)
    \/ AddWaiter(w) /\ UNCHANGED mtx_vars
    \/ SetWaitInfo(w) /\ UNCHANGED mtx_vars
    \/ WaitOver(w) /\ UNCHANGED mtx_vars
    \/ Relock(w) /\ UNCHANGED mtx_vars
    \/ RemoveWaiter(w, "test") /\ UNCHANGED mtx_vars
    \/ Tick(w) /\ UNCHANGED mtx_vars

LEMMA TestSplit ==
    ASSUME NEW w \in Worker, Test(w)
    PROVE  Tested(w) /\ (Gets(w) \/ TimesOut(w) \/ Blocks(w))
  BY DEF Test, Tested, Gets, TimesOut, Blocks

\* Every step is one of them, or none.
LEMMA NextSteps == Next => (\E w \in Worker : Steps(w)) \/ UNCHANGED vars
<1> SUFFICES ASSUME Next PROVE (\E w \in Worker : Steps(w)) \/ UNCHANGED vars
  OBVIOUS
<1>1. CASE Terminated
  BY <1>1 DEF Terminated
<1>2. ASSUME NEW w \in Worker, Test(w) PROVE Steps(w)
  BY <1>2, TestSplit DEF Steps
<1>3. ASSUME NEW w \in Worker, CallStep(w) PROVE Steps(w)
  BY <1>2, <1>3 DEF CallStep, Steps
<1> QED
  BY <1>1, <1>3 DEF Next, Steps

-----------------------------------------------------------------------------
(* The owner. *)

\* w enters, or enters again.
Taken(w) ==
    /\ Mine(w) \/ m_locks_count = 0
    /\ m_locks_count' = m_locks_count + 1 /\ m_locks_count' < MaxRec
    /\ m_tid' = (IF Recursive THEN w ELSE m_tid)
    /\ depth' = [depth EXCEPT ![w] = @ + 1]
    /\ ~ Recursive => m_locks_count' = 1

\* w leaves once.
Given(w) ==
    /\ depth[w] > 0
    /\ m_locks_count' = m_locks_count - 1
    /\ m_tid' = (IF m_locks_count = 1 THEN NoWorker ELSE m_tid)
    /\ depth' = [depth EXCEPT ![w] = @ - 1]

SameOwner == UNCHANGED <<m_tid, m_locks_count, depth>>

\* Whoever may take the lock gets it, or is refused at max_rec_locks.
LEMMA TakeSplit ==
    ASSUME TypeOK, NEW w \in Worker, Mine(w) \/ m_locks_count = 0, Take(w)
    PROVE  Taken(w) \/ (SameOwner /\ m_locks_count # 0)
<1>1. m_locks_count \in 0..(MaxRec - 1) /\ MaxRec \in Nat /\ MaxRec > 1
  BY TimedAssumption DEF TypeOK
<1>2. CASE Recursive /\ m_locks_count + 1 = MaxRec
  BY <1>1, <1>2 DEF Take, SameOwner
<1>3. CASE ~ (Recursive /\ m_locks_count + 1 = MaxRec)
  <2>1. /\ m_locks_count' = (IF Recursive THEN m_locks_count + 1 ELSE 1)
        /\ m_tid' = (IF Recursive THEN w ELSE m_tid)
        /\ depth' = [depth EXCEPT ![w] = @ + 1]
    BY <1>3 DEF Take
  <2>2. CASE Recursive
    BY <1>1, <1>3, <2>1, <2>2 DEF Taken
  <2>3. CASE ~ Recursive
    <3>1. m_locks_count = 0
      BY <2>3 DEF Mine
    <3> QED
      BY <1>1, <2>1, <2>3, <3>1 DEF Taken
  <2> QED
    BY <2>2, <2>3
<1> QED
  BY <1>2, <1>3

\* What each step does to the owner.
LEMMA OwnerMoves ==
    ASSUME TypeOK, NEW w \in Worker, Steps(w)
    PROVE  kind' = kind /\ (Taken(w) \/ Given(w) \/ SameOwner)
<1>1. CASE Call(w)
  BY <1>1 DEF Call, MayCall, SameOwner
<1>2. CASE TryLock(w)
  BY <1>2, TakeSplit DEF TryLock, MayCall, SameOwner
<1>3. CASE Unlock(w)
  BY <1>3 DEF Unlock, Given
<1>4. CASE Tested(w) /\ Gets(w)
  BY <1>4, TakeSplit DEF Tested, Gets
<1>5. CASE Enter(w) \/ Notify(w)
  BY <1>5 DEF Enter, Notify, mtx_vars, SameOwner
<1>6. CASE Tested(w) /\ (TimesOut(w) \/ Blocks(w))
  BY <1>6 DEF Tested, TimesOut, Blocks, SameOwner
<1>7. CASE UNCHANGED mtx_vars
  BY <1>7 DEF mtx_vars, SameOwner
<1> QED
  BY <1>1, <1>2, <1>3, <1>4, <1>5, <1>6, <1>7 DEF Steps

\* The types and the meaning of the count, of m_tid and of the depths.
LEMMA OwnerStep ==
    ASSUME TypeOK, OwnerInv, NEW w \in Worker, kind' = kind, Taken(w) \/ Given(w) \/ SameOwner
    PROVE  /\ OwnerInv'
           /\ m_tid' \in Worker \cup {NoWorker}
           /\ m_locks_count' \in 0..(MaxRec - 1)
           /\ depth' \in [Worker -> 0..(MaxRec - 1)]
<1>k. Recursive' <=> Recursive
  BY DEF Recursive
<1>0. /\ m_tid \in Worker \cup {NoWorker} /\ m_locks_count \in 0..(MaxRec - 1)
      /\ depth \in [Worker -> 0..(MaxRec - 1)] /\ MaxRec \in Nat /\ MaxRec > 1 /\ NoWorker \notin Worker
  BY WorkerAssumption, TimedAssumption DEF TypeOK
<1>1. CASE SameOwner
  BY <1>k, <1>0, <1>1 DEF SameOwner, OwnerInv
<1>2. CASE Taken(w)
  <2>1. /\ m_locks_count' = m_locks_count + 1 /\ m_locks_count' < MaxRec
        /\ depth' = [depth EXCEPT ![w] = @ + 1] /\ depth'[w] = depth[w] + 1
        /\ \A v \in Worker : v # w => depth'[v] = depth[v]
    BY <1>0, <1>2 DEF Taken
  <2>2. \A v \in Worker : v # w => depth[v] = 0
    <3> SUFFICES ASSUME NEW v \in Worker, v # w, depth[v] # 0 PROVE FALSE
      OBVIOUS
    <3>1. depth[v] > 0 /\ depth[v] = m_locks_count
      BY <1>0 DEF OwnerInv
    <3>2. Mine(w)
      BY <1>0, <1>2, <3>1 DEF Taken
    <3> QED
      BY <1>0, <3>1, <3>2 DEF Mine, OwnerInv
  <2>3. depth[w] = m_locks_count
    <3>1. CASE depth[w] > 0
      BY <3>1 DEF OwnerInv
    <3>2. CASE depth[w] = 0
      <4>1. ~ (m_locks_count > 0)
        BY <2>2, <3>2 DEF OwnerInv
      <4> QED
        BY <1>0, <3>2, <4>1
    <3> QED
      BY <1>0, <3>1, <3>2
  <2>4. Recursive => m_tid' = w
    BY <1>2 DEF Taken
  <2>5. ~ Recursive => m_tid' = NoWorker /\ m_locks_count' <= 1
    BY <1>0, <1>2 DEF Taken, OwnerInv
  <2>6. m_tid' \in Worker \cup {NoWorker}
    BY <1>0, <1>2 DEF Taken
  <2>7. m_locks_count' \in 0..(MaxRec - 1) /\ depth'[w] \in 0..(MaxRec - 1) /\ depth'[w] > 0
    BY <1>0, <2>1, <2>3
  <2>8. depth' \in [Worker -> 0..(MaxRec - 1)]
    BY <1>0, <2>1, <2>7
  <2>9. OwnerInv'
    BY <1>k, <1>0, <2>1, <2>2, <2>3, <2>4, <2>5, <2>7 DEF OwnerInv
  <2> QED
    BY <2>6, <2>7, <2>8, <2>9
<1>3. CASE Given(w)
  <2>1. /\ depth[w] > 0 /\ m_locks_count = depth[w]
        /\ m_locks_count' = m_locks_count - 1
        /\ m_tid' = (IF m_locks_count = 1 THEN NoWorker ELSE m_tid)
        /\ depth' = [depth EXCEPT ![w] = @ - 1] /\ depth'[w] = depth[w] - 1
        /\ \A v \in Worker : v # w => depth'[v] = depth[v]
    BY <1>0, <1>3 DEF Given, OwnerInv
  <2>2. \A v \in Worker : v # w => depth[v] = 0
    BY <1>0, <2>1 DEF OwnerInv
  <2>3. m_locks_count' \in 0..(MaxRec - 1) /\ depth'[w] \in 0..(MaxRec - 1) /\ depth'[w] = m_locks_count'
    BY <1>0, <2>1
  <2>4. depth' \in [Worker -> 0..(MaxRec - 1)]
    BY <1>0, <2>1, <2>3
  <2>5. m_tid' \in Worker \cup {NoWorker}
    BY <1>0, <2>1
  <2>6. Recursive => \A v \in Worker : m_tid' = v <=> depth'[v] > 0
    <3> SUFFICES ASSUME Recursive, NEW v \in Worker PROVE m_tid' = v <=> depth'[v] > 0
      OBVIOUS
    <3>1. m_tid = w
      BY <2>1 DEF OwnerInv
    <3>2. CASE m_locks_count = 1
      BY <1>0, <2>1, <2>2, <3>2
    <3>3. CASE m_locks_count # 1
      BY <1>0, <2>1, <2>2, <3>1, <3>3
    <3> QED
      BY <3>2, <3>3
  <2>7. ~ Recursive => m_tid' = NoWorker /\ m_locks_count' <= 1
    BY <1>0, <2>1 DEF OwnerInv
  <2>8. OwnerInv'
    BY <1>k, <1>0, <2>1, <2>2, <2>3, <2>6, <2>7 DEF OwnerInv
  <2> QED
    BY <2>3, <2>4, <2>5, <2>8
<1> QED
  BY <1>1, <1>2, <1>3

-----------------------------------------------------------------------------
(* m_mtx, and the list of m_cv. *)

\* The types of the control variables.
LEMMA ControlStep ==
    ASSUME TypeOK, NEW w \in Worker, Steps(w)
    PROVE  CvTypeOK({"user", "enter", "test", "notify"})' /\ calls' \in 0..MaxCalls
<1> DEFINE Pc == CvPc \cup {"user", "enter", "test", "notify"}
<1>0. /\ Cv = {"m_cv"} /\ Mtx = {"m_mtx"} /\ MtxOf["m_cv"] = "m_mtx" /\ on[w] = "m_cv"
      /\ pc \in [Worker -> Pc] /\ m_mtx \in [Mtx -> Worker \cup {NoWorker}]
      /\ waiters \in [Cv -> Seq(Worker)] /\ on \in [Worker -> Cv] /\ cond \in [Worker -> BOOLEAN]
      /\ timer \in [Worker -> TimerState] /\ calls \in 0..MaxCalls /\ MaxCalls \in Nat
  BY One, TimedAssumption DEF TypeOK, CvTypeOK
<1>m. "max" \in TimerState /\ "due" \in TimerState
  BY DEF TimerState
<1> SUFFICES /\ pc' \in [Worker -> Pc] /\ m_mtx' \in [Mtx -> Worker \cup {NoWorker}]
             /\ waiters' \in [Cv -> Seq(Worker)] /\ on' \in [Worker -> Cv] /\ cond' \in [Worker -> BOOLEAN]
             /\ timer' \in [Worker -> TimerState] /\ calls' \in 0..MaxCalls
  BY DEF CvTypeOK
<1> USE DEF Goto, Acquire, Release
<1>1. CASE Call(w)
  BY <1>0, <1>1 DEF Call, MayCall
<1>2. CASE TryLock(w)
  BY <1>0, <1>2 DEF TryLock, MayCall, cv_vars
<1>3. CASE Unlock(w)
  BY <1>0, <1>3 DEF Unlock
<1>4. CASE Enter(w)
  BY <1>0, <1>4 DEF Enter, mtx_vars
<1>5. CASE Tested(w) /\ (Gets(w) \/ TimesOut(w))
  BY <1>0, <1>m, <1>5 DEF Tested, Gets, TimesOut, Return
<1>6. CASE Tested(w) /\ Blocks(w)
  BY <1>0, <1>6 DEF Tested, Blocks, Wait, CvPc
<1>7. CASE Notify(w)
  <2>1. cond' \in [Worker -> BOOLEAN]
    BY <1>0, <1>7 DEF Notify, NotifyOne
  <2> QED
    BY <1>0, <1>7, <2>1 DEF Notify, mtx_vars
<1>8. CASE AddWaiter(w) /\ UNCHANGED mtx_vars
  <2>1. Append(waiters["m_cv"], w) \in Seq(Worker)
    BY <1>0, AppendProperties
  <2> QED
    BY <1>0, <1>8, <2>1 DEF AddWaiter, CvPc, mtx_vars
<1>9. CASE SetWaitInfo(w) /\ UNCHANGED mtx_vars
  BY <1>0, <1>9 DEF SetWaitInfo, CvPc, mtx_vars
<1>10. CASE (WaitOver(w) \/ Relock(w)) /\ UNCHANGED mtx_vars
  BY <1>0, <1>10 DEF WaitOver, Relock, CvPc, mtx_vars
<1>11. CASE RemoveWaiter(w, "test") /\ UNCHANGED mtx_vars
  <2>1. PICK i \in 1..Len(waiters["m_cv"]) :
           waiters' = [waiters EXCEPT !["m_cv"] = RemoveAt(waiters["m_cv"], i)]
    BY <1>0, <1>11 DEF RemoveWaiter
  <2>2. RemoveAt(waiters["m_cv"], i) \in Seq(Worker)
    BY <1>0, RemoveAtType
  <2> QED
    BY <1>0, <1>11, <2>1, <2>2 DEF RemoveWaiter, mtx_vars
<1>12. CASE Tick(w) /\ UNCHANGED mtx_vars
  BY <1>0, <1>m, <1>12 DEF Tick, mtx_vars
<1> QED
  BY <1>1, <1>2, <1>3, <1>4, <1>5, <1>6, <1>7, <1>8, <1>9, <1>10, <1>11, <1>12 DEF Steps

\* m_mtx belongs to the call that is inside.
LEMMA MtxStep ==
    ASSUME TypeOK, MtxInv, NEW w \in Worker, Steps(w)
    PROVE  MtxInv'
<1>0. /\ Mtx = {"m_mtx"} /\ MtxOf["m_cv"] = "m_mtx" /\ on[w] = "m_cv" /\ NoWorker \notin Worker
      /\ pc \in [Worker -> CvPc \cup {"user", "enter", "test", "notify"}]
      /\ m_mtx \in [Mtx -> Worker \cup {NoWorker}]
  BY One DEF TypeOK, CvTypeOK
<1> USE DEF Goto, Acquire, Release, Free, Inside, MtxInv
<1>1. CASE Call(w) \/ Unlock(w) \/ Notify(w)
  BY <1>0, <1>1 DEF Call, Unlock, MayCall, Notify
<1>2. CASE TryLock(w)
  BY <1>2 DEF TryLock, cv_vars
<1>4. CASE Enter(w)
  BY <1>0, <1>4 DEF Enter
<1>5. CASE Tested(w) /\ (Gets(w) \/ TimesOut(w))
  BY <1>0, <1>5 DEF Tested, Gets, TimesOut, Return
<1>6. CASE Tested(w) /\ Blocks(w)
  BY <1>0, <1>6 DEF Tested, Blocks, Wait
<1>8. CASE AddWaiter(w) \/ WaitOver(w)
  BY <1>0, <1>8 DEF AddWaiter, WaitOver
<1>9. CASE SetWaitInfo(w)
  BY <1>0, <1>9 DEF SetWaitInfo
<1>10. CASE Relock(w)
  BY <1>0, <1>10 DEF Relock
<1>11. CASE RemoveWaiter(w, "test") \/ Tick(w)
  BY <1>0, <1>11 DEF RemoveWaiter, Tick
<1> QED
  BY <1>1, <1>2, <1>4, <1>5, <1>6, <1>8, <1>9, <1>10, <1>11 DEF Steps

\* The list has the waiters on it, notified or not.
LEMMA ListStep ==
    ASSUME TypeOK, ListInv, NEW w \in Worker, Steps(w)
    PROVE  ListInv'
<1>0. /\ Cv = {"m_cv"} /\ on[w] = "m_cv" /\ waiters \in [Cv -> Seq(Worker)]
      /\ pc \in [Worker -> CvPc \cup {"user", "enter", "test", "notify"}]
  BY One DEF TypeOK, CvTypeOK
<1> USE DEF Goto
<1>1. CASE AddWaiter(w)
  <2>1. pc[w] = "add" /\ pc' = [pc EXCEPT ![w] = "set_wait"]
        /\ waiters'["m_cv"] = Append(waiters["m_cv"], w)
    BY <1>0, <1>1 DEF AddWaiter
  <2>2. w \notin Listed /\ Listed' = Listed \cup {w}
    BY <1>0, <2>1 DEF Listed
  <2>3. Enumerates(Append(waiters["m_cv"], w), Listed \cup {w})
    BY <2>2, EnumeratesAppend DEF ListInv
  <2> QED
    BY <2>1, <2>2, <2>3 DEF ListInv
<1>2. CASE RemoveWaiter(w, "test")
  <2>1. PICK i \in 1..Len(waiters["m_cv"]) :
           /\ waiters["m_cv"][i] = w
           /\ waiters' = [waiters EXCEPT !["m_cv"] = RemoveAt(waiters["m_cv"], i)]
    BY <1>0, <1>2 DEF RemoveWaiter
  <2>2. pc[w] = "remove" /\ pc' = [pc EXCEPT ![w] = "test"]
    BY <1>2 DEF RemoveWaiter
  <2>3. Listed' = Listed \ {w}
    BY <1>0, <2>2 DEF Listed
  <2>4. Enumerates(RemoveAt(waiters["m_cv"], i), Listed \ {w})
    BY <2>1, EnumeratesRemove DEF ListInv
  <2>5. waiters'["m_cv"] = RemoveAt(waiters["m_cv"], i)
    BY <1>0, <2>1
  <2> QED
    BY <2>3, <2>4, <2>5 DEF ListInv
<1>3. ASSUME Listed' = Listed, UNCHANGED waiters PROVE ListInv'
  BY <1>3 DEF ListInv
<1>4. CASE Call(w) \/ Unlock(w) \/ Notify(w)
  <2>1. Listed' = Listed /\ UNCHANGED waiters
    BY <1>0, <1>4 DEF Call, Unlock, MayCall, Notify, Listed
  <2> QED
    BY <1>3, <2>1
<1>5. CASE TryLock(w) \/ Tick(w)
  <2>1. Listed' = Listed /\ UNCHANGED waiters
    BY <1>5 DEF TryLock, cv_vars, Tick, Listed
  <2> QED
    BY <1>3, <2>1
<1>6. CASE Enter(w) \/ WaitOver(w) \/ SetWaitInfo(w) \/ Relock(w)
  <2>1. Listed' = Listed /\ UNCHANGED waiters
    BY <1>0, <1>6 DEF Enter, WaitOver, SetWaitInfo, Relock, Listed
  <2> QED
    BY <1>3, <2>1
<1>7. CASE Tested(w) /\ (Gets(w) \/ TimesOut(w) \/ Blocks(w))
  <2>1. Listed' = Listed /\ UNCHANGED waiters
    BY <1>0, <1>7 DEF Tested, Gets, TimesOut, Blocks, Return, Wait, Listed
  <2> QED
    BY <1>3, <2>1
<1> QED
  BY <1>1, <1>2, <1>4, <1>5, <1>6, <1>7 DEF Steps

\* The mutex is taken when a call decides to wait, and stays so until the call
\* unlocked m_mtx.
LEMMA BlockedStep ==
    ASSUME TypeOK, MtxInv, BlockedInv, NEW w \in Worker, Steps(w)
    PROVE  BlockedInv'
<1>0. /\ Mtx = {"m_mtx"} /\ pc \in [Worker -> CvPc \cup {"user", "enter", "test", "notify"}]
      /\ NoWorker \notin Worker /\ m_locks_count \in Nat
  BY One DEF TypeOK, CvTypeOK
<1> USE DEF Goto, BlockedInv
<1>1. CASE Call(w)
  BY <1>0, <1>1 DEF Call, MayCall
<1>2. CASE TryLock(w)
  <2>1. UNCHANGED pc
    BY <1>2 DEF TryLock, cv_vars
  <2>2. CASE Free("m_mtx")
    <3>1. \A v \in Worker : pc[v] \notin {"add", "set_wait"}
      BY <1>0, <2>2 DEF Free, MtxInv, Inside
    <3> QED
      BY <2>1, <3>1
  <2>3. CASE ~ Free("m_mtx")
    BY <1>2, <2>1, <2>3 DEF TryLock
  <2> QED
    BY <2>2, <2>3
<1>3. CASE Unlock(w)
  <2>1. \A v \in Worker : pc[v] \notin {"add", "set_wait"}
    BY <1>0, <1>3 DEF Unlock, Free, MtxInv, Inside
  <2> QED
    BY <1>0, <1>3, <2>1 DEF Unlock
<1>4. CASE Tested(w) /\ Gets(w)
  <2>1. \A v \in Worker : v # w => pc[v] \notin Inside
    BY <1>0, <1>4 DEF Tested, MtxInv, Inside
  <2>2. pc' = [pc EXCEPT ![w] = "user"]
    BY <1>4 DEF Gets, Return
  <2> QED
    BY <1>0, <2>1, <2>2 DEF Inside
<1>5. CASE Tested(w) /\ (TimesOut(w) \/ Blocks(w))
  BY <1>0, <1>5 DEF Tested, TimesOut, Blocks, Return, Wait
<1>6. CASE Enter(w) \/ Notify(w)
  BY <1>0, <1>6 DEF Enter, Notify, mtx_vars
<1>7. CASE UNCHANGED mtx_vars /\ (AddWaiter(w) \/ SetWaitInfo(w) \/ WaitOver(w))
  BY <1>0, <1>7 DEF mtx_vars, AddWaiter, SetWaitInfo, WaitOver
<1>8. CASE UNCHANGED mtx_vars /\ (Relock(w) \/ RemoveWaiter(w, "test") \/ Tick(w))
  BY <1>0, <1>8 DEF mtx_vars, Relock, RemoveWaiter, Tick
<1> QED
  BY <1>1, <1>2, <1>3, <1>4, <1>5, <1>6, <1>7, <1>8 DEF Steps

-----------------------------------------------------------------------------
(* Notifications. *)

\* Who is on the way to the free mutex, or about to notify.
Awake(w) ==
    \/ pc[w] \in {"notify", "relock", "remove", "test"}
    \/ pc[w] = "parked" /\ cond[w]

\* A step that leaves a free mutex and a sleeper behind had them before it, but for
\* the unlock.
LEMMA SleeperBefore ==
    ASSUME TypeOK, MtxInv, BlockedInv, NEW w \in Worker, Steps(w), ~ Unlock(w),
           m_locks_count' = 0, NEW v \in Worker, Asleep(v)'
    PROVE  m_locks_count = 0 /\ Asleep(v)
<1>0. /\ pc \in [Worker -> CvPc \cup {"user", "enter", "test", "notify"}]
      /\ cond \in [Worker -> BOOLEAN] /\ timer \in [Worker -> TimerState] /\ m_locks_count \in Nat
  BY DEF TypeOK, CvTypeOK
<1> USE DEF Asleep, Goto
<1>1. CASE Call(w)
  BY <1>0, <1>1 DEF Call, MayCall
<1>2. ASSUME Take(w), Mine(w) \/ m_locks_count = 0 PROVE m_locks_count' # 0
  BY <1>0, <1>2, TakeSplit DEF Taken, SameOwner
<1>3. CASE TryLock(w)
  BY <1>2, <1>3 DEF TryLock, cv_vars
<1>4. CASE Tested(w) /\ Gets(w)
  BY <1>2, <1>4 DEF Gets
<1>5. CASE Tested(w) /\ (TimesOut(w) \/ Blocks(w))
  BY <1>0, <1>5 DEF Tested, TimesOut, Blocks
<1>6. CASE Enter(w)
  BY <1>0, <1>6 DEF Enter, mtx_vars
<1>7. CASE Notify(w)
  <2>1. pc' = [pc EXCEPT ![w] = "user"] /\ UNCHANGED <<timer, m_locks_count>>
    BY <1>7 DEF Notify, mtx_vars
  <2>2. cond[v] => cond'[v]
    BY <1>0, <1>7 DEF Notify, NotifyOne
  <2> QED
    BY <1>0, <2>1, <2>2
<1>8. CASE SetWaitInfo(w) /\ UNCHANGED mtx_vars
  <2>1. pc[w] = "set_wait" /\ m_locks_count' = m_locks_count
    BY <1>8 DEF SetWaitInfo, mtx_vars
  <2> QED
    BY <2>1 DEF BlockedInv
<1>9. CASE UNCHANGED mtx_vars /\ (AddWaiter(w) \/ WaitOver(w) \/ Relock(w) \/ RemoveWaiter(w, "test"))
  BY <1>0, <1>9 DEF mtx_vars, AddWaiter, WaitOver, Relock, RemoveWaiter
<1>10. CASE UNCHANGED mtx_vars /\ Tick(w)
  BY <1>0, <1>10 DEF mtx_vars, Tick
<1> QED
  BY <1>1, <1>3, <1>4, <1>5, <1>6, <1>7, <1>8, <1>9, <1>10 DEF Steps

\* Nobody who is awake goes to sleep while the mutex is free, and the notification
\* wakes the front of the list.
LEMMA AwakeAfter ==
    ASSUME TypeOK, MtxInv, BlockedInv, ListInv, NEW w \in Worker, Steps(w), ~ Unlock(w),
           m_locks_count = 0, m_locks_count' = 0, NEW v \in Worker, Asleep(v),
           NEW u \in Worker, Awake(u)
    PROVE  \E x \in Worker : Awake(x)'
<1>0. /\ pc \in [Worker -> CvPc \cup {"user", "enter", "test", "notify"}]
      /\ cond \in [Worker -> BOOLEAN] /\ timer \in [Worker -> TimerState] /\ m_locks_count \in Nat
  BY DEF TypeOK, CvTypeOK
<1> SUFFICES Awake(u)' \/ \E x \in Worker : Awake(x)'
  OBVIOUS
<1> USE DEF Awake, Goto
<1>1. CASE Call(w)
  BY <1>0, <1>1 DEF Call, MayCall
<1>2. ASSUME Take(w), Mine(w) \/ m_locks_count = 0 PROVE m_locks_count' # 0
  BY <1>0, <1>2, TakeSplit DEF Taken, SameOwner
<1>3. CASE TryLock(w)
  BY <1>3 DEF TryLock, cv_vars
<1>4. CASE Tested(w) /\ Gets(w)
  BY <1>2, <1>4 DEF Gets
<1>5. CASE Tested(w) /\ (TimesOut(w) \/ Blocks(w))
  BY <1>0, <1>5 DEF TimesOut, Blocks
<1>6. CASE Enter(w)
  BY <1>0, <1>6 DEF Enter
<1>7. CASE Notify(w)
  <2> DEFINE q == waiters["m_cv"]
  <2>1. v \in Listed
    BY DEF Asleep, Listed
  <2>2. q # <<>>
    <3>1. PICK i \in 1..Len(q) : q[i] = v
      BY <2>1, EnumeratesFacts DEF ListInv
    <3> QED
      BY <3>1, EmptySeq
  <2>3. Head(q) \in Listed
    BY <2>2, EnumeratesTail DEF ListInv
  <2>4. PICK h \in Worker : h = Head(q) /\ pc[h] \in {"parked", "relock", "remove"}
    BY <2>3 DEF Listed, BlockedInv
  <2>5. cond' = [cond EXCEPT ![h] = TRUE] /\ pc' = [pc EXCEPT ![w] = "user"] /\ pc[w] = "notify"
    BY <1>7, <2>2, <2>4 DEF Notify, NotifyOne
  <2> HIDE DEF q
  <2>6. Awake(h)'
    BY <1>0, <2>4, <2>5
  <2> QED
    BY <2>4, <2>6
<1>8. CASE SetWaitInfo(w)
  BY <1>0, <1>8 DEF SetWaitInfo
<1>9. CASE AddWaiter(w) \/ WaitOver(w) \/ Relock(w) \/ RemoveWaiter(w, "test")
  BY <1>0, <1>9 DEF AddWaiter, WaitOver, Relock, RemoveWaiter
<1>10. CASE Tick(w)
  BY <1>0, <1>10 DEF Tick
<1> QED
  BY <1>1, <1>3, <1>4, <1>5, <1>6, <1>7, <1>8, <1>9, <1>10 DEF Steps

\* unlock leaves a notification to come.
LEMMA NotifyStep ==
    ASSUME TypeOK, MtxInv, BlockedInv, ListInv, NoLostNotify, NEW w \in Worker, Steps(w)
    PROVE  NoLostNotify'
<1>0. pc \in [Worker -> CvPc \cup {"user", "enter", "test", "notify"}] /\ m_locks_count \in Nat
  BY DEF TypeOK, CvTypeOK
<1>1. SUFFICES ASSUME m_locks_count' = 0, NEW v \in Worker, Asleep(v)'
               PROVE  \E u \in Worker : Awake(u)'
  BY DEF NoLostNotify, Awake
<1>2. CASE Unlock(w)
  <2>1. pc'[w] = "notify"
    BY <1>0, <1>1, <1>2 DEF Unlock, Goto
  <2> QED
    BY <2>1 DEF Awake
<1>3. CASE ~ Unlock(w)
  <2>1. m_locks_count = 0 /\ Asleep(v)
    BY <1>1, <1>3, SleeperBefore
  <2>2. PICK u \in Worker : Awake(u)
    BY <2>1 DEF NoLostNotify, Awake
  <2> QED
    BY <1>1, <1>3, <2>1, <2>2, AwakeAfter
<1> QED
  BY <1>2, <1>3

-----------------------------------------------------------------------------
(* The invariant. *)

\* Nobody has made a call yet.
LEMMA InitOK == Init => IInv
<1> SUFFICES ASSUME Init PROVE IInv
  OBVIOUS
<1>0. /\ Cv = {"m_cv"} /\ Mtx = {"m_mtx"} /\ MaxRec \in Nat /\ MaxRec > 1 /\ MaxCalls \in Nat
      /\ NoWorker \notin Worker
      /\ pc = [w \in Worker |-> "user"] /\ m_mtx = [m \in Mtx |-> NoWorker]
      /\ waiters = [c \in Cv |-> <<>>] /\ on = [w \in Worker |-> CHOOSE c \in Cv : TRUE]
      /\ cond = [w \in Worker |-> FALSE] /\ timer = [w \in Worker |-> "max"]
      /\ kind \in {"Timed_mutex", "Recursive_timed_mutex"}
      /\ m_tid = NoWorker /\ m_locks_count = 0 /\ depth = [w \in Worker |-> 0] /\ calls = 0
  BY WorkerAssumption, TimedAssumption DEF Init, CvInit
<1>1. TypeOK
  <2>1. (CHOOSE c \in Cv : TRUE) \in Cv
    BY <1>0
  <2>2. <<>> \in Seq(Worker)
    BY EmptySeq
  <2> QED
    BY <1>0, <2>1, <2>2 DEF TypeOK, CvTypeOK, TimerState
<1>2. MtxInv
  BY <1>0 DEF MtxInv, Inside
<1>3. ListInv
  <2>1. Listed = {}
    BY <1>0 DEF Listed
  <2>2. <<>> \in Seq(Listed) /\ Len(<<>>) = 0
    BY EmptySeq
  <2>3. waiters["m_cv"] = <<>>
    BY <1>0
  <2> QED
    BY <2>1, <2>2, <2>3 DEF ListInv, Enumerates
<1>4. BlockedInv /\ OwnerInv /\ NoLostNotify
  BY <1>0 DEF BlockedInv, OwnerInv, NoLostNotify, Asleep
<1> QED
  BY <1>1, <1>2, <1>3, <1>4 DEF IInv

\* Every step keeps it.
LEMMA StepOK == IInv /\ [Next]_vars => IInv'
<1> SUFFICES ASSUME IInv, [Next]_vars PROVE IInv'
  OBVIOUS
<1>0. TypeOK /\ MtxInv /\ ListInv /\ BlockedInv /\ OwnerInv /\ NoLostNotify
  BY DEF IInv
<1>1. CASE UNCHANGED vars
  <2>1. UNCHANGED <<pc, m_mtx, waiters, on, cond, timer, kind, m_tid, m_locks_count, depth, calls>>
    BY <1>1 DEF vars, cv_vars, mtx_vars
  <2>2. TypeOK'
    BY <1>0, <2>1 DEF TypeOK, CvTypeOK
  <2>3. MtxInv' /\ ListInv' /\ BlockedInv' /\ OwnerInv' /\ NoLostNotify'
    BY <1>0, <2>1 DEF MtxInv, ListInv, Listed, BlockedInv, OwnerInv, NoLostNotify, Asleep, Recursive
  <2> QED
    BY <2>2, <2>3 DEF IInv
<1>2. ASSUME NEW w \in Worker, Steps(w) PROVE IInv'
  <2>1. kind' = kind /\ (Taken(w) \/ Given(w) \/ SameOwner)
    BY <1>0, <1>2, OwnerMoves
  <2>2. /\ OwnerInv' /\ m_tid' \in Worker \cup {NoWorker}
        /\ m_locks_count' \in 0..(MaxRec - 1) /\ depth' \in [Worker -> 0..(MaxRec - 1)]
    BY <1>0, <2>1, OwnerStep
  <2>3. CvTypeOK({"user", "enter", "test", "notify"})' /\ calls' \in 0..MaxCalls
    BY <1>0, <1>2, ControlStep
  <2>4. TypeOK'
    BY <1>0, <2>1, <2>2, <2>3 DEF TypeOK
  <2>5. MtxInv' /\ ListInv' /\ BlockedInv' /\ NoLostNotify'
    BY <1>0, <1>2, MtxStep, ListStep, BlockedStep, NotifyStep
  <2> QED
    BY <2>2, <2>4, <2>5 DEF IInv
<1> QED
  BY <1>1, <1>2, NextSteps

\* IInv is inductive: it holds in every state of the timed mutexes.
THEOREM IInvHolds == Spec => []IInv
<1> QED
  BY InitOK, StepOK, PTL DEF Spec

\* The count of locks, the depth of the callers and the list keep their types;
\* max_rec_locks is never exceeded.
THEOREM TypesKept == Spec => []TypeOK
<1>1. IInv => TypeOK
  BY DEF IInv
<1> QED
  BY <1>1, IInvHolds, PTL

\* unlock's single notify_one is enough for any number of waiters.
THEOREM NotifyIsNotLost == Spec => []NoLostNotify
<1>1. IInv => NoLostNotify
  BY DEF IInv
<1> QED
  BY <1>1, IInvHolds, PTL

-----------------------------------------------------------------------------
(* The abstract lock. *)

Seen ==
    /\ \A w \in Worker : LockOwner = w <=> depth[w] > 0
    /\ LockOwner = NoWorker <=> m_locks_count = 0
    /\ LockOwner \in Worker \cup {NoWorker}
    /\ LockDepth = m_locks_count

\* The owner that the users see is the worker with a depth.
LEMMA OwnerIs == TypeOK /\ OwnerInv => Seen
<1> SUFFICES ASSUME TypeOK, OwnerInv PROVE Seen
  OBVIOUS
<1> USE DEF Seen
<1>0. /\ NoWorker \notin Worker /\ depth \in [Worker -> 0..(MaxRec - 1)] /\ MaxRec \in Nat
      /\ m_locks_count \in 0..(MaxRec - 1)
  BY WorkerAssumption, TimedAssumption DEF TypeOK
<1>1. CASE \E w \in Worker : depth[w] > 0
  <2>1. LockOwner = CHOOSE w \in Worker : depth[w] > 0
    BY <1>1 DEF LockOwner
  <2>2. LockOwner \in Worker /\ depth[LockOwner] > 0
    BY <1>1, <2>1
  <2>3. depth[LockOwner] = m_locks_count
    BY <2>2 DEF OwnerInv
  <2> QED
    BY <1>0, <2>2, <2>3 DEF OwnerInv, LockDepth
<1>2. CASE ~ \E w \in Worker : depth[w] > 0
  <2>1. LockOwner = NoWorker
    BY <1>2 DEF LockOwner
  <2>2. m_locks_count = 0
    BY <1>0, <1>2 DEF OwnerInv
  <2> QED
    BY <1>0, <1>2, <2>1, <2>2 DEF LockDepth
<1> QED
  BY <1>1, <1>2

LEMMA OwnerIsNext == (TypeOK /\ OwnerInv)' => Seen'
  BY OwnerIs, PTL

\* A step of the owner is a step of the abstract lock.
LEMMA AbsStep ==
    ASSUME TypeOK, OwnerInv, TypeOK', OwnerInv', NEW w \in Worker, kind' = kind,
           Taken(w) \/ Given(w) \/ SameOwner
    PROVE  [Abstract!Next]_(Abstract!vars)
<1>0. /\ \A v \in Worker : LockOwner = v <=> depth[v] > 0
      /\ LockOwner = NoWorker <=> m_locks_count = 0
      /\ LockOwner \in Worker \cup {NoWorker} /\ LockDepth = m_locks_count
  BY OwnerIs DEF Seen
<1>p. /\ \A v \in Worker : LockOwner' = v <=> depth'[v] > 0
      /\ LockOwner' = NoWorker <=> m_locks_count' = 0
      /\ LockOwner' \in Worker \cup {NoWorker} /\ LockDepth' = m_locks_count'
  BY OwnerIsNext DEF Seen
<1>k. (Recursive' <=> Recursive) /\ LockMax' = LockMax
  BY TimedAssumption DEF Recursive, LockMax
<1>t. /\ depth \in [Worker -> 0..(MaxRec - 1)] /\ depth' \in [Worker -> 0..(MaxRec - 1)]
      /\ m_locks_count \in 0..(MaxRec - 1) /\ m_locks_count' \in 0..(MaxRec - 1)
      /\ MaxRec \in Nat /\ MaxRec > 1 /\ NoWorker \notin Worker
  BY WorkerAssumption, TimedAssumption DEF TypeOK
<1>1. CASE SameOwner
  <2>1. LockOwner' = LockOwner
    BY <1>0, <1>p, <1>1 DEF SameOwner
  <2>2. LockDepth' = LockDepth
    BY <1>0, <1>p, <1>1 DEF SameOwner
  <2> QED
    BY <1>k, <2>1, <2>2 DEF Abstract!vars
<1>2. CASE Taken(w)
  <2>1. /\ m_locks_count' = m_locks_count + 1 /\ m_locks_count' < MaxRec
        /\ depth'[w] = depth[w] + 1 /\ (Mine(w) \/ m_locks_count = 0)
        /\ ~ Recursive => m_locks_count' = 1
    BY <1>t, <1>2 DEF Taken
  <2>2. LockOwner' = w /\ LockDepth' = LockDepth + 1
    BY <1>0, <1>p, <1>t, <2>1
  <2>3. CASE m_locks_count = 0
    <3>1. Abstract!Acquire(w)
      BY <1>0, <2>2, <2>3 DEF Abstract!Acquire
    <3> QED
      BY <1>k, <3>1 DEF Abstract!Next
  <2>4. CASE m_locks_count # 0
    <3>1. Recursive /\ m_tid = w
      BY <2>1, <2>4 DEF Mine
    <3>2. LockOwner = w
      BY <1>0, <3>1 DEF OwnerInv
    <3>3. LockDepth < LockMax
      BY <1>0, <1>t, <2>1, <3>1 DEF LockMax
    <3>4. Abstract!Reenter(w)
      BY <2>2, <3>2, <3>3 DEF Abstract!Reenter
    <3> QED
      BY <1>k, <3>4 DEF Abstract!Next
  <2> QED
    BY <2>3, <2>4
<1>3. CASE Given(w)
  <2>1. depth[w] > 0 /\ m_locks_count' = m_locks_count - 1 /\ depth'[w] = depth[w] - 1
    BY <1>t, <1>3 DEF Given
  <2>2. LockOwner = w /\ LockDepth = depth[w] /\ LockDepth' = LockDepth - 1
    BY <1>0, <1>p, <2>1 DEF OwnerInv
  <2>3. LockOwner' = IF LockDepth = 1 THEN NoWorker ELSE LockOwner
    BY <1>0, <1>p, <1>t, <2>1, <2>2
  <2>4. Abstract!Release(w)
    BY <2>2, <2>3 DEF Abstract!Release
  <2> QED
    BY <1>k, <2>4 DEF Abstract!Next
<1> QED
  BY <1>1, <1>2, <1>3

\* Timed_mutex and Recursive_timed_mutex implement the abstract lock, whatever
\* waits, times out or is notified in between.
THEOREM Refinement == Spec => ImplementsLock
<1>1. Init => Abstract!Init
  <2> SUFFICES ASSUME Init PROVE Abstract!Init
    OBVIOUS
  <2>1. TypeOK /\ OwnerInv /\ m_locks_count = 0 /\ MaxRec \in Nat /\ MaxRec > 1
    BY InitOK, TimedAssumption DEF IInv, Init
  <2>2. LockOwner = NoWorker /\ LockDepth = 0
    BY <2>1, OwnerIs DEF Seen
  <2>3. LockMax \in Nat \ {0}
    BY <2>1 DEF LockMax
  <2> QED
    BY <2>2, <2>3 DEF Abstract!Init
<1>2. IInv /\ IInv' /\ [Next]_vars => [Abstract!Next]_(Abstract!vars)
  <2> SUFFICES ASSUME IInv, IInv', [Next]_vars PROVE [Abstract!Next]_(Abstract!vars)
    OBVIOUS
  <2>0. TypeOK /\ OwnerInv /\ TypeOK' /\ OwnerInv'
    BY DEF IInv
  <2>1. ASSUME NEW w \in Worker, Steps(w) PROVE [Abstract!Next]_(Abstract!vars)
    BY <2>0, <2>1, OwnerMoves, AbsStep
  <2>2. CASE UNCHANGED vars
    BY <2>2 DEF vars, cv_vars, mtx_vars, Abstract!vars, LockOwner, LockDepth, LockMax, Recursive
  <2> QED
    BY <2>1, <2>2, NextSteps
<1> QED
  BY <1>1, <1>2, IInvHolds, PTL DEF Spec, ImplementsLock, Abstract!Spec

=============================================================================

------------------------- MODULE WorkerSwitchProofs -------------------------
(***************************************************************************)
(* Proofs about WorkerSwitch, for every number of workers: OneAtATime and  *)
(* RunsWhatWasChosen hold in every reachable state.                        *)
(*                                                                         *)
(* The argument follows a baton.  Until the scheduler is told to exit, the *)
(* thread that runs, or the blocked one whose m_running has been set, is   *)
(* the only one (OneBaton); passing it on is setting m_running of the next *)
(* worker and clearing one's own within one critical section.              *)
(***************************************************************************)
EXTENDS WorkerSwitch, TLAPS

Blocked(w) == wpc[w] \in {"blocked", "init_blocked"}

\* w runs or has been given control.
Baton(w) ==
    \/ wpc[w] \in {"park", "init_lock", "init_wait", "schedule", "switch_lock", "user",
                   "loop_test"}
    \/ Blocked(w) /\ m_running[w]

Constructing == opc \in {"spawn", "ctor_lock", "ctor_wait", "start"}

\* Until the exit signal there is at most one baton.
OneBaton == ~ m_exit => \A v, w \in Worker : Baton(v) /\ Baton(w) => v = w

\* While workers are constructed only the newest one can hold it.
ConstructorInv ==
    /\ opc \in {"spawn", "start"} => \A w \in Worker : ~ Baton(w)
    /\ opc \in {"ctor_lock", "ctor_wait"} => \A w \in Worker : Baton(w) => w = oi
    /\ opc = "spawn" => \A w \in Worker : w >= oi => wpc[w] = "unborn"
    /\ opc \in {"ctor_lock", "ctor_wait"} => \A w \in Worker : w > oi => wpc[w] = "unborn"
    /\ opc \in {"ctor_lock", "ctor_wait"} =>
          \/ wpc[oi] \in {"park", "init_lock", "init_wait"}
          \/ wpc[oi] = "init_blocked" /\ ~ m_running[oi]
    /\ Constructing => ~ m_workers_started
    /\ opc \in {"destroy", "join", "end"} <=> m_exit
    /\ m_exit => m_workers_started

\* A thread that has not gone to sleep yet has its initial m_running, and is idle
\* from sync<main> on until it is scheduled.
StartInv ==
    \A w \in Worker :
       /\ wpc[w] \in {"unborn", "park", "init_lock", "init_wait"} => m_running[w]
       /\ wpc[w] \in {"unborn", "park"} => ctx[w] = "main"
       /\ wpc[w] \in {"schedule", "switch_lock", "switch_wait", "user", "loop_test", "blocked"}
             => m_workers_started
       /\ ~ m_exit /\ wpc[w] \in {"init_lock", "init_wait", "init_blocked"} /\ ~ m_workers_started
             => wstate[w] = "idle"

MutexInv == \A w \in Worker : mtx = w <=> wpc[w] \in {"init_wait", "switch_wait"}

\* The holder of the baton is m_worker, in state running unless it schedules.
ChosenInv ==
    ~ m_exit => \A w \in Worker :
       /\ wpc[w] \in {"schedule", "user", "loop_test"} \/ (Blocked(w) /\ m_running[w])
             => m_worker = w
       /\ wpc[w] \in {"user", "loop_test"} \/ (Blocked(w) /\ m_running[w] /\ m_workers_started)
             => wstate[w] = "running"
       /\ wpc[w] = "schedule" => wstate[w] \in {"idle", "parked"}
       /\ wpc[w] = "switch_lock" => m_worker \in Worker \ {w} /\ wstate[m_worker] = "running"

\* After the exit signal threads only go through loop_test to their end.
ExitInv ==
    /\ m_exit => \A w \in Worker :
          /\ wpc[w] \in {"unborn", "schedule", "switch_wait", "blocked", "init_blocked",
                         "loop_test", "ended"}
          /\ wpc[w] = "schedule" => m_worker = w
          /\ ctx[w] = "main"
          /\ wpc[w] = "loop_test" \/ (Blocked(w) /\ m_running[w]) => wstate[w] = "exiting"
    /\ \A w \in Worker : wstate[w] = "idle" => ctx[w] = "main"

\* The inductive invariant.
IInv == TypeOK /\ OneBaton /\ ConstructorInv /\ StartInv /\ MutexInv /\ ChosenInv /\ ExitInv

-----------------------------------------------------------------------------
USE KAssumption DEF Worker, Owner, Free

\* The facts an action's proof starts from, with every definition they need.
LEMMA InitOK == Init => IInv
<1> SUFFICES ASSUME Init PROVE IInv
  OBVIOUS
<1> USE DEF Init
<1>0. \A w \in Worker : ~ Baton(w) /\ wpc[w] = "unborn"
  BY DEF Baton, Blocked
<1>1. TypeOK
  <2>1. cv \in [Worker -> SUBSET (Worker \cup {Owner})]
    OBVIOUS
  <2>2. m_exit \in BOOLEAN /\ m_workers_started \in BOOLEAN /\ initializing \in BOOLEAN
    OBVIOUS
  <2>3. /\ wpc \in [Worker -> WorkerPc]
        /\ opc \in OwnerPc /\ oi \in Worker /\ m_worker \in Worker \cup {Free}
        /\ mtx \in Worker \cup {Free}
        /\ m_running \in [Worker -> BOOLEAN]
        /\ ctx \in [Worker -> {"main", "user"}]
        /\ joined \subseteq Worker
    BY DEF WorkerPc, OwnerPc
  <2> QED
    BY <2>1, <2>2, <2>3 DEF TypeOK
<1>2. OneBaton
  BY <1>0 DEF OneBaton, Blocked, Constructing, WorkerPc, OwnerPc
<1>3. ConstructorInv
  BY <1>0 DEF ConstructorInv, Blocked, Constructing, WorkerPc, OwnerPc
<1>4. StartInv
  BY <1>0 DEF StartInv, Blocked, Constructing, WorkerPc, OwnerPc
<1>5. MutexInv
  BY <1>0 DEF MutexInv, Blocked, Constructing, WorkerPc, OwnerPc
<1>6. ChosenInv
  BY <1>0 DEF ChosenInv, Blocked, Constructing, WorkerPc, OwnerPc
<1>7. ExitInv
  BY <1>0 DEF ExitInv, Blocked, Constructing, WorkerPc, OwnerPc
<1> QED
  BY <1>1, <1>2, <1>3, <1>4, <1>5, <1>6, <1>7 DEF IInv

LEMMA NextOK == IInv /\ [Next]_vars => IInv'
<1> USE DEF TypeOK, OneBaton, ConstructorInv, StartInv, MutexInv, ChosenInv, ExitInv,
            Baton, Blocked, Constructing, WorkerPc, OwnerPc, IInv
<1> SUFFICES ASSUME IInv, [Next]_vars PROVE IInv'
  OBVIOUS
<1>1. CASE Spawn
  BY <1>1 DEF Spawn, Goto, Notify, owner_vars
<1>2. CASE CtorLock
  BY <1>2 DEF CtorLock, Goto, Notify, owner_vars
<1>3. CASE CtorWake
  BY <1>3 DEF CtorWake, Goto, Notify, owner_vars
<1>4. CASE Start
  BY <1>4 DEF Start, Goto, Notify, owner_vars
<1>5. CASE Started
  BY <1>5 DEF Started, Goto, Notify, owner_vars
<1>6. CASE SignalExit
  BY <1>6 DEF SignalExit, Goto, Notify, owner_vars
<1>7. CASE Destroy
  BY <1>7 DEF Destroy, Goto, Notify, owner_vars
<1>8. CASE Join
  BY <1>8 DEF Join, Goto, Notify, owner_vars
<1>9. ASSUME NEW w \in Worker, ParkInit(w) PROVE IInv'
  <2>1. TypeOK'
    BY <1>9 DEF ParkInit, Goto, Notify, WaitOver, owner_vars
  <2>2. OneBaton'
    BY <1>9 DEF ParkInit, Goto, Notify, WaitOver, owner_vars
  <2>3. ConstructorInv'
    BY <1>9 DEF ParkInit, Goto, Notify, WaitOver, owner_vars
  <2>4. StartInv'
    BY <1>9 DEF ParkInit, Goto, Notify, WaitOver, owner_vars
  <2>5. MutexInv'
    BY <1>9 DEF ParkInit, Goto, Notify, WaitOver, owner_vars
  <2>6. ChosenInv'
    BY <1>9 DEF ParkInit, Goto, Notify, WaitOver, owner_vars
  <2>7. ExitInv'
    <3>1. wpc[w] = "park" /\ ctx[w] = "main" /\ ~ m_exit
      BY <1>9 DEF ParkInit
    <3>2. ctx' = ctx /\ ~ m_exit' /\ wstate' = [wstate EXCEPT ![w] = "idle"]
      BY <1>9, <3>1 DEF ParkInit
    <3> QED
      BY <3>1, <3>2
  <2> QED
    BY <2>1, <2>2, <2>3, <2>4, <2>5, <2>6, <2>7
<1>10. ASSUME NEW w \in Worker, InitLock(w) PROVE IInv'
  <2>1. TypeOK'
    BY <1>10 DEF InitLock, Goto, Notify, WaitOver, owner_vars
  <2>2. OneBaton'
    BY <1>10 DEF InitLock, Goto, Notify, WaitOver, owner_vars
  <2>3. ConstructorInv'
    BY <1>10 DEF InitLock, Goto, Notify, WaitOver, owner_vars
  <2>4. StartInv'
    BY <1>10 DEF InitLock, Goto, Notify, WaitOver, owner_vars
  <2>5. MutexInv'
    BY <1>10 DEF InitLock, Goto, Notify, WaitOver, owner_vars
  <2>6. ChosenInv'
    BY <1>10 DEF InitLock, Goto, Notify, WaitOver, owner_vars
  <2>7. ExitInv'
    BY <1>10 DEF InitLock, Goto, Notify, WaitOver, owner_vars
  <2> QED
    BY <2>1, <2>2, <2>3, <2>4, <2>5, <2>6, <2>7
<1>11. ASSUME NEW w \in Worker, InitWait(w) PROVE IInv'
  BY <1>11 DEF InitWait, Goto, Notify, Wait, WaitOver, Resume, owner_vars
<1>12. ASSUME NEW w \in Worker, InitWake(w) PROVE IInv'
  <2>1. TypeOK'
    BY <1>12 DEF InitWake, Goto, Notify, WaitOver, owner_vars
  <2>2. OneBaton'
    BY <1>12 DEF InitWake, Goto, Notify, WaitOver, owner_vars
  <2>3. ConstructorInv'
    BY <1>12 DEF InitWake, Goto, Notify, WaitOver, owner_vars
  <2>4. StartInv'
    BY <1>12 DEF InitWake, Goto, Notify, WaitOver, owner_vars
  <2>5. MutexInv'
    BY <1>12 DEF InitWake, Goto, Notify, WaitOver, owner_vars
  <2>6. ChosenInv'
    BY <1>12 DEF InitWake, Goto, Notify, WaitOver, owner_vars
  <2>7. ExitInv'
    BY <1>12 DEF InitWake, Goto, Notify, WaitOver, owner_vars
  <2> QED
    BY <2>1, <2>2, <2>3, <2>4, <2>5, <2>6, <2>7
<1>13. ASSUME NEW w \in Worker, InitSleep(w) PROVE IInv'
  BY <1>13 DEF InitSleep, Goto, Notify, Wait, WaitOver, Resume, owner_vars
<1>14. ASSUME NEW w \in Worker, Schedule(w) PROVE IInv'
  BY <1>14 DEF Schedule, Goto, Notify, Wait, WaitOver, Resume, owner_vars
<1>15. ASSUME NEW w \in Worker, ScheduleExit(w) PROVE IInv'
  BY <1>15 DEF ScheduleExit, Goto, Notify, Wait, WaitOver, Resume, owner_vars
<1>16. ASSUME NEW w \in Worker, SwitchLock(w) PROVE IInv'
  BY <1>16 DEF SwitchLock, Goto, Notify, Wait, WaitOver, Resume, owner_vars
<1>17. ASSUME NEW w \in Worker, SwitchWait(w) PROVE IInv'
  BY <1>17 DEF SwitchWait, Goto, Notify, Wait, WaitOver, Resume, owner_vars
<1>18. ASSUME NEW w \in Worker, SwitchWake(w) PROVE IInv'
  BY <1>18 DEF SwitchWake, Goto, Notify, Wait, WaitOver, Resume, owner_vars
<1>19. ASSUME NEW w \in Worker, LoopTest(w) PROVE IInv'
  BY <1>19 DEF LoopTest, Goto, Notify, Wait, WaitOver, Resume, owner_vars
<1>20. ASSUME NEW w \in Worker, Park(w) PROVE IInv'
  BY <1>20 DEF Park, Goto, Notify, Wait, WaitOver, Resume, owner_vars
<1>21. CASE UNCHANGED vars
  BY <1>21 DEF vars
<1> QED
  BY <1>1, <1>2, <1>3, <1>4, <1>5, <1>6, <1>7, <1>8, <1>9, <1>10, <1>11,
     <1>12, <1>13, <1>14, <1>15, <1>16, <1>17, <1>18, <1>19, <1>20, <1>21
     DEF Next, OwnerThread, WorkerThread, WorkerWake, Terminated

\* The inductive invariant holds in every reachable state.
THEOREM IInvHolds == Spec => []IInv
BY InitOK, NextOK, PTL DEF Spec

\* Every variable of the hand-over protocol keeps its type.
THEOREM TypeCorrect == Spec => []TypeOK
BY IInvHolds, PTL DEF IInv

\* At most one worker thread at a time is in the scheduler's unprotected code or
\* in user code, for any number of workers (context_switch, sync_init).
THEOREM MutualExclusion == Spec => []OneAtATime
<1>1. IInv => OneAtATime
  BY DEF IInv, OneBaton, ExitInv, OneAtATime, InScheduler, Baton, Blocked
<1> QED
  BY <1>1, IInvHolds, PTL

\* User code runs only on the worker the scheduler has chosen, for any number of
\* workers (prepare_next_worker, sync_init, m_workers_started).
THEOREM ChosenRuns == Spec => []RunsWhatWasChosen
<1>1. IInv => RunsWhatWasChosen
  BY DEF IInv, ChosenInv, ExitInv, RunsWhatWasChosen
<1> QED
  BY <1>1, IInvHolds, PTL
=============================================================================

-------------------------- MODULE SchedulersProofs --------------------------
(***************************************************************************)
(* The schedulers, for every number of them, of workers and of tasks.      *)
(*                                                                         *)
(* First part: the types, the idle count and the locks.  TypeOK is not     *)
(* inductive by itself: enqueue_task needs the task in its hands and its   *)
(* target, steal_work an idle worker and a victim that exists.  ThreadInv  *)
(* says what each thread holds at its control points.  Most steps are      *)
(* plain: they move a scheduler between control points where it is awake   *)
(* and without its m_mtx.  What sleep, its wake-ups and all_idle do to     *)
(* m_state, m_mtx and the count follows from the control point alone.      *)
(*                                                                         *)
(* Second part: where the workers, the tasks and the notifications are.    *)
(* No worker and no task is lost or in two places, sleep loses no wake-up, *)
(* and init_ums leaves wait_exit only when there is nothing left to do.    *)
(***************************************************************************)
EXTENDS Schedulers, ListProofs, FiniteSetTheorems

-----------------------------------------------------------------------------
(* The types. *)

\* What a thread holds at each control point.
ThreadInv ==
    /\ pc[Main] \in MainPc \cup AsyncPc \cup NotifyPc
    /\ pc[Main] \in NotifyPc => ret[Main] \in {"pred", "join"}
    /\ pc[Main] \in AsyncPc => ret[Main] = "pred"
    /\ \A s \in Sch : /\ pc[s] \in SchedulerPc \cup AsyncPc \cup NotifyPc
                      /\ pc[s] \in NotifyPc => ret[s] \in {"run", "reset"}
                      /\ pc[s] \in AsyncPc => ret[s] = "run"
                      /\ pc[s] = "rob" => idle[s] # <<>> /\ it[s] \in Sch
    /\ \A th \in Thread : /\ pc[th] \in AsyncPc <=> hand[th] # NoTask
                          /\ pc[th] \in NotifyPc \cup AsyncPc => target[th] \in Sch
                          /\ pc[th] = "min_load" => it[th] \in Sch

TInv == TypeOK /\ ThreadInv

-----------------------------------------------------------------------------

\* The control state keeps its type: every jump goes to a control point, notify
\* and enqueue_task have a target, and the cursors stay positive.
LEMMA ThreadTypesStep == TInv /\ [Next]_vars => ThreadTypes'
<1> SUFFICES ASSUME TInv, [Next]_vars PROVE ThreadTypes'
  OBVIOUS
<1> USE SizeAssumption, TaskAssumption
<1>0. TypeOK /\ ThreadInv
  BY DEF TInv
<1> USE <1>0
<1>a. /\ "min_load" \in Pc /\ "enque" \in Pc /\ "notify" \in Pc /\ "fire" \in Pc
      /\ "run" \in Pc /\ "wait_check" \in Pc /\ "recheck" \in Pc /\ "done" \in Pc
      /\ "reset" \in Pc /\ "io" \in Pc /\ "waiting" \in Pc /\ "idle" \in Pc
      /\ "yielded" \in Pc /\ "steal" \in Pc /\ "rob" \in Pc /\ "decide" \in Pc
      /\ "enter_wait" \in Pc /\ "enter_sleep" \in Pc /\ "signal_idle" \in Pc /\ "notify_main" \in Pc
      /\ "sleep" \in Pc /\ "idle_wait" \in Pc /\ "idle_sleep" \in Pc /\ "woken" \in Pc
      /\ "exit_check" \in Pc /\ "exited" \in Pc /\ "async" \in Pc /\ "pred" \in Pc
      /\ "cv_wait" \in Pc /\ "count" \in Pc /\ "tasks" \in Pc /\ "lock_all" \in Pc
      /\ "check" \in Pc /\ "relock" \in Pc /\ "destroy" \in Pc /\ "join" \in Pc
      /\ "end" \in Pc
  BY DEF Pc, NotifyPc, AsyncPc, SchedulerPc, MainPc
<1>b. Sch \subseteq Thread /\ Main \in Thread /\ Free \notin Thread /\ Sch \subseteq Nat \ {0}
  BY DEF Sch, Thread, Main, Free
<1>c. 1 \in Nat \ {0} /\ \A n \in Nat \ {0} : n + 1 \in Nat \ {0}
  OBVIOUS
<1> USE <1>a, <1>b, <1>c
<1> USE DEF ThreadTypes, thread_vars, TypeOK
<1>1. ASSUME NEW th \in Thread, MinLoad(th) PROVE ThreadTypes'
  <2>1. it[th] \in Sch /\ target[th] \in Sch
    BY <1>1 DEF MinLoad, ThreadInv, NotifyPc, AsyncPc
  <2>2. ret' = ret /\ hand' = hand
    BY <1>1 DEF MinLoad
  <2>3. target' \in [Thread -> Sch \cup {Free}]
    BY <1>1, <2>1 DEF MinLoad
  <2>4. it' \in [Thread -> Nat \ {0}]
    BY <1>1, <2>1 DEF MinLoad
  <2>5. pc' \in [Thread -> Pc]
    BY <1>1 DEF MinLoad, Goto
  <2> QED
    BY <2>2, <2>3, <2>4, <2>5
<1>2. ASSUME NEW th \in Thread, Enque(th) PROVE ThreadTypes'
  BY <1>2 DEF Enque, Goto
<1>3. ASSUME NEW th \in Thread, NotifyLock(th) PROVE ThreadTypes'
  BY <1>3 DEF NotifyLock, Goto
<1>4. ASSUME NEW th \in Thread, NotifyFire(th) PROVE ThreadTypes'
  BY <1>4 DEF NotifyFire, Goto
<1>5. ASSUME NEW s \in Sch, Async(s) PROVE ThreadTypes'
  <2>1. PICK t \in Task : NewTask(s, t)
    BY <1>5 DEF Async
  <2>2. ret' = [ret EXCEPT ![s] = "run"]
    BY <1>5 DEF Async
  <2>3. /\ target' = [target EXCEPT ![s] = 1] /\ it' = [it EXCEPT ![s] = 2]
        /\ hand' = [hand EXCEPT ![s] = t]
    BY <2>1 DEF NewTask
  <2>4. pc' = [pc EXCEPT ![s] = IF N = 1 THEN "enque" ELSE "min_load"]
    BY <2>1 DEF NewTask, Goto
  <2>5. 1 \in Sch /\ 2 \in Nat \ {0}
    BY DEF Sch
  <2> QED
    BY <2>2, <2>3, <2>4, <2>5
<1>6. ASSUME NEW s \in Sch, Yield(s) PROVE ThreadTypes'
  BY <1>6 DEF Yield, Spend, Goto
<1>7. ASSUME NEW s \in Sch, StartIo(s) PROVE ThreadTypes'
  BY <1>7 DEF StartIo, Spend, Goto
<1>8. ASSUME NEW s \in Sch, SleepUntil(s) PROVE ThreadTypes'
  BY <1>8 DEF SleepUntil, Spend, Goto
<1>9. ASSUME NEW s \in Sch, WaitTask(s) PROVE ThreadTypes'
  BY <1>9 DEF WaitTask, AddWaiter, Goto
<1>10. ASSUME NEW s \in Sch, WaitCondOrSleep(s) PROVE ThreadTypes'
  <2>1. CASE check_wait_info(m_worker[s])
    BY <1>10, <2>1 DEF WaitCondOrSleep, Resume, Goto
  <2>2. CASE ~ check_wait_info(m_worker[s])
      <3>1. pc' = [pc EXCEPT ![s] = "io"] /\ it' = [it EXCEPT ![s] = 1]
        BY <1>10, <2>2 DEF WaitCondOrSleep, Goto
      <3>2. UNCHANGED <<ret, target, hand>>
        BY <1>10, <2>2 DEF WaitCondOrSleep
      <3>3. it' \in [Thread -> Nat \ {0}]
        BY <3>1
      <3> QED
        BY <3>1, <3>2, <3>3
  <2> QED
    BY <2>1, <2>2
<1>11. ASSUME NEW s \in Sch, Recheck(s) PROVE ThreadTypes'
  BY <1>11 DEF Recheck, AddWaiter, Goto
<1>12. ASSUME NEW s \in Sch, Finish(s) PROVE ThreadTypes'
  BY <1>12 DEF Finish, Goto
<1>13. ASSUME NEW s \in Sch, NotifyWaiter(s) PROVE ThreadTypes'
  <2>1. \A w \in Worker : Home(w) \in Sch
    BY DEF Worker, Home
  <2>2. hand' = hand /\ it' = it
    BY <1>13 DEF NotifyWaiter
  <2>3. CASE /\ {w \in Worker : awaits[w] = Running(s)} = {}
             /\ Goto(s, "reset") /\ UNCHANGED <<ret, target>>
    BY <2>2, <2>3 DEF Goto
  <2>4. CASE \E w \in {v \in Worker : awaits[v] = Running(s)} :
                /\ target' = [target EXCEPT ![s] = Home(w)]
                /\ ret' = [ret EXCEPT ![s] = "reset"]
                /\ Goto(s, "notify")
    BY <2>1, <2>2, <2>4 DEF Goto
  <2> QED
    BY <1>13, <2>3, <2>4 DEF NotifyWaiter
<1>14. ASSUME NEW s \in Sch, ParkIdle(s) PROVE ThreadTypes'
  BY <1>14 DEF ParkIdle, Goto
<1>15. ASSUME NEW s \in Sch, ScheduleIo(s) PROVE ThreadTypes'
  <2>1. CASE it[s] > Len(pending_io[s])
      <3>1. pc' = [pc EXCEPT ![s] = "waiting"] /\ it' = [it EXCEPT ![s] = 1]
        BY <1>15, <2>1 DEF ScheduleIo, Goto
      <3>2. UNCHANGED <<ret, target, hand>>
        BY <1>15, <2>1 DEF ScheduleIo
      <3>3. it' \in [Thread -> Nat \ {0}]
        BY <3>1
      <3> QED
        BY <3>1, <3>2, <3>3
  <2>2. CASE ~ (it[s] > Len(pending_io[s]))
    <3>1. CASE io[pending_io[s][it[s]]]
        <4>1. pc' = pc /\ it' = [it EXCEPT ![s] = @ + 1]
          BY <1>15, <2>2, <3>1 DEF ScheduleIo, Goto
        <4>2. UNCHANGED <<ret, target, hand>>
          BY <1>15, <2>2, <3>1 DEF ScheduleIo
        <4>3. it' \in [Thread -> Nat \ {0}]
          BY <4>1
        <4> QED
          BY <4>1, <4>2, <4>3
    <3>2. CASE ~ io[pending_io[s][it[s]]]
      BY <1>15, <2>2, <3>2 DEF ScheduleIo, Goto
    <3> QED
      BY <3>1, <3>2
  <2> QED
    BY <2>1, <2>2
<1>16. ASSUME NEW s \in Sch, ScheduleWaiting(s) PROVE ThreadTypes'
  <2>1. CASE it[s] > Len(waiting[s])
      <3>1. pc' = [pc EXCEPT ![s] = "idle"] /\ it' = [it EXCEPT ![s] = 1]
        BY <1>16, <2>1 DEF ScheduleWaiting, Goto
      <3>2. UNCHANGED <<ret, target, hand>>
        BY <1>16, <2>1 DEF ScheduleWaiting
      <3>3. it' \in [Thread -> Nat \ {0}]
        BY <3>1
      <3> QED
        BY <3>1, <3>2, <3>3
  <2>2. CASE ~ (it[s] > Len(waiting[s]))
    <3>1. CASE ~ check_wait_info(waiting[s][it[s]])
        <4>1. pc' = pc /\ it' = [it EXCEPT ![s] = @ + 1]
          BY <1>16, <2>2, <3>1 DEF ScheduleWaiting, Goto
        <4>2. UNCHANGED <<ret, target, hand>>
          BY <1>16, <2>2, <3>1 DEF ScheduleWaiting
        <4>3. it' \in [Thread -> Nat \ {0}]
          BY <4>1
        <4> QED
          BY <4>1, <4>2, <4>3
    <3>2. CASE check_wait_info(waiting[s][it[s]])
      BY <1>16, <2>2, <3>2 DEF ScheduleWaiting, Goto
    <3> QED
      BY <3>1, <3>2
  <2> QED
    BY <2>1, <2>2
<1>17. ASSUME NEW s \in Sch, ScheduleIdle(s) PROVE ThreadTypes'
  BY <1>17 DEF ScheduleIdle, GiveTask, Goto
<1>18. ASSUME NEW s \in Sch, ScheduleYielded(s) PROVE ThreadTypes'
  BY <1>18 DEF ScheduleYielded, Goto
<1>19. ASSUME NEW s \in Sch, StealWork(s) PROVE ThreadTypes'
  <2>1. CASE ~ WorkStealing \/ runnable[s] # <<>> \/ idle[s] = <<>> \/ it[s] > N
      <3>1. pc' = [pc EXCEPT ![s] = "decide"] /\ it' = [it EXCEPT ![s] = 1]
        BY <1>19, <2>1 DEF StealWork, Goto
      <3>2. UNCHANGED <<ret, target, hand>>
        BY <1>19, <2>1 DEF StealWork
      <3>3. it' \in [Thread -> Nat \ {0}]
        BY <3>1
      <3> QED
        BY <3>1, <3>2, <3>3
  <2>2. CASE ~ (~ WorkStealing \/ runnable[s] # <<>> \/ idle[s] = <<>> \/ it[s] > N)
    <3>1. CASE it[s] # s /\ has_stealable_work(it[s])
      BY <1>19, <2>2, <3>1 DEF StealWork, Goto
    <3>2. CASE ~ (it[s] # s /\ has_stealable_work(it[s]))
        <4>1. pc' = pc /\ it' = [it EXCEPT ![s] = @ + 1]
          BY <1>19, <2>2, <3>2 DEF StealWork, Goto
        <4>2. UNCHANGED <<ret, target, hand>>
          BY <1>19, <2>2, <3>2 DEF StealWork
        <4>3. it' \in [Thread -> Nat \ {0}]
          BY <4>1
        <4> QED
          BY <4>1, <4>2, <4>3
    <3> QED
      BY <3>1, <3>2
  <2> QED
    BY <2>1, <2>2
<1>20. ASSUME NEW s \in Sch, Rob(s) PROVE ThreadTypes'
  <2>1. CASE has_tasks(it[s])
    BY <1>20, <2>1 DEF Rob, Goto
  <2>2. CASE ~ has_tasks(it[s])
    BY <1>20, <2>2 DEF Rob, Goto
  <2> QED
    BY <2>1, <2>2
<1>21. ASSUME NEW s \in Sch, PrepareExec(s) PROVE ThreadTypes'
  BY <1>21 DEF PrepareExec, Resume, Goto
<1>22. ASSUME NEW s \in Sch, SpinOrPoll(s) PROVE ThreadTypes'
  BY <1>22 DEF SpinOrPoll, Goto
<1>23. ASSUME NEW s \in Sch, SleepLock(s) PROVE ThreadTypes'
  BY <1>23 DEF SleepLock, Goto
<1>24. ASSUME NEW s \in Sch, EnterWait(s) PROVE ThreadTypes'
  BY <1>24 DEF EnterWait, Goto
<1>25. ASSUME NEW s \in Sch, SignalIdle(s) PROVE ThreadTypes'
  BY <1>25 DEF SignalIdle, Goto
<1>26. ASSUME NEW s \in Sch, SetCheckIdle(s) PROVE ThreadTypes'
  BY <1>26 DEF SetCheckIdle, Goto
<1>27. ASSUME NEW s \in Sch, NotifyMain(s) PROVE ThreadTypes'
  BY <1>27 DEF NotifyMain, Goto
<1>28. ASSUME NEW s \in Sch, EnterSleep(s) PROVE ThreadTypes'
  BY <1>28 DEF EnterSleep, Goto
<1>29. ASSUME NEW s \in Sch, SignalRunning(s) PROVE ThreadTypes'
  BY <1>29 DEF SignalRunning, Goto
<1>30. ASSUME NEW s \in Sch, ShouldExit(s) PROVE ThreadTypes'
  BY <1>30 DEF ShouldExit, Goto
<1>31. ASSUME NEW s \in Sch, Wake(s) PROVE ThreadTypes'
  BY <1>31 DEF Wake, Goto
<1>32. ASSUME NEW s \in Sch, WakeInVain(s) PROVE ThreadTypes'
  BY <1>32 DEF WakeInVain, Goto
<1>33. ASSUME NEW s \in Sch, SpinElapses(s) PROVE ThreadTypes'
  BY <1>33 DEF SpinElapses, Goto
<1>34. ASSUME NEW w \in Worker, Tick(w) PROVE ThreadTypes'
  BY <1>34 DEF Tick, Goto
<1>35. ASSUME NEW w \in Worker, IoCompletes(w) PROVE ThreadTypes'
  BY <1>35 DEF IoCompletes, Goto
<1>36. CASE MainAsync
  <2>1. PICK t \in Task : NewTask(Main, t)
    BY <1>36 DEF MainAsync
  <2>2. ret' = [ret EXCEPT ![Main] = "pred"]
    BY <1>36 DEF MainAsync
  <2>3. /\ target' = [target EXCEPT ![Main] = 1] /\ it' = [it EXCEPT ![Main] = 2]
        /\ hand' = [hand EXCEPT ![Main] = t]
    BY <2>1 DEF NewTask
  <2>4. pc' = [pc EXCEPT ![Main] = IF N = 1 THEN "enque" ELSE "min_load"]
    BY <2>1 DEF NewTask, Goto
  <2>5. 1 \in Sch /\ 2 \in Nat \ {0}
    BY DEF Sch
  <2> QED
    BY <2>2, <2>3, <2>4, <2>5
<1>37. CASE CheckIdle
  BY <1>37 DEF CheckIdle, Goto
<1>38. CASE AllIdleCount
  BY <1>38 DEF AllIdleCount, Goto
<1>39. CASE AllIdleTasks
  BY <1>39 DEF AllIdleTasks, Goto
<1>40. CASE AllIdleLock
  BY <1>40 DEF AllIdleLock, Goto
<1>41. CASE AllIdleCheck
  BY <1>41 DEF AllIdleCheck, Goto
<1>42. CASE Relock
  BY <1>42 DEF Relock, Goto
<1>43. CASE MainWake
  BY <1>43 DEF MainWake, Goto
<1>44. CASE Destroy
  BY <1>44 DEF Destroy, Goto
<1>45. CASE Join
  BY <1>45 DEF Join, Goto
<1>46. CASE UNCHANGED vars
  BY <1>46 DEF vars
<1> QED
  BY <1>1, <1>2, <1>3, <1>4, <1>5, <1>6, <1>7, <1>8, <1>9, <1>10, <1>11, <1>12, <1>13,
     <1>14, <1>15, <1>16, <1>17, <1>18, <1>19, <1>20, <1>21, <1>22, <1>23, <1>24, <1>25,
     <1>26, <1>27, <1>28, <1>29, <1>30, <1>31, <1>32, <1>33, <1>34, <1>35, <1>36, <1>37,
     <1>38, <1>39, <1>40, <1>41, <1>42, <1>43, <1>44, <1>45, <1>46
     DEF Next, NotifyStep, SchedulerStep, UserStep, ScheduleStep, SleepStep, AwakeStep,
         MainStep, MainThread, Environment, Terminated

\* park_*, schedule_* and prepare_exec keep workers in the queues.
LEMMA QueueTypesStep == TInv /\ [Next]_vars => QueueTypes'
<1> SUFFICES ASSUME TInv, [Next]_vars PROVE QueueTypes'
  OBVIOUS
<1> USE SizeAssumption, TaskAssumption
<1>0. TypeOK /\ ThreadInv
  BY DEF TInv
<1> USE <1>0
<1> USE DEF QueueTypes, queue_vars, TypeOK, SpinState
<1>1. ASSUME NEW th \in Thread, MinLoad(th) PROVE QueueTypes'
  BY <1>1 DEF MinLoad, Goto
<1>2. ASSUME NEW th \in Thread, Enque(th) PROVE QueueTypes'
  BY <1>2 DEF Enque, Goto
<1>3. ASSUME NEW th \in Thread, NotifyLock(th) PROVE QueueTypes'
  BY <1>3 DEF NotifyLock, Goto
<1>4. ASSUME NEW th \in Thread, NotifyFire(th) PROVE QueueTypes'
  BY <1>4 DEF NotifyFire, Goto
<1>5. ASSUME NEW s \in Sch, Async(s) PROVE QueueTypes'
  BY <1>5 DEF Async, NewTask, Goto
<1>6. ASSUME NEW s \in Sch, Yield(s) PROVE QueueTypes'
  BY <1>6 DEF Yield, Spend, Goto
<1>7. ASSUME NEW s \in Sch, StartIo(s) PROVE QueueTypes'
  BY <1>7 DEF StartIo, Spend, Goto
<1>8. ASSUME NEW s \in Sch, SleepUntil(s) PROVE QueueTypes'
  BY <1>8 DEF SleepUntil, Spend, Goto
<1>9. ASSUME NEW s \in Sch, WaitTask(s) PROVE QueueTypes'
  BY <1>9 DEF WaitTask, AddWaiter, Goto
<1>10. ASSUME NEW s \in Sch, WaitCondOrSleep(s) PROVE QueueTypes'
  <2>1. CASE check_wait_info(m_worker[s])
    BY <1>10, <2>1 DEF WaitCondOrSleep
  <2>2. CASE ~ check_wait_info(m_worker[s])
    <3>1. waiting' = [waiting EXCEPT ![s] = Append(@, m_worker[s])]
      BY <1>10, <2>2 DEF WaitCondOrSleep
    <3>2. waiting' \in [Sch -> Seq(Worker)]
      BY <3>1
    <3> QED
      BY <1>10, <3>2 DEF WaitCondOrSleep
  <2> QED
    BY <2>1, <2>2
<1>11. ASSUME NEW s \in Sch, Recheck(s) PROVE QueueTypes'
  BY <1>11 DEF Recheck, AddWaiter, Goto
<1>12. ASSUME NEW s \in Sch, Finish(s) PROVE QueueTypes'
  BY <1>12 DEF Finish, Goto
<1>13. ASSUME NEW s \in Sch, NotifyWaiter(s) PROVE QueueTypes'
  BY <1>13 DEF NotifyWaiter, Goto
<1>14. ASSUME NEW s \in Sch, ParkIdle(s) PROVE QueueTypes'
  BY <1>14 DEF ParkIdle, Goto
<1>15. ASSUME NEW s \in Sch, ScheduleIo(s) PROVE QueueTypes'
  <2>1. CASE it[s] > Len(pending_io[s])
    BY <1>15, <2>1 DEF ScheduleIo
  <2>2. CASE ~ (it[s] > Len(pending_io[s]))
    <3>1. it[s] \in 1..Len(pending_io[s])
      <4>1. it[s] \in Nat \ {0}
        BY DEF ThreadTypes, Thread, Sch
      <4>2. Len(pending_io[s]) \in Nat
        BY DEF QueueTypes
      <4> QED
        BY <2>2, <4>1, <4>2
    <3>2. pending_io[s][it[s]] \in Worker /\ RemoveAt(pending_io[s], it[s]) \in Seq(Worker)
      BY <3>1, RemoveAtType
    <3>3. CASE io[pending_io[s][it[s]]]
      BY <1>15, <2>2, <3>3 DEF ScheduleIo
    <3>4. CASE ~ io[pending_io[s][it[s]]]
      <4>1. /\ pending_io' = [pending_io EXCEPT ![s] = RemoveAt(@, it[s])]
            /\ runnable' = [runnable EXCEPT ![s] = Append(@, pending_io[s][it[s]])]
        BY <1>15, <2>2, <3>4 DEF ScheduleIo
      <4>2. pending_io' \in [Sch -> Seq(Worker)]
        BY <3>2, <4>1
      <4>3. runnable' \in [Sch -> Seq(Worker)]
        BY <3>2, <4>1
      <4> QED
        BY <1>15, <4>2, <4>3 DEF ScheduleIo
    <3> QED
      BY <3>3, <3>4
  <2> QED
    BY <2>1, <2>2
<1>16. ASSUME NEW s \in Sch, ScheduleWaiting(s) PROVE QueueTypes'
  <2>1. CASE it[s] > Len(waiting[s])
    BY <1>16, <2>1 DEF ScheduleWaiting
  <2>2. CASE ~ (it[s] > Len(waiting[s]))
    <3>1. it[s] \in 1..Len(waiting[s])
      <4>1. it[s] \in Nat \ {0}
        BY DEF ThreadTypes, Thread, Sch
      <4>2. Len(waiting[s]) \in Nat
        BY DEF QueueTypes
      <4> QED
        BY <2>2, <4>1, <4>2
    <3>2. waiting[s][it[s]] \in Worker /\ RemoveAt(waiting[s], it[s]) \in Seq(Worker)
      BY <3>1, RemoveAtType
    <3>3. CASE ~ check_wait_info(waiting[s][it[s]])
      BY <1>16, <2>2, <3>3 DEF ScheduleWaiting
    <3>4. CASE check_wait_info(waiting[s][it[s]])
      <4>1. /\ waiting' = [waiting EXCEPT ![s] = RemoveAt(@, it[s])]
            /\ runnable' = [runnable EXCEPT ![s] = Append(@, waiting[s][it[s]])]
        BY <1>16, <2>2, <3>4 DEF ScheduleWaiting
      <4>2. waiting' \in [Sch -> Seq(Worker)]
        BY <3>2, <4>1
      <4>3. runnable' \in [Sch -> Seq(Worker)]
        BY <3>2, <4>1
      <4> QED
        BY <1>16, <4>2, <4>3 DEF ScheduleWaiting
    <3> QED
      BY <3>3, <3>4
  <2> QED
    BY <2>1, <2>2
<1>17. ASSUME NEW s \in Sch, ScheduleIdle(s) PROVE QueueTypes'
  <2>1. CASE runnable[s] = <<>> /\ idle[s] # <<>> /\ has_tasks(s)
    <3>1. Head(idle[s]) \in Worker /\ Tail(idle[s]) \in Seq(Worker)
      BY <2>1
    <3>2. /\ idle' = [idle EXCEPT ![s] = Tail(@)]
          /\ runnable' = [runnable EXCEPT ![s] = Append(@, Head(idle[s]))]
      BY <1>17, <2>1 DEF ScheduleIdle, GiveTask
    <3>3. idle' \in [Sch -> Seq(Worker)]
      BY <3>1, <3>2
    <3>4. runnable' \in [Sch -> Seq(Worker)]
      BY <3>1, <3>2
    <3> QED
      BY <1>17, <3>3, <3>4 DEF ScheduleIdle
  <2>2. CASE ~ (runnable[s] = <<>> /\ idle[s] # <<>> /\ has_tasks(s))
    BY <1>17, <2>2 DEF ScheduleIdle
  <2> QED
    BY <2>1, <2>2
<1>18. ASSUME NEW s \in Sch, ScheduleYielded(s) PROVE QueueTypes'
  <2>1. CASE yielded[s] # NoWorker
    <3>1. yielded[s] \in Worker
      BY <2>1
    <3>2. /\ runnable' = [runnable EXCEPT ![s] = Append(@, yielded[s])]
          /\ yielded' = [yielded EXCEPT ![s] = NoWorker]
      BY <1>18, <2>1 DEF ScheduleYielded
    <3>3. runnable' \in [Sch -> Seq(Worker)]
      BY <3>1, <3>2
    <3> QED
      BY <1>18, <3>2, <3>3 DEF ScheduleYielded
  <2>2. CASE yielded[s] = NoWorker
    BY <1>18, <2>2 DEF ScheduleYielded
  <2> QED
    BY <2>1, <2>2
<1>19. ASSUME NEW s \in Sch, StealWork(s) PROVE QueueTypes'
  BY <1>19 DEF StealWork, Goto
<1>20. ASSUME NEW s \in Sch, Rob(s) PROVE QueueTypes'
  <2>1. CASE has_tasks(it[s])
    <3>0. idle[s] # <<>>
      BY <1>20 DEF Rob, ThreadInv
    <3>1. Head(idle[s]) \in Worker /\ Tail(idle[s]) \in Seq(Worker)
      BY <3>0
    <3>2. /\ idle' = [idle EXCEPT ![s] = Tail(@)]
          /\ runnable' = [runnable EXCEPT ![s] = Append(@, Head(idle[s]))]
      BY <1>20, <2>1 DEF Rob, GiveTask
    <3>3. idle' \in [Sch -> Seq(Worker)]
      BY <3>1, <3>2
    <3>4. runnable' \in [Sch -> Seq(Worker)]
      BY <3>1, <3>2
    <3> QED
      BY <1>20, <3>3, <3>4 DEF Rob
  <2>2. CASE ~ has_tasks(it[s])
    BY <1>20, <2>2 DEF Rob
  <2> QED
    BY <2>1, <2>2
<1>21. ASSUME NEW s \in Sch, PrepareExec(s) PROVE QueueTypes'
  BY <1>21 DEF PrepareExec, Resume, Goto
<1>22. ASSUME NEW s \in Sch, SpinOrPoll(s) PROVE QueueTypes'
  BY <1>22 DEF SpinOrPoll, Goto
<1>23. ASSUME NEW s \in Sch, SleepLock(s) PROVE QueueTypes'
  BY <1>23 DEF SleepLock, Goto
<1>24. ASSUME NEW s \in Sch, EnterWait(s) PROVE QueueTypes'
  BY <1>24 DEF EnterWait, Goto
<1>25. ASSUME NEW s \in Sch, SignalIdle(s) PROVE QueueTypes'
  BY <1>25 DEF SignalIdle, Goto
<1>26. ASSUME NEW s \in Sch, SetCheckIdle(s) PROVE QueueTypes'
  BY <1>26 DEF SetCheckIdle, Goto
<1>27. ASSUME NEW s \in Sch, NotifyMain(s) PROVE QueueTypes'
  BY <1>27 DEF NotifyMain, Goto
<1>28. ASSUME NEW s \in Sch, EnterSleep(s) PROVE QueueTypes'
  BY <1>28 DEF EnterSleep, Goto
<1>29. ASSUME NEW s \in Sch, SignalRunning(s) PROVE QueueTypes'
  BY <1>29 DEF SignalRunning, Goto
<1>30. ASSUME NEW s \in Sch, ShouldExit(s) PROVE QueueTypes'
  BY <1>30 DEF ShouldExit, Goto
<1>31. ASSUME NEW s \in Sch, Wake(s) PROVE QueueTypes'
  BY <1>31 DEF Wake, Goto
<1>32. ASSUME NEW s \in Sch, WakeInVain(s) PROVE QueueTypes'
  BY <1>32 DEF WakeInVain, Goto
<1>33. ASSUME NEW s \in Sch, SpinElapses(s) PROVE QueueTypes'
  BY <1>33 DEF SpinElapses, Goto
<1>34. ASSUME NEW w \in Worker, Tick(w) PROVE QueueTypes'
  BY <1>34 DEF Tick, Goto
<1>35. ASSUME NEW w \in Worker, IoCompletes(w) PROVE QueueTypes'
  BY <1>35 DEF IoCompletes, Goto
<1>36. CASE MainAsync
  BY <1>36 DEF MainAsync, NewTask, Goto
<1>37. CASE CheckIdle
  BY <1>37 DEF CheckIdle, Goto
<1>38. CASE AllIdleCount
  BY <1>38 DEF AllIdleCount, Goto
<1>39. CASE AllIdleTasks
  BY <1>39 DEF AllIdleTasks, Goto
<1>40. CASE AllIdleLock
  BY <1>40 DEF AllIdleLock, Goto
<1>41. CASE AllIdleCheck
  BY <1>41 DEF AllIdleCheck, Goto
<1>42. CASE Relock
  BY <1>42 DEF Relock, Goto
<1>43. CASE MainWake
  BY <1>43 DEF MainWake, Goto
<1>44. CASE Destroy
  BY <1>44 DEF Destroy, Goto
<1>45. CASE Join
  BY <1>45 DEF Join, Goto
<1>46. CASE UNCHANGED vars
  BY <1>46 DEF vars
<1> QED
  BY <1>1, <1>2, <1>3, <1>4, <1>5, <1>6, <1>7, <1>8, <1>9, <1>10, <1>11, <1>12, <1>13,
     <1>14, <1>15, <1>16, <1>17, <1>18, <1>19, <1>20, <1>21, <1>22, <1>23, <1>24, <1>25,
     <1>26, <1>27, <1>28, <1>29, <1>30, <1>31, <1>32, <1>33, <1>34, <1>35, <1>36, <1>37,
     <1>38, <1>39, <1>40, <1>41, <1>42, <1>43, <1>44, <1>45, <1>46
     DEF Next, NotifyStep, SchedulerStep, UserStep, ScheduleStep, SleepStep, AwakeStep,
         MainStep, MainThread, Environment, Terminated

\* The task queues, locks and flags that other threads see keep their types.
LEMMA SharedTypesStep == TInv /\ [Next]_vars => SharedTypes'
<1> SUFFICES ASSUME TInv, [Next]_vars PROVE SharedTypes'
  OBVIOUS
<1> USE SizeAssumption, TaskAssumption
<1>0. TypeOK /\ ThreadInv
  BY DEF TInv
<1> USE <1>0
<1>b. Sch \subseteq Thread /\ Main \in Thread /\ Free \notin Thread
  BY DEF Sch, Thread, Main, Free
<1> USE <1>b
<1> USE DEF SharedTypes, ThreadTypes, shared_vars, exit_vars, TypeOK, SchedulerState
<1>1. ASSUME NEW th \in Thread, MinLoad(th) PROVE SharedTypes'
  BY <1>1 DEF MinLoad, Goto
<1>2. ASSUME NEW th \in Thread, Enque(th) PROVE SharedTypes'
  <2>1. hand[th] \in Task /\ target[th] \in Sch
    BY <1>2 DEF Enque, ThreadInv, AsyncPc
  <2> QED
    BY <1>2, <2>1 DEF Enque
<1>3. ASSUME NEW th \in Thread, NotifyLock(th) PROVE SharedTypes'
  BY <1>3 DEF NotifyLock, Goto
<1>4. ASSUME NEW th \in Thread, NotifyFire(th) PROVE SharedTypes'
  BY <1>4 DEF NotifyFire, Goto
<1>5. ASSUME NEW s \in Sch, Async(s) PROVE SharedTypes'
  BY <1>5 DEF Async, NewTask, Goto
<1>6. ASSUME NEW s \in Sch, Yield(s) PROVE SharedTypes'
  BY <1>6 DEF Yield, Spend, Goto
<1>7. ASSUME NEW s \in Sch, StartIo(s) PROVE SharedTypes'
  BY <1>7 DEF StartIo, Spend, Goto
<1>8. ASSUME NEW s \in Sch, SleepUntil(s) PROVE SharedTypes'
  BY <1>8 DEF SleepUntil, Spend, Goto
<1>9. ASSUME NEW s \in Sch, WaitTask(s) PROVE SharedTypes'
  BY <1>9 DEF WaitTask, AddWaiter, Goto
<1>10. ASSUME NEW s \in Sch, WaitCondOrSleep(s) PROVE SharedTypes'
  BY <1>10 DEF WaitCondOrSleep, Resume, Goto
<1>11. ASSUME NEW s \in Sch, Recheck(s) PROVE SharedTypes'
  BY <1>11 DEF Recheck, AddWaiter, Goto
<1>12. ASSUME NEW s \in Sch, Finish(s) PROVE SharedTypes'
  BY <1>12 DEF Finish, Goto
<1>13. ASSUME NEW s \in Sch, NotifyWaiter(s) PROVE SharedTypes'
  BY <1>13 DEF NotifyWaiter, Goto
<1>14. ASSUME NEW s \in Sch, ParkIdle(s) PROVE SharedTypes'
  BY <1>14 DEF ParkIdle, Goto
<1>15. ASSUME NEW s \in Sch, ScheduleIo(s) PROVE SharedTypes'
  BY <1>15 DEF ScheduleIo, Goto
<1>16. ASSUME NEW s \in Sch, ScheduleWaiting(s) PROVE SharedTypes'
  BY <1>16 DEF ScheduleWaiting, Goto
<1>17. ASSUME NEW s \in Sch, ScheduleIdle(s) PROVE SharedTypes'
  <2>1. CASE runnable[s] = <<>> /\ idle[s] # <<>> /\ has_tasks(s)
    <3>1. Tail(m_tasks[s]) \in Seq(Task)
      BY <2>1 DEF has_tasks
    <3>2. m_tasks' = [m_tasks EXCEPT ![s] = Tail(@)]
      BY <1>17, <2>1 DEF ScheduleIdle, GiveTask
    <3>3. m_tasks' \in [Sch -> Seq(Task)]
      BY <3>1, <3>2
    <3> QED
      BY <1>17, <3>3 DEF ScheduleIdle
  <2>2. CASE ~ (runnable[s] = <<>> /\ idle[s] # <<>> /\ has_tasks(s))
    BY <1>17, <2>2 DEF ScheduleIdle
  <2> QED
    BY <2>1, <2>2
<1>18. ASSUME NEW s \in Sch, ScheduleYielded(s) PROVE SharedTypes'
  BY <1>18 DEF ScheduleYielded, Goto
<1>19. ASSUME NEW s \in Sch, StealWork(s) PROVE SharedTypes'
  BY <1>19 DEF StealWork, Goto
<1>20. ASSUME NEW s \in Sch, Rob(s) PROVE SharedTypes'
  <2>1. CASE has_tasks(it[s])
    <3>1. it[s] \in Sch /\ Tail(m_tasks[it[s]]) \in Seq(Task)
      BY <1>20, <2>1 DEF Rob, ThreadInv, has_tasks
    <3>2. m_tasks' = [m_tasks EXCEPT ![it[s]] = Tail(@)]
      BY <1>20, <2>1 DEF Rob, GiveTask
    <3>3. m_tasks' \in [Sch -> Seq(Task)]
      BY <3>1, <3>2
    <3> QED
      BY <1>20, <3>3 DEF Rob
  <2>2. CASE ~ has_tasks(it[s])
    BY <1>20, <2>2 DEF Rob
  <2> QED
    BY <2>1, <2>2
<1>21. ASSUME NEW s \in Sch, PrepareExec(s) PROVE SharedTypes'
  BY <1>21 DEF PrepareExec, Resume, Goto
<1>22. ASSUME NEW s \in Sch, SpinOrPoll(s) PROVE SharedTypes'
  BY <1>22 DEF SpinOrPoll, Goto
<1>23. ASSUME NEW s \in Sch, SleepLock(s) PROVE SharedTypes'
  <2>1. CASE StayAwake(s)
    BY <1>23, <2>1 DEF SleepLock
  <2>2. CASE ~ StayAwake(s)
    BY <1>23, <2>2 DEF SleepLock
  <2> QED
    BY <2>1, <2>2
<1>24. ASSUME NEW s \in Sch, EnterWait(s) PROVE SharedTypes'
  BY <1>24 DEF EnterWait, Goto
<1>25. ASSUME NEW s \in Sch, SignalIdle(s) PROVE SharedTypes'
  BY <1>25 DEF SignalIdle, Goto
<1>26. ASSUME NEW s \in Sch, SetCheckIdle(s) PROVE SharedTypes'
  BY <1>26 DEF SetCheckIdle, Goto
<1>27. ASSUME NEW s \in Sch, NotifyMain(s) PROVE SharedTypes'
  BY <1>27 DEF NotifyMain, Goto
<1>28. ASSUME NEW s \in Sch, EnterSleep(s) PROVE SharedTypes'
  BY <1>28 DEF EnterSleep, Goto
<1>29. ASSUME NEW s \in Sch, SignalRunning(s) PROVE SharedTypes'
  BY <1>29 DEF SignalRunning, Goto
<1>30. ASSUME NEW s \in Sch, ShouldExit(s) PROVE SharedTypes'
  BY <1>30 DEF ShouldExit, Goto
<1>31. ASSUME NEW s \in Sch, Wake(s) PROVE SharedTypes'
  <2>1. CASE pc[s] = "idle_wait"
    BY <1>31, <2>1 DEF Wake
  <2>2. CASE pc[s] # "idle_wait"
    <3>1. m_mtx' = [m_mtx EXCEPT ![s] = s] /\ signaled' = [signaled EXCEPT ![s] = FALSE]
      BY <1>31, <2>2 DEF Wake
    <3>2. UNCHANGED <<m_tasks, m_running, m_state, m_exit, m_idle_schedulers, m_check_idle>>
      BY <1>31, <2>2 DEF Wake
    <3> QED
      BY <3>1, <3>2
  <2> QED
    BY <2>1, <2>2
<1>32. ASSUME NEW s \in Sch, WakeInVain(s) PROVE SharedTypes'
  BY <1>32 DEF WakeInVain, Goto
<1>33. ASSUME NEW s \in Sch, SpinElapses(s) PROVE SharedTypes'
  BY <1>33 DEF SpinElapses, Goto
<1>34. ASSUME NEW w \in Worker, Tick(w) PROVE SharedTypes'
  BY <1>34 DEF Tick, Goto
<1>35. ASSUME NEW w \in Worker, IoCompletes(w) PROVE SharedTypes'
  BY <1>35 DEF IoCompletes, Goto
<1>36. CASE MainAsync
  BY <1>36 DEF MainAsync, NewTask, Goto
<1>37. CASE CheckIdle
  BY <1>37 DEF CheckIdle, Goto
<1>38. CASE AllIdleCount
  BY <1>38 DEF AllIdleCount, Goto
<1>39. CASE AllIdleTasks
  BY <1>39 DEF AllIdleTasks, Goto
<1>40. CASE AllIdleLock
  BY <1>40 DEF AllIdleLock
<1>41. CASE AllIdleCheck
  BY <1>41 DEF AllIdleCheck, Goto
<1>42. CASE Relock
  BY <1>42 DEF Relock, Goto
<1>43. CASE MainWake
  BY <1>43 DEF MainWake, Goto
<1>44. CASE Destroy
  BY <1>44 DEF Destroy, Goto
<1>45. CASE Join
  BY <1>45 DEF Join, Goto
<1>46. CASE UNCHANGED vars
  BY <1>46 DEF vars
<1> QED
  BY <1>1, <1>2, <1>3, <1>4, <1>5, <1>6, <1>7, <1>8, <1>9, <1>10, <1>11, <1>12, <1>13,
     <1>14, <1>15, <1>16, <1>17, <1>18, <1>19, <1>20, <1>21, <1>22, <1>23, <1>24, <1>25,
     <1>26, <1>27, <1>28, <1>29, <1>30, <1>31, <1>32, <1>33, <1>34, <1>35, <1>36, <1>37,
     <1>38, <1>39, <1>40, <1>41, <1>42, <1>43, <1>44, <1>45, <1>46
     DEF Next, NotifyStep, SchedulerStep, UserStep, ScheduleStep, SleepStep, AwakeStep,
         MainStep, MainThread, Environment, Terminated

\* The workers' states, tasks and wait information keep their types.
LEMMA WorkerTypesStep == TInv /\ [Next]_vars => WorkerTypes'
<1> SUFFICES ASSUME TInv, [Next]_vars PROVE WorkerTypes'
  OBVIOUS
<1> USE SizeAssumption, TaskAssumption
<1>0. TypeOK /\ ThreadInv
  BY DEF TInv
<1> USE <1>0
<1> USE DEF WorkerTypes, worker_vars, TypeOK, WorkerState, TimerState
<1>1. ASSUME NEW th \in Thread, MinLoad(th) PROVE WorkerTypes'
  BY <1>1 DEF MinLoad, Goto
<1>2. ASSUME NEW th \in Thread, Enque(th) PROVE WorkerTypes'
  BY <1>2 DEF Enque, Goto
<1>3. ASSUME NEW th \in Thread, NotifyLock(th) PROVE WorkerTypes'
  BY <1>3 DEF NotifyLock, Goto
<1>4. ASSUME NEW th \in Thread, NotifyFire(th) PROVE WorkerTypes'
  BY <1>4 DEF NotifyFire, Goto
<1>5. ASSUME NEW s \in Sch, Async(s) PROVE WorkerTypes'
  BY <1>5 DEF Async, NewTask, Goto
<1>6. ASSUME NEW s \in Sch, Yield(s) PROVE WorkerTypes'
  BY <1>6 DEF Yield, Spend, Goto
<1>7. ASSUME NEW s \in Sch, StartIo(s) PROVE WorkerTypes'
  BY <1>7 DEF StartIo, Spend, Goto
<1>8. ASSUME NEW s \in Sch, SleepUntil(s) PROVE WorkerTypes'
  BY <1>8 DEF SleepUntil, Spend, Goto
<1>9. ASSUME NEW s \in Sch, WaitTask(s) PROVE WorkerTypes'
  <2>1. PICK t \in Task : AddWaiter(s, t)
    BY <1>9 DEF WaitTask
  <2>2. /\ wstate' = wstate /\ wtask' = wtask /\ io' = io
    BY <1>9 DEF WaitTask
  <2>3. awaits' \in [Worker -> Task \cup {NoTask}]
    BY <2>1 DEF AddWaiter
  <2>4. cond' \in [Worker -> BOOLEAN] /\ timer' \in [Worker -> TimerState]
    BY <2>1 DEF AddWaiter
  <2> QED
    BY <2>2, <2>3, <2>4
<1>10. ASSUME NEW s \in Sch, WaitCondOrSleep(s) PROVE WorkerTypes'
  BY <1>10 DEF WaitCondOrSleep, Resume, Goto
<1>11. ASSUME NEW s \in Sch, Recheck(s) PROVE WorkerTypes'
  <2> DEFINE t == awaits[m_worker[s]]
  <2>0. m_worker[s] \in Worker /\ t \in Task \cup {NoTask}
    BY DEF QueueTypes
  <2>1. /\ wstate' = wstate /\ wtask' = wtask /\ io' = io
    BY <1>11 DEF Recheck
  <2>2. CASE tstate[t] = "done"
    BY <1>11, <2>1, <2>2 DEF Recheck
  <2>3. CASE tstate[t] # "done"
    <3>1. AddWaiter(s, t)
      BY <1>11, <2>3 DEF Recheck
    <3>2. awaits' \in [Worker -> Task \cup {NoTask}]
      BY <3>1, <2>0 DEF AddWaiter
    <3>3. cond' \in [Worker -> BOOLEAN] /\ timer' \in [Worker -> TimerState]
      BY <3>1 DEF AddWaiter
    <3> QED
      BY <2>1, <3>2, <3>3
  <2> QED
    BY <2>2, <2>3
<1>12. ASSUME NEW s \in Sch, Finish(s) PROVE WorkerTypes'
  BY <1>12 DEF Finish, Goto
<1>13. ASSUME NEW s \in Sch, NotifyWaiter(s) PROVE WorkerTypes'
  BY <1>13 DEF NotifyWaiter, Goto
<1>14. ASSUME NEW s \in Sch, ParkIdle(s) PROVE WorkerTypes'
  BY <1>14 DEF ParkIdle, Goto
<1>15. ASSUME NEW s \in Sch, ScheduleIo(s) PROVE WorkerTypes'
  BY <1>15 DEF ScheduleIo, Goto
<1>16. ASSUME NEW s \in Sch, ScheduleWaiting(s) PROVE WorkerTypes'
  BY <1>16 DEF ScheduleWaiting, Goto
<1>17. ASSUME NEW s \in Sch, ScheduleIdle(s) PROVE WorkerTypes'
  <2>1. CASE runnable[s] = <<>> /\ idle[s] # <<>> /\ has_tasks(s)
    <3>1. Head(m_tasks[s]) \in Task
      BY <2>1 DEF has_tasks, SharedTypes
    <3>2. /\ wtask' = [wtask EXCEPT ![Head(idle[s])] = Head(m_tasks[s])]
          /\ wstate' = [wstate EXCEPT ![Head(idle[s])] = "runnable"]
      BY <1>17, <2>1 DEF ScheduleIdle, GiveTask
    <3>3. wtask' \in [Worker -> Task \cup {NoTask}]
      BY <3>1, <3>2
    <3>4. wstate' \in [Worker -> WorkerState]
      BY <3>1, <3>2
    <3> QED
      BY <1>17, <3>3, <3>4 DEF ScheduleIdle
  <2>2. CASE ~ (runnable[s] = <<>> /\ idle[s] # <<>> /\ has_tasks(s))
    BY <1>17, <2>2 DEF ScheduleIdle
  <2> QED
    BY <2>1, <2>2
<1>18. ASSUME NEW s \in Sch, ScheduleYielded(s) PROVE WorkerTypes'
  BY <1>18 DEF ScheduleYielded, Goto
<1>19. ASSUME NEW s \in Sch, StealWork(s) PROVE WorkerTypes'
  BY <1>19 DEF StealWork, Goto
<1>20. ASSUME NEW s \in Sch, Rob(s) PROVE WorkerTypes'
  <2>1. CASE has_tasks(it[s])
    <3>0. idle[s] # <<>> /\ it[s] \in Sch
      BY <1>20 DEF Rob, ThreadInv
    <3>1. Head(m_tasks[it[s]]) \in Task
      BY <2>1, <3>0 DEF has_tasks, SharedTypes
    <3>2. /\ wtask' = [wtask EXCEPT ![Head(idle[s])] = Head(m_tasks[it[s]])]
          /\ wstate' = [wstate EXCEPT ![Head(idle[s])] = "runnable"]
      BY <1>20, <2>1 DEF Rob, GiveTask
    <3>3. wtask' \in [Worker -> Task \cup {NoTask}]
      BY <3>1, <3>2
    <3>4. wstate' \in [Worker -> WorkerState]
      BY <3>1, <3>2
    <3> QED
      BY <1>20, <3>3, <3>4 DEF Rob
  <2>2. CASE ~ has_tasks(it[s])
    BY <1>20, <2>2 DEF Rob
  <2> QED
    BY <2>1, <2>2
<1>21. ASSUME NEW s \in Sch, PrepareExec(s) PROVE WorkerTypes'
  BY <1>21 DEF PrepareExec, Resume, Goto
<1>22. ASSUME NEW s \in Sch, SpinOrPoll(s) PROVE WorkerTypes'
  BY <1>22 DEF SpinOrPoll, Goto
<1>23. ASSUME NEW s \in Sch, SleepLock(s) PROVE WorkerTypes'
  BY <1>23 DEF SleepLock, Goto
<1>24. ASSUME NEW s \in Sch, EnterWait(s) PROVE WorkerTypes'
  BY <1>24 DEF EnterWait, Goto
<1>25. ASSUME NEW s \in Sch, SignalIdle(s) PROVE WorkerTypes'
  BY <1>25 DEF SignalIdle, Goto
<1>26. ASSUME NEW s \in Sch, SetCheckIdle(s) PROVE WorkerTypes'
  BY <1>26 DEF SetCheckIdle, Goto
<1>27. ASSUME NEW s \in Sch, NotifyMain(s) PROVE WorkerTypes'
  BY <1>27 DEF NotifyMain, Goto
<1>28. ASSUME NEW s \in Sch, EnterSleep(s) PROVE WorkerTypes'
  BY <1>28 DEF EnterSleep, Goto
<1>29. ASSUME NEW s \in Sch, SignalRunning(s) PROVE WorkerTypes'
  BY <1>29 DEF SignalRunning, Goto
<1>30. ASSUME NEW s \in Sch, ShouldExit(s) PROVE WorkerTypes'
  BY <1>30 DEF ShouldExit, Goto
<1>31. ASSUME NEW s \in Sch, Wake(s) PROVE WorkerTypes'
  BY <1>31 DEF Wake, Goto
<1>32. ASSUME NEW s \in Sch, WakeInVain(s) PROVE WorkerTypes'
  BY <1>32 DEF WakeInVain, Goto
<1>33. ASSUME NEW s \in Sch, SpinElapses(s) PROVE WorkerTypes'
  BY <1>33 DEF SpinElapses, Goto
<1>34. ASSUME NEW w \in Worker, Tick(w) PROVE WorkerTypes'
  BY <1>34 DEF Tick, Goto
<1>35. ASSUME NEW w \in Worker, IoCompletes(w) PROVE WorkerTypes'
  BY <1>35 DEF IoCompletes, Goto
<1>36. CASE MainAsync
  BY <1>36 DEF MainAsync, NewTask, Goto
<1>37. CASE CheckIdle
  BY <1>37 DEF CheckIdle, Goto
<1>38. CASE AllIdleCount
  BY <1>38 DEF AllIdleCount, Goto
<1>39. CASE AllIdleTasks
  BY <1>39 DEF AllIdleTasks, Goto
<1>40. CASE AllIdleLock
  BY <1>40 DEF AllIdleLock, Goto
<1>41. CASE AllIdleCheck
  BY <1>41 DEF AllIdleCheck, Goto
<1>42. CASE Relock
  BY <1>42 DEF Relock, Goto
<1>43. CASE MainWake
  BY <1>43 DEF MainWake, Goto
<1>44. CASE Destroy
  BY <1>44 DEF Destroy, Goto
<1>45. CASE Join
  BY <1>45 DEF Join, Goto
<1>46. CASE UNCHANGED vars
  BY <1>46 DEF vars
<1> QED
  BY <1>1, <1>2, <1>3, <1>4, <1>5, <1>6, <1>7, <1>8, <1>9, <1>10, <1>11, <1>12, <1>13,
     <1>14, <1>15, <1>16, <1>17, <1>18, <1>19, <1>20, <1>21, <1>22, <1>23, <1>24, <1>25,
     <1>26, <1>27, <1>28, <1>29, <1>30, <1>31, <1>32, <1>33, <1>34, <1>35, <1>36, <1>37,
     <1>38, <1>39, <1>40, <1>41, <1>42, <1>43, <1>44, <1>45, <1>46
     DEF Next, NotifyStep, SchedulerStep, UserStep, ScheduleStep, SleepStep, AwakeStep,
         MainStep, MainThread, Environment, Terminated

\* The tasks' states keep their types and no task exceeds its budget.
LEMMA TaskTypesStep == TInv /\ [Next]_vars => TaskTypes'
<1> SUFFICES ASSUME TInv, [Next]_vars PROVE TaskTypes'
  OBVIOUS
<1> USE SizeAssumption, TaskAssumption
<1>0. TypeOK /\ ThreadInv
  BY DEF TInv
<1> USE <1>0
<1> USE DEF TaskTypes, task_vars, TypeOK
<1>1. ASSUME NEW th \in Thread, MinLoad(th) PROVE TaskTypes'
  BY <1>1 DEF MinLoad, Goto
<1>2. ASSUME NEW th \in Thread, Enque(th) PROVE TaskTypes'
  BY <1>2 DEF Enque, Goto
<1>3. ASSUME NEW th \in Thread, NotifyLock(th) PROVE TaskTypes'
  BY <1>3 DEF NotifyLock, Goto
<1>4. ASSUME NEW th \in Thread, NotifyFire(th) PROVE TaskTypes'
  BY <1>4 DEF NotifyFire, Goto
<1>5. ASSUME NEW s \in Sch, Async(s) PROVE TaskTypes'
  <2>1. Running(s) \in Task \cup {NoTask}
    BY DEF Running, QueueTypes, WorkerTypes
  <2> QED
    BY <1>5, <2>1 DEF Async, NewTask
<1>6. ASSUME NEW s \in Sch, Yield(s) PROVE TaskTypes'
  <2>1. Running(s) \in Task \cup {NoTask}
    BY DEF Running, QueueTypes, WorkerTypes
  <2>2. tstate' = tstate /\ spawner' = spawner /\ Spend(s)
    BY <1>6 DEF Yield
  <2>3. ops' \in [Task -> 0..MaxOps]
    <3>1. ASSUME NEW t \in Task PROVE ops'[t] \in 0..MaxOps
      BY <2>2, <3>1 DEF Spend
    <3> QED
      BY <2>2, <3>1 DEF Spend
  <2> QED
    BY <2>2, <2>3
<1>7. ASSUME NEW s \in Sch, StartIo(s) PROVE TaskTypes'
  <2>1. Running(s) \in Task \cup {NoTask}
    BY DEF Running, QueueTypes, WorkerTypes
  <2>2. tstate' = tstate /\ spawner' = spawner /\ Spend(s)
    BY <1>7 DEF StartIo
  <2>3. ops' \in [Task -> 0..MaxOps]
    <3>1. ASSUME NEW t \in Task PROVE ops'[t] \in 0..MaxOps
      BY <2>2, <3>1 DEF Spend
    <3> QED
      BY <2>2, <3>1 DEF Spend
  <2> QED
    BY <2>2, <2>3
<1>8. ASSUME NEW s \in Sch, SleepUntil(s) PROVE TaskTypes'
  <2>1. Running(s) \in Task \cup {NoTask}
    BY DEF Running, QueueTypes, WorkerTypes
  <2>2. tstate' = tstate /\ spawner' = spawner /\ Spend(s)
    BY <1>8 DEF SleepUntil
  <2>3. ops' \in [Task -> 0..MaxOps]
    <3>1. ASSUME NEW t \in Task PROVE ops'[t] \in 0..MaxOps
      BY <2>2, <3>1 DEF Spend
    <3> QED
      BY <2>2, <3>1 DEF Spend
  <2> QED
    BY <2>2, <2>3
<1>9. ASSUME NEW s \in Sch, WaitTask(s) PROVE TaskTypes'
  BY <1>9 DEF WaitTask, AddWaiter, Goto
<1>10. ASSUME NEW s \in Sch, WaitCondOrSleep(s) PROVE TaskTypes'
  BY <1>10 DEF WaitCondOrSleep, Resume, Goto
<1>11. ASSUME NEW s \in Sch, Recheck(s) PROVE TaskTypes'
  BY <1>11 DEF Recheck, AddWaiter, Goto
<1>12. ASSUME NEW s \in Sch, Finish(s) PROVE TaskTypes'
  BY <1>12 DEF Finish
<1>13. ASSUME NEW s \in Sch, NotifyWaiter(s) PROVE TaskTypes'
  BY <1>13 DEF NotifyWaiter, Goto
<1>14. ASSUME NEW s \in Sch, ParkIdle(s) PROVE TaskTypes'
  BY <1>14 DEF ParkIdle, Goto
<1>15. ASSUME NEW s \in Sch, ScheduleIo(s) PROVE TaskTypes'
  BY <1>15 DEF ScheduleIo, Goto
<1>16. ASSUME NEW s \in Sch, ScheduleWaiting(s) PROVE TaskTypes'
  BY <1>16 DEF ScheduleWaiting, Goto
<1>17. ASSUME NEW s \in Sch, ScheduleIdle(s) PROVE TaskTypes'
  BY <1>17 DEF ScheduleIdle, GiveTask, Goto
<1>18. ASSUME NEW s \in Sch, ScheduleYielded(s) PROVE TaskTypes'
  BY <1>18 DEF ScheduleYielded, Goto
<1>19. ASSUME NEW s \in Sch, StealWork(s) PROVE TaskTypes'
  BY <1>19 DEF StealWork, Goto
<1>20. ASSUME NEW s \in Sch, Rob(s) PROVE TaskTypes'
  BY <1>20 DEF Rob, GiveTask, Goto
<1>21. ASSUME NEW s \in Sch, PrepareExec(s) PROVE TaskTypes'
  BY <1>21 DEF PrepareExec, Resume, Goto
<1>22. ASSUME NEW s \in Sch, SpinOrPoll(s) PROVE TaskTypes'
  BY <1>22 DEF SpinOrPoll, Goto
<1>23. ASSUME NEW s \in Sch, SleepLock(s) PROVE TaskTypes'
  BY <1>23 DEF SleepLock, Goto
<1>24. ASSUME NEW s \in Sch, EnterWait(s) PROVE TaskTypes'
  BY <1>24 DEF EnterWait, Goto
<1>25. ASSUME NEW s \in Sch, SignalIdle(s) PROVE TaskTypes'
  BY <1>25 DEF SignalIdle, Goto
<1>26. ASSUME NEW s \in Sch, SetCheckIdle(s) PROVE TaskTypes'
  BY <1>26 DEF SetCheckIdle, Goto
<1>27. ASSUME NEW s \in Sch, NotifyMain(s) PROVE TaskTypes'
  BY <1>27 DEF NotifyMain, Goto
<1>28. ASSUME NEW s \in Sch, EnterSleep(s) PROVE TaskTypes'
  BY <1>28 DEF EnterSleep, Goto
<1>29. ASSUME NEW s \in Sch, SignalRunning(s) PROVE TaskTypes'
  BY <1>29 DEF SignalRunning, Goto
<1>30. ASSUME NEW s \in Sch, ShouldExit(s) PROVE TaskTypes'
  BY <1>30 DEF ShouldExit, Goto
<1>31. ASSUME NEW s \in Sch, Wake(s) PROVE TaskTypes'
  BY <1>31 DEF Wake, Goto
<1>32. ASSUME NEW s \in Sch, WakeInVain(s) PROVE TaskTypes'
  BY <1>32 DEF WakeInVain, Goto
<1>33. ASSUME NEW s \in Sch, SpinElapses(s) PROVE TaskTypes'
  BY <1>33 DEF SpinElapses, Goto
<1>34. ASSUME NEW w \in Worker, Tick(w) PROVE TaskTypes'
  BY <1>34 DEF Tick, Goto
<1>35. ASSUME NEW w \in Worker, IoCompletes(w) PROVE TaskTypes'
  BY <1>35 DEF IoCompletes, Goto
<1>36. CASE MainAsync
  BY <1>36 DEF MainAsync, NewTask, Goto
<1>37. CASE CheckIdle
  BY <1>37 DEF CheckIdle, Goto
<1>38. CASE AllIdleCount
  BY <1>38 DEF AllIdleCount, Goto
<1>39. CASE AllIdleTasks
  BY <1>39 DEF AllIdleTasks, Goto
<1>40. CASE AllIdleLock
  BY <1>40 DEF AllIdleLock, Goto
<1>41. CASE AllIdleCheck
  BY <1>41 DEF AllIdleCheck, Goto
<1>42. CASE Relock
  BY <1>42 DEF Relock, Goto
<1>43. CASE MainWake
  BY <1>43 DEF MainWake, Goto
<1>44. CASE Destroy
  BY <1>44 DEF Destroy, Goto
<1>45. CASE Join
  BY <1>45 DEF Join, Goto
<1>46. CASE UNCHANGED vars
  BY <1>46 DEF vars
<1> QED
  BY <1>1, <1>2, <1>3, <1>4, <1>5, <1>6, <1>7, <1>8, <1>9, <1>10, <1>11, <1>12, <1>13,
     <1>14, <1>15, <1>16, <1>17, <1>18, <1>19, <1>20, <1>21, <1>22, <1>23, <1>24, <1>25,
     <1>26, <1>27, <1>28, <1>29, <1>30, <1>31, <1>32, <1>33, <1>34, <1>35, <1>36, <1>37,
     <1>38, <1>39, <1>40, <1>41, <1>42, <1>43, <1>44, <1>45, <1>46
     DEF Next, NotifyStep, SchedulerStep, UserStep, ScheduleStep, SleepStep, AwakeStep,
         MainStep, MainThread, Environment, Terminated

\* Every step keeps what the threads hold at their control points.
LEMMA ThreadInvStep == TInv /\ [Next]_vars => ThreadInv'
<1> SUFFICES ASSUME TInv, [Next]_vars PROVE ThreadInv'
  OBVIOUS
<1> USE SizeAssumption, TaskAssumption
<1>0. TypeOK /\ ThreadInv
  BY DEF TInv
<1> USE <1>0
<1>a. /\ "run" \in SchedulerPc /\ "wait_check" \in SchedulerPc /\ "recheck" \in SchedulerPc
      /\ "done" \in SchedulerPc /\ "reset" \in SchedulerPc /\ "io" \in SchedulerPc
      /\ "waiting" \in SchedulerPc /\ "idle" \in SchedulerPc /\ "yielded" \in SchedulerPc
      /\ "steal" \in SchedulerPc /\ "rob" \in SchedulerPc /\ "decide" \in SchedulerPc
      /\ "enter_wait" \in SchedulerPc /\ "enter_sleep" \in SchedulerPc /\ "signal_idle" \in SchedulerPc
      /\ "notify_main" \in SchedulerPc /\ "sleep" \in SchedulerPc /\ "idle_wait" \in SchedulerPc
      /\ "idle_sleep" \in SchedulerPc /\ "woken" \in SchedulerPc /\ "exit_check" \in SchedulerPc
      /\ "exited" \in SchedulerPc
  BY DEF SchedulerPc
<1>m. /\ "async" \in MainPc /\ "pred" \in MainPc /\ "cv_wait" \in MainPc /\ "count" \in MainPc
      /\ "tasks" \in MainPc /\ "lock_all" \in MainPc /\ "check" \in MainPc /\ "relock" \in MainPc
      /\ "destroy" \in MainPc /\ "join" \in MainPc /\ "end" \in MainPc
  BY DEF MainPc
<1>d. /\ SchedulerPc \cap (NotifyPc \cup AsyncPc) = {} /\ MainPc \cap (NotifyPc \cup AsyncPc) = {}
  BY DEF SchedulerPc, MainPc, NotifyPc, AsyncPc
<1>b. Sch \subseteq Thread /\ Main \in Thread /\ Main \notin Sch
  BY DEF Sch, Thread, Main
<1> USE <1>a, <1>b, <1>d, <1>m
<1> USE DEF ThreadInv, ThreadTypes, thread_vars, queue_vars, NotifyPc, AsyncPc, TypeOK
<1>1. ASSUME NEW th \in Thread, MinLoad(th) PROVE ThreadInv'
  <2>1. it[th] \in Sch /\ target[th] \in Sch /\ pc[th] = "min_load"
    BY <1>1 DEF MinLoad
  <2>2. /\ ret' = ret /\ hand' = hand /\ idle' = idle
        /\ pc' = [pc EXCEPT ![th] = IF it[th] = N THEN "enque" ELSE "min_load"]
        /\ it' = [it EXCEPT ![th] = IF @ = N THEN 1 ELSE @ + 1]
    BY <1>1 DEF MinLoad, Goto
  <2>3. target'[th] \in Sch /\ \A k \in Thread : k # th => target'[k] = target[k]
    BY <1>1, <2>1 DEF MinLoad
  <2>4. pc'[th] = "min_load" => it'[th] \in Sch
    BY <2>1, <2>2 DEF Sch
  <2> QED
    BY <2>1, <2>2, <2>3, <2>4
<1>2. ASSUME NEW th \in Thread, Enque(th) PROVE ThreadInv'
  BY <1>2 DEF Enque, Goto
<1>3. ASSUME NEW th \in Thread, NotifyLock(th) PROVE ThreadInv'
  BY <1>3 DEF NotifyLock, Goto
<1>4. ASSUME NEW th \in Thread, NotifyFire(th) PROVE ThreadInv'
  BY <1>4 DEF NotifyFire, Goto
<1>5. ASSUME NEW s \in Sch, Async(s) PROVE ThreadInv'
  <2>1. PICK t \in Task : NewTask(s, t)
    BY <1>5 DEF Async
  <2>2. ret' = [ret EXCEPT ![s] = "run"] /\ idle' = idle /\ pc[s] = "run"
    BY <1>5 DEF Async
  <2>3. /\ target' = [target EXCEPT ![s] = 1] /\ it' = [it EXCEPT ![s] = 2]
        /\ hand' = [hand EXCEPT ![s] = t]
    BY <2>1 DEF NewTask
  <2>4. pc' = [pc EXCEPT ![s] = IF N = 1 THEN "enque" ELSE "min_load"]
    BY <2>1 DEF NewTask, Goto
  <2>5. 1 \in Sch /\ (N # 1 => 2 \in Sch)
    BY DEF Sch
  <2> QED
    BY <2>2, <2>3, <2>4, <2>5
<1>6. ASSUME NEW s \in Sch, Yield(s) PROVE ThreadInv'
  BY <1>6 DEF Yield, Spend, Goto
<1>7. ASSUME NEW s \in Sch, StartIo(s) PROVE ThreadInv'
  BY <1>7 DEF StartIo, Spend, Goto
<1>8. ASSUME NEW s \in Sch, SleepUntil(s) PROVE ThreadInv'
  BY <1>8 DEF SleepUntil, Spend, Goto
<1>9. ASSUME NEW s \in Sch, WaitTask(s) PROVE ThreadInv'
  BY <1>9 DEF WaitTask, AddWaiter, Goto
<1>10. ASSUME NEW s \in Sch, WaitCondOrSleep(s) PROVE ThreadInv'
  <2>1. CASE check_wait_info(m_worker[s])
    BY <1>10, <2>1 DEF WaitCondOrSleep, Resume, Goto
  <2>2. CASE ~ check_wait_info(m_worker[s])
    BY <1>10, <2>2 DEF WaitCondOrSleep, Resume, Goto
  <2> QED
    BY <2>1, <2>2
<1>11. ASSUME NEW s \in Sch, Recheck(s) PROVE ThreadInv'
  <2>1. /\ pc[s] = "recheck" /\ UNCHANGED <<ret, target, hand, idle, it>>
        /\ pc' = [pc EXCEPT ![s] = "run"] \/ pc' = [pc EXCEPT ![s] = "wait_check"]
    BY <1>11 DEF Recheck, AddWaiter, Goto
  <2>2. CASE pc' = [pc EXCEPT ![s] = "run"]
    BY <2>1, <2>2
  <2>3. CASE pc' = [pc EXCEPT ![s] = "wait_check"]
    BY <2>1, <2>3
  <2> QED
    BY <2>1, <2>2, <2>3
<1>12. ASSUME NEW s \in Sch, Finish(s) PROVE ThreadInv'
  BY <1>12 DEF Finish, Goto
<1>13. ASSUME NEW s \in Sch, NotifyWaiter(s) PROVE ThreadInv'
  <2>1. \A w \in Worker : Home(w) \in Sch
    BY DEF Worker, Home
  <2>2. hand' = hand /\ it' = it /\ idle' = idle /\ pc[s] = "done"
    BY <1>13 DEF NotifyWaiter
  <2>3. CASE Goto(s, "reset") /\ UNCHANGED <<ret, target>>
    BY <2>2, <2>3 DEF Goto
  <2>4. CASE \E w \in Worker : /\ target' = [target EXCEPT ![s] = Home(w)]
                               /\ ret' = [ret EXCEPT ![s] = "reset"]
                               /\ Goto(s, "notify")
    BY <2>1, <2>2, <2>4 DEF Goto
  <2> QED
    BY <1>13, <2>3, <2>4 DEF NotifyWaiter
<1>14. ASSUME NEW s \in Sch, ParkIdle(s) PROVE ThreadInv'
  BY <1>14 DEF ParkIdle, Goto
<1>15. ASSUME NEW s \in Sch, ScheduleIo(s) PROVE ThreadInv'
  <2>1. /\ pc[s] = "io" /\ UNCHANGED <<ret, target, hand, idle>>
        /\ pc' = pc \/ pc' = [pc EXCEPT ![s] = "waiting"]
        /\ \A k \in Thread : k # s => it'[k] = it[k]
    BY <1>15 DEF ScheduleIo, Goto
  <2>2. CASE pc' = pc
    BY <2>1, <2>2
  <2>3. CASE pc' = [pc EXCEPT ![s] = "waiting"]
    BY <2>1, <2>3
  <2> QED
    BY <2>1, <2>2, <2>3
<1>16. ASSUME NEW s \in Sch, ScheduleWaiting(s) PROVE ThreadInv'
  <2>1. /\ pc[s] = "waiting" /\ UNCHANGED <<ret, target, hand, idle>>
        /\ pc' = pc \/ pc' = [pc EXCEPT ![s] = "idle"]
        /\ \A k \in Thread : k # s => it'[k] = it[k]
    BY <1>16 DEF ScheduleWaiting, Goto
  <2>2. CASE pc' = pc
    BY <2>1, <2>2
  <2>3. CASE pc' = [pc EXCEPT ![s] = "idle"]
    BY <2>1, <2>3
  <2> QED
    BY <2>1, <2>2, <2>3
<1>17. ASSUME NEW s \in Sch, ScheduleIdle(s) PROVE ThreadInv'
  <2>1. /\ pc[s] = "idle" /\ pc' = [pc EXCEPT ![s] = "yielded"]
        /\ UNCHANGED <<ret, target, hand, it>>
    BY <1>17 DEF ScheduleIdle, Goto
  <2>2. \A k \in Sch : k # s => idle'[k] = idle[k]
    BY <1>17 DEF ScheduleIdle, GiveTask, QueueTypes
  <2>3. pc'[s] = "yielded" /\ \A th \in Thread : th # s => pc'[th] = pc[th]
    BY <2>1
  <2>4. UNCHANGED <<ret, target, hand, it>> /\ pc[s] \notin AsyncPc
    BY <2>1
  <2>5. pc'[Main] = pc[Main] /\ ret'[Main] = ret[Main]
    BY <2>3, <2>4
  <2>6. ASSUME NEW k \in Sch
        PROVE  /\ pc'[k] \in SchedulerPc \cup AsyncPc \cup NotifyPc
               /\ pc'[k] \in NotifyPc => ret'[k] \in {"run", "reset"}
               /\ pc'[k] \in AsyncPc => ret'[k] = "run"
               /\ pc'[k] = "rob" => idle'[k] # <<>> /\ it'[k] \in Sch
    BY <2>2, <2>3, <2>4
  <2>7. ASSUME NEW th \in Thread
        PROVE  /\ pc'[th] \in AsyncPc <=> hand'[th] # NoTask
               /\ pc'[th] \in NotifyPc \cup AsyncPc => target'[th] \in Sch
               /\ pc'[th] = "min_load" => it'[th] \in Sch
    BY <2>3, <2>4
  <2> QED
    BY <2>5, <2>6, <2>7
<1>18. ASSUME NEW s \in Sch, ScheduleYielded(s) PROVE ThreadInv'
  BY <1>18 DEF ScheduleYielded, Goto
<1>19. ASSUME NEW s \in Sch, StealWork(s) PROVE ThreadInv'
  <2>1. CASE ~ WorkStealing \/ runnable[s] # <<>> \/ idle[s] = <<>> \/ it[s] > N
    <3>1. /\ pc[s] = "steal" /\ UNCHANGED <<ret, target, hand, idle>>
          /\ pc' = [pc EXCEPT ![s] = "decide"] /\ it' = [it EXCEPT ![s] = 1]
      BY <1>19, <2>1 DEF StealWork, Goto
    <3> QED
      BY <3>1
  <2>2. CASE ~ (~ WorkStealing \/ runnable[s] # <<>> \/ idle[s] = <<>> \/ it[s] > N)
    <3>0. it[s] \in Sch /\ idle[s] # <<>>
      BY <2>2 DEF Sch, Thread
    <3>1. CASE it[s] # s /\ has_stealable_work(it[s])
      <4>1. /\ pc[s] = "steal" /\ UNCHANGED <<ret, target, hand, idle, it>>
            /\ pc' = [pc EXCEPT ![s] = "rob"]
        BY <1>19, <2>2, <3>1 DEF StealWork, Goto
      <4> QED
        BY <3>0, <4>1
    <3>2. CASE ~ (it[s] # s /\ has_stealable_work(it[s]))
      <4>1. /\ pc[s] = "steal" /\ UNCHANGED <<pc, ret, target, hand, idle>>
            /\ it' = [it EXCEPT ![s] = @ + 1]
        BY <1>19, <2>2, <3>2 DEF StealWork
      <4> QED
        BY <4>1
    <3> QED
      BY <3>1, <3>2
  <2> QED
    BY <2>1, <2>2
<1>20. ASSUME NEW s \in Sch, Rob(s) PROVE ThreadInv'
  <2>1. /\ pc[s] = "rob" /\ UNCHANGED <<ret, target, hand>>
        /\ pc' = [pc EXCEPT ![s] = "decide"] \/ pc' = [pc EXCEPT ![s] = "steal"]
        /\ \A k \in Thread : k # s => it'[k] = it[k]
    BY <1>20 DEF Rob, Goto
  <2>2. \A k \in Sch : k # s => idle'[k] = idle[k]
    BY <1>20 DEF Rob, GiveTask, QueueTypes
  <2>3. CASE pc' = [pc EXCEPT ![s] = "decide"]
    BY <2>1, <2>2, <2>3
  <2>4. CASE pc' = [pc EXCEPT ![s] = "steal"]
    BY <2>1, <2>2, <2>4
  <2> QED
    BY <2>1, <2>3, <2>4
<1>21. ASSUME NEW s \in Sch, PrepareExec(s) PROVE ThreadInv'
  BY <1>21 DEF PrepareExec, Resume, Goto
<1>22. ASSUME NEW s \in Sch, SpinOrPoll(s) PROVE ThreadInv'
  BY <1>22 DEF SpinOrPoll, Goto
<1>23. ASSUME NEW s \in Sch, SleepLock(s) PROVE ThreadInv'
  <2>1. /\ pc[s] = "decide" /\ UNCHANGED <<ret, target, hand, idle, it>>
        /\ \E l \in {"exit_check", "enter_wait", "enter_sleep"} : pc' = [pc EXCEPT ![s] = l]
    BY <1>23 DEF SleepLock, Goto
  <2> QED
    BY <2>1
<1>24. ASSUME NEW s \in Sch, EnterWait(s) PROVE ThreadInv'
  BY <1>24 DEF EnterWait, Goto
<1>25. ASSUME NEW s \in Sch, SignalIdle(s) PROVE ThreadInv'
  BY <1>25 DEF SignalIdle, Goto
<1>26. ASSUME NEW s \in Sch, SetCheckIdle(s) PROVE ThreadInv'
  BY <1>26 DEF SetCheckIdle, Goto
<1>27. ASSUME NEW s \in Sch, NotifyMain(s) PROVE ThreadInv'
  BY <1>27 DEF NotifyMain, Goto
<1>28. ASSUME NEW s \in Sch, EnterSleep(s) PROVE ThreadInv'
  BY <1>28 DEF EnterSleep, Goto
<1>29. ASSUME NEW s \in Sch, SignalRunning(s) PROVE ThreadInv'
  BY <1>29 DEF SignalRunning, Goto
<1>30. ASSUME NEW s \in Sch, ShouldExit(s) PROVE ThreadInv'
  <2>1. /\ pc[s] = "exit_check" /\ UNCHANGED <<ret, target, hand, idle>>
        /\ \A k \in Thread : k # s => it'[k] = it[k]
        /\ \E l \in {"io", "exited"} : pc' = [pc EXCEPT ![s] = l]
    BY <1>30 DEF ShouldExit, Goto
  <2> QED
    BY <2>1
<1>31. ASSUME NEW s \in Sch, Wake(s) PROVE ThreadInv'
  <2>1. /\ pc[s] \in {"idle_wait", "idle_sleep"} /\ UNCHANGED <<ret, target, hand, idle, it>>
        /\ pc' = [pc EXCEPT ![s] = "exit_check"] \/ pc' = [pc EXCEPT ![s] = "woken"]
    BY <1>31 DEF Wake, WaitOver, Goto
  <2>2. CASE pc' = [pc EXCEPT ![s] = "exit_check"]
    BY <2>1, <2>2
  <2>3. CASE pc' = [pc EXCEPT ![s] = "woken"]
    BY <2>1, <2>3
  <2> QED
    BY <2>1, <2>2, <2>3
<1>32. ASSUME NEW s \in Sch, WakeInVain(s) PROVE ThreadInv'
  BY <1>32 DEF WakeInVain, Goto
<1>33. ASSUME NEW s \in Sch, SpinElapses(s) PROVE ThreadInv'
  BY <1>33 DEF SpinElapses, Goto
<1>34. ASSUME NEW w \in Worker, Tick(w) PROVE ThreadInv'
  BY <1>34 DEF Tick, Goto
<1>35. ASSUME NEW w \in Worker, IoCompletes(w) PROVE ThreadInv'
  BY <1>35 DEF IoCompletes, Goto
<1>36. CASE MainAsync
  <2>1. PICK t \in Task : NewTask(Main, t)
    BY <1>36 DEF MainAsync
  <2>2. ret' = [ret EXCEPT ![Main] = "pred"] /\ idle' = idle /\ pc[Main] = "async"
    BY <1>36 DEF MainAsync
  <2>3. /\ target' = [target EXCEPT ![Main] = 1] /\ it' = [it EXCEPT ![Main] = 2]
        /\ hand' = [hand EXCEPT ![Main] = t]
    BY <2>1 DEF NewTask
  <2>4. pc' = [pc EXCEPT ![Main] = IF N = 1 THEN "enque" ELSE "min_load"]
    BY <2>1 DEF NewTask, Goto
  <2>5. 1 \in Sch /\ (N # 1 => 2 \in Sch)
    BY DEF Sch
  <2> QED
    BY <2>2, <2>3, <2>4, <2>5
<1>37. CASE CheckIdle
  BY <1>37 DEF CheckIdle, Goto
<1>38. CASE AllIdleCount
  BY <1>38 DEF AllIdleCount, Goto
<1>39. CASE AllIdleTasks
  BY <1>39 DEF AllIdleTasks, Goto
<1>40. CASE AllIdleLock
  BY <1>40 DEF AllIdleLock, Goto
<1>41. CASE AllIdleCheck
  BY <1>41 DEF AllIdleCheck, Goto
<1>42. CASE Relock
  BY <1>42 DEF Relock, Goto
<1>43. CASE MainWake
  BY <1>43 DEF MainWake, Goto
<1>44. CASE Destroy
  BY <1>44 DEF Destroy, Goto
<1>45. CASE Join
  BY <1>45 DEF Join, Goto
<1>46. CASE UNCHANGED vars
  BY <1>46 DEF vars
<1> QED
  BY <1>1, <1>2, <1>3, <1>4, <1>5, <1>6, <1>7, <1>8, <1>9, <1>10, <1>11, <1>12, <1>13,
     <1>14, <1>15, <1>16, <1>17, <1>18, <1>19, <1>20, <1>21, <1>22, <1>23, <1>24, <1>25,
     <1>26, <1>27, <1>28, <1>29, <1>30, <1>31, <1>32, <1>33, <1>34, <1>35, <1>36, <1>37,
     <1>38, <1>39, <1>40, <1>41, <1>42, <1>43, <1>44, <1>45, <1>46
     DEF Next, NotifyStep, SchedulerStep, UserStep, ScheduleStep, SleepStep, AwakeStep,
         MainStep, MainThread, Environment, Terminated

-----------------------------------------------------------------------------
\* The constructors leave a well-typed state.
LEMMA TInvInit == Init => TInv
<1> SUFFICES ASSUME Init PROVE TInv
  OBVIOUS
<1> USE SizeAssumption, TaskAssumption DEF Init
<1>1. ThreadTypes
  BY DEF ThreadTypes, Thread, Sch, Main, Free, Pc, NotifyPc, AsyncPc, SchedulerPc, MainPc
<1>2. QueueTypes
  <2>1. ASSUME NEW s \in Sch PROVE [i \in 1..K |-> <<s, i>>] \in Seq(Worker)
    <3>1. \A i \in 1..K : <<s, i>> \in Worker
      BY DEF Worker
    <3> QED
      BY <3>1
  <2>2. idle \in [Sch -> Seq(Worker)]
    BY <2>1
  <2>3. \A s \in Sch : <<s, 1>> \in Worker
    BY DEF Worker
  <2> QED
    BY <2>2, <2>3 DEF QueueTypes, SpinState
<1>3. SharedTypes
  BY DEF SharedTypes, Thread, Sch, Free, SchedulerState
<1>4. WorkerTypes
  BY DEF WorkerTypes, WorkerState, TimerState
<1>5. TaskTypes
  BY DEF TaskTypes
<1>6. ThreadInv
  BY DEF ThreadInv, Thread, Sch, Main, NotifyPc, AsyncPc, SchedulerPc, MainPc
<1> QED
  BY <1>1, <1>2, <1>3, <1>4, <1>5, <1>6 DEF TInv, TypeOK

\* Every reachable state is well typed and every thread holds what its control
\* point says.
THEOREM TInvHolds == Spec => []TInv
<1>1. TInv /\ [Next]_vars => TInv'
  <2>1. TInv /\ [Next]_vars => TypeOK'
    BY ThreadTypesStep, QueueTypesStep, SharedTypesStep, WorkerTypesStep, TaskTypesStep
       DEF TypeOK
  <2> QED
    BY <2>1, ThreadInvStep DEF TInv
<1> QED
  BY TInvInit, <1>1, PTL DEF Spec

\* TypeOK: the queues of every scheduler hold workers only, never a null
\* pointer, whatever user code and the other schedulers do.
THEOREM TypeCorrect == Spec => []TypeOK
<1>1. TInv => TypeOK
  BY DEF TInv
<1> QED
  BY TInvHolds, <1>1, PTL

-----------------------------------------------------------------------------
(* The idle count and the locks. *)

\* Control points between signal_idle and signal_running.
AsleepPc == {"signal_idle", "notify_main", "sleep", "idle_sleep", "woken"}

\* Control points at which a scheduler's thread holds its own m_mtx.
LockedPc == {"enter_wait", "enter_sleep", "signal_idle", "notify_main", "sleep", "woken"}

\* Control points of a scheduler that is awake and does not hold its m_mtx.
PlainPc == NotifyPc \cup AsyncPc \cup
           {"run", "wait_check", "recheck", "done", "reset", "io", "waiting", "idle",
            "yielded", "steal", "rob", "decide", "exit_check"}

\* m_state says idle_sleep from the increment of the count to its decrement.
AsleepInv == \A s \in Sch : m_state[s] = "idle_sleep" <=> pc[s] \in AsleepPc

\* The count is the number of schedulers between the two.
CountInv == m_idle_schedulers = Cardinality({s \in Sch : pc[s] \in AsleepPc})

\* all_idle has locked s.
MainLocks(s) == pc[Main] = "check" \/ (pc[Main] = "lock_all" /\ s < it[Main])

\* Who holds a scheduler's m_mtx follows from the control points.
LockInv ==
    \A s \in Sch : /\ m_mtx[s] = s <=> pc[s] \in LockedPc
                   /\ m_mtx[s] = Main <=> MainLocks(s)
                   /\ m_mtx[s] \in {s, Main, Free}

\* The cursor of all_idle.
CursorInv == pc[Main] \in {"tasks", "lock_all"} => it[Main] \in Sch

SInv == TInv /\ CursorInv /\ AsleepInv /\ CountInv /\ LockInv

-----------------------------------------------------------------------------
\* A step that touches neither the states nor the locks nor the count.
Plain ==
    /\ UNCHANGED <<m_state, m_mtx, m_idle_schedulers>>
    /\ \A s \in Sch : pc'[s] = pc[s] \/ (pc[s] \in PlainPc /\ pc'[s] \in PlainPc)
    /\ \/ pc'[Main] = pc[Main] /\ it'[Main] = it[Main]
       \/ /\ pc[Main] \notin {"lock_all", "check"} /\ pc'[Main] \notin {"lock_all", "check"}
          /\ pc'[Main] = "tasks" => it'[Main] \in Sch

\* The steps that are plain.
PlainStep ==
    \/ \E th \in Thread : NotifyStep(th)
    \/ \E s \in Sch : UserStep(s) \/ ScheduleStep(s) \/ SpinOrPoll(s) \/ WakeInVain(s)
    \/ MainAsync \/ CheckIdle \/ AllIdleCount \/ Relock \/ MainWake \/ Destroy \/ Join
    \/ Environment

\* The threads are Main and the schedulers.
LEMMA ThreadFacts ==
    /\ Sch \subseteq Thread /\ Main \in Thread /\ Main \notin Sch
    /\ Free \notin Thread /\ 1 \in Sch
  BY SizeAssumption DEF Sch, Thread, Main, Free

\* A thread that moves from one plain control point to another.
LEMMA PlainMove ==
    ASSUME TInv, NEW s \in Sch, pc[s] \in PlainPc,
           UNCHANGED <<m_state, m_mtx, m_idle_schedulers>>,
           pc' = pc \/ (\E l \in PlainPc : pc' = [pc EXCEPT ![s] = l]),
           it' = it \/ (\E i : it' = [it EXCEPT ![s] = i])
    PROVE  Plain
<1>1. /\ pc \in [Thread -> Pc] /\ it \in [Thread -> Nat \ {0}]
      /\ Sch \subseteq Thread /\ Main \in Thread /\ Main \notin Sch
  BY ThreadFacts DEF TInv, TypeOK, ThreadTypes
<1>2. pc'[Main] = pc[Main] /\ it'[Main] = it[Main]
  BY <1>1
<1>3. \A k \in Sch : pc'[k] = pc[k] \/ (pc[k] \in PlainPc /\ pc'[k] \in PlainPc)
  BY <1>1
<1> QED
  BY <1>2, <1>3 DEF Plain

\* User code, the scheduling passes and the polling return of sleep.
LEMMA ScheduleIsPlain ==
    ASSUME TInv, NEW s \in Sch, UserStep(s) \/ ScheduleStep(s) \/ SpinOrPoll(s)
    PROVE  Plain
<1>a. /\ "run" \in PlainPc /\ "wait_check" \in PlainPc /\ "recheck" \in PlainPc
      /\ "done" \in PlainPc /\ "reset" \in PlainPc /\ "io" \in PlainPc
      /\ "waiting" \in PlainPc /\ "idle" \in PlainPc /\ "yielded" \in PlainPc
      /\ "steal" \in PlainPc /\ "rob" \in PlainPc /\ "decide" \in PlainPc
      /\ "exit_check" \in PlainPc /\ "min_load" \in PlainPc /\ "enque" \in PlainPc
      /\ "notify" \in PlainPc
  BY DEF PlainPc, NotifyPc, AsyncPc
<1> USE <1>a DEF Goto, shared_vars, exit_vars
<1>1. CASE Async(s)
  <2>1. pc[s] \in PlainPc /\ UNCHANGED <<m_state, m_mtx, m_idle_schedulers>>
    BY <1>1 DEF Async
  <2>2. pc' = pc \/ \E l \in PlainPc : pc' = [pc EXCEPT ![s] = l]
    BY <1>1 DEF Async, NewTask
  <2>3. it' = it \/ \E i : it' = [it EXCEPT ![s] = i]
    BY <1>1 DEF Async, NewTask
  <2> QED
    BY <2>1, <2>2, <2>3, PlainMove
<1>2. CASE Yield(s)
  <2>1. pc[s] \in PlainPc /\ UNCHANGED <<m_state, m_mtx, m_idle_schedulers>>
    BY <1>2 DEF Yield
  <2>2. pc' = pc \/ \E l \in PlainPc : pc' = [pc EXCEPT ![s] = l]
    BY <1>2 DEF Yield, Spend
  <2>3. it' = it \/ \E i : it' = [it EXCEPT ![s] = i]
    BY <1>2 DEF Yield, Spend
  <2> QED
    BY <2>1, <2>2, <2>3, PlainMove
<1>3. CASE StartIo(s)
  <2>1. pc[s] \in PlainPc /\ UNCHANGED <<m_state, m_mtx, m_idle_schedulers>>
    BY <1>3 DEF StartIo
  <2>2. pc' = pc \/ \E l \in PlainPc : pc' = [pc EXCEPT ![s] = l]
    BY <1>3 DEF StartIo, Spend
  <2>3. it' = it \/ \E i : it' = [it EXCEPT ![s] = i]
    BY <1>3 DEF StartIo, Spend
  <2> QED
    BY <2>1, <2>2, <2>3, PlainMove
<1>4. CASE SleepUntil(s)
  <2>1. pc[s] \in PlainPc /\ UNCHANGED <<m_state, m_mtx, m_idle_schedulers>>
    BY <1>4 DEF SleepUntil
  <2>2. pc' = pc \/ \E l \in PlainPc : pc' = [pc EXCEPT ![s] = l]
    BY <1>4 DEF SleepUntil, Spend
  <2>3. it' = it \/ \E i : it' = [it EXCEPT ![s] = i]
    BY <1>4 DEF SleepUntil, Spend
  <2> QED
    BY <2>1, <2>2, <2>3, PlainMove
<1>5. CASE WaitTask(s)
  <2>1. pc[s] \in PlainPc /\ UNCHANGED <<m_state, m_mtx, m_idle_schedulers>>
    BY <1>5 DEF WaitTask
  <2>2. pc' = pc \/ \E l \in PlainPc : pc' = [pc EXCEPT ![s] = l]
    BY <1>5 DEF WaitTask, AddWaiter
  <2>3. it' = it \/ \E i : it' = [it EXCEPT ![s] = i]
    BY <1>5 DEF WaitTask, AddWaiter
  <2> QED
    BY <2>1, <2>2, <2>3, PlainMove
<1>6. CASE WaitCondOrSleep(s)
  <2>1. pc[s] \in PlainPc /\ UNCHANGED <<m_state, m_mtx, m_idle_schedulers>>
    BY <1>6 DEF WaitCondOrSleep
  <2>2. pc' = pc \/ \E l \in PlainPc : pc' = [pc EXCEPT ![s] = l]
    BY <1>6 DEF WaitCondOrSleep, Resume
  <2>3. it' = it \/ \E i : it' = [it EXCEPT ![s] = i]
    BY <1>6 DEF WaitCondOrSleep, Resume
  <2> QED
    BY <2>1, <2>2, <2>3, PlainMove
<1>7. CASE Recheck(s)
  <2>1. pc[s] \in PlainPc /\ UNCHANGED <<m_state, m_mtx, m_idle_schedulers>>
    BY <1>7 DEF Recheck
  <2>2. pc' = pc \/ \E l \in PlainPc : pc' = [pc EXCEPT ![s] = l]
    BY <1>7 DEF Recheck, AddWaiter
  <2>3. it' = it \/ \E i : it' = [it EXCEPT ![s] = i]
    BY <1>7 DEF Recheck, AddWaiter
  <2> QED
    BY <2>1, <2>2, <2>3, PlainMove
<1>8. CASE Finish(s)
  <2>1. pc[s] \in PlainPc /\ UNCHANGED <<m_state, m_mtx, m_idle_schedulers>>
    BY <1>8 DEF Finish
  <2>2. pc' = pc \/ \E l \in PlainPc : pc' = [pc EXCEPT ![s] = l]
    BY <1>8 DEF Finish
  <2>3. it' = it \/ \E i : it' = [it EXCEPT ![s] = i]
    BY <1>8 DEF Finish
  <2> QED
    BY <2>1, <2>2, <2>3, PlainMove
<1>9. CASE NotifyWaiter(s)
  <2>1. pc[s] \in PlainPc /\ UNCHANGED <<m_state, m_mtx, m_idle_schedulers>>
    BY <1>9 DEF NotifyWaiter
  <2>2. pc' = pc \/ \E l \in PlainPc : pc' = [pc EXCEPT ![s] = l]
    BY <1>9 DEF NotifyWaiter
  <2>3. it' = it \/ \E i : it' = [it EXCEPT ![s] = i]
    BY <1>9 DEF NotifyWaiter
  <2> QED
    BY <2>1, <2>2, <2>3, PlainMove
<1>10. CASE ParkIdle(s)
  <2>1. pc[s] \in PlainPc /\ UNCHANGED <<m_state, m_mtx, m_idle_schedulers>>
    BY <1>10 DEF ParkIdle
  <2>2. pc' = pc \/ \E l \in PlainPc : pc' = [pc EXCEPT ![s] = l]
    BY <1>10 DEF ParkIdle
  <2>3. it' = it \/ \E i : it' = [it EXCEPT ![s] = i]
    BY <1>10 DEF ParkIdle
  <2> QED
    BY <2>1, <2>2, <2>3, PlainMove
<1>11. CASE ScheduleIo(s)
  <2>1. pc[s] \in PlainPc /\ UNCHANGED <<m_state, m_mtx, m_idle_schedulers>>
    BY <1>11 DEF ScheduleIo
  <2>2. pc' = pc \/ \E l \in PlainPc : pc' = [pc EXCEPT ![s] = l]
    BY <1>11 DEF ScheduleIo
  <2>3. it' = it \/ \E i : it' = [it EXCEPT ![s] = i]
    BY <1>11 DEF ScheduleIo
  <2> QED
    BY <2>1, <2>2, <2>3, PlainMove
<1>12. CASE ScheduleWaiting(s)
  <2>1. pc[s] \in PlainPc /\ UNCHANGED <<m_state, m_mtx, m_idle_schedulers>>
    BY <1>12 DEF ScheduleWaiting
  <2>2. pc' = pc \/ \E l \in PlainPc : pc' = [pc EXCEPT ![s] = l]
    BY <1>12 DEF ScheduleWaiting
  <2>3. it' = it \/ \E i : it' = [it EXCEPT ![s] = i]
    BY <1>12 DEF ScheduleWaiting
  <2> QED
    BY <2>1, <2>2, <2>3, PlainMove
<1>13. CASE ScheduleIdle(s)
  <2>1. pc[s] \in PlainPc /\ UNCHANGED <<m_state, m_mtx, m_idle_schedulers>>
    BY <1>13 DEF ScheduleIdle
  <2>2. pc' = pc \/ \E l \in PlainPc : pc' = [pc EXCEPT ![s] = l]
    BY <1>13 DEF ScheduleIdle, GiveTask
  <2>3. it' = it \/ \E i : it' = [it EXCEPT ![s] = i]
    BY <1>13 DEF ScheduleIdle, GiveTask
  <2> QED
    BY <2>1, <2>2, <2>3, PlainMove
<1>14. CASE ScheduleYielded(s)
  <2>1. pc[s] \in PlainPc /\ UNCHANGED <<m_state, m_mtx, m_idle_schedulers>>
    BY <1>14 DEF ScheduleYielded
  <2>2. pc' = pc \/ \E l \in PlainPc : pc' = [pc EXCEPT ![s] = l]
    BY <1>14 DEF ScheduleYielded
  <2>3. it' = it \/ \E i : it' = [it EXCEPT ![s] = i]
    BY <1>14 DEF ScheduleYielded
  <2> QED
    BY <2>1, <2>2, <2>3, PlainMove
<1>15. CASE StealWork(s)
  <2>1. pc[s] \in PlainPc /\ UNCHANGED <<m_state, m_mtx, m_idle_schedulers>>
    BY <1>15 DEF StealWork
  <2>2. pc' = pc \/ \E l \in PlainPc : pc' = [pc EXCEPT ![s] = l]
    BY <1>15 DEF StealWork
  <2>3. it' = it \/ \E i : it' = [it EXCEPT ![s] = i]
    BY <1>15 DEF StealWork
  <2> QED
    BY <2>1, <2>2, <2>3, PlainMove
<1>16. CASE Rob(s)
  <2>1. pc[s] \in PlainPc /\ UNCHANGED <<m_state, m_mtx, m_idle_schedulers>>
    BY <1>16 DEF Rob
  <2>2. pc' = pc \/ \E l \in PlainPc : pc' = [pc EXCEPT ![s] = l]
    BY <1>16 DEF Rob, GiveTask
  <2>3. it' = it \/ \E i : it' = [it EXCEPT ![s] = i]
    BY <1>16 DEF Rob, GiveTask
  <2> QED
    BY <2>1, <2>2, <2>3, PlainMove
<1>17. CASE PrepareExec(s)
  <2>1. pc[s] \in PlainPc /\ UNCHANGED <<m_state, m_mtx, m_idle_schedulers>>
    BY <1>17 DEF PrepareExec
  <2>2. pc' = pc \/ \E l \in PlainPc : pc' = [pc EXCEPT ![s] = l]
    BY <1>17 DEF PrepareExec, Resume
  <2>3. it' = it \/ \E i : it' = [it EXCEPT ![s] = i]
    BY <1>17 DEF PrepareExec, Resume
  <2> QED
    BY <2>1, <2>2, <2>3, PlainMove
<1>18. CASE SpinOrPoll(s)
  <2>1. pc[s] \in PlainPc /\ UNCHANGED <<m_state, m_mtx, m_idle_schedulers>>
    BY <1>18 DEF SpinOrPoll
  <2>2. pc' = pc \/ \E l \in PlainPc : pc' = [pc EXCEPT ![s] = l]
    BY <1>18 DEF SpinOrPoll
  <2>3. it' = it \/ \E i : it' = [it EXCEPT ![s] = i]
    BY <1>18 DEF SpinOrPoll
  <2> QED
    BY <2>1, <2>2, <2>3, PlainMove
<1> QED
  BY <1>1, <1>2, <1>3, <1>4, <1>5, <1>6, <1>7, <1>8, <1>9, <1>10, <1>11, <1>12, <1>13,
     <1>14, <1>15, <1>16, <1>17, <1>18
     DEF UserStep, ScheduleStep

\* enqueue_task and notify, on any thread.
LEMMA NotifyIsPlain ==
    ASSUME TInv, NEW th \in Thread, NotifyStep(th)
    PROVE  Plain
<1> USE DEF Goto, shared_vars, exit_vars, NotifyPc, AsyncPc
<1>1. pc[th] \in NotifyPc \cup AsyncPc /\ UNCHANGED <<m_state, m_mtx, m_idle_schedulers>>
  BY DEF NotifyStep, MinLoad, Enque, NotifyLock, NotifyFire
<1>2. PICK l : /\ pc' = [pc EXCEPT ![th] = l]
               /\ l \in {"min_load", "enque", "notify", "fire"} \/ (pc[th] = "fire" /\ l = ret[th])
  BY DEF NotifyStep, MinLoad, Enque, NotifyLock, NotifyFire
<1>3. it' = it \/ \E i : it' = [it EXCEPT ![th] = i]
  BY DEF NotifyStep, MinLoad, Enque, NotifyLock, NotifyFire
<1>4. CASE th \in Sch
  <2>1. l \in PlainPc
    BY <1>2, <1>4 DEF TInv, ThreadInv, PlainPc
  <2>2. pc[th] \in PlainPc
    BY <1>1 DEF PlainPc
  <2> QED
    BY <1>1, <1>2, <1>3, <1>4, <2>1, <2>2, PlainMove
<1>5. CASE th = Main
  <2>1. /\ pc \in [Thread -> Pc] /\ Sch \subseteq Thread /\ Main \notin Sch /\ Main \in Thread
    BY ThreadFacts DEF TInv, TypeOK, ThreadTypes
  <2>2. \A s \in Sch : pc'[s] = pc[s]
    BY <1>2, <1>5, <2>1
  <2>3. l \notin {"lock_all", "check", "tasks"}
    BY <1>2, <1>5 DEF TInv, ThreadInv
  <2>4. pc[Main] \notin {"lock_all", "check"} /\ pc'[Main] \notin {"lock_all", "check", "tasks"}
    BY <1>1, <1>2, <1>5, <2>1, <2>3
  <2> QED
    BY <1>1, <2>2, <2>4 DEF Plain
<1> QED
  BY <1>4, <1>5 DEF Thread, Sch, Main

\* Main outside all_idle's locks.
LEMMA MainIsPlain ==
    ASSUME TInv,
           MainAsync \/ CheckIdle \/ AllIdleCount \/ Relock \/ MainWake \/ Destroy \/ Join
    PROVE  Plain
<1> USE DEF Goto, shared_vars, exit_vars
<1>1. pc \in [Thread -> Pc] /\ Sch \subseteq Thread /\ Main \notin Sch /\ Main \in Thread
  BY ThreadFacts DEF TInv, TypeOK, ThreadTypes
<1>2. /\ UNCHANGED <<m_state, m_mtx, m_idle_schedulers>>
      /\ pc[Main] \in {"async", "pred", "count", "relock", "cv_wait", "destroy", "join"}
  BY DEF MainAsync, CheckIdle, AllIdleCount, Relock, MainWake, Destroy, Join
<1>3. PICK l : /\ pc' = [pc EXCEPT ![Main] = l]
               /\ l \notin {"lock_all", "check"}
               /\ l = "tasks" => it' = [it EXCEPT ![Main] = 1]
  BY DEF MainAsync, NewTask, CheckIdle, AllIdleCount, Relock, MainWake, Destroy, Join
<1>4. (\A s \in Sch : pc'[s] = pc[s]) /\ pc'[Main] = l
  BY <1>1, <1>3
<1>5. l = "tasks" => it'[Main] \in Sch
  BY <1>1, <1>3, ThreadFacts DEF TInv, TypeOK, ThreadTypes
<1> QED
  BY <1>2, <1>3, <1>4, <1>5 DEF Plain

\* Every plain step is plain.
LEMMA PlainSteps ==
    ASSUME TInv, PlainStep
    PROVE  Plain
<1>1. CASE \E s \in Sch : WakeInVain(s)
  BY <1>1 DEF WakeInVain, Plain, thread_vars, exit_vars
<1>2. CASE Environment
  BY <1>2
     DEF Environment, Tick, IoCompletes, SpinElapses, Plain, thread_vars, shared_vars,
         exit_vars
<1> QED
  BY <1>1, <1>2, ScheduleIsPlain, NotifyIsPlain, MainIsPlain DEF PlainStep

-----------------------------------------------------------------------------
\* The schedulers between signal_idle and signal_running.
Asleep == {s \in Sch : pc[s] \in AsleepPc}

\* One scheduler more, or one less, is asleep.
LEMMA CountOne ==
    ASSUME NEW A \in SUBSET Sch, NEW s \in Sch
    PROVE  /\ Cardinality(A) \in Nat
           /\ s \notin A => Cardinality(A \cup {s}) = Cardinality(A) + 1
           /\ s \in A => Cardinality(A \ {s}) = Cardinality(A) - 1
<1>1. IsFiniteSet(Sch)
  BY SizeAssumption, FS_Interval DEF Sch
<1>2. IsFiniteSet(A)
  BY <1>1, FS_Subset
<1> QED
  BY <1>2, FS_CardinalityType, FS_AddElement, FS_RemoveElement

\* A plain step keeps the invariant.
LEMMA PlainKeeps ==
    ASSUME SInv, Plain
    PROVE  CursorInv' /\ AsleepInv' /\ CountInv' /\ LockInv'
<1>1. \A l \in PlainPc : l \notin AsleepPc /\ l \notin LockedPc
  BY DEF PlainPc, AsleepPc, LockedPc, NotifyPc, AsyncPc
<1>2. \A s \in Sch : /\ pc'[s] \in AsleepPc <=> pc[s] \in AsleepPc
                     /\ pc'[s] \in LockedPc <=> pc[s] \in LockedPc
  BY <1>1 DEF Plain
<1>3. CursorInv'
  BY DEF SInv, CursorInv, Plain
<1>4. AsleepInv'
  BY <1>2 DEF SInv, AsleepInv, Plain
<1>5. CountInv'
  <2>1. {s \in Sch : pc'[s] \in AsleepPc} = {s \in Sch : pc[s] \in AsleepPc}
    BY <1>2
  <2> QED
    BY <2>1 DEF SInv, CountInv, Plain
<1>6. LockInv'
  BY <1>2 DEF SInv, LockInv, MainLocks, Plain
<1> QED
  BY <1>3, <1>4, <1>5, <1>6

\* A step of one scheduler that moves it from control point l to m, where both
\* or none are counted as asleep.
LEMMA MoveKeeps ==
    ASSUME SInv, NEW s \in Sch, NEW l, pc[s] = l, NEW m, pc' = [pc EXCEPT ![s] = m],
           l \in AsleepPc <=> m \in AsleepPc,
           UNCHANGED <<it, m_idle_schedulers>>,
           \A k \in Sch : k # s => m_state'[k] = m_state[k] /\ m_mtx'[k] = m_mtx[k],
           m_state'[s] = "idle_sleep" <=> m \in AsleepPc,
           \/ m_mtx'[s] = m_mtx[s] /\ (l \in LockedPc <=> m \in LockedPc)
           \/ m_mtx[s] # Main /\ m_mtx'[s] = IF m \in LockedPc THEN s ELSE Free
    PROVE  CursorInv' /\ AsleepInv' /\ CountInv' /\ LockInv'
<1>1. /\ pc'[s] = m /\ pc'[Main] = pc[Main]
      /\ \A k \in Sch : k # s => pc'[k] = pc[k]
  BY ThreadFacts DEF SInv, TInv, TypeOK, ThreadTypes
<1>2. CursorInv'
  BY <1>1 DEF SInv, CursorInv
<1>3. AsleepInv'
  BY <1>1 DEF SInv, AsleepInv
<1>4. CountInv'
  <2>1. {k \in Sch : pc'[k] \in AsleepPc} = {k \in Sch : pc[k] \in AsleepPc}
    BY <1>1
  <2> QED
    BY <2>1 DEF SInv, CountInv
<1>5. LockInv'
  <2>1. s # Main /\ s # Free /\ Main # Free
    BY ThreadFacts DEF Main, Free
  <2>0. \A k \in Sch : MainLocks(k)' <=> MainLocks(k)
    BY <1>1 DEF MainLocks
  <2> SUFFICES ASSUME NEW k \in Sch
               PROVE  /\ m_mtx'[k] = k <=> pc'[k] \in LockedPc
                      /\ m_mtx'[k] = Main <=> MainLocks(k)'
                      /\ m_mtx'[k] \in {k, Main, Free}
    BY DEF LockInv
  <2>2. CASE k # s
    BY <1>1, <2>2, <2>0 DEF SInv, LockInv
  <2>3. CASE k = s
    BY <1>1, <2>0, <2>1, <2>3 DEF SInv, LockInv
  <2> QED
    BY <2>2, <2>3
<1> QED
  BY <1>2, <1>3, <1>4, <1>5

\* sleep, the wake-ups and should_exit, but for the two that move the count.
LEMMA SleepKeeps ==
    ASSUME SInv, NEW s \in Sch,
           \/ SleepLock(s) \/ EnterWait(s) \/ SetCheckIdle(s) \/ NotifyMain(s) \/ EnterSleep(s)
           \/ ShouldExit(s) \/ Wake(s)
    PROVE  CursorInv' /\ AsleepInv' /\ CountInv' /\ LockInv'
<1>a. /\ m_state \in [Sch -> SchedulerState] /\ m_mtx \in [Sch -> Thread \cup {Free}]
      /\ pc \in [Thread -> Pc] /\ it \in [Thread -> Nat \ {0}]
  BY DEF SInv, TInv, TypeOK, SharedTypes, ThreadTypes
<1>b. s # Main /\ s # Free /\ Main # Free /\ s \in Thread
  BY ThreadFacts DEF Main, Free
<1>c. /\ m_state[s] = "idle_sleep" <=> pc[s] \in AsleepPc
      /\ m_mtx[s] = s <=> pc[s] \in LockedPc
      /\ m_mtx[s] \in {s, Main, Free}
  BY DEF SInv, AsleepInv, LockInv
<1> USE DEF Goto, exit_vars, shared_vars
<1>1. CASE EnterWait(s)
  <2>1. /\ pc[s] = "enter_wait" /\ pc' = [pc EXCEPT ![s] = "idle_wait"]
        /\ UNCHANGED <<it, m_idle_schedulers>>
        /\ \A k \in Sch : k # s => m_state'[k] = m_state[k] /\ m_mtx'[k] = m_mtx[k]
    BY <1>1, <1>a DEF EnterWait
  <2>2. /\ m_state'[s] = "idle_sleep" <=> "idle_wait" \in AsleepPc
        /\ m_mtx'[s] = IF "idle_wait" \in LockedPc THEN s ELSE Free
        /\ m_mtx[s] # Main
    BY <1>1, <1>a, <1>b, <1>c DEF EnterWait, AsleepPc, LockedPc
  <2>3. "enter_wait" \in AsleepPc <=> "idle_wait" \in AsleepPc
    BY DEF AsleepPc
  <2> QED
    BY <2>1, <2>2, <2>3, MoveKeeps
<1>2. CASE SetCheckIdle(s)
  <2>1. /\ pc[s] = "signal_idle" /\ pc' = [pc EXCEPT ![s] = "notify_main"]
        /\ UNCHANGED <<it, m_idle_schedulers>>
        /\ \A k \in Sch : k # s => m_state'[k] = m_state[k] /\ m_mtx'[k] = m_mtx[k]
    BY <1>2, <1>a DEF SetCheckIdle
  <2>2. /\ m_state'[s] = "idle_sleep" <=> "notify_main" \in AsleepPc
        /\ m_mtx'[s] = IF "notify_main" \in LockedPc THEN s ELSE Free
        /\ m_mtx[s] # Main
    BY <1>2, <1>a, <1>b, <1>c DEF SetCheckIdle, AsleepPc, LockedPc
  <2>3. "signal_idle" \in AsleepPc <=> "notify_main" \in AsleepPc
    BY DEF AsleepPc
  <2> QED
    BY <2>1, <2>2, <2>3, MoveKeeps
<1>3. CASE NotifyMain(s)
  <2>1. /\ pc[s] = "notify_main" /\ pc' = [pc EXCEPT ![s] = "sleep"]
        /\ UNCHANGED <<it, m_idle_schedulers>>
        /\ \A k \in Sch : k # s => m_state'[k] = m_state[k] /\ m_mtx'[k] = m_mtx[k]
    BY <1>3, <1>a DEF NotifyMain
  <2>2. /\ m_state'[s] = "idle_sleep" <=> "sleep" \in AsleepPc
        /\ m_mtx'[s] = IF "sleep" \in LockedPc THEN s ELSE Free
        /\ m_mtx[s] # Main
    BY <1>3, <1>a, <1>b, <1>c DEF NotifyMain, AsleepPc, LockedPc
  <2>3. "notify_main" \in AsleepPc <=> "sleep" \in AsleepPc
    BY DEF AsleepPc
  <2> QED
    BY <2>1, <2>2, <2>3, MoveKeeps
<1>4. CASE EnterSleep(s)
  <2>1. CASE has_tasks(s) \/ m_exit[s]
    <3>1. /\ pc[s] = "sleep" /\ pc' = [pc EXCEPT ![s] = "woken"]
          /\ UNCHANGED <<it, m_idle_schedulers>>
          /\ \A k \in Sch : k # s => m_state'[k] = m_state[k] /\ m_mtx'[k] = m_mtx[k]
      BY <1>4, <2>1, <1>a DEF EnterSleep
    <3>2. /\ m_state'[s] = "idle_sleep" <=> "woken" \in AsleepPc
          /\ m_mtx'[s] = IF "woken" \in LockedPc THEN s ELSE Free
          /\ m_mtx[s] # Main
      BY <1>4, <2>1, <1>a, <1>b, <1>c DEF EnterSleep, AsleepPc, LockedPc
    <3>3. "sleep" \in AsleepPc <=> "woken" \in AsleepPc
      BY DEF AsleepPc
    <3> QED
      BY <3>1, <3>2, <3>3, MoveKeeps
  <2>2. CASE ~ (has_tasks(s) \/ m_exit[s])
    <3>1. /\ pc[s] = "sleep" /\ pc' = [pc EXCEPT ![s] = "idle_sleep"]
          /\ UNCHANGED <<it, m_idle_schedulers>>
          /\ \A k \in Sch : k # s => m_state'[k] = m_state[k] /\ m_mtx'[k] = m_mtx[k]
      BY <1>4, <2>2, <1>a DEF EnterSleep
    <3>2. /\ m_state'[s] = "idle_sleep" <=> "idle_sleep" \in AsleepPc
          /\ m_mtx'[s] = IF "idle_sleep" \in LockedPc THEN s ELSE Free
          /\ m_mtx[s] # Main
      BY <1>4, <2>2, <1>a, <1>b, <1>c DEF EnterSleep, AsleepPc, LockedPc
    <3>3. "sleep" \in AsleepPc <=> "idle_sleep" \in AsleepPc
      BY DEF AsleepPc
    <3> QED
      BY <3>1, <3>2, <3>3, MoveKeeps
  <2> QED
    BY <2>1, <2>2
<1>5. CASE SleepLock(s)
  <2>1. CASE StayAwake(s)
    <3>1. /\ pc[s] = "decide" /\ pc' = [pc EXCEPT ![s] = "exit_check"]
          /\ UNCHANGED <<it, m_idle_schedulers>>
          /\ \A k \in Sch : k # s => m_state'[k] = m_state[k] /\ m_mtx'[k] = m_mtx[k]
      BY <1>5, <2>1, <1>a DEF SleepLock, WaitOver
    <3>2. /\ m_state'[s] = "idle_sleep" <=> "exit_check" \in AsleepPc
          /\ m_mtx'[s] = IF "exit_check" \in LockedPc THEN s ELSE Free
          /\ m_mtx[s] # Main
      BY <1>5, <2>1, <1>a, <1>b, <1>c DEF SleepLock, WaitOver, AsleepPc, LockedPc
    <3>3. "decide" \in AsleepPc <=> "exit_check" \in AsleepPc
      BY DEF AsleepPc
    <3> QED
      BY <3>1, <3>2, <3>3, MoveKeeps
  <2>2. CASE ~ StayAwake(s) /\ waiting[s] # <<>>
    <3>1. /\ pc[s] = "decide" /\ pc' = [pc EXCEPT ![s] = "enter_wait"]
          /\ UNCHANGED <<it, m_idle_schedulers>>
          /\ \A k \in Sch : k # s => m_state'[k] = m_state[k] /\ m_mtx'[k] = m_mtx[k]
      BY <1>5, <2>2, <1>a DEF SleepLock, WaitOver
    <3>2. /\ m_state'[s] = "idle_sleep" <=> "enter_wait" \in AsleepPc
          /\ m_mtx'[s] = IF "enter_wait" \in LockedPc THEN s ELSE Free
          /\ m_mtx[s] # Main
      BY <1>5, <2>2, <1>a, <1>b, <1>c DEF SleepLock, WaitOver, AsleepPc, LockedPc
    <3>3. "decide" \in AsleepPc <=> "enter_wait" \in AsleepPc
      BY DEF AsleepPc
    <3> QED
      BY <3>1, <3>2, <3>3, MoveKeeps
  <2>3. CASE ~ StayAwake(s) /\ waiting[s] = <<>>
    <3>1. /\ pc[s] = "decide" /\ pc' = [pc EXCEPT ![s] = "enter_sleep"]
          /\ UNCHANGED <<it, m_idle_schedulers>>
          /\ \A k \in Sch : k # s => m_state'[k] = m_state[k] /\ m_mtx'[k] = m_mtx[k]
      BY <1>5, <2>3, <1>a DEF SleepLock, WaitOver
    <3>2. /\ m_state'[s] = "idle_sleep" <=> "enter_sleep" \in AsleepPc
          /\ m_mtx'[s] = IF "enter_sleep" \in LockedPc THEN s ELSE Free
          /\ m_mtx[s] # Main
      BY <1>5, <2>3, <1>a, <1>b, <1>c DEF SleepLock, WaitOver, AsleepPc, LockedPc
    <3>3. "decide" \in AsleepPc <=> "enter_sleep" \in AsleepPc
      BY DEF AsleepPc
    <3> QED
      BY <3>1, <3>2, <3>3, MoveKeeps
  <2> QED
    BY <2>1, <2>2, <2>3
<1>6. CASE Wake(s)
  <2>1. CASE pc[s] = "idle_wait"
    <3>1. /\ pc[s] = "idle_wait" /\ pc' = [pc EXCEPT ![s] = "exit_check"]
          /\ UNCHANGED <<it, m_idle_schedulers>>
          /\ \A k \in Sch : k # s => m_state'[k] = m_state[k] /\ m_mtx'[k] = m_mtx[k]
      BY <1>6, <2>1, <1>a DEF Wake, WaitOver
    <3>2. /\ m_state'[s] = "idle_sleep" <=> "exit_check" \in AsleepPc
          /\ m_mtx'[s] = IF "exit_check" \in LockedPc THEN s ELSE Free
          /\ m_mtx[s] # Main
      BY <1>6, <2>1, <1>a, <1>b, <1>c DEF Wake, WaitOver, AsleepPc, LockedPc
    <3>3. "idle_wait" \in AsleepPc <=> "exit_check" \in AsleepPc
      BY DEF AsleepPc
    <3> QED
      BY <3>1, <3>2, <3>3, MoveKeeps
  <2>2. CASE pc[s] # "idle_wait"
    <3>1. /\ pc[s] = "idle_sleep" /\ pc' = [pc EXCEPT ![s] = "woken"]
          /\ UNCHANGED <<it, m_idle_schedulers>>
          /\ \A k \in Sch : k # s => m_state'[k] = m_state[k] /\ m_mtx'[k] = m_mtx[k]
      BY <1>6, <2>2, <1>a DEF Wake, WaitOver
    <3>2. /\ m_state'[s] = "idle_sleep" <=> "woken" \in AsleepPc
          /\ m_mtx'[s] = IF "woken" \in LockedPc THEN s ELSE Free
          /\ m_mtx[s] # Main
      BY <1>6, <2>2, <1>a, <1>b, <1>c DEF Wake, WaitOver, AsleepPc, LockedPc
    <3>3. "idle_sleep" \in AsleepPc <=> "woken" \in AsleepPc
      BY DEF AsleepPc
    <3> QED
      BY <3>1, <3>2, <3>3, MoveKeeps
  <2> QED
    BY <2>1, <2>2
<1>7. CASE ShouldExit(s)
  <2>1. CASE m_exit[s]
    <3>1. /\ pc[s] = "exit_check" /\ pc' = [pc EXCEPT ![s] = "exited"]
          /\ UNCHANGED <<it, m_idle_schedulers, m_mtx>>
          /\ m_state' = [m_state EXCEPT ![s] = "exiting"]
      BY <1>7, <2>1 DEF ShouldExit
    <3>2. \A k \in Sch : k # s => m_state'[k] = m_state[k] /\ m_mtx'[k] = m_mtx[k]
      BY <3>1, <1>a
    <3>3. m_state'[s] = "exiting"
      BY <3>1, <1>a
    <3>4. /\ "exit_check" \notin AsleepPc /\ "exited" \notin AsleepPc
          /\ "exit_check" \notin LockedPc /\ "exited" \notin LockedPc
      BY DEF AsleepPc, LockedPc
    <3> QED
      BY <3>1, <3>2, <3>3, <3>4, MoveKeeps
  <2>2. CASE ~ m_exit[s]
    <3>1. Plain
      <4>1. /\ pc[s] \in PlainPc /\ UNCHANGED <<m_state, m_mtx, m_idle_schedulers>>
            /\ pc' = [pc EXCEPT ![s] = "io"] /\ it' = [it EXCEPT ![s] = 1]
        BY <1>7, <2>2 DEF ShouldExit, PlainPc
      <4>2. "io" \in PlainPc
        BY DEF PlainPc
      <4> QED
        BY <4>1, <4>2, PlainMove DEF SInv
    <3> QED
      BY <3>1, PlainKeeps
  <2> QED
    BY <2>1, <2>2
<1> QED
  BY <1>1, <1>2, <1>3, <1>4, <1>5, <1>6, <1>7

\* signal_idle and signal_running move the count with the control point.
LEMMA CountKeeps ==
    ASSUME SInv, NEW s \in Sch, SignalIdle(s) \/ SignalRunning(s)
    PROVE  CursorInv' /\ AsleepInv' /\ CountInv' /\ LockInv'
<1>a. /\ m_state \in [Sch -> SchedulerState] /\ m_mtx \in [Sch -> Thread \cup {Free}]
      /\ pc \in [Thread -> Pc]
  BY DEF SInv, TInv, TypeOK, SharedTypes, ThreadTypes
<1>b. s # Main /\ s # Free /\ Main # Free /\ s \in Thread /\ Main \in Thread
  BY ThreadFacts DEF Main, Free
<1>c. /\ m_mtx[s] = s <=> pc[s] \in LockedPc
      /\ m_mtx[s] = Main <=> MainLocks(s)
  BY DEF SInv, LockInv
<1>d. m_idle_schedulers = Cardinality(Asleep) /\ Asleep \in SUBSET Sch
  BY DEF SInv, CountInv, Asleep
<1> USE DEF Goto, exit_vars
<1>1. CASE SignalIdle(s)
  <2>1. PICK m \in {"sleep", "signal_idle"} : pc' = [pc EXCEPT ![s] = m]
    BY <1>1 DEF SignalIdle
  <2>2. /\ pc[s] = "enter_sleep" /\ UNCHANGED <<it, m_mtx>>
        /\ m_state' = [m_state EXCEPT ![s] = "idle_sleep"]
        /\ m_idle_schedulers' = m_idle_schedulers + 1
    BY <1>1 DEF SignalIdle
  <2>3. pc'[s] = m /\ pc'[Main] = pc[Main] /\ \A k \in Sch : k # s => pc'[k] = pc[k]
    BY <2>1, <1>a, <1>b, ThreadFacts
  <2>4. /\ "enter_sleep" \notin AsleepPc /\ "enter_sleep" \in LockedPc
        /\ m \in AsleepPc /\ m \in LockedPc
    BY DEF AsleepPc, LockedPc
  <2>5. CursorInv'
    BY <2>2, <2>3 DEF SInv, CursorInv
  <2>6. AsleepInv'
    BY <2>2, <2>3, <2>4, <1>a DEF SInv, AsleepInv
  <2>7. CountInv'
    <3>1. Asleep' = Asleep \cup {s} /\ s \notin Asleep
      BY <2>2, <2>3, <2>4 DEF Asleep
    <3>2. Cardinality(Asleep') = Cardinality(Asleep) + 1
      BY <3>1, <1>d, CountOne
    <3> QED
      BY <3>2, <1>d, <2>2 DEF CountInv, Asleep
  <2>8. LockInv'
    <3>1. \A k \in Sch : MainLocks(k)' <=> MainLocks(k)
      BY <2>2, <2>3 DEF MainLocks
    <3>2. \A k \in Sch : pc'[k] \in LockedPc <=> pc[k] \in LockedPc
      BY <2>2, <2>3, <2>4
    <3> QED
      BY <3>1, <3>2, <2>2 DEF SInv, LockInv
  <2> QED
    BY <2>5, <2>6, <2>7, <2>8
<1>2. CASE SignalRunning(s)
  <2>2. /\ pc[s] = "woken" /\ it' = it /\ pc' = [pc EXCEPT ![s] = "exit_check"]
        /\ m_mtx' = [m_mtx EXCEPT ![s] = Free]
        /\ m_state' = [m_state EXCEPT ![s] = "running"]
        /\ m_idle_schedulers' = m_idle_schedulers - 1
    BY <1>2 DEF SignalRunning
  <2>3. pc'[s] = "exit_check" /\ pc'[Main] = pc[Main] /\ \A k \in Sch : k # s => pc'[k] = pc[k]
    BY <2>2, <1>a, <1>b, ThreadFacts
  <2>4. /\ "exit_check" \notin AsleepPc /\ "exit_check" \notin LockedPc
        /\ "woken" \in AsleepPc /\ "woken" \in LockedPc
    BY DEF AsleepPc, LockedPc
  <2>5. CursorInv'
    BY <2>2, <2>3 DEF SInv, CursorInv
  <2>6. AsleepInv'
    BY <2>2, <2>3, <2>4, <1>a DEF SInv, AsleepInv
  <2>7. CountInv'
    <3>1. Asleep' = Asleep \ {s} /\ s \in Asleep
      BY <2>2, <2>3, <2>4 DEF Asleep
    <3>2. Cardinality(Asleep') = Cardinality(Asleep) - 1
      BY <3>1, <1>d, CountOne
    <3> QED
      BY <3>2, <1>d, <2>2 DEF CountInv, Asleep
  <2>8. LockInv'
    <3>1. \A k \in Sch : MainLocks(k)' <=> MainLocks(k)
      BY <2>2, <2>3 DEF MainLocks
    <3>2. ~ MainLocks(s)
      BY <1>b, <1>c, <2>2, <2>4
    <3>3. m_mtx'[s] = Free /\ \A k \in Sch : k # s => m_mtx'[k] = m_mtx[k]
      BY <2>2, <1>a
    <3> SUFFICES ASSUME NEW k \in Sch
                 PROVE  /\ m_mtx'[k] = k <=> pc'[k] \in LockedPc
                        /\ m_mtx'[k] = Main <=> MainLocks(k)'
                        /\ m_mtx'[k] \in {k, Main, Free}
      BY DEF LockInv
    <3>4. CASE k = s
      BY <3>1, <3>2, <3>3, <3>4, <2>3, <2>4, <1>b
    <3>5. CASE k # s
      BY <3>1, <3>3, <3>5, <2>3 DEF SInv, LockInv
    <3> QED
      BY <3>4, <3>5
  <2> QED
    BY <2>5, <2>6, <2>7, <2>8
<1> QED
  BY <1>1, <1>2

\* all_idle locks the schedulers one after the other and unlocks them all.
LEMMA AllIdleKeeps ==
    ASSUME SInv, AllIdleTasks \/ AllIdleLock \/ AllIdleCheck
    PROVE  CursorInv' /\ AsleepInv' /\ CountInv' /\ LockInv'
<1>a. /\ m_mtx \in [Sch -> Thread \cup {Free}] /\ pc \in [Thread -> Pc]
      /\ it \in [Thread -> Nat \ {0}]
  BY DEF SInv, TInv, TypeOK, SharedTypes, ThreadTypes
<1>b. UNCHANGED <<m_state, m_idle_schedulers>>
  BY DEF AllIdleTasks, AllIdleLock, AllIdleCheck, shared_vars, exit_vars
<1>c. PICK l : pc' = [pc EXCEPT ![Main] = l]
  BY DEF AllIdleTasks, AllIdleLock, AllIdleCheck, Goto
<1>d. pc'[Main] = l /\ \A k \in Sch : pc'[k] = pc[k]
  BY <1>a, <1>c, ThreadFacts
<1>e. AsleepInv' /\ CountInv'
  <2>1. {s \in Sch : pc'[s] \in AsleepPc} = {s \in Sch : pc[s] \in AsleepPc}
    BY <1>d
  <2> QED
    BY <2>1, <1>b, <1>d DEF SInv, AsleepInv, CountInv
<1>1. CASE AllIdleTasks
  <2>1. pc[Main] = "tasks" /\ m_mtx' = m_mtx /\ it[Main] \in Sch
    BY <1>1 DEF AllIdleTasks, shared_vars, SInv, CursorInv
  <2>2. it'[Main] = (IF it[Main] = N THEN 1 ELSE it[Main] + 1)
    BY <1>1, <1>a, ThreadFacts DEF AllIdleTasks
  <2>3. l = (IF has_tasks(it[Main]) THEN "relock" ELSE IF it[Main] = N THEN "lock_all" ELSE "tasks")
    BY <1>1, <1>a, <1>d, ThreadFacts DEF AllIdleTasks, Goto
  <2>4. CursorInv'
    BY <2>1, <2>2, <1>d, SizeAssumption DEF CursorInv, Sch
  <2>5. \A k \in Sch : MainLocks(k)' = FALSE /\ MainLocks(k) = FALSE
    BY <2>1, <2>2, <2>3, <1>d DEF MainLocks, Sch
  <2>6. LockInv'
    BY <2>1, <2>5, <1>d DEF SInv, LockInv
  <2> QED
    BY <2>4, <2>6, <1>e
<1>2. CASE AllIdleLock
  <2> DEFINE s == it[Main]
  <2>1. /\ pc[Main] = "lock_all" /\ s \in Sch /\ m_mtx[s] = Free
        /\ m_mtx' = [m_mtx EXCEPT ![s] = Main]
    BY <1>2 DEF AllIdleLock, SInv, CursorInv
  <2>2. it'[Main] = s + 1
    BY <1>2, <1>a, ThreadFacts DEF AllIdleLock
  <2>3. l = IF s = N THEN "check" ELSE "lock_all"
    BY <1>2, <1>a, <1>d, ThreadFacts DEF AllIdleLock, Goto
  <2>4. CursorInv'
    BY <2>1, <2>2, <2>3, <1>d, SizeAssumption DEF CursorInv, Sch
  <2>5. \A k \in Sch : MainLocks(k)' <=> MainLocks(k) \/ k = s
    BY <2>1, <2>2, <2>3, <1>d, SizeAssumption DEF MainLocks, Sch
  <2>6. m_mtx'[s] = Main /\ \A k \in Sch : k # s => m_mtx'[k] = m_mtx[k]
    BY <2>1, <1>a
  <2>7. Main # Free /\ s # Main /\ s # Free
    BY <2>1, ThreadFacts DEF Main, Free
  <2>8. LockInv'
    <3> SUFFICES ASSUME NEW k \in Sch
                 PROVE  /\ m_mtx'[k] = k <=> pc'[k] \in LockedPc
                        /\ m_mtx'[k] = Main <=> MainLocks(k)'
                        /\ m_mtx'[k] \in {k, Main, Free}
      BY DEF LockInv
    <3> HIDE DEF s
    <3>1. CASE k = s
      BY <3>1, <2>1, <2>5, <2>6, <2>7, <1>d DEF SInv, LockInv
    <3>2. CASE k # s
      BY <3>2, <2>5, <2>6, <1>d DEF SInv, LockInv
    <3> QED
      BY <3>1, <3>2
  <2> QED
    BY <2>4, <2>8, <1>e
<1>3. CASE AllIdleCheck
  <2>1. pc[Main] = "check" /\ m_mtx' = [s \in Sch |-> Free]
    BY <1>3 DEF AllIdleCheck
  <2>2. l \in {"destroy", "relock"}
    BY <1>3, <1>a, <1>d, ThreadFacts DEF AllIdleCheck, Goto
  <2>3. CursorInv'
    BY <2>2, <1>d DEF CursorInv
  <2>4. \A k \in Sch : ~ MainLocks(k)' /\ MainLocks(k)
    BY <2>1, <2>2, <1>d DEF MainLocks
  <2>5. LockInv'
    <3> SUFFICES ASSUME NEW k \in Sch
                 PROVE  /\ m_mtx'[k] = k <=> pc'[k] \in LockedPc
                        /\ m_mtx'[k] = Main <=> MainLocks(k)'
                        /\ m_mtx'[k] \in {k, Main, Free}
      BY DEF LockInv
    <3>1. m_mtx[k] = Main /\ m_mtx'[k] = Free
      BY <2>1, <2>4 DEF SInv, LockInv
    <3>2. k # Main /\ k # Free /\ Main # Free
      BY ThreadFacts DEF Main, Free
    <3>3. pc[k] \notin LockedPc
      BY <3>1, <3>2 DEF SInv, LockInv
    <3> QED
      BY <3>1, <3>2, <3>3, <2>4, <1>d
  <2> QED
    BY <2>3, <2>5, <1>e
<1> QED
  BY <1>1, <1>2, <1>3

-----------------------------------------------------------------------------
\* All schedulers start asleep, and all are counted.
LEMMA SInvInit == Init => SInv
<1> SUFFICES ASSUME Init PROVE SInv
  OBVIOUS
<1>1. TInv
  BY TInvInit
<1>2. \A s \in Sch : pc[s] = "idle_sleep" /\ m_state[s] = "idle_sleep" /\ m_mtx[s] = Free
  BY ThreadFacts DEF Init
<1>3. pc[Main] = "async"
  BY ThreadFacts DEF Init
<1>4. CursorInv
  BY <1>3 DEF CursorInv
<1>5. AsleepInv
  BY <1>2 DEF AsleepInv, AsleepPc
<1>6. CountInv
  <2>1. {s \in Sch : pc[s] \in AsleepPc} = 1..N
    BY <1>2 DEF AsleepPc, Sch
  <2>2. Cardinality(1..N) = N
    BY SizeAssumption, FS_Interval
  <2> QED
    BY <2>1, <2>2 DEF CountInv, Init
<1>7. LockInv
  <2>1. \A s \in Sch : s # Free /\ Main # Free
    BY ThreadFacts DEF Main, Free
  <2> QED
    BY <1>2, <1>3, <2>1 DEF LockInv, LockedPc, MainLocks
<1> QED
  BY <1>1, <1>4, <1>5, <1>6, <1>7 DEF SInv

\* The invariant is inductive.
LEMMA SInvStep == SInv /\ TInv' /\ [Next]_vars => SInv'
<1> SUFFICES ASSUME SInv, TInv', [Next]_vars
             PROVE  CursorInv' /\ AsleepInv' /\ CountInv' /\ LockInv'
  BY DEF SInv
<1>1. CASE PlainStep
  BY <1>1, PlainSteps, PlainKeeps DEF SInv
<1>2. CASE UNCHANGED vars
  <2>1. Plain
    BY <1>2 DEF vars, thread_vars, shared_vars, exit_vars, Plain
  <2> QED
    BY <2>1, PlainKeeps
<1>3. CASE \E s \in Sch : \/ SleepLock(s) \/ EnterWait(s) \/ SetCheckIdle(s) \/ NotifyMain(s)
                           \/ EnterSleep(s) \/ ShouldExit(s) \/ Wake(s)
  BY <1>3, SleepKeeps
<1>4. CASE \E s \in Sch : SignalIdle(s) \/ SignalRunning(s)
  BY <1>4, CountKeeps
<1>5. CASE AllIdleTasks \/ AllIdleLock \/ AllIdleCheck
  BY <1>5, AllIdleKeeps
<1> QED
  BY <1>1, <1>2, <1>3, <1>4, <1>5
     DEF Next, PlainStep, SchedulerStep, SleepStep, AwakeStep, MainStep, MainThread, Terminated

\* In every reachable state the control points say who holds which m_mtx and
\* which schedulers are counted.
THEOREM SInvHolds == Spec => []SInv
<1>1. TInv /\ SInv /\ [Next]_vars /\ TInv' => SInv'
  BY SInvStep
<1> QED
  BY SInvInit, <1>1, TInvHolds, PTL DEF Spec

\* signal_idle and signal_running: m_idle_schedulers is the number of schedulers
\* in idle_sleep at every moment, for any number of schedulers.
THEOREM IdleCountCorrect == Spec => []IdleCountMatches
<1>1. SInv => IdleCountMatches
  <2> SUFFICES ASSUME SInv PROVE IdleCountMatches
    OBVIOUS
  <2>1. {s \in Sch : m_state[s] = "idle_sleep"} = {s \in Sch : pc[s] \in AsleepPc}
    BY DEF SInv, AsleepInv
  <2> QED
    BY <2>1 DEF SInv, CountInv, IdleCountMatches
<1> QED
  BY <1>1, SInvHolds, PTL

-----------------------------------------------------------------------------
(* Where everything is: the invariant of the second part. *)

\* Control points from the start of schedule() to the yielded worker's turn.
PassPc == {"io", "waiting", "idle", "yielded"}

\* Control points from the decision to sleep on m_cv without a timeout.
QuietPc == AsleepPc \cup {"enter_sleep"}

\* Every worker of s is where its state says; a worker that yielded waits for its
\* turn in this pass, and who goes to sleep leaves nothing behind but idle workers.
WorkersInv(s) ==
    pc[s] # "exited" =>
       /\ Enumerates(idle[s], InWorkerState(s, "idle"))
       /\ Enumerates(runnable[s], InWorkerState(s, "runnable"))
       /\ Enumerates(waiting[s], InWorkerState(s, "waiting"))
       /\ Enumerates(pending_io[s], InWorkerState(s, "pending_io"))
       /\ InWorkerState(s, "yielded") = {yielded[s]} \ {NoWorker}
       /\ InWorkerState(s, "running") = IF OnTask(s) THEN {m_worker[s]} ELSE {}
       /\ \A w \in WorkersOf(s) : wstate[w] \notin {"initializing", "exiting"}
       /\ m_worker[s] \in WorkersOf(s)
       /\ yielded[s] # NoWorker => pc[s] \in PassPc
       /\ pc[s] \in QuietPc => runnable[s] = <<>> /\ waiting[s] = <<>> /\ pending_io[s] = <<>>

\* The running worker of s is past its task's end.
TaskOver(s) ==
    \/ pc[s] \in {"done", "reset"}
    \/ pc[s] \in NotifyPc /\ ret[s] = "reset"

\* The workers that are not idle have a task, the others have none.
BusyWorkers(s) ==
    pc[s] # "exited" => \A w \in WorkersOf(s) : wtask[w] = NoTask <=> wstate[w] = "idle"

\* No task is in two places,
Queued(s) == 1..Len(m_tasks[s])
OnePlace ==
    /\ \A a, b \in Thread : hand[a] = hand[b] /\ hand[a] # NoTask => a = b
    /\ \A s, k \in Sch : \A i \in Queued(s), j \in Queued(k) :
          m_tasks[s][i] = m_tasks[k][j] => s = k /\ i = j
    /\ \A v, w \in Worker : wtask[v] = wtask[w] /\ wtask[v] # NoTask => v = w
    /\ \A th \in Thread, s \in Sch : \A i \in Queued(s) : m_tasks[s][i] # hand[th]
    /\ \A th \in Thread, w \in Worker : hand[th] = wtask[w] => hand[th] = NoTask
    /\ \A w \in Worker, s \in Sch : \A i \in Queued(s) : m_tasks[s][i] # wtask[w]

\* and one that is not done is in one.
SomePlace(t) ==
    \/ \E th \in Thread : hand[th] = t
    \/ \E s \in Sch : \E i \in Queued(s) : m_tasks[s][i] = t
    \/ \E w \in Worker : wtask[w] = t

TasksInv ==
    /\ OnePlace
    /\ \A th \in Thread : hand[th] # NoTask => tstate[hand[th]] = "init"
    /\ \A s \in Sch : \A i \in Queued(s) : tstate[m_tasks[s][i]] = "init"
    /\ \A w \in Worker : wtask[w] # NoTask => tstate[wtask[w]] # "absent"
    /\ \A t \in Task : tstate[t] = "init" => SomePlace(t)

\* Nothing is left after wait_exit, and the schedulers are on their way out.
ExitInv ==
    /\ PastWaitExit => /\ \A t \in Task : tstate[t] # "init"
                       /\ \A s \in Sch : /\ ~ has_work(s)
                                         /\ pc[s] \in {"idle_sleep", "woken", "exit_check", "exited"}
                                         /\ pc[s] \in {"woken", "exit_check"} => m_exit[s]
    /\ ~ PastWaitExit => \A s \in Sch : ~ m_exit[s]

\* An event that arrives while s holds m_mtx on its way into wait_until will be
\* followed by a notification that needs m_mtx.
Eventful(s) == (has_tasks(s) /\ idle[s] # <<>>) \/ waiters_cond(s)
Called(s) == has_tasks(s) \/ m_exit[s]
WakeInv ==
    /\ NoLostWakeup
    /\ \A s \in Sch : pc[s] = "enter_wait" /\ Eventful(s) =>
          \E th \in Thread : target[th] = s /\ pc[th] = "notify"

AllPlaced == \A s \in Sch : WorkersInv(s)
AllBusy == \A s \in Sch : BusyWorkers(s)
AllOver == \A s \in Sch : TaskOver(s) => tstate[Running(s)] = "done"
XInv == AllPlaced /\ AllBusy /\ AllOver /\ TasksInv /\ ExitInv /\ WakeInv

-----------------------------------------------------------------------------
(* The workers. *)

\* A step that leaves the workers of k where they are.
Untouched(k) ==
    /\ UNCHANGED <<idle[k], runnable[k], waiting[k], pending_io[k], yielded[k], m_worker[k]>>
    /\ \A w \in WorkersOf(k) : wstate'[w] = wstate[w]
    /\ OnTask(k)' = OnTask(k)
    /\ pc[k] = "exited" => pc'[k] = "exited"
    /\ pc[k] \in PassPc /\ yielded[k] # NoWorker => pc'[k] \in PassPc
    /\ pc'[k] \in QuietPc =>
          pc[k] \in QuietPc \/ (runnable[k] = <<>> /\ waiting[k] = <<>> /\ pending_io[k] = <<>>)

\* It keeps them in their places.
LEMMA UntouchedKeeps ==
    ASSUME NEW k \in Sch, WorkersInv(k), Untouched(k)
    PROVE  WorkersInv(k)'
<1>1. \A st : InWorkerState(k, st)' = InWorkerState(k, st)
  BY DEF Untouched, InWorkerState
<1> QED
  BY <1>1 DEF Untouched, WorkersInv

\* Nothing of the other schedulers changes.
Local(s) ==
    \A k \in Sch : k # s =>
       UNCHANGED <<pc[k], ret[k], m_worker[k], idle[k], runnable[k], waiting[k], pending_io[k], yielded[k]>>

\* A worker of s changes its state; those of the others keep theirs.
LEMMA WorkerGoes ==
    ASSUME TInv, NEW s \in Sch, NEW w \in WorkersOf(s), NEW b,
           wstate' = [wstate EXCEPT ![w] = b]
    PROVE  \A k \in Sch : k # s => \A v \in WorkersOf(k) : wstate'[v] = wstate[v]
<1>1. /\ wstate \in [Worker -> WorkerState] /\ w \in Worker
      /\ \A k \in Sch : WorkersOf(k) \subseteq Worker
      /\ \A k \in Sch : k # s => w \notin WorkersOf(k)
  BY DEF TInv, TypeOK, WorkerTypes, Worker, WorkersOf
<1>2. wstate'[w] = b /\ \A v \in Worker : v # w => wstate'[v] = wstate[v]
  BY <1>1
<1> QED
  BY <1>1, <1>2

\* A step local to s that keeps the workers of s in place keeps all of them.
LEMMA LocalKeeps ==
    ASSUME NEW s \in Sch, \A k \in Sch : WorkersInv(k), WorkersInv(s)', Local(s),
           \A k \in Sch : k # s => \A v \in WorkersOf(k) : wstate'[v] = wstate[v]
    PROVE  \A k \in Sch : WorkersInv(k)'
<1>1. ASSUME NEW k \in Sch, k # s PROVE Untouched(k)
  BY <1>1 DEF Local, Untouched, OnTask
<1> QED
  BY <1>1, UntouchedKeeps

\* The queues of s are typed, and its worker states name only workers of s.
LEMMA PlaceFacts ==
    ASSUME TInv
    PROVE  /\ pc \in [Thread -> Pc] /\ ret \in [Thread -> {"run", "reset", "pred", "join", "end"}]
           /\ Sch \subseteq Thread /\ NoWorker \notin Worker
           /\ \A k \in Sch : WorkersOf(k) \subseteq Worker
           /\ m_worker \in [Sch -> Worker] /\ yielded \in [Sch -> Worker \cup {NoWorker}]
           /\ runnable \in [Sch -> Seq(Worker)] /\ idle \in [Sch -> Seq(Worker)]
           /\ waiting \in [Sch -> Seq(Worker)] /\ pending_io \in [Sch -> Seq(Worker)]
           /\ wstate \in [Worker -> WorkerState]
  BY ThreadFacts, WorkerAssumption DEF TInv, TypeOK, ThreadTypes, QueueTypes, WorkerTypes, WorkersOf, Worker

\* Worker::yield.
LEMMA YieldWorkers ==
    ASSUME TInv, \A k \in Sch : WorkersInv(k), NEW s \in Sch, Yield(s)
    PROVE  \A k \in Sch : WorkersInv(k)'
<1>1. PICK w \in WorkersOf(s) : w = m_worker[s]
  BY DEF Yield, WorkersInv
<1>2. /\ wstate' = [wstate EXCEPT ![w] = "yielded"] /\ pc[s] = "run"
      /\ yielded' = [yielded EXCEPT ![s] = w] /\ pc' = [pc EXCEPT ![s] = "io"]
      /\ UNCHANGED <<ret, idle, runnable, waiting, pending_io, m_worker>>
  BY <1>1 DEF Yield, Goto
<1>3. /\ Local(s) /\ pc'[s] = "io"
      /\ yielded'[s] = w
  BY <1>2, PlaceFacts DEF Local, Resume, Yield, Goto
<1>4. WorkersInv(s) /\ wstate[w] = "running"
  BY <1>1, <1>2 DEF WorkersInv, OnTask, PassPc, InWorkerState
<1>5. /\ \A k \in Sch : k # s => \A v \in WorkersOf(k) : wstate'[v] = wstate[v]
      /\ \A v \in WorkersOf(s) : wstate'[v] = IF v = w THEN "yielded" ELSE wstate[v]
  <2>1. wstate' = [wstate EXCEPT ![w] = "yielded"]
    BY <1>2
  <2>2. \A k \in Sch : k # s => \A v \in WorkersOf(k) : wstate'[v] = wstate[v]
    BY <2>1, WorkerGoes
  <2>3. wstate'[w] = "yielded"
    BY <2>1, PlaceFacts
  <2>4. \A v \in WorkersOf(s) : v # w => wstate'[v] = wstate[v]
    BY <2>1, PlaceFacts
  <2> QED
    BY <2>2, <2>3, <2>4
<1>6. /\ w \in InWorkerState(s, "running") /\ w \notin InWorkerState(s, "yielded")
      /\ InWorkerState(s, "idle")' = InWorkerState(s, "idle")
      /\ InWorkerState(s, "runnable")' = InWorkerState(s, "runnable")
      /\ InWorkerState(s, "waiting")' = InWorkerState(s, "waiting")
      /\ InWorkerState(s, "pending_io")' = InWorkerState(s, "pending_io")
      /\ InWorkerState(s, "yielded")' = InWorkerState(s, "yielded") \cup {w}
      /\ InWorkerState(s, "running")' = InWorkerState(s, "running") \ {w}
  BY <1>4, <1>5 DEF InWorkerState
<1>7. WorkersInv(s)'
  <2>1. Enumerates(idle'[s], InWorkerState(s, "idle")')
    BY <1>2, <1>3, <1>4, <1>6 DEF WorkersInv
  <2>2. Enumerates(runnable'[s], InWorkerState(s, "runnable")')
    BY <1>2, <1>3, <1>4, <1>6 DEF WorkersInv
  <2>3. Enumerates(waiting'[s], InWorkerState(s, "waiting")')
    BY <1>2, <1>3, <1>4, <1>6 DEF WorkersInv
  <2>4. Enumerates(pending_io'[s], InWorkerState(s, "pending_io")')
    BY <1>2, <1>3, <1>4, <1>6 DEF WorkersInv
  <2>5. InWorkerState(s, "yielded")' = {yielded'[s]} \ {NoWorker}
    BY <1>1, <1>2, <1>3, <1>4, <1>6, PlaceFacts DEF WorkersInv, OnTask, PassPc
  <2>6. InWorkerState(s, "running")' = IF OnTask(s)' THEN {m_worker'[s]} ELSE {}
    BY <1>1, <1>2, <1>3, <1>4, <1>6 DEF WorkersInv, OnTask, AsyncPc, NotifyPc
  <2>7. \A v \in WorkersOf(s) : wstate'[v] \notin {"initializing", "exiting"}
    BY <1>2, <1>4, <1>5 DEF WorkersInv
  <2>8. /\ m_worker'[s] \in WorkersOf(s) /\ (yielded'[s] # NoWorker => pc'[s] \in PassPc)
        /\ pc'[s] \notin QuietPc /\ pc[s] # "exited"
    BY <1>2, <1>3, <1>4 DEF WorkersInv, PassPc, QuietPc, AsleepPc
  <2> QED
    BY <2>1, <2>2, <2>3, <2>4, <2>5, <2>6, <2>7, <2>8 DEF WorkersInv
<1> QED
  BY <1>3, <1>5, <1>7, LocalKeeps

\* Worker::read_file and write_file.
LEMMA StartIoWorkers ==
    ASSUME TInv, \A k \in Sch : WorkersInv(k), NEW s \in Sch, StartIo(s)
    PROVE  \A k \in Sch : WorkersInv(k)'
<1>1. PICK w \in WorkersOf(s) : w = m_worker[s]
  BY DEF StartIo, WorkersInv
<1>2. /\ wstate' = [wstate EXCEPT ![w] = "pending_io"] /\ pc[s] = "run"
      /\ pending_io' = [pending_io EXCEPT ![s] = Append(@, w)] /\ pc' = [pc EXCEPT ![s] = "io"]
      /\ UNCHANGED <<ret, idle, runnable, waiting, yielded, m_worker>>
  BY <1>1 DEF StartIo, Goto
<1>3. /\ Local(s) /\ pc'[s] = "io"
      /\ pending_io'[s] = Append(pending_io[s], w)
  BY <1>2, PlaceFacts DEF Local, Resume, StartIo, Goto
<1>4. WorkersInv(s) /\ wstate[w] = "running"
  BY <1>1, <1>2 DEF WorkersInv, OnTask, PassPc, InWorkerState
<1>5. /\ \A k \in Sch : k # s => \A v \in WorkersOf(k) : wstate'[v] = wstate[v]
      /\ \A v \in WorkersOf(s) : wstate'[v] = IF v = w THEN "pending_io" ELSE wstate[v]
  <2>1. wstate' = [wstate EXCEPT ![w] = "pending_io"]
    BY <1>2
  <2>2. \A k \in Sch : k # s => \A v \in WorkersOf(k) : wstate'[v] = wstate[v]
    BY <2>1, WorkerGoes
  <2>3. wstate'[w] = "pending_io"
    BY <2>1, PlaceFacts
  <2>4. \A v \in WorkersOf(s) : v # w => wstate'[v] = wstate[v]
    BY <2>1, PlaceFacts
  <2> QED
    BY <2>2, <2>3, <2>4
<1>6. /\ w \in InWorkerState(s, "running") /\ w \notin InWorkerState(s, "pending_io")
      /\ InWorkerState(s, "idle")' = InWorkerState(s, "idle")
      /\ InWorkerState(s, "runnable")' = InWorkerState(s, "runnable")
      /\ InWorkerState(s, "waiting")' = InWorkerState(s, "waiting")
      /\ InWorkerState(s, "pending_io")' = InWorkerState(s, "pending_io") \cup {w}
      /\ InWorkerState(s, "yielded")' = InWorkerState(s, "yielded")
      /\ InWorkerState(s, "running")' = InWorkerState(s, "running") \ {w}
  BY <1>4, <1>5 DEF InWorkerState
<1>7. WorkersInv(s)'
  <2>1. Enumerates(idle'[s], InWorkerState(s, "idle")')
    BY <1>2, <1>3, <1>4, <1>6 DEF WorkersInv
  <2>2. Enumerates(runnable'[s], InWorkerState(s, "runnable")')
    BY <1>2, <1>3, <1>4, <1>6 DEF WorkersInv
  <2>3. Enumerates(waiting'[s], InWorkerState(s, "waiting")')
    BY <1>2, <1>3, <1>4, <1>6 DEF WorkersInv
  <2>4. Enumerates(pending_io'[s], InWorkerState(s, "pending_io")')
    <3>1. Enumerates(pending_io[s], InWorkerState(s, "pending_io"))
      BY <1>2, <1>4 DEF WorkersInv
    <3>2. Enumerates(Append(pending_io[s], w), InWorkerState(s, "pending_io") \cup {w})
      BY <1>6, <3>1, EnumeratesAppend
    <3> QED
      BY <1>3, <1>6, <3>2
  <2>5. InWorkerState(s, "yielded")' = {yielded'[s]} \ {NoWorker}
    BY <1>1, <1>2, <1>3, <1>4, <1>6, PlaceFacts DEF WorkersInv, OnTask, PassPc
  <2>6. InWorkerState(s, "running")' = IF OnTask(s)' THEN {m_worker'[s]} ELSE {}
    BY <1>1, <1>2, <1>3, <1>4, <1>6 DEF WorkersInv, OnTask, AsyncPc, NotifyPc
  <2>7. \A v \in WorkersOf(s) : wstate'[v] \notin {"initializing", "exiting"}
    BY <1>2, <1>4, <1>5 DEF WorkersInv
  <2>8. /\ m_worker'[s] \in WorkersOf(s) /\ (yielded'[s] # NoWorker => pc'[s] \in PassPc)
        /\ pc'[s] \notin QuietPc /\ pc[s] # "exited"
    BY <1>2, <1>3, <1>4 DEF WorkersInv, PassPc, QuietPc, AsleepPc
  <2> QED
    BY <2>1, <2>2, <2>3, <2>4, <2>5, <2>6, <2>7, <2>8 DEF WorkersInv
<1> QED
  BY <1>3, <1>5, <1>7, LocalKeeps

\* wait_cond_or_sleep parks the worker.
LEMMA ParkWaiting ==
    ASSUME TInv, \A k \in Sch : WorkersInv(k), NEW s \in Sch, WaitCondOrSleep(s), ~ check_wait_info(m_worker[s])
    PROVE  \A k \in Sch : WorkersInv(k)'
<1>1. PICK w \in WorkersOf(s) : w = m_worker[s]
  BY DEF WaitCondOrSleep, WorkersInv
<1>2. /\ wstate' = [wstate EXCEPT ![w] = "waiting"] /\ pc[s] = "wait_check"
      /\ waiting' = [waiting EXCEPT ![s] = Append(@, w)] /\ pc' = [pc EXCEPT ![s] = "io"]
      /\ UNCHANGED <<ret, idle, runnable, pending_io, yielded, m_worker>>
  BY <1>1 DEF WaitCondOrSleep, Goto
<1>3. /\ Local(s) /\ pc'[s] = "io"
      /\ waiting'[s] = Append(waiting[s], w)
  BY <1>2, PlaceFacts DEF Local, Resume, WaitCondOrSleep, Goto
<1>4. WorkersInv(s) /\ wstate[w] = "running"
  BY <1>1, <1>2 DEF WorkersInv, OnTask, PassPc, InWorkerState
<1>5. /\ \A k \in Sch : k # s => \A v \in WorkersOf(k) : wstate'[v] = wstate[v]
      /\ \A v \in WorkersOf(s) : wstate'[v] = IF v = w THEN "waiting" ELSE wstate[v]
  <2>1. wstate' = [wstate EXCEPT ![w] = "waiting"]
    BY <1>2
  <2>2. \A k \in Sch : k # s => \A v \in WorkersOf(k) : wstate'[v] = wstate[v]
    BY <2>1, WorkerGoes
  <2>3. wstate'[w] = "waiting"
    BY <2>1, PlaceFacts
  <2>4. \A v \in WorkersOf(s) : v # w => wstate'[v] = wstate[v]
    BY <2>1, PlaceFacts
  <2> QED
    BY <2>2, <2>3, <2>4
<1>6. /\ w \in InWorkerState(s, "running") /\ w \notin InWorkerState(s, "waiting")
      /\ InWorkerState(s, "idle")' = InWorkerState(s, "idle")
      /\ InWorkerState(s, "runnable")' = InWorkerState(s, "runnable")
      /\ InWorkerState(s, "waiting")' = InWorkerState(s, "waiting") \cup {w}
      /\ InWorkerState(s, "pending_io")' = InWorkerState(s, "pending_io")
      /\ InWorkerState(s, "yielded")' = InWorkerState(s, "yielded")
      /\ InWorkerState(s, "running")' = InWorkerState(s, "running") \ {w}
  BY <1>4, <1>5 DEF InWorkerState
<1>7. WorkersInv(s)'
  <2>1. Enumerates(idle'[s], InWorkerState(s, "idle")')
    BY <1>2, <1>3, <1>4, <1>6 DEF WorkersInv
  <2>2. Enumerates(runnable'[s], InWorkerState(s, "runnable")')
    BY <1>2, <1>3, <1>4, <1>6 DEF WorkersInv
  <2>3. Enumerates(waiting'[s], InWorkerState(s, "waiting")')
    <3>1. Enumerates(waiting[s], InWorkerState(s, "waiting"))
      BY <1>2, <1>4 DEF WorkersInv
    <3>2. Enumerates(Append(waiting[s], w), InWorkerState(s, "waiting") \cup {w})
      BY <1>6, <3>1, EnumeratesAppend
    <3> QED
      BY <1>3, <1>6, <3>2
  <2>4. Enumerates(pending_io'[s], InWorkerState(s, "pending_io")')
    BY <1>2, <1>3, <1>4, <1>6 DEF WorkersInv
  <2>5. InWorkerState(s, "yielded")' = {yielded'[s]} \ {NoWorker}
    BY <1>1, <1>2, <1>3, <1>4, <1>6, PlaceFacts DEF WorkersInv, OnTask, PassPc
  <2>6. InWorkerState(s, "running")' = IF OnTask(s)' THEN {m_worker'[s]} ELSE {}
    BY <1>1, <1>2, <1>3, <1>4, <1>6 DEF WorkersInv, OnTask, AsyncPc, NotifyPc
  <2>7. \A v \in WorkersOf(s) : wstate'[v] \notin {"initializing", "exiting"}
    BY <1>2, <1>4, <1>5 DEF WorkersInv
  <2>8. /\ m_worker'[s] \in WorkersOf(s) /\ (yielded'[s] # NoWorker => pc'[s] \in PassPc)
        /\ pc'[s] \notin QuietPc /\ pc[s] # "exited"
    BY <1>2, <1>3, <1>4 DEF WorkersInv, PassPc, QuietPc, AsleepPc
  <2> QED
    BY <2>1, <2>2, <2>3, <2>4, <2>5, <2>6, <2>7, <2>8 DEF WorkersInv
<1> QED
  BY <1>3, <1>5, <1>7, LocalKeeps

\* The end of a task: park_idle.
LEMMA ParkIdleWorkers ==
    ASSUME TInv, \A k \in Sch : WorkersInv(k), NEW s \in Sch, ParkIdle(s)
    PROVE  \A k \in Sch : WorkersInv(k)'
<1>1. PICK w \in WorkersOf(s) : w = m_worker[s]
  BY DEF ParkIdle, WorkersInv
<1>2. /\ wstate' = [wstate EXCEPT ![w] = "idle"] /\ pc[s] = "reset"
      /\ idle' = [idle EXCEPT ![s] = <<w>> \o @] /\ pc' = [pc EXCEPT ![s] = "io"]
      /\ UNCHANGED <<ret, waiting, runnable, pending_io, yielded, m_worker>>
  BY <1>1 DEF ParkIdle, Goto
<1>3. /\ Local(s) /\ pc'[s] = "io"
      /\ idle'[s] = <<w>> \o idle[s]
  BY <1>2, PlaceFacts DEF Local, Resume, ParkIdle, Goto
<1>4. WorkersInv(s) /\ wstate[w] = "running"
  BY <1>1, <1>2 DEF WorkersInv, OnTask, PassPc, InWorkerState
<1>5. /\ \A k \in Sch : k # s => \A v \in WorkersOf(k) : wstate'[v] = wstate[v]
      /\ \A v \in WorkersOf(s) : wstate'[v] = IF v = w THEN "idle" ELSE wstate[v]
  <2>1. wstate' = [wstate EXCEPT ![w] = "idle"]
    BY <1>2
  <2>2. \A k \in Sch : k # s => \A v \in WorkersOf(k) : wstate'[v] = wstate[v]
    BY <2>1, WorkerGoes
  <2>3. wstate'[w] = "idle"
    BY <2>1, PlaceFacts
  <2>4. \A v \in WorkersOf(s) : v # w => wstate'[v] = wstate[v]
    BY <2>1, PlaceFacts
  <2> QED
    BY <2>2, <2>3, <2>4
<1>6. /\ w \in InWorkerState(s, "running") /\ w \notin InWorkerState(s, "idle")
      /\ InWorkerState(s, "idle")' = InWorkerState(s, "idle") \cup {w}
      /\ InWorkerState(s, "runnable")' = InWorkerState(s, "runnable")
      /\ InWorkerState(s, "waiting")' = InWorkerState(s, "waiting")
      /\ InWorkerState(s, "pending_io")' = InWorkerState(s, "pending_io")
      /\ InWorkerState(s, "yielded")' = InWorkerState(s, "yielded")
      /\ InWorkerState(s, "running")' = InWorkerState(s, "running") \ {w}
  BY <1>4, <1>5 DEF InWorkerState
<1>7. WorkersInv(s)'
  <2>1. Enumerates(idle'[s], InWorkerState(s, "idle")')
    <3>1. Enumerates(idle[s], InWorkerState(s, "idle"))
      BY <1>2, <1>4 DEF WorkersInv
    <3>2. Enumerates(<<w>> \o idle[s], InWorkerState(s, "idle") \cup {w})
      BY <1>6, <3>1, EnumeratesCons
    <3> QED
      BY <1>3, <1>6, <3>2
  <2>2. Enumerates(runnable'[s], InWorkerState(s, "runnable")')
    BY <1>2, <1>3, <1>4, <1>6 DEF WorkersInv
  <2>3. Enumerates(waiting'[s], InWorkerState(s, "waiting")')
    BY <1>2, <1>3, <1>4, <1>6 DEF WorkersInv
  <2>4. Enumerates(pending_io'[s], InWorkerState(s, "pending_io")')
    BY <1>2, <1>3, <1>4, <1>6 DEF WorkersInv
  <2>5. InWorkerState(s, "yielded")' = {yielded'[s]} \ {NoWorker}
    BY <1>1, <1>2, <1>3, <1>4, <1>6, PlaceFacts DEF WorkersInv, OnTask, PassPc
  <2>6. InWorkerState(s, "running")' = IF OnTask(s)' THEN {m_worker'[s]} ELSE {}
    BY <1>1, <1>2, <1>3, <1>4, <1>6 DEF WorkersInv, OnTask, AsyncPc, NotifyPc
  <2>7. \A v \in WorkersOf(s) : wstate'[v] \notin {"initializing", "exiting"}
    BY <1>2, <1>4, <1>5 DEF WorkersInv
  <2>8. /\ m_worker'[s] \in WorkersOf(s) /\ (yielded'[s] # NoWorker => pc'[s] \in PassPc)
        /\ pc'[s] \notin QuietPc /\ pc[s] # "exited"
    BY <1>2, <1>3, <1>4 DEF WorkersInv, PassPc, QuietPc, AsleepPc
  <2> QED
    BY <2>1, <2>2, <2>3, <2>4, <2>5, <2>6, <2>7, <2>8 DEF WorkersInv
<1> QED
  BY <1>3, <1>5, <1>7, LocalKeeps

\* schedule_io_workers finds a worker that can go on.
LEMMA ReadyIo ==
    ASSUME TInv, \A k \in Sch : WorkersInv(k), NEW s \in Sch, ScheduleIo(s), it[s] <= Len(pending_io[s]), ~ io[pending_io[s][it[s]]]
    PROVE  \A k \in Sch : WorkersInv(k)'
<1>0. /\ it[s] \in 1..Len(pending_io[s]) /\ ~ (it[s] > Len(pending_io[s])) /\ pc[s] = "io"
      /\ Enumerates(pending_io[s], InWorkerState(s, "pending_io"))
  BY ThreadFacts DEF TInv, TypeOK, ThreadTypes, ScheduleIo, WorkersInv
<1>1. PICK w \in WorkersOf(s) : w = pending_io[s][it[s]] /\ wstate[w] = "pending_io"
  BY <1>0, EnumeratesFacts DEF InWorkerState
<1>2. /\ wstate' = [wstate EXCEPT ![w] = "runnable"] /\ pc[s] = "io"
      /\ pending_io' = [pending_io EXCEPT ![s] = RemoveAt(@, it[s])] /\ runnable' = [runnable EXCEPT ![s] = Append(@, w)]
      /\ UNCHANGED <<pc, ret, idle, waiting, yielded, m_worker>>
  BY <1>0, <1>1 DEF ScheduleIo, Goto
<1>3. /\ Local(s) /\ pc'[s] = "io"
      /\ pending_io'[s] = RemoveAt(pending_io[s], it[s]) /\ runnable'[s] = Append(runnable[s], w)
  BY <1>2, PlaceFacts DEF Local, Resume, ScheduleIo, Goto
<1>4. WorkersInv(s) /\ wstate[w] = "pending_io"
  BY <1>1, <1>2 DEF WorkersInv, OnTask, PassPc, InWorkerState
<1>5. /\ \A k \in Sch : k # s => \A v \in WorkersOf(k) : wstate'[v] = wstate[v]
      /\ \A v \in WorkersOf(s) : wstate'[v] = IF v = w THEN "runnable" ELSE wstate[v]
  <2>1. wstate' = [wstate EXCEPT ![w] = "runnable"]
    BY <1>2
  <2>2. \A k \in Sch : k # s => \A v \in WorkersOf(k) : wstate'[v] = wstate[v]
    BY <2>1, WorkerGoes
  <2>3. wstate'[w] = "runnable"
    BY <2>1, PlaceFacts
  <2>4. \A v \in WorkersOf(s) : v # w => wstate'[v] = wstate[v]
    BY <2>1, PlaceFacts
  <2> QED
    BY <2>2, <2>3, <2>4
<1>6. /\ w \in InWorkerState(s, "pending_io") /\ w \notin InWorkerState(s, "runnable")
      /\ InWorkerState(s, "idle")' = InWorkerState(s, "idle")
      /\ InWorkerState(s, "runnable")' = InWorkerState(s, "runnable") \cup {w}
      /\ InWorkerState(s, "waiting")' = InWorkerState(s, "waiting")
      /\ InWorkerState(s, "pending_io")' = InWorkerState(s, "pending_io") \ {w}
      /\ InWorkerState(s, "yielded")' = InWorkerState(s, "yielded")
      /\ InWorkerState(s, "running")' = InWorkerState(s, "running")
  BY <1>4, <1>5 DEF InWorkerState
<1>7. WorkersInv(s)'
  <2>1. Enumerates(idle'[s], InWorkerState(s, "idle")')
    BY <1>2, <1>3, <1>4, <1>6 DEF WorkersInv
  <2>2. Enumerates(runnable'[s], InWorkerState(s, "runnable")')
    <3>1. Enumerates(runnable[s], InWorkerState(s, "runnable"))
      BY <1>2, <1>4 DEF WorkersInv
    <3>2. Enumerates(Append(runnable[s], w), InWorkerState(s, "runnable") \cup {w})
      BY <1>6, <3>1, EnumeratesAppend
    <3> QED
      BY <1>3, <1>6, <3>2
  <2>3. Enumerates(waiting'[s], InWorkerState(s, "waiting")')
    BY <1>2, <1>3, <1>4, <1>6 DEF WorkersInv
  <2>4. Enumerates(pending_io'[s], InWorkerState(s, "pending_io")')
    BY <1>0, <1>1, <1>3, <1>6, EnumeratesRemove
  <2>5. InWorkerState(s, "yielded")' = {yielded'[s]} \ {NoWorker}
    BY <1>1, <1>2, <1>3, <1>4, <1>6, PlaceFacts DEF WorkersInv, OnTask, PassPc
  <2>6. InWorkerState(s, "running")' = IF OnTask(s)' THEN {m_worker'[s]} ELSE {}
    BY <1>1, <1>2, <1>3, <1>4, <1>6 DEF WorkersInv, OnTask, AsyncPc, NotifyPc
  <2>7. \A v \in WorkersOf(s) : wstate'[v] \notin {"initializing", "exiting"}
    BY <1>2, <1>4, <1>5 DEF WorkersInv
  <2>8. /\ m_worker'[s] \in WorkersOf(s) /\ (yielded'[s] # NoWorker => pc'[s] \in PassPc)
        /\ pc'[s] \notin QuietPc /\ pc[s] # "exited"
    BY <1>2, <1>3, <1>4 DEF WorkersInv, PassPc, QuietPc, AsleepPc
  <2> QED
    BY <2>1, <2>2, <2>3, <2>4, <2>5, <2>6, <2>7, <2>8 DEF WorkersInv
<1> QED
  BY <1>3, <1>5, <1>7, LocalKeeps

\* schedule_waiting_workers finds a worker that can go on.
LEMMA ReadyWaiting ==
    ASSUME TInv, \A k \in Sch : WorkersInv(k), NEW s \in Sch, ScheduleWaiting(s), it[s] <= Len(waiting[s]), check_wait_info(waiting[s][it[s]])
    PROVE  \A k \in Sch : WorkersInv(k)'
<1>0. /\ it[s] \in 1..Len(waiting[s]) /\ ~ (it[s] > Len(waiting[s])) /\ pc[s] = "waiting"
      /\ Enumerates(waiting[s], InWorkerState(s, "waiting"))
  BY ThreadFacts DEF TInv, TypeOK, ThreadTypes, ScheduleWaiting, WorkersInv
<1>1. PICK w \in WorkersOf(s) : w = waiting[s][it[s]] /\ wstate[w] = "waiting"
  BY <1>0, EnumeratesFacts DEF InWorkerState
<1>2. /\ wstate' = [wstate EXCEPT ![w] = "runnable"] /\ pc[s] = "waiting"
      /\ waiting' = [waiting EXCEPT ![s] = RemoveAt(@, it[s])] /\ runnable' = [runnable EXCEPT ![s] = Append(@, w)]
      /\ UNCHANGED <<pc, ret, idle, pending_io, yielded, m_worker>>
  BY <1>0, <1>1 DEF ScheduleWaiting, Goto
<1>3. /\ Local(s) /\ pc'[s] = "waiting"
      /\ waiting'[s] = RemoveAt(waiting[s], it[s]) /\ runnable'[s] = Append(runnable[s], w)
  BY <1>2, PlaceFacts DEF Local, Resume, ScheduleWaiting, Goto
<1>4. WorkersInv(s) /\ wstate[w] = "waiting"
  BY <1>1, <1>2 DEF WorkersInv, OnTask, PassPc, InWorkerState
<1>5. /\ \A k \in Sch : k # s => \A v \in WorkersOf(k) : wstate'[v] = wstate[v]
      /\ \A v \in WorkersOf(s) : wstate'[v] = IF v = w THEN "runnable" ELSE wstate[v]
  <2>1. wstate' = [wstate EXCEPT ![w] = "runnable"]
    BY <1>2
  <2>2. \A k \in Sch : k # s => \A v \in WorkersOf(k) : wstate'[v] = wstate[v]
    BY <2>1, WorkerGoes
  <2>3. wstate'[w] = "runnable"
    BY <2>1, PlaceFacts
  <2>4. \A v \in WorkersOf(s) : v # w => wstate'[v] = wstate[v]
    BY <2>1, PlaceFacts
  <2> QED
    BY <2>2, <2>3, <2>4
<1>6. /\ w \in InWorkerState(s, "waiting") /\ w \notin InWorkerState(s, "runnable")
      /\ InWorkerState(s, "idle")' = InWorkerState(s, "idle")
      /\ InWorkerState(s, "runnable")' = InWorkerState(s, "runnable") \cup {w}
      /\ InWorkerState(s, "waiting")' = InWorkerState(s, "waiting") \ {w}
      /\ InWorkerState(s, "pending_io")' = InWorkerState(s, "pending_io")
      /\ InWorkerState(s, "yielded")' = InWorkerState(s, "yielded")
      /\ InWorkerState(s, "running")' = InWorkerState(s, "running")
  BY <1>4, <1>5 DEF InWorkerState
<1>7. WorkersInv(s)'
  <2>1. Enumerates(idle'[s], InWorkerState(s, "idle")')
    BY <1>2, <1>3, <1>4, <1>6 DEF WorkersInv
  <2>2. Enumerates(runnable'[s], InWorkerState(s, "runnable")')
    <3>1. Enumerates(runnable[s], InWorkerState(s, "runnable"))
      BY <1>2, <1>4 DEF WorkersInv
    <3>2. Enumerates(Append(runnable[s], w), InWorkerState(s, "runnable") \cup {w})
      BY <1>6, <3>1, EnumeratesAppend
    <3> QED
      BY <1>3, <1>6, <3>2
  <2>3. Enumerates(waiting'[s], InWorkerState(s, "waiting")')
    BY <1>0, <1>1, <1>3, <1>6, EnumeratesRemove
  <2>4. Enumerates(pending_io'[s], InWorkerState(s, "pending_io")')
    BY <1>2, <1>3, <1>4, <1>6 DEF WorkersInv
  <2>5. InWorkerState(s, "yielded")' = {yielded'[s]} \ {NoWorker}
    BY <1>1, <1>2, <1>3, <1>4, <1>6, PlaceFacts DEF WorkersInv, OnTask, PassPc
  <2>6. InWorkerState(s, "running")' = IF OnTask(s)' THEN {m_worker'[s]} ELSE {}
    BY <1>1, <1>2, <1>3, <1>4, <1>6 DEF WorkersInv, OnTask, AsyncPc, NotifyPc
  <2>7. \A v \in WorkersOf(s) : wstate'[v] \notin {"initializing", "exiting"}
    BY <1>2, <1>4, <1>5 DEF WorkersInv
  <2>8. /\ m_worker'[s] \in WorkersOf(s) /\ (yielded'[s] # NoWorker => pc'[s] \in PassPc)
        /\ pc'[s] \notin QuietPc /\ pc[s] # "exited"
    BY <1>2, <1>3, <1>4 DEF WorkersInv, PassPc, QuietPc, AsleepPc
  <2> QED
    BY <2>1, <2>2, <2>3, <2>4, <2>5, <2>6, <2>7, <2>8 DEF WorkersInv
<1> QED
  BY <1>3, <1>5, <1>7, LocalKeeps

\* schedule_idle_workers gives a task to an idle worker.
LEMMA IdleGetsTask ==
    ASSUME TInv, \A k \in Sch : WorkersInv(k), NEW s \in Sch, ScheduleIdle(s), runnable[s] = <<>>, idle[s] # <<>>, has_tasks(s)
    PROVE  \A k \in Sch : WorkersInv(k)'
<1>0. idle[s] # <<>> /\ pc[s] = "idle" /\ Enumerates(idle[s], InWorkerState(s, "idle"))
  BY DEF TInv, ThreadInv, ScheduleIdle, WorkersInv
<1>1. PICK w \in WorkersOf(s) : w = Head(idle[s]) /\ wstate[w] = "idle"
  <2>1. Head(idle[s]) \in InWorkerState(s, "idle")
    BY <1>0, EnumeratesTail
  <2> QED
    BY <2>1 DEF InWorkerState
<1>2. /\ wstate' = [wstate EXCEPT ![w] = "runnable"] /\ pc[s] = "idle"
      /\ idle' = [idle EXCEPT ![s] = Tail(@)] /\ runnable' = [runnable EXCEPT ![s] = Append(@, w)]
      /\ pc' = [pc EXCEPT ![s] = "yielded"]
      /\ UNCHANGED <<ret, waiting, pending_io, yielded, m_worker>>
  BY <1>1 DEF ScheduleIdle, GiveTask, Goto
<1>3. /\ Local(s) /\ pc'[s] = "yielded"
      /\ idle'[s] = Tail(idle[s]) /\ runnable'[s] = Append(runnable[s], w)
  BY <1>2, PlaceFacts DEF Local, Resume, ScheduleIdle, GiveTask, Goto
<1>4. WorkersInv(s) /\ wstate[w] = "idle"
  BY <1>1, <1>2 DEF WorkersInv, OnTask, PassPc, InWorkerState
<1>5. /\ \A k \in Sch : k # s => \A v \in WorkersOf(k) : wstate'[v] = wstate[v]
      /\ \A v \in WorkersOf(s) : wstate'[v] = IF v = w THEN "runnable" ELSE wstate[v]
  <2>1. wstate' = [wstate EXCEPT ![w] = "runnable"]
    BY <1>2
  <2>2. \A k \in Sch : k # s => \A v \in WorkersOf(k) : wstate'[v] = wstate[v]
    BY <2>1, WorkerGoes
  <2>3. wstate'[w] = "runnable"
    BY <2>1, PlaceFacts
  <2>4. \A v \in WorkersOf(s) : v # w => wstate'[v] = wstate[v]
    BY <2>1, PlaceFacts
  <2> QED
    BY <2>2, <2>3, <2>4
<1>6. /\ w \in InWorkerState(s, "idle") /\ w \notin InWorkerState(s, "runnable")
      /\ InWorkerState(s, "idle")' = InWorkerState(s, "idle") \ {w}
      /\ InWorkerState(s, "runnable")' = InWorkerState(s, "runnable") \cup {w}
      /\ InWorkerState(s, "waiting")' = InWorkerState(s, "waiting")
      /\ InWorkerState(s, "pending_io")' = InWorkerState(s, "pending_io")
      /\ InWorkerState(s, "yielded")' = InWorkerState(s, "yielded")
      /\ InWorkerState(s, "running")' = InWorkerState(s, "running")
  BY <1>4, <1>5 DEF InWorkerState
<1>7. WorkersInv(s)'
  <2>1. Enumerates(idle'[s], InWorkerState(s, "idle")')
    BY <1>0, <1>1, <1>3, <1>6, EnumeratesTail
  <2>2. Enumerates(runnable'[s], InWorkerState(s, "runnable")')
    <3>1. Enumerates(runnable[s], InWorkerState(s, "runnable"))
      BY <1>2, <1>4 DEF WorkersInv
    <3>2. Enumerates(Append(runnable[s], w), InWorkerState(s, "runnable") \cup {w})
      BY <1>6, <3>1, EnumeratesAppend
    <3> QED
      BY <1>3, <1>6, <3>2
  <2>3. Enumerates(waiting'[s], InWorkerState(s, "waiting")')
    BY <1>2, <1>3, <1>4, <1>6 DEF WorkersInv
  <2>4. Enumerates(pending_io'[s], InWorkerState(s, "pending_io")')
    BY <1>2, <1>3, <1>4, <1>6 DEF WorkersInv
  <2>5. InWorkerState(s, "yielded")' = {yielded'[s]} \ {NoWorker}
    BY <1>1, <1>2, <1>3, <1>4, <1>6, PlaceFacts DEF WorkersInv, OnTask, PassPc
  <2>6. InWorkerState(s, "running")' = IF OnTask(s)' THEN {m_worker'[s]} ELSE {}
    BY <1>1, <1>2, <1>3, <1>4, <1>6 DEF WorkersInv, OnTask, AsyncPc, NotifyPc
  <2>7. \A v \in WorkersOf(s) : wstate'[v] \notin {"initializing", "exiting"}
    BY <1>2, <1>4, <1>5 DEF WorkersInv
  <2>8. /\ m_worker'[s] \in WorkersOf(s) /\ (yielded'[s] # NoWorker => pc'[s] \in PassPc)
        /\ pc'[s] \notin QuietPc /\ pc[s] # "exited"
    BY <1>2, <1>3, <1>4 DEF WorkersInv, PassPc, QuietPc, AsleepPc
  <2> QED
    BY <2>1, <2>2, <2>3, <2>4, <2>5, <2>6, <2>7, <2>8 DEF WorkersInv
<1> QED
  BY <1>3, <1>5, <1>7, LocalKeeps

\* steal_work gives one a stolen task.
LEMMA IdleGetsStolen ==
    ASSUME TInv, \A k \in Sch : WorkersInv(k), NEW s \in Sch, Rob(s), has_tasks(it[s])
    PROVE  \A k \in Sch : WorkersInv(k)'
<1>0. idle[s] # <<>> /\ pc[s] = "rob" /\ Enumerates(idle[s], InWorkerState(s, "idle"))
  BY DEF TInv, ThreadInv, Rob, WorkersInv
<1>1. PICK w \in WorkersOf(s) : w = Head(idle[s]) /\ wstate[w] = "idle"
  <2>1. Head(idle[s]) \in InWorkerState(s, "idle")
    BY <1>0, EnumeratesTail
  <2> QED
    BY <2>1 DEF InWorkerState
<1>2. /\ wstate' = [wstate EXCEPT ![w] = "runnable"] /\ pc[s] = "rob"
      /\ idle' = [idle EXCEPT ![s] = Tail(@)] /\ runnable' = [runnable EXCEPT ![s] = Append(@, w)]
      /\ pc' = [pc EXCEPT ![s] = "decide"]
      /\ UNCHANGED <<ret, waiting, pending_io, yielded, m_worker>>
  BY <1>1 DEF Rob, GiveTask, Goto
<1>3. /\ Local(s) /\ pc'[s] = "decide"
      /\ idle'[s] = Tail(idle[s]) /\ runnable'[s] = Append(runnable[s], w)
  BY <1>2, PlaceFacts DEF Local, Resume, Rob, GiveTask, Goto
<1>4. WorkersInv(s) /\ wstate[w] = "idle"
  BY <1>1, <1>2 DEF WorkersInv, OnTask, PassPc, InWorkerState
<1>5. /\ \A k \in Sch : k # s => \A v \in WorkersOf(k) : wstate'[v] = wstate[v]
      /\ \A v \in WorkersOf(s) : wstate'[v] = IF v = w THEN "runnable" ELSE wstate[v]
  <2>1. wstate' = [wstate EXCEPT ![w] = "runnable"]
    BY <1>2
  <2>2. \A k \in Sch : k # s => \A v \in WorkersOf(k) : wstate'[v] = wstate[v]
    BY <2>1, WorkerGoes
  <2>3. wstate'[w] = "runnable"
    BY <2>1, PlaceFacts
  <2>4. \A v \in WorkersOf(s) : v # w => wstate'[v] = wstate[v]
    BY <2>1, PlaceFacts
  <2> QED
    BY <2>2, <2>3, <2>4
<1>6. /\ w \in InWorkerState(s, "idle") /\ w \notin InWorkerState(s, "runnable")
      /\ InWorkerState(s, "idle")' = InWorkerState(s, "idle") \ {w}
      /\ InWorkerState(s, "runnable")' = InWorkerState(s, "runnable") \cup {w}
      /\ InWorkerState(s, "waiting")' = InWorkerState(s, "waiting")
      /\ InWorkerState(s, "pending_io")' = InWorkerState(s, "pending_io")
      /\ InWorkerState(s, "yielded")' = InWorkerState(s, "yielded")
      /\ InWorkerState(s, "running")' = InWorkerState(s, "running")
  BY <1>4, <1>5 DEF InWorkerState
<1>7. WorkersInv(s)'
  <2>1. Enumerates(idle'[s], InWorkerState(s, "idle")')
    BY <1>0, <1>1, <1>3, <1>6, EnumeratesTail
  <2>2. Enumerates(runnable'[s], InWorkerState(s, "runnable")')
    <3>1. Enumerates(runnable[s], InWorkerState(s, "runnable"))
      BY <1>2, <1>4 DEF WorkersInv
    <3>2. Enumerates(Append(runnable[s], w), InWorkerState(s, "runnable") \cup {w})
      BY <1>6, <3>1, EnumeratesAppend
    <3> QED
      BY <1>3, <1>6, <3>2
  <2>3. Enumerates(waiting'[s], InWorkerState(s, "waiting")')
    BY <1>2, <1>3, <1>4, <1>6 DEF WorkersInv
  <2>4. Enumerates(pending_io'[s], InWorkerState(s, "pending_io")')
    BY <1>2, <1>3, <1>4, <1>6 DEF WorkersInv
  <2>5. InWorkerState(s, "yielded")' = {yielded'[s]} \ {NoWorker}
    BY <1>1, <1>2, <1>3, <1>4, <1>6, PlaceFacts DEF WorkersInv, OnTask, PassPc
  <2>6. InWorkerState(s, "running")' = IF OnTask(s)' THEN {m_worker'[s]} ELSE {}
    BY <1>1, <1>2, <1>3, <1>4, <1>6 DEF WorkersInv, OnTask, AsyncPc, NotifyPc
  <2>7. \A v \in WorkersOf(s) : wstate'[v] \notin {"initializing", "exiting"}
    BY <1>2, <1>4, <1>5 DEF WorkersInv
  <2>8. /\ m_worker'[s] \in WorkersOf(s) /\ (yielded'[s] # NoWorker => pc'[s] \in PassPc)
        /\ pc'[s] \notin QuietPc /\ pc[s] # "exited"
    BY <1>2, <1>3, <1>4 DEF WorkersInv, PassPc, QuietPc, AsleepPc
  <2> QED
    BY <2>1, <2>2, <2>3, <2>4, <2>5, <2>6, <2>7, <2>8 DEF WorkersInv
<1> QED
  BY <1>3, <1>5, <1>7, LocalKeeps

\* schedule_yielded_workers.
LEMMA ReadyYielded ==
    ASSUME TInv, \A k \in Sch : WorkersInv(k), NEW s \in Sch, ScheduleYielded(s), yielded[s] # NoWorker
    PROVE  \A k \in Sch : WorkersInv(k)'
<1>1. PICK w \in WorkersOf(s) : w = yielded[s] /\ wstate[w] = "yielded"
  <2>1. pc[s] = "yielded" /\ yielded[s] \in InWorkerState(s, "yielded")
    BY DEF ScheduleYielded, WorkersInv
  <2> QED
    BY <2>1 DEF InWorkerState
<1>2. /\ wstate' = [wstate EXCEPT ![w] = "runnable"] /\ pc[s] = "yielded"
      /\ yielded' = [yielded EXCEPT ![s] = NoWorker] /\ runnable' = [runnable EXCEPT ![s] = Append(@, w)]
      /\ pc' = [pc EXCEPT ![s] = "steal"]
      /\ UNCHANGED <<ret, idle, waiting, pending_io, m_worker>>
  BY <1>1 DEF ScheduleYielded, Goto
<1>3. /\ Local(s) /\ pc'[s] = "steal"
      /\ yielded'[s] = NoWorker /\ runnable'[s] = Append(runnable[s], w)
  BY <1>2, PlaceFacts DEF Local, Resume, ScheduleYielded, Goto
<1>4. WorkersInv(s) /\ wstate[w] = "yielded"
  BY <1>1, <1>2 DEF WorkersInv, OnTask, PassPc, InWorkerState
<1>5. /\ \A k \in Sch : k # s => \A v \in WorkersOf(k) : wstate'[v] = wstate[v]
      /\ \A v \in WorkersOf(s) : wstate'[v] = IF v = w THEN "runnable" ELSE wstate[v]
  <2>1. wstate' = [wstate EXCEPT ![w] = "runnable"]
    BY <1>2
  <2>2. \A k \in Sch : k # s => \A v \in WorkersOf(k) : wstate'[v] = wstate[v]
    BY <2>1, WorkerGoes
  <2>3. wstate'[w] = "runnable"
    BY <2>1, PlaceFacts
  <2>4. \A v \in WorkersOf(s) : v # w => wstate'[v] = wstate[v]
    BY <2>1, PlaceFacts
  <2> QED
    BY <2>2, <2>3, <2>4
<1>6. /\ w \in InWorkerState(s, "yielded") /\ w \notin InWorkerState(s, "runnable")
      /\ InWorkerState(s, "idle")' = InWorkerState(s, "idle")
      /\ InWorkerState(s, "runnable")' = InWorkerState(s, "runnable") \cup {w}
      /\ InWorkerState(s, "waiting")' = InWorkerState(s, "waiting")
      /\ InWorkerState(s, "pending_io")' = InWorkerState(s, "pending_io")
      /\ InWorkerState(s, "yielded")' = InWorkerState(s, "yielded") \ {w}
      /\ InWorkerState(s, "running")' = InWorkerState(s, "running")
  BY <1>4, <1>5 DEF InWorkerState
<1>7. WorkersInv(s)'
  <2>1. Enumerates(idle'[s], InWorkerState(s, "idle")')
    BY <1>2, <1>3, <1>4, <1>6 DEF WorkersInv
  <2>2. Enumerates(runnable'[s], InWorkerState(s, "runnable")')
    <3>1. Enumerates(runnable[s], InWorkerState(s, "runnable"))
      BY <1>2, <1>4 DEF WorkersInv
    <3>2. Enumerates(Append(runnable[s], w), InWorkerState(s, "runnable") \cup {w})
      BY <1>6, <3>1, EnumeratesAppend
    <3> QED
      BY <1>3, <1>6, <3>2
  <2>3. Enumerates(waiting'[s], InWorkerState(s, "waiting")')
    BY <1>2, <1>3, <1>4, <1>6 DEF WorkersInv
  <2>4. Enumerates(pending_io'[s], InWorkerState(s, "pending_io")')
    BY <1>2, <1>3, <1>4, <1>6 DEF WorkersInv
  <2>5. InWorkerState(s, "yielded")' = {yielded'[s]} \ {NoWorker}
    BY <1>1, <1>2, <1>3, <1>4, <1>6, PlaceFacts DEF WorkersInv, OnTask, PassPc
  <2>6. InWorkerState(s, "running")' = IF OnTask(s)' THEN {m_worker'[s]} ELSE {}
    BY <1>1, <1>2, <1>3, <1>4, <1>6 DEF WorkersInv, OnTask, AsyncPc, NotifyPc
  <2>7. \A v \in WorkersOf(s) : wstate'[v] \notin {"initializing", "exiting"}
    BY <1>2, <1>4, <1>5 DEF WorkersInv
  <2>8. /\ m_worker'[s] \in WorkersOf(s) /\ (yielded'[s] # NoWorker => pc'[s] \in PassPc)
        /\ pc'[s] \notin QuietPc /\ pc[s] # "exited"
    BY <1>2, <1>3, <1>4 DEF WorkersInv, PassPc, QuietPc, AsleepPc
  <2> QED
    BY <2>1, <2>2, <2>3, <2>4, <2>5, <2>6, <2>7, <2>8 DEF WorkersInv
<1> QED
  BY <1>3, <1>5, <1>7, LocalKeeps

\* prepare_exec.
LEMMA PrepareExecWorkers ==
    ASSUME TInv, \A k \in Sch : WorkersInv(k), NEW s \in Sch, PrepareExec(s)
    PROVE  \A k \in Sch : WorkersInv(k)'
<1>0. runnable[s] # <<>> /\ pc[s] = "decide" /\ Enumerates(runnable[s], InWorkerState(s, "runnable"))
  BY DEF PrepareExec, WorkersInv
<1>1. PICK w \in WorkersOf(s) : w = Head(runnable[s]) /\ wstate[w] = "runnable"
  <2>1. Head(runnable[s]) \in InWorkerState(s, "runnable")
    BY <1>0, EnumeratesTail
  <2> QED
    BY <2>1 DEF InWorkerState
<1>2. /\ wstate' = [wstate EXCEPT ![w] = "running"] /\ pc[s] = "decide"
      /\ m_worker' = [m_worker EXCEPT ![s] = w] /\ runnable' = [runnable EXCEPT ![s] = Tail(@)]
      /\ pc' = [pc EXCEPT ![s] = Resume(w)]
      /\ UNCHANGED <<ret, idle, waiting, pending_io, yielded>>
  BY <1>1 DEF PrepareExec, Goto
<1>3. /\ Local(s) /\ pc'[s] \in {"run", "recheck"}
      /\ m_worker'[s] = w /\ runnable'[s] = Tail(runnable[s])
  BY <1>2, PlaceFacts DEF Local, Resume, PrepareExec, Goto
<1>4. WorkersInv(s) /\ wstate[w] = "runnable"
  BY <1>1, <1>2 DEF WorkersInv, OnTask, PassPc, InWorkerState
<1>5. /\ \A k \in Sch : k # s => \A v \in WorkersOf(k) : wstate'[v] = wstate[v]
      /\ \A v \in WorkersOf(s) : wstate'[v] = IF v = w THEN "running" ELSE wstate[v]
  <2>1. wstate' = [wstate EXCEPT ![w] = "running"]
    BY <1>2
  <2>2. \A k \in Sch : k # s => \A v \in WorkersOf(k) : wstate'[v] = wstate[v]
    BY <2>1, WorkerGoes
  <2>3. wstate'[w] = "running"
    BY <2>1, PlaceFacts
  <2>4. \A v \in WorkersOf(s) : v # w => wstate'[v] = wstate[v]
    BY <2>1, PlaceFacts
  <2> QED
    BY <2>2, <2>3, <2>4
<1>6. /\ w \in InWorkerState(s, "runnable") /\ w \notin InWorkerState(s, "running")
      /\ InWorkerState(s, "idle")' = InWorkerState(s, "idle")
      /\ InWorkerState(s, "runnable")' = InWorkerState(s, "runnable") \ {w}
      /\ InWorkerState(s, "waiting")' = InWorkerState(s, "waiting")
      /\ InWorkerState(s, "pending_io")' = InWorkerState(s, "pending_io")
      /\ InWorkerState(s, "yielded")' = InWorkerState(s, "yielded")
      /\ InWorkerState(s, "running")' = InWorkerState(s, "running") \cup {w}
  BY <1>4, <1>5 DEF InWorkerState
<1>7. WorkersInv(s)'
  <2>1. Enumerates(idle'[s], InWorkerState(s, "idle")')
    BY <1>2, <1>3, <1>4, <1>6 DEF WorkersInv
  <2>2. Enumerates(runnable'[s], InWorkerState(s, "runnable")')
    BY <1>0, <1>1, <1>3, <1>6, EnumeratesTail
  <2>3. Enumerates(waiting'[s], InWorkerState(s, "waiting")')
    BY <1>2, <1>3, <1>4, <1>6 DEF WorkersInv
  <2>4. Enumerates(pending_io'[s], InWorkerState(s, "pending_io")')
    BY <1>2, <1>3, <1>4, <1>6 DEF WorkersInv
  <2>5. InWorkerState(s, "yielded")' = {yielded'[s]} \ {NoWorker}
    BY <1>1, <1>2, <1>3, <1>4, <1>6, PlaceFacts DEF WorkersInv, OnTask, PassPc
  <2>6. InWorkerState(s, "running")' = IF OnTask(s)' THEN {m_worker'[s]} ELSE {}
    BY <1>1, <1>2, <1>3, <1>4, <1>6 DEF WorkersInv, OnTask, AsyncPc, NotifyPc
  <2>7. \A v \in WorkersOf(s) : wstate'[v] \notin {"initializing", "exiting"}
    BY <1>2, <1>4, <1>5 DEF WorkersInv
  <2>8. /\ m_worker'[s] \in WorkersOf(s) /\ (yielded'[s] # NoWorker => pc'[s] \in PassPc)
        /\ pc'[s] \notin QuietPc /\ pc[s] # "exited"
    BY <1>2, <1>3, <1>4 DEF WorkersInv, PassPc, QuietPc, AsleepPc
  <2> QED
    BY <2>1, <2>2, <2>3, <2>4, <2>5, <2>6, <2>7, <2>8 DEF WorkersInv
<1> QED
  BY <1>3, <1>5, <1>7, LocalKeeps

\* Control points at which the running worker executes a task.
OnTaskPc == {"run", "wait_check", "recheck", "done", "reset"} \cup AsyncPc \cup NotifyPc

\* A move of s to l that keeps its workers where they are.
Class(s, l) ==
    /\ pc[s] # "exited"
    /\ l \in OnTaskPc <=> pc[s] \in OnTaskPc
    /\ pc[s] \in PassPc /\ yielded[s] # NoWorker => l \in PassPc
    /\ l \in QuietPc =>
          pc[s] \in QuietPc \/ (runnable[s] = <<>> /\ waiting[s] = <<>> /\ pending_io[s] = <<>>)

\* What most steps leave alone.
Still == UNCHANGED <<idle, runnable, waiting, pending_io, yielded, m_worker, wstate>>

\* A step that only moves s, within the class of its control point, leaves the
\* workers where they are.
LEMMA PcMoves ==
    ASSUME TInv, NEW s \in Sch, Still, pc' = pc \/ \E l : pc' = [pc EXCEPT ![s] = l] /\ Class(s, l)
    PROVE  \A k \in Sch : Untouched(k)
<1>1. ASSUME NEW k \in Sch, pc'[k] = pc[k] PROVE Untouched(k)
  BY <1>1 DEF Still, Untouched, OnTask
<1>2. CASE pc' = pc
  BY <1>1, <1>2
<1>3. ASSUME NEW l, pc' = [pc EXCEPT ![s] = l], Class(s, l) PROVE \A k \in Sch : Untouched(k)
  <2>1. pc'[s] = l /\ \A k \in Sch : k # s => pc'[k] = pc[k]
    BY <1>3, PlaceFacts
  <2>2. Untouched(s)
    BY <1>3, <2>1 DEF Still, Class, Untouched, OnTask, OnTaskPc
  <2> QED
    BY <1>1, <2>1, <2>2
<1> QED
  BY <1>2, <1>3

\* Steps of a scheduler's thread that leave every worker where it is.
UserStays(s) ==
    \/ Async(s) \/ SleepUntil(s) \/ WaitTask(s) \/ Recheck(s) \/ Finish(s) \/ NotifyWaiter(s)
    \/ (WaitCondOrSleep(s) /\ check_wait_info(m_worker[s]))
PassStays(s) ==
    \/ ScheduleIo(s) /\ (it[s] > Len(pending_io[s]) \/ io[pending_io[s][it[s]]])
    \/ ScheduleWaiting(s) /\ (it[s] > Len(waiting[s]) \/ ~ check_wait_info(waiting[s][it[s]]))
    \/ ScheduleIdle(s) /\ ~ (runnable[s] = <<>> /\ idle[s] # <<>> /\ has_tasks(s))
    \/ ScheduleYielded(s) /\ yielded[s] = NoWorker
    \/ StealWork(s)
    \/ Rob(s) /\ ~ has_tasks(it[s])
SleepStays(s) ==
    \/ SpinOrPoll(s) \/ SleepLock(s) \/ EnterWait(s) \/ SignalIdle(s) \/ SetCheckIdle(s)
    \/ NotifyMain(s) \/ EnterSleep(s) \/ Wake(s) \/ WakeInVain(s) \/ SignalRunning(s)
    \/ (ShouldExit(s) /\ ~ m_exit[s])
    \/ SpinElapses(s)

\* Steps of user code that leave the worker running.
LEMMA UserSteps ==
    ASSUME TInv, \A k \in Sch : WorkersInv(k), NEW s \in Sch,
           UserStays(s)
    PROVE  \A k \in Sch : Untouched(k)
<1>0. WorkersInv(s)
  OBVIOUS
<1> USE DEF Goto, queue_vars, worker_vars, Still, Class, OnTaskPc, QuietPc, AsleepPc, PassPc, AsyncPc, NotifyPc
<1>1. CASE Async(s)
  <2>1. Still
    BY <1>1 DEF Async, NewTask
  <2>2. pc' = pc \/ \E l \in {"enque", "min_load"} : pc' = [pc EXCEPT ![s] = l] /\ Class(s, l)
    BY <1>1, <1>0 DEF Async, NewTask
  <2> QED
    BY <2>1, <2>2, PcMoves
<1>2. CASE SleepUntil(s)
  <2>1. Still
    BY <1>2 DEF SleepUntil, Spend
  <2>2. pc' = pc \/ \E l \in {"wait_check"} : pc' = [pc EXCEPT ![s] = l] /\ Class(s, l)
    BY <1>2, <1>0 DEF SleepUntil, Spend
  <2> QED
    BY <2>1, <2>2, PcMoves
<1>3. CASE WaitTask(s)
  <2>1. Still
    BY <1>3 DEF WaitTask, AddWaiter
  <2>2. pc' = pc \/ \E l \in {"wait_check"} : pc' = [pc EXCEPT ![s] = l] /\ Class(s, l)
    BY <1>3, <1>0 DEF WaitTask, AddWaiter
  <2> QED
    BY <2>1, <2>2, PcMoves
<1>4. CASE Recheck(s)
  <2>1. Still
    BY <1>4 DEF Recheck, AddWaiter
  <2>2. pc' = pc \/ \E l \in {"run", "wait_check"} : pc' = [pc EXCEPT ![s] = l] /\ Class(s, l)
    BY <1>4, <1>0 DEF Recheck, AddWaiter
  <2> QED
    BY <2>1, <2>2, PcMoves
<1>5. CASE Finish(s)
  <2>1. Still
    BY <1>5 DEF Finish
  <2>2. pc' = pc \/ \E l \in {"done"} : pc' = [pc EXCEPT ![s] = l] /\ Class(s, l)
    BY <1>5, <1>0 DEF Finish
  <2> QED
    BY <2>1, <2>2, PcMoves
<1>6. CASE NotifyWaiter(s)
  <2>1. Still
    BY <1>6 DEF NotifyWaiter
  <2>2. pc' = pc \/ \E l \in {"reset", "notify"} : pc' = [pc EXCEPT ![s] = l] /\ Class(s, l)
    BY <1>6, <1>0 DEF NotifyWaiter
  <2> QED
    BY <2>1, <2>2, PcMoves
<1>7. CASE WaitCondOrSleep(s) /\ check_wait_info(m_worker[s])
  <2>1. Still
    BY <1>7 DEF WaitCondOrSleep, Resume
  <2>2. pc' = pc \/ \E l \in {"recheck", "run"} : pc' = [pc EXCEPT ![s] = l] /\ Class(s, l)
    BY <1>7, <1>0 DEF WaitCondOrSleep, Resume
  <2> QED
    BY <2>1, <2>2, PcMoves
<1> QED
  BY <1>1, <1>2, <1>3, <1>4, <1>5, <1>6, <1>7 DEF UserStays

\* Steps of the scheduling pass that find nothing to do.
LEMMA PassSteps ==
    ASSUME TInv, \A k \in Sch : WorkersInv(k), NEW s \in Sch,
           PassStays(s)
    PROVE  \A k \in Sch : Untouched(k)
<1>0. WorkersInv(s)
  OBVIOUS
<1> USE DEF Goto, queue_vars, worker_vars, Still, Class, OnTaskPc, QuietPc, AsleepPc, PassPc, AsyncPc, NotifyPc
<1>1. CASE ScheduleIo(s) /\ (it[s] > Len(pending_io[s]) \/ io[pending_io[s][it[s]]])
  <2>1. Still
    BY <1>1 DEF ScheduleIo
  <2>2. pc' = pc \/ \E l \in {"waiting"} : pc' = [pc EXCEPT ![s] = l] /\ Class(s, l)
    BY <1>1, <1>0 DEF ScheduleIo
  <2> QED
    BY <2>1, <2>2, PcMoves
<1>2. CASE ScheduleWaiting(s) /\ (it[s] > Len(waiting[s]) \/ ~ check_wait_info(waiting[s][it[s]]))
  <2>1. Still
    BY <1>2 DEF ScheduleWaiting
  <2>2. pc' = pc \/ \E l \in {"idle"} : pc' = [pc EXCEPT ![s] = l] /\ Class(s, l)
    BY <1>2, <1>0 DEF ScheduleWaiting
  <2> QED
    BY <2>1, <2>2, PcMoves
<1>3. CASE ScheduleIdle(s) /\ ~ (runnable[s] = <<>> /\ idle[s] # <<>> /\ has_tasks(s))
  <2>1. Still
    BY <1>3 DEF ScheduleIdle
  <2>2. pc' = pc \/ \E l \in {"yielded"} : pc' = [pc EXCEPT ![s] = l] /\ Class(s, l)
    BY <1>3, <1>0 DEF ScheduleIdle
  <2> QED
    BY <2>1, <2>2, PcMoves
<1>4. CASE ScheduleYielded(s) /\ yielded[s] = NoWorker
  <2>1. Still
    BY <1>4 DEF ScheduleYielded
  <2>2. pc' = pc \/ \E l \in {"steal"} : pc' = [pc EXCEPT ![s] = l] /\ Class(s, l)
    BY <1>4, <1>0 DEF ScheduleYielded
  <2> QED
    BY <2>1, <2>2, PcMoves
<1>5. CASE StealWork(s)
  <2>1. Still
    BY <1>5 DEF StealWork
  <2>2. pc' = pc \/ \E l \in {"decide", "rob"} : pc' = [pc EXCEPT ![s] = l] /\ Class(s, l)
    BY <1>5, <1>0 DEF StealWork
  <2> QED
    BY <2>1, <2>2, PcMoves
<1>6. CASE Rob(s) /\ ~ has_tasks(it[s])
  <2>1. Still
    BY <1>6 DEF Rob
  <2>2. pc' = pc \/ \E l \in {"steal"} : pc' = [pc EXCEPT ![s] = l] /\ Class(s, l)
    BY <1>6, <1>0 DEF Rob
  <2> QED
    BY <2>1, <2>2, PcMoves
<1> QED
  BY <1>1, <1>2, <1>3, <1>4, <1>5, <1>6 DEF PassStays

\* sleep, its wake-ups and the way back to schedule().
LEMMA SleepSteps ==
    ASSUME TInv, \A k \in Sch : WorkersInv(k), NEW s \in Sch,
           SleepStays(s)
    PROVE  \A k \in Sch : Untouched(k)
<1>0. WorkersInv(s)
  OBVIOUS
<1> USE DEF Goto, queue_vars, worker_vars, Still, Class, OnTaskPc, QuietPc, AsleepPc, PassPc, AsyncPc, NotifyPc
<1>1. CASE SpinOrPoll(s)
  <2>1. Still
    BY <1>1 DEF SpinOrPoll
  <2>2. pc' = pc \/ \E l \in {"exit_check"} : pc' = [pc EXCEPT ![s] = l] /\ Class(s, l)
    BY <1>1, <1>0 DEF SpinOrPoll
  <2> QED
    BY <2>1, <2>2, PcMoves
<1>2. CASE SleepLock(s)
  <2>1. Still
    BY <1>2 DEF SleepLock
  <2>2. pc' = pc \/ \E l \in {"exit_check", "enter_wait", "enter_sleep"} : pc' = [pc EXCEPT ![s] = l] /\ Class(s, l)
    BY <1>2, <1>0 DEF SleepLock
  <2> QED
    BY <2>1, <2>2, PcMoves
<1>3. CASE EnterWait(s)
  <2>1. Still
    BY <1>3 DEF EnterWait
  <2>2. pc' = pc \/ \E l \in {"idle_wait"} : pc' = [pc EXCEPT ![s] = l] /\ Class(s, l)
    BY <1>3, <1>0 DEF EnterWait
  <2> QED
    BY <2>1, <2>2, PcMoves
<1>4. CASE SignalIdle(s)
  <2>1. Still
    BY <1>4 DEF SignalIdle
  <2>2. pc' = pc \/ \E l \in {"sleep", "signal_idle"} : pc' = [pc EXCEPT ![s] = l] /\ Class(s, l)
    BY <1>4, <1>0 DEF SignalIdle
  <2> QED
    BY <2>1, <2>2, PcMoves
<1>5. CASE SetCheckIdle(s)
  <2>1. Still
    BY <1>5 DEF SetCheckIdle
  <2>2. pc' = pc \/ \E l \in {"notify_main"} : pc' = [pc EXCEPT ![s] = l] /\ Class(s, l)
    BY <1>5, <1>0 DEF SetCheckIdle
  <2> QED
    BY <2>1, <2>2, PcMoves
<1>6. CASE NotifyMain(s)
  <2>1. Still
    BY <1>6 DEF NotifyMain
  <2>2. pc' = pc \/ \E l \in {"sleep"} : pc' = [pc EXCEPT ![s] = l] /\ Class(s, l)
    BY <1>6, <1>0 DEF NotifyMain
  <2> QED
    BY <2>1, <2>2, PcMoves
<1>7. CASE EnterSleep(s)
  <2>1. Still
    BY <1>7 DEF EnterSleep
  <2>2. pc' = pc \/ \E l \in {"woken", "idle_sleep"} : pc' = [pc EXCEPT ![s] = l] /\ Class(s, l)
    BY <1>7, <1>0 DEF EnterSleep
  <2> QED
    BY <2>1, <2>2, PcMoves
<1>8. CASE Wake(s)
  <2>1. Still
    BY <1>8 DEF Wake, WaitOver
  <2>2. pc' = pc \/ \E l \in {"exit_check", "woken"} : pc' = [pc EXCEPT ![s] = l] /\ Class(s, l)
    BY <1>8, <1>0 DEF Wake, WaitOver
  <2> QED
    BY <2>1, <2>2, PcMoves
<1>9. CASE WakeInVain(s)
  <2>1. Still
    BY <1>9 DEF WakeInVain, thread_vars
  <2>2. pc' = pc
    BY <1>9 DEF WakeInVain, thread_vars
  <2> QED
    BY <2>1, <2>2, PcMoves
<1>10. CASE SignalRunning(s)
  <2>1. Still
    BY <1>10 DEF SignalRunning
  <2>2. pc' = pc \/ \E l \in {"exit_check"} : pc' = [pc EXCEPT ![s] = l] /\ Class(s, l)
    BY <1>10, <1>0 DEF SignalRunning
  <2> QED
    BY <2>1, <2>2, PcMoves
<1>11. CASE ShouldExit(s) /\ ~ m_exit[s]
  <2>1. Still
    BY <1>11 DEF ShouldExit
  <2>2. pc' = pc \/ \E l \in {"io"} : pc' = [pc EXCEPT ![s] = l] /\ Class(s, l)
    BY <1>11, <1>0 DEF ShouldExit
  <2> QED
    BY <2>1, <2>2, PcMoves
<1>12. CASE SpinElapses(s)
  <2>1. Still
    BY <1>12 DEF SpinElapses, thread_vars
  <2>2. pc' = pc
    BY <1>12 DEF SpinElapses, thread_vars
  <2> QED
    BY <2>1, <2>2, PcMoves
<1> QED
  BY <1>1, <1>2, <1>3, <1>4, <1>5, <1>6, <1>7, <1>8, <1>9, <1>10, <1>11, <1>12 DEF SleepStays

\* enqueue_task and notify, by any thread.
LEMMA NotifySteps ==
    ASSUME TInv, NEW th \in Thread, NotifyStep(th)
    PROVE  \A k \in Sch : Untouched(k)
<1>1. Still
  BY DEF NotifyStep, MinLoad, Enque, NotifyLock, NotifyFire, queue_vars, worker_vars, Still
<1>2. CASE th = Main
  <2>1. \A k \in Sch : pc'[k] = pc[k]
    BY <1>2, PlaceFacts, ThreadFacts DEF NotifyStep, MinLoad, Enque, NotifyLock, NotifyFire, Goto
  <2> QED
    BY <1>1, <2>1 DEF Still, Untouched, OnTask
<1>3. CASE th \in Sch
  <2>1. pc[th] \in NotifyPc => ret[th] \in {"run", "reset"}
    BY <1>3 DEF TInv, ThreadInv
  <2>2. \E l \in {"enque", "min_load", "notify", "fire", "run", "reset"} :
           pc' = [pc EXCEPT ![th] = l] /\ Class(th, l)
    BY <2>1 DEF NotifyStep, MinLoad, Enque, NotifyLock, NotifyFire, Goto, Class, OnTaskPc, QuietPc,
                AsleepPc, PassPc, AsyncPc, NotifyPc
  <2> QED
    BY <1>1, <1>3, <2>2, PcMoves
<1> QED
  BY <1>2, <1>3 DEF Thread, Sch, Main

\* Steps of Main outside of them, but Join.
LEMMA MainSteps ==
    ASSUME TInv, \/ MainAsync \/ CheckIdle \/ AllIdleCount \/ AllIdleTasks \/ AllIdleLock
                 \/ AllIdleCheck \/ Relock \/ Destroy \/ MainWake
                 \/ (\E w \in Worker : Tick(w) \/ IoCompletes(w)) \/ UNCHANGED vars
    PROVE  \A k \in Sch : Untouched(k)
<1>1. Still
  BY DEF MainAsync, CheckIdle, AllIdleCount, AllIdleTasks, AllIdleLock, AllIdleCheck, Relock, Destroy,
         MainWake, Tick, IoCompletes, vars, queue_vars, worker_vars, Still
<1>2. \A k \in Sch : pc'[k] = pc[k]
  BY PlaceFacts, ThreadFacts
     DEF MainAsync, NewTask, CheckIdle, AllIdleCount, AllIdleTasks, AllIdleLock, AllIdleCheck, Relock,
         Destroy, MainWake, Tick, IoCompletes, vars, thread_vars, Goto
<1> QED
  BY <1>1, <1>2 DEF Still, Untouched, OnTask

\* exit and the destructor: the workers are in no queue any more.
LEMMA ExitSteps ==
    ASSUME TInv, \A k \in Sch : WorkersInv(k),
           Join \/ \E s \in Sch : ShouldExit(s) /\ m_exit[s]
    PROVE  \A k \in Sch : WorkersInv(k)'
<1>1. ASSUME NEW s \in Sch, ShouldExit(s), m_exit[s] PROVE \A k \in Sch : WorkersInv(k)'
  <2>1. WorkersInv(s) /\ pc[s] = "exit_check"
    BY <1>1 DEF ShouldExit
  <2>2. PICK w \in WorkersOf(s) : w = m_worker[s]
    BY <2>1 DEF WorkersInv
  <2>3. wstate' = [wstate EXCEPT ![w] = "exiting"]
    BY <1>1, <2>2 DEF ShouldExit
  <2>4. \A k \in Sch : k # s => \A v \in WorkersOf(k) : wstate'[v] = wstate[v]
    BY <2>3, WorkerGoes
  <2>5. pc'[s] = "exited" /\ Local(s)
    BY <1>1, PlaceFacts DEF ShouldExit, queue_vars, Goto, Local
  <2>6. WorkersInv(s)'
    BY <2>5 DEF WorkersInv
  <2> QED
    BY <2>4, <2>5, <2>6, LocalKeeps
<1>2. CASE Join
  <2>1. PICK s : s = it[Main] /\ pc[s] = "exited"
    BY <1>2 DEF Join
  <2>2. UNCHANGED <<idle, runnable, waiting, pending_io, yielded, m_worker>>
    BY <1>2 DEF Join, queue_vars
  <2>3. \A k \in Sch : pc'[k] = pc[k]
    BY <1>2, PlaceFacts, ThreadFacts DEF Join, Goto
  <2>4. ASSUME NEW k \in Sch, k # s PROVE Untouched(k)
    <3>1. \A w \in WorkersOf(k) : w \in Worker /\ w \notin WorkersOf(s)
      BY <2>4 DEF Worker, WorkersOf
    <3>2. \A w \in Worker : wstate'[w] = IF w \in WorkersOf(s) THEN "exiting" ELSE wstate[w]
      BY <1>2, <2>1 DEF Join
    <3> QED
      BY <2>2, <2>3, <3>1, <3>2 DEF Untouched, OnTask
  <2>5. s \in Sch => WorkersInv(s)'
    BY <2>1, <2>3 DEF WorkersInv
  <2> QED
    BY <2>4, <2>5, UntouchedKeeps
<1> QED
  BY <1>1, <1>2

\* Every step keeps every worker in one place.
LEMMA WorkersStep ==
    ASSUME TInv, AllPlaced, [Next]_vars
    PROVE  AllPlaced'
<1>0. (\A k \in Sch : Untouched(k)) => AllPlaced'
  BY UntouchedKeeps DEF AllPlaced
<1>1. ASSUME NEW s \in Sch, UserStep(s) PROVE AllPlaced'
  <2>1. CASE Yield(s)
    BY <2>1, YieldWorkers DEF AllPlaced
  <2>2. CASE StartIo(s)
    BY <2>2, StartIoWorkers DEF AllPlaced
  <2>3. CASE WaitCondOrSleep(s) /\ ~ check_wait_info(m_worker[s])
    BY <2>3, ParkWaiting DEF AllPlaced
  <2>4. CASE ParkIdle(s)
    BY <2>4, ParkIdleWorkers DEF AllPlaced
  <2>5. CASE UserStays(s)
    <3>1. \A k \in Sch : Untouched(k)
      BY <2>5, UserSteps DEF AllPlaced
    <3> QED
      BY <1>0, <3>1
  <2> QED
    BY <1>1, <2>1, <2>2, <2>3, <2>4, <2>5 DEF UserStep, UserStays
<1>2. ASSUME NEW s \in Sch, ScheduleStep(s) PROVE AllPlaced'
  <2>0. it[s] \in Nat /\ Len(pending_io[s]) \in Nat /\ Len(waiting[s]) \in Nat
    BY PlaceFacts, ThreadFacts DEF TInv, TypeOK, ThreadTypes
  <2>1. CASE ScheduleIo(s) /\ ~ (it[s] > Len(pending_io[s])) /\ ~ io[pending_io[s][it[s]]]
    BY <2>1, <2>0, ReadyIo DEF AllPlaced
  <2>2. CASE ScheduleWaiting(s) /\ ~ (it[s] > Len(waiting[s])) /\ check_wait_info(waiting[s][it[s]])
    BY <2>2, <2>0, ReadyWaiting DEF AllPlaced
  <2>3. CASE ScheduleIdle(s) /\ runnable[s] = <<>> /\ idle[s] # <<>> /\ has_tasks(s)
    BY <2>3, IdleGetsTask DEF AllPlaced
  <2>4. CASE ScheduleYielded(s) /\ yielded[s] # NoWorker
    BY <2>4, ReadyYielded DEF AllPlaced
  <2>5. CASE Rob(s) /\ has_tasks(it[s])
    BY <2>5, IdleGetsStolen DEF AllPlaced
  <2>6. CASE PrepareExec(s)
    BY <2>6, PrepareExecWorkers DEF AllPlaced
  <2>7. CASE PassStays(s)
    <3>1. \A k \in Sch : Untouched(k)
      BY <2>7, PassSteps DEF AllPlaced
    <3> QED
      BY <1>0, <3>1
  <2> QED
    BY <1>2, <2>1, <2>2, <2>3, <2>4, <2>5, <2>6, <2>7 DEF ScheduleStep, PassStays
<1>3. ASSUME NEW s \in Sch, SleepStep(s) \/ SpinElapses(s) PROVE AllPlaced'
  <2>1. CASE SleepStays(s)
    <3>1. \A k \in Sch : Untouched(k)
      BY <2>1, SleepSteps DEF AllPlaced
    <3> QED
      BY <1>0, <3>1
  <2>2. CASE ShouldExit(s) /\ m_exit[s]
    BY <2>2, ExitSteps DEF AllPlaced
  <2> QED
    BY <1>3, <2>1, <2>2 DEF SleepStep, AwakeStep, SleepStays
<1>4. ASSUME NEW th \in Thread, NotifyStep(th) PROVE AllPlaced'
  BY <1>0, <1>4, NotifySteps
<1>5. CASE MainStep \/ (\E w \in Worker : Tick(w) \/ IoCompletes(w)) \/ UNCHANGED vars
  <2>1. CASE Join
    BY <2>1, ExitSteps DEF AllPlaced
  <2>2. CASE ~ Join
    <3>1. \A k \in Sch : Untouched(k)
      BY <1>5, <2>2, MainSteps DEF MainStep, MainThread
    <3> QED
      BY <1>0, <3>1
  <2> QED
    BY <2>1, <2>2
<1> QED
  BY <1>1, <1>2, <1>3, <1>4, <1>5 DEF Next, SchedulerStep, Environment, Terminated

-----------------------------------------------------------------------------
(* The tasks. *)

\* The types of where tasks are kept.
LEMMA TaskFacts ==
    ASSUME TInv
    PROVE  /\ hand \in [Thread -> Task \cup {NoTask}] /\ wtask \in [Worker -> Task \cup {NoTask}]
           /\ m_tasks \in [Sch -> Seq(Task)] /\ tstate \in [Task -> {"absent", "init", "done"}]
           /\ NoTask \notin Task
           /\ \A s \in Sch : Len(m_tasks[s]) \in Nat /\ \A i \in Queued(s) : m_tasks[s][i] \in Task
           /\ \A th \in Thread : pc[th] \in AsyncPc <=> hand[th] # NoTask
           /\ \A th \in Thread : pc[th] \in AsyncPc => target[th] \in Sch
<1>1. /\ hand \in [Thread -> Task \cup {NoTask}] /\ wtask \in [Worker -> Task \cup {NoTask}]
      /\ m_tasks \in [Sch -> Seq(Task)] /\ tstate \in [Task -> {"absent", "init", "done"}]
  BY DEF TInv, TypeOK, ThreadTypes, SharedTypes, WorkerTypes, TaskTypes
<1>2. \A s \in Sch : Len(m_tasks[s]) \in Nat /\ \A i \in Queued(s) : m_tasks[s][i] \in Task
  BY <1>1, LenProperties, ElementOfSeq DEF Queued
<1> QED
  BY <1>1, <1>2, TaskAssumption DEF TInv, ThreadInv

\* pop_front
LEMMA TailFacts ==
    ASSUME NEW S, NEW q \in Seq(S), q # <<>>
    PROVE  /\ Len(q) \in Nat /\ 1 \in 1..Len(q) /\ Head(q) = q[1]
           /\ Tail(q) \in Seq(S) /\ Len(Tail(q)) = Len(q) - 1
           /\ \A i \in 1..Len(Tail(q)) : i + 1 \in 1..Len(q) /\ Tail(q)[i] = q[i + 1]
           /\ \A i \in 1..Len(q) : i # 1 => i - 1 \in 1..Len(Tail(q)) /\ Tail(q)[i - 1] = q[i]
<1>1. Len(q) \in Nat /\ Len(q) > 0
  BY LenProperties, EmptySeq
<1>2. /\ Head(q) = q[1] /\ Tail(q) \in Seq(S) /\ Len(Tail(q)) = Len(q) - 1
      /\ \A i \in 1..Len(Tail(q)) : Tail(q)[i] = q[i + 1]
  BY HeadTailProperties
<1> QED
  BY <1>1, <1>2

\* A step that moves no task.
LEMMA TasksRest ==
    ASSUME TasksInv, UNCHANGED <<hand, m_tasks, wtask, tstate>>
    PROVE  TasksInv'
  BY DEF TasksInv, OnePlace, SomePlace, Queued

\* async: a task nobody has seen yet is in the hands of its thread.
LEMMA TaskStarts ==
    ASSUME TInv, TasksInv, NEW th \in Thread, pc[th] \notin AsyncPc, NEW t \in Task,
           NewTask(th, t), UNCHANGED <<m_tasks, wtask>>
    PROVE  TasksInv'
<1>1. /\ \A x \in Thread : hand'[x] = IF x = th THEN t ELSE hand[x]
      /\ \A u \in Task : tstate'[u] = IF u = t THEN "init" ELSE tstate[u]
      /\ hand[th] = NoTask /\ tstate[t] = "absent"
  BY TaskFacts DEF NewTask
<1>2. /\ \A x \in Thread : hand[x] # t
      /\ \A s \in Sch : \A i \in Queued(s) : m_tasks[s][i] # t
      /\ \A w \in Worker : wtask[w] # t
  BY <1>1, TaskFacts DEF TasksInv
<1>3. OnePlace'
  <2>1. OnePlace
    BY DEF TasksInv
  <2>2. \A a, b \in Thread : hand'[a] = hand'[b] /\ hand'[a] # NoTask => a = b
    BY <1>1, <1>2, <2>1 DEF OnePlace
  <2>3. \A x \in Thread, s \in Sch : \A i \in Queued(s) : m_tasks[s][i] # hand'[x]
    BY <1>1, <1>2, <2>1 DEF OnePlace
  <2>4. \A x \in Thread, w \in Worker : hand'[x] = wtask[w] => hand'[x] = NoTask
    BY <1>1, <1>2, <2>1 DEF OnePlace
  <2> QED
    BY <2>1, <2>2, <2>3, <2>4 DEF OnePlace, Queued
<1>4. /\ \A x \in Thread : hand'[x] # NoTask => tstate'[hand'[x]] = "init"
      /\ \A s \in Sch : \A i \in Queued(s) : tstate'[m_tasks[s][i]] = "init"
      /\ \A w \in Worker : wtask[w] # NoTask => tstate'[wtask[w]] # "absent"
  BY <1>1, <1>2, TaskFacts DEF TasksInv
<1>5. ASSUME NEW u \in Task, tstate'[u] = "init" PROVE SomePlace(u)'
  <2>1. CASE u = t
    BY <1>1, <2>1 DEF SomePlace
  <2>2. CASE u # t
    <3>1. SomePlace(u)
      BY <1>1, <1>5, <2>2 DEF TasksInv
    <3> QED
      BY <1>1, <3>1, TaskFacts DEF SomePlace, Queued
  <2> QED
    BY <2>1, <2>2
<1> QED
  BY <1>3, <1>4, <1>5 DEF TasksInv, Queued

\* enqueue_task: the task goes from the hands of its thread to a queue.
LEMMA TaskQueued ==
    ASSUME TInv, TasksInv, NEW th \in Thread, Enque(th)
    PROVE  TasksInv'
<1>1. PICK s \in Sch : s = target[th]
  BY TaskFacts DEF Enque, AsyncPc
<1>2. PICK t \in Task : t = hand[th]
  BY TaskFacts DEF Enque, AsyncPc
<1>3. /\ \A x \in Thread : hand'[x] = IF x = th THEN NoTask ELSE hand[x]
      /\ m_tasks'[s] = Append(m_tasks[s], t)
      /\ \A k \in Sch : k # s => m_tasks'[k] = m_tasks[k]
      /\ UNCHANGED <<wtask, tstate>>
  BY <1>1, <1>2, TaskFacts DEF Enque, worker_vars, task_vars
<1> DEFINE n == Len(m_tasks[s])
<1>4. /\ n \in Nat /\ Len(m_tasks'[s]) = n + 1 /\ m_tasks'[s][n + 1] = t
      /\ \A i \in 1..n : m_tasks'[s][i] = m_tasks[s][i]
  BY <1>3, TaskFacts, AppendProperties, LenProperties
<1>5. \A k \in Sch : \A i \in Queued(k)' : \/ i \in Queued(k) /\ m_tasks'[k][i] = m_tasks[k][i]
                                           \/ k = s /\ i = n + 1 /\ m_tasks'[k][i] = t
  BY <1>3, <1>4 DEF Queued
<1>6. /\ \A x \in Thread : x # th => hand[x] # t
      /\ \A k \in Sch : \A i \in Queued(k) : m_tasks[k][i] # t
      /\ \A w \in Worker : wtask[w] # t
  BY <1>2, TaskFacts DEF TasksInv, OnePlace
<1> HIDE DEF n
<1>7. OnePlace'
  <2>1. \A a, b \in Thread : hand'[a] = hand'[b] /\ hand'[a] # NoTask => a = b
    BY <1>3 DEF TasksInv, OnePlace
  <2>2. ASSUME NEW k \in Sch, NEW l \in Sch, NEW i \in Queued(k)', NEW j \in Queued(l)',
               m_tasks'[k][i] = m_tasks'[l][j]
        PROVE  k = l /\ i = j
    <3>1. CASE i \in Queued(k) /\ m_tasks'[k][i] = m_tasks[k][i]
      <4>1. j \in Queued(l) /\ m_tasks'[l][j] = m_tasks[l][j]
        BY <2>2, <3>1, <1>5, <1>6
      <4>2. m_tasks[k][i] = m_tasks[l][j]
        BY <2>2, <3>1, <4>1
      <4> QED
        BY <3>1, <4>1, <4>2 DEF TasksInv, OnePlace
    <3>2. CASE k = s /\ i = n + 1 /\ m_tasks'[k][i] = t
      BY <2>2, <3>2, <1>5, <1>6
    <3> QED
      BY <1>5, <3>1, <3>2
  <2>3. \A x \in Thread, k \in Sch : \A i \in Queued(k)' : m_tasks'[k][i] # hand'[x]
    BY <1>3, <1>5, <1>6, TaskFacts DEF TasksInv, OnePlace
  <2>4. \A x \in Thread, w \in Worker : hand'[x] = wtask[w] => hand'[x] = NoTask
    BY <1>3 DEF TasksInv, OnePlace
  <2>5. \A w \in Worker, k \in Sch : \A i \in Queued(k)' : m_tasks'[k][i] # wtask[w]
    BY <1>5, <1>6 DEF TasksInv, OnePlace
  <2>6. \A v, w \in Worker : wtask[v] = wtask[w] /\ wtask[v] # NoTask => v = w
    BY DEF TasksInv, OnePlace
  <2> QED
    BY <1>3, <2>1, <2>2, <2>3, <2>4, <2>5, <2>6 DEF OnePlace
<1>8. /\ \A x \in Thread : hand'[x] # NoTask => tstate[hand'[x]] = "init"
      /\ \A k \in Sch : \A i \in Queued(k)' : tstate[m_tasks'[k][i]] = "init"
  <2>1. tstate[t] = "init"
    BY <1>2, TaskFacts DEF TasksInv
  <2>2. \A x \in Thread : hand'[x] # NoTask => tstate[hand'[x]] = "init"
    BY <1>3 DEF TasksInv
  <2>3. \A k \in Sch : \A i \in Queued(k) : tstate[m_tasks[k][i]] = "init"
    BY DEF TasksInv
  <2>4. \A k \in Sch : \A i \in Queued(k)' : tstate[m_tasks'[k][i]] = "init"
    BY <1>5, <2>1, <2>3
  <2> QED
    BY <2>2, <2>4
<1>9. ASSUME NEW u \in Task, tstate[u] = "init" PROVE SomePlace(u)'
  <2>1. CASE u = t
    <3>1. n + 1 \in Queued(s)' /\ m_tasks'[s][n + 1] = u
      BY <1>4, <2>1 DEF Queued
    <3> QED
      BY <3>1 DEF SomePlace
  <2>2. CASE u # t
    <3>1. SomePlace(u)
      BY <1>9 DEF TasksInv
    <3>2. \A k \in Sch : \A i \in Queued(k) : i \in Queued(k)' /\ m_tasks'[k][i] = m_tasks[k][i]
      BY <1>3, <1>4 DEF Queued, n
    <3>3. ASSUME NEW x \in Thread, hand[x] = u PROVE hand'[x] = u
      BY <1>2, <1>3, <2>2, <3>3
    <3> QED
      BY <1>3, <3>1, <3>2, <3>3 DEF SomePlace
  <2> QED
    BY <2>1, <2>2
<1> QED
  BY <1>3, <1>7, <1>8, <1>9 DEF TasksInv

\* TaskBase::notify: a task that is done is on the worker that ran it.
LEMMA TaskFinishes ==
    ASSUME TInv, TasksInv, NEW w \in Worker, wtask[w] \in Task,
           tstate' = [tstate EXCEPT ![wtask[w]] = "done"], UNCHANGED <<hand, m_tasks, wtask>>
    PROVE  TasksInv'
<1>1. \A u \in Task : tstate'[u] = IF u = wtask[w] THEN "done" ELSE tstate[u]
  BY TaskFacts
<1>2. /\ \A x \in Thread : hand[x] # wtask[w]
      /\ \A k \in Sch : \A i \in Queued(k) : m_tasks[k][i] # wtask[w]
  BY TaskFacts DEF TasksInv, OnePlace
<1>3. /\ \A x \in Thread : hand[x] # NoTask => tstate'[hand[x]] = "init"
      /\ \A s \in Sch : \A i \in Queued(s) : tstate'[m_tasks[s][i]] = "init"
      /\ \A v \in Worker : wtask[v] # NoTask => tstate'[wtask[v]] # "absent"
  BY <1>1, <1>2, TaskFacts DEF TasksInv
<1>4. OnePlace' /\ \A u \in Task : SomePlace(u) => SomePlace(u)'
  BY DEF TasksInv, OnePlace, SomePlace, Queued
<1> QED
  BY <1>1, <1>3, <1>4 DEF TasksInv, Queued

\* schedule_idle_worker: the front task goes from a queue to a worker without one.
TaskGoes(k, w) ==
    /\ has_tasks(k) /\ wtask[w] = NoTask
    /\ m_tasks' = [m_tasks EXCEPT ![k] = Tail(@)]
    /\ wtask' = [wtask EXCEPT ![w] = Head(m_tasks[k])]
    /\ UNCHANGED <<hand, tstate>>

\* The task is then on that worker only.
LEMMA TaskGiven ==
    ASSUME TInv, TasksInv, NEW k \in Sch, NEW w \in Worker, TaskGoes(k, w)
    PROVE  TasksInv'
<1> DEFINE q == m_tasks[k]
<1>1. q \in Seq(Task) /\ q # <<>>
  BY TaskFacts DEF TaskGoes, has_tasks
<1>2. /\ Len(q) \in Nat /\ 1 \in 1..Len(q) /\ Head(q) = q[1] /\ Len(Tail(q)) = Len(q) - 1
      /\ \A i \in 1..Len(Tail(q)) : i + 1 \in 1..Len(q) /\ Tail(q)[i] = q[i + 1]
      /\ \A i \in 1..Len(q) : i # 1 => i - 1 \in 1..Len(Tail(q)) /\ Tail(q)[i - 1] = q[i]
  BY <1>1, TailFacts
<1>3. PICK t \in Task : t = q[1] /\ t = Head(q)
  BY <1>2, TaskFacts DEF Queued
<1>4. /\ m_tasks'[k] = Tail(q)
      /\ \A l \in Sch : l # k => m_tasks'[l] = m_tasks[l]
      /\ wtask'[w] = t
      /\ \A v \in Worker : v # w => wtask'[v] = wtask[v]
      /\ hand' = hand /\ tstate' = tstate /\ wtask[w] = NoTask
  BY <1>3, TaskFacts DEF TaskGoes
<1>5. /\ \A l \in Sch : l # k => Queued(l)' = Queued(l)
      /\ \A i \in Queued(k)' : i \in Int /\ i + 1 \in Queued(k) /\ i + 1 # 1 /\ m_tasks'[k][i] = m_tasks[k][i + 1]
      /\ \A i \in Queued(k) : i # 1 => i - 1 \in Queued(k)' /\ m_tasks'[k][i - 1] = m_tasks[k][i]
  <2>1. \A l \in Sch : l # k => Queued(l)' = Queued(l)
    BY <1>4 DEF Queued
  <2>2. Queued(k)' = 1..Len(Tail(q)) /\ Queued(k) = 1..Len(q)
    BY <1>4 DEF Queued
  <2> HIDE DEF q
  <2>3. \A i \in 1..Len(Tail(q)) : i \in Int /\ i + 1 # 1
    BY <1>2
  <2> QED
    BY <1>2, <1>4, <2>1, <2>2, <2>3 DEF q
<1>6. OnePlace /\ 1 \in Queued(k) /\ m_tasks[k][1] = t
  BY <1>2, <1>3 DEF TasksInv, Queued
<1>7. /\ \A x \in Thread : hand[x] # t
      /\ \A v \in Worker : wtask[v] # t
      /\ \A l \in Sch : \A i \in Queued(l) : m_tasks[l][i] = t => l = k /\ i = 1
  BY <1>6 DEF OnePlace
<1> HIDE DEF q
<1>8. \A l \in Sch : \A i \in Queued(l)' :
         \E j \in Queued(l) : /\ m_tasks'[l][i] = m_tasks[l][j] /\ m_tasks[l][j] # t
                              /\ j = IF l = k THEN i + 1 ELSE i
  <2> SUFFICES ASSUME NEW l \in Sch, NEW i \in Queued(l)'
               PROVE  \E j \in Queued(l) : /\ m_tasks'[l][i] = m_tasks[l][j] /\ m_tasks[l][j] # t
                                           /\ j = IF l = k THEN i + 1 ELSE i
    OBVIOUS
  <2>1. CASE l = k
    BY <1>5, <1>7, <2>1
  <2>2. CASE l # k
    BY <1>4, <1>5, <1>7, <2>2
  <2> QED
    BY <2>1, <2>2
<1>9. OnePlace'
  <2>1. ASSUME NEW l \in Sch, NEW m \in Sch, NEW i \in Queued(l)', NEW j \in Queued(m)',
               m_tasks'[l][i] = m_tasks'[m][j]
        PROVE  l = m /\ i = j
    <3>1. PICK a \in Queued(l) : m_tasks'[l][i] = m_tasks[l][a] /\ a = IF l = k THEN i + 1 ELSE i
      BY <1>8
    <3>2. PICK b \in Queued(m) : m_tasks'[m][j] = m_tasks[m][b] /\ b = IF m = k THEN j + 1 ELSE j
      BY <1>8
    <3>3. m_tasks[l][a] = m_tasks[m][b]
      BY <2>1, <3>1, <3>2
    <3>4. l = m /\ a = b
      BY <1>6, <3>3 DEF OnePlace
    <3>5. i \in Int /\ j \in Int
      BY <3>1, <3>2 DEF Queued
    <3> QED
      BY <3>1, <3>2, <3>4, <3>5
  <2>2. ASSUME NEW x \in Thread, NEW l \in Sch, NEW i \in Queued(l)'
        PROVE  m_tasks'[l][i] # hand[x]
    <3>1. PICK a \in Queued(l) : m_tasks'[l][i] = m_tasks[l][a]
      BY <1>8
    <3>2. m_tasks[l][a] # hand[x]
      BY <1>6 DEF OnePlace
    <3> QED
      BY <3>1, <3>2
  <2>3. \A x \in Thread, v \in Worker : hand[x] = wtask'[v] => hand[x] = NoTask
    BY <1>4, <1>6, <1>7 DEF OnePlace
  <2>4. ASSUME NEW v \in Worker, NEW l \in Sch, NEW i \in Queued(l)'
        PROVE  m_tasks'[l][i] # wtask'[v]
    <3>1. PICK a \in Queued(l) : m_tasks'[l][i] = m_tasks[l][a] /\ m_tasks[l][a] # t
      BY <1>8
    <3>2. m_tasks[l][a] # wtask[v]
      BY <1>6 DEF OnePlace
    <3> QED
      BY <1>4, <3>1, <3>2
  <2>5. \A u, v \in Worker : wtask'[u] = wtask'[v] /\ wtask'[u] # NoTask => u = v
    BY <1>4, <1>6, <1>7 DEF OnePlace
  <2>6. \A a, b \in Thread : hand[a] = hand[b] /\ hand[a] # NoTask => a = b
    BY <1>6 DEF OnePlace
  <2>7. hand' = hand
    BY <1>4
  <2> QED
    BY <2>1, <2>2, <2>3, <2>4, <2>5, <2>6, <2>7 DEF OnePlace
<1>10. /\ \A l \in Sch : \A i \in Queued(l)' : tstate[m_tasks'[l][i]] = "init"
       /\ \A v \in Worker : wtask'[v] # NoTask => tstate[wtask'[v]] # "absent"
  <2>1. tstate[t] = "init"
    BY <1>6 DEF TasksInv
  <2>2. \A l \in Sch : \A i \in Queued(l) : tstate[m_tasks[l][i]] = "init"
    BY DEF TasksInv
  <2>3. \A v \in Worker : wtask[v] # NoTask => tstate[wtask[v]] # "absent"
    BY DEF TasksInv
  <2>4. \A v \in Worker : wtask'[v] # NoTask => tstate[wtask'[v]] # "absent"
    BY <1>4, <2>1, <2>3
  <2>5. ASSUME NEW l \in Sch, NEW i \in Queued(l)'
        PROVE  tstate[m_tasks'[l][i]] = "init"
    <3>1. PICK a \in Queued(l) : m_tasks'[l][i] = m_tasks[l][a]
      BY <1>8
    <3> QED
      BY <2>2, <3>1
  <2> QED
    BY <2>4, <2>5
<1>11. ASSUME NEW u \in Task, tstate[u] = "init" PROVE SomePlace(u)'
  <2>1. CASE u = t
    BY <1>4, <2>1 DEF SomePlace
  <2>2. CASE u # t
    <3>1. SomePlace(u)
      BY <1>11 DEF TasksInv
    <3>2. ASSUME NEW l \in Sch, NEW i \in Queued(l), m_tasks[l][i] = u
          PROVE  \E j \in Queued(l)' : m_tasks'[l][j] = u
      <4>1. CASE l = k
        BY <1>5, <1>6, <2>2, <3>2, <4>1
      <4>2. CASE l # k
        BY <1>4, <1>5, <3>2, <4>2
      <4> QED
        BY <4>1, <4>2
    <3>3. ASSUME NEW v \in Worker, wtask[v] = u PROVE wtask'[v] = u
      BY <1>4, <3>3, TaskFacts
    <3>4. hand' = hand
      BY <1>4
    <3> QED
      BY <3>1, <3>2, <3>3, <3>4 DEF SomePlace
  <2> QED
    BY <2>1, <2>2
<1> QED
  BY <1>4, <1>9, <1>10, <1>11 DEF TasksInv

\* m_task.reset(): what leaves the worker is done.
LEMMA TaskDropped ==
    ASSUME TInv, TasksInv, NEW w \in Worker, tstate[wtask[w]] = "done",
           wtask' = [wtask EXCEPT ![w] = NoTask], UNCHANGED <<hand, m_tasks, tstate>>
    PROVE  TasksInv'
<1>1. wtask'[w] = NoTask /\ \A v \in Worker : v # w => wtask'[v] = wtask[v]
  BY TaskFacts
<1>2. OnePlace
  BY DEF TasksInv
<1>3. /\ \A v \in Worker, k \in Sch : \A i \in Queued(k) : m_tasks[k][i] # wtask'[v]
      /\ \A u, v \in Worker : wtask'[u] = wtask'[v] /\ wtask'[u] # NoTask => u = v
      /\ \A x \in Thread, v \in Worker : hand[x] = wtask'[v] => hand[x] = NoTask
  BY <1>1, <1>2, TaskFacts DEF OnePlace
<1>4. OnePlace'
  BY <1>2, <1>3 DEF OnePlace, Queued
<1>5. \A v \in Worker : wtask'[v] # NoTask => tstate[wtask'[v]] # "absent"
  BY <1>1 DEF TasksInv
<1>6. ASSUME NEW u \in Task, tstate[u] = "init" PROVE SomePlace(u)'
  <2>1. SomePlace(u)
    BY <1>6 DEF TasksInv
  <2>2. \A v \in Worker : wtask[v] = u => wtask'[v] = u
    BY <1>1, <1>6
  <2> QED
    BY <2>1, <2>2 DEF SomePlace, Queued
<1> QED
  BY <1>4, <1>5, <1>6 DEF TasksInv, Queued

\* The worker that runs has a task.
LEMMA RunningFacts ==
    ASSUME TInv, AllPlaced, AllBusy, NEW s \in Sch, OnTask(s)
    PROVE  /\ m_worker[s] \in WorkersOf(s) /\ m_worker[s] \in Worker
           /\ wstate[m_worker[s]] = "running" /\ Running(s) \in Task
<1>1. pc[s] # "exited"
  BY DEF OnTask, AsyncPc, NotifyPc
<1>2. m_worker[s] \in WorkersOf(s) /\ m_worker[s] \in InWorkerState(s, "running")
  BY <1>1 DEF AllPlaced, WorkersInv
<1>3. m_worker[s] \in Worker /\ wstate[m_worker[s]] = "running"
  BY <1>2, PlaceFacts DEF InWorkerState
<1>4. wtask[m_worker[s]] # NoTask
  BY <1>1, <1>2, <1>3 DEF AllBusy, BusyWorkers
<1> QED
  BY <1>2, <1>3, <1>4, TaskFacts DEF Running

\* The members of the queues of a scheduler that has not exited.
LEMMA QueueFacts ==
    ASSUME TInv, AllPlaced, NEW s \in Sch, pc[s] # "exited"
    PROVE  /\ \A i \in 1..Len(pending_io[s]) : pending_io[s][i] \in InWorkerState(s, "pending_io")
           /\ \A i \in 1..Len(waiting[s]) : waiting[s][i] \in InWorkerState(s, "waiting")
           /\ runnable[s] # <<>> => Head(runnable[s]) \in InWorkerState(s, "runnable")
           /\ idle[s] # <<>> => Head(idle[s]) \in InWorkerState(s, "idle")
           /\ yielded[s] # NoWorker => yielded[s] \in InWorkerState(s, "yielded")
           /\ Len(pending_io[s]) \in Nat /\ Len(waiting[s]) \in Nat
<1>1. /\ Enumerates(idle[s], InWorkerState(s, "idle"))
      /\ Enumerates(runnable[s], InWorkerState(s, "runnable"))
      /\ Enumerates(waiting[s], InWorkerState(s, "waiting"))
      /\ Enumerates(pending_io[s], InWorkerState(s, "pending_io"))
      /\ InWorkerState(s, "yielded") = {yielded[s]} \ {NoWorker}
  BY DEF AllPlaced, WorkersInv
<1>2. /\ \A i \in 1..Len(pending_io[s]) : pending_io[s][i] \in InWorkerState(s, "pending_io")
      /\ Len(pending_io[s]) \in Nat
  BY <1>1, EnumeratesFacts
<1>3. /\ \A i \in 1..Len(waiting[s]) : waiting[s][i] \in InWorkerState(s, "waiting")
      /\ Len(waiting[s]) \in Nat
  BY <1>1, EnumeratesFacts
<1>4. runnable[s] # <<>> => Head(runnable[s]) \in InWorkerState(s, "runnable")
  BY <1>1, HeadTailProperties DEF Enumerates
<1>5. idle[s] # <<>> => Head(idle[s]) \in InWorkerState(s, "idle")
  BY <1>1, HeadTailProperties DEF Enumerates
<1> QED
  BY <1>1, <1>2, <1>3, <1>4, <1>5

\* The first idle worker has no task.
LEMMA FrontIdle ==
    ASSUME TInv, AllPlaced, AllBusy, NEW s \in Sch, pc[s] # "exited", idle[s] # <<>>
    PROVE  Head(idle[s]) \in WorkersOf(s) /\ Head(idle[s]) \in Worker /\ wtask[Head(idle[s])] = NoTask
<1>1. Head(idle[s]) \in InWorkerState(s, "idle")
  BY QueueFacts
<1>2. Head(idle[s]) \in WorkersOf(s) /\ wstate[Head(idle[s])] = "idle"
  BY <1>1 DEF InWorkerState
<1> QED
  BY <1>2, PlaceFacts DEF AllBusy, BusyWorkers

\* One worker changes its state, and its task if it becomes idle or stops to be.
LEMMA BusyOne ==
    ASSUME TInv, AllBusy, NEW s \in Sch, NEW w \in WorkersOf(s), NEW b,
           \A k \in Sch : pc'[k] # "exited" => pc[k] # "exited",
           wstate' = [wstate EXCEPT ![w] = b],
           \A v \in Worker : v # w => wtask'[v] = wtask[v],
           wtask'[w] = NoTask <=> b = "idle"
    PROVE  AllBusy'
<1>1. /\ wstate'[w] = b
      /\ \A v \in Worker : v # w => wstate'[v] = wstate[v]
  BY PlaceFacts
<1>2. \A k \in Sch : \A v \in WorkersOf(k) : v \in Worker
  BY PlaceFacts
<1> QED
  BY <1>1, <1>2 DEF AllBusy, BusyWorkers

\* A worker that is not idle goes to a state that is not idle either.
LEMMA BusyMoves ==
    ASSUME TInv, AllBusy, NEW s \in Sch, NEW w \in WorkersOf(s), NEW b, b # "idle",
           wstate[w] # "idle", pc[s] # "exited", NEW l, l # "exited",
           pc' = [pc EXCEPT ![s] = l] \/ pc' = pc,
           wstate' = [wstate EXCEPT ![w] = b], wtask' = wtask
    PROVE  AllBusy'
<1>1. \A k \in Sch : pc'[k] # "exited" => pc[k] # "exited"
  BY PlaceFacts
<1>2. wtask[w] # NoTask
  BY DEF AllBusy, BusyWorkers
<1>3. wtask'[w] = NoTask <=> b = "idle"
  BY <1>2
<1> QED
  BY <1>1, <1>3, BusyOne

\* next_task gives a task to an idle worker.
LEMMA GiveFacts ==
    ASSUME TInv, AllPlaced, AllBusy, NEW s \in Sch, NEW k \in Sch, GiveTask(s, k),
           pc[s] # "exited", idle[s] # <<>>, has_tasks(k), UNCHANGED <<hand, tstate>>
    PROVE  \E w \in WorkersOf(s) : /\ w = Head(idle[s]) /\ w \in Worker /\ TaskGoes(k, w)
                                   /\ wtask'[w] \in Task
                                   /\ wstate' = [wstate EXCEPT ![w] = "runnable"]
<1>1. PICK w \in WorkersOf(s) : w = Head(idle[s]) /\ w \in Worker /\ wtask[w] = NoTask
  BY FrontIdle
<1>2. TaskGoes(k, w) /\ wstate' = [wstate EXCEPT ![w] = "runnable"]
  BY <1>1 DEF GiveTask, TaskGoes
<1>3. Head(m_tasks[k]) \in Task
  BY TaskFacts, HeadTailProperties DEF has_tasks
<1>4. wtask'[w] = Head(m_tasks[k])
  BY <1>1, <1>2, TaskFacts DEF TaskGoes
<1> QED
  BY <1>1, <1>2, <1>3, <1>4

\* Steps that leave all the workers where they are.
LEMMA BusyUntouched ==
    ASSUME AllBusy, \A k \in Sch : Untouched(k), wtask' = wtask
    PROVE  AllBusy'
  BY DEF AllBusy, BusyWorkers, Untouched

\* Every step leaves the workers that are not idle with a task, the others without.
LEMMA BusyStep ==
    ASSUME TInv, AllPlaced, AllBusy, [Next]_vars
    PROVE  AllBusy'
<1>a. /\ "yielded" # "idle" /\ "pending_io" # "idle" /\ "waiting" # "idle" /\ "runnable" # "idle"
      /\ "running" # "idle" /\ "io" # "exited" /\ "steal" # "exited" /\ "run" # "exited"
      /\ "recheck" # "exited"
  OBVIOUS
<1>1. ASSUME NEW s \in Sch, UserStep(s) PROVE AllBusy'
  <2>1. CASE Yield(s)
    <3>1. PICK w \in WorkersOf(s) : w = m_worker[s] /\ wstate[w] = "running"
      BY <2>1, RunningFacts DEF Yield, OnTask
    <3>2. /\ pc[s] # "exited" /\ pc' = [pc EXCEPT ![s] = "io"] /\ wtask' = wtask
          /\ wstate' = [wstate EXCEPT ![w] = "yielded"]
      BY <2>1, <3>1 DEF Yield, Goto
    <3> QED
      BY <1>a, <3>1, <3>2, BusyMoves
  <2>2. CASE StartIo(s)
    <3>1. PICK w \in WorkersOf(s) : w = m_worker[s] /\ wstate[w] = "running"
      BY <2>2, RunningFacts DEF StartIo, OnTask
    <3>2. /\ pc[s] # "exited" /\ pc' = [pc EXCEPT ![s] = "io"] /\ wtask' = wtask
          /\ wstate' = [wstate EXCEPT ![w] = "pending_io"]
      BY <2>2, <3>1 DEF StartIo, Goto
    <3> QED
      BY <1>a, <3>1, <3>2, BusyMoves
  <2>3. CASE WaitCondOrSleep(s) /\ ~ check_wait_info(m_worker[s])
    <3>1. PICK w \in WorkersOf(s) : w = m_worker[s] /\ wstate[w] = "running"
      BY <2>3, RunningFacts DEF WaitCondOrSleep, OnTask
    <3>2. /\ pc[s] # "exited" /\ pc' = [pc EXCEPT ![s] = "io"] /\ wtask' = wtask
          /\ wstate' = [wstate EXCEPT ![w] = "waiting"]
      BY <2>3, <3>1 DEF WaitCondOrSleep, Goto
    <3> QED
      BY <1>a, <3>1, <3>2, BusyMoves
  <2>4. CASE ParkIdle(s)
    <3>1. PICK w \in WorkersOf(s) : w = m_worker[s] /\ w \in Worker
      BY <2>4, RunningFacts DEF ParkIdle, OnTask
    <3>2. /\ pc[s] # "exited" /\ pc' = [pc EXCEPT ![s] = "io"] /\ wtask' = [wtask EXCEPT ![w] = NoTask]
          /\ wstate' = [wstate EXCEPT ![w] = "idle"]
      BY <2>4, <3>1 DEF ParkIdle, Goto
    <3>3. \A k \in Sch : pc'[k] # "exited" => pc[k] # "exited"
      BY <3>2, PlaceFacts
    <3>4. wtask'[w] = NoTask /\ \A v \in Worker : v # w => wtask'[v] = wtask[v]
      BY <3>1, <3>2, TaskFacts
    <3> QED
      BY <3>2, <3>3, <3>4, BusyOne
  <2>5. CASE UserStays(s)
    <3>1. \A k \in Sch : Untouched(k)
      BY <2>5, UserSteps DEF AllPlaced
    <3>2. wtask' = wtask
      BY <2>5 DEF UserStays, Async, SleepUntil, WaitTask, Recheck, Finish, NotifyWaiter, WaitCondOrSleep,
                  worker_vars
    <3> QED
      BY <3>1, <3>2, BusyUntouched
  <2> QED
    BY <1>1, <2>1, <2>2, <2>3, <2>4, <2>5 DEF UserStep, UserStays
<1>2. ASSUME NEW s \in Sch, ScheduleStep(s) PROVE AllBusy'
  <2>0. pc[s] # "exited" /\ it[s] \in Nat \ {0}
    BY <1>2, PlaceFacts DEF ScheduleStep, ScheduleIo, ScheduleWaiting, ScheduleIdle, ScheduleYielded,
                            StealWork, Rob, PrepareExec, TInv, TypeOK, ThreadTypes
  <2>1. CASE ScheduleIo(s) /\ ~ (it[s] > Len(pending_io[s])) /\ ~ io[pending_io[s][it[s]]]
    <3>1. it[s] \in 1..Len(pending_io[s])
      BY <2>0, <2>1, QueueFacts
    <3>2. PICK w \in WorkersOf(s) : w = pending_io[s][it[s]] /\ wstate[w] = "pending_io"
      BY <2>0, <3>1, QueueFacts DEF InWorkerState
    <3>3. pc' = pc /\ wtask' = wtask /\ wstate' = [wstate EXCEPT ![w] = "runnable"]
      BY <2>1, <3>2 DEF ScheduleIo
    <3> QED
      BY <1>a, <2>0, <3>2, <3>3, BusyMoves
  <2>2. CASE ScheduleWaiting(s) /\ ~ (it[s] > Len(waiting[s])) /\ check_wait_info(waiting[s][it[s]])
    <3>1. it[s] \in 1..Len(waiting[s])
      BY <2>0, <2>2, QueueFacts
    <3>2. PICK w \in WorkersOf(s) : w = waiting[s][it[s]] /\ wstate[w] = "waiting"
      BY <2>0, <3>1, QueueFacts DEF InWorkerState
    <3>3. pc' = pc /\ wtask' = wtask /\ wstate' = [wstate EXCEPT ![w] = "runnable"]
      BY <2>2, <3>2 DEF ScheduleWaiting
    <3> QED
      BY <1>a, <2>0, <3>2, <3>3, BusyMoves
  <2>3. ASSUME NEW k \in Sch, GiveTask(s, k), has_tasks(k), idle[s] # <<>>, hand' = hand, tstate' = tstate,
               \E l \in {"yielded", "decide"} : pc' = [pc EXCEPT ![s] = l]
        PROVE  AllBusy'
    <3>1. PICK w \in WorkersOf(s) : w \in Worker /\ TaskGoes(k, w) /\ wtask'[w] \in Task
                                    /\ wstate' = [wstate EXCEPT ![w] = "runnable"]
      BY <2>0, <2>3, GiveFacts
    <3>2. \A j \in Sch : pc'[j] # "exited" => pc[j] # "exited"
      BY <2>0, <2>3, PlaceFacts
    <3>3. \A v \in Worker : v # w => wtask'[v] = wtask[v]
      BY <3>1, TaskFacts DEF TaskGoes
    <3>4. wtask'[w] = NoTask <=> "runnable" = "idle"
      BY <1>a, <3>1, TaskFacts
    <3> QED
      BY <3>1, <3>2, <3>3, <3>4, BusyOne
  <2>4. CASE ScheduleIdle(s) /\ runnable[s] = <<>> /\ idle[s] # <<>> /\ has_tasks(s)
    BY <2>3, <2>4 DEF ScheduleIdle, Goto, task_vars
  <2>5. CASE ScheduleYielded(s) /\ yielded[s] # NoWorker
    <3>1. PICK w \in WorkersOf(s) : w = yielded[s] /\ wstate[w] = "yielded"
      BY <2>0, <2>5, QueueFacts DEF InWorkerState
    <3>2. pc' = [pc EXCEPT ![s] = "steal"] /\ wtask' = wtask /\ wstate' = [wstate EXCEPT ![w] = "runnable"]
      BY <2>5, <3>1 DEF ScheduleYielded, Goto
    <3> QED
      BY <1>a, <2>0, <3>1, <3>2, BusyMoves
  <2>6. CASE Rob(s) /\ has_tasks(it[s])
    <3>1. it[s] \in Sch /\ idle[s] # <<>>
      BY <2>6 DEF Rob, TInv, ThreadInv
    <3>2. PICK k \in Sch : k = it[s]
      BY <3>1
    <3> QED
      BY <2>3, <2>6, <3>1, <3>2 DEF Rob, Goto, task_vars
  <2>7. CASE PrepareExec(s)
    <3>1. PICK w \in WorkersOf(s) : w = Head(runnable[s]) /\ wstate[w] = "runnable"
      BY <2>0, <2>7, QueueFacts DEF InWorkerState, PrepareExec
    <3>2. PICK l : l = Resume(w) /\ l # "exited"
      BY DEF Resume
    <3>3. pc' = [pc EXCEPT ![s] = l] /\ wtask' = wtask /\ wstate' = [wstate EXCEPT ![w] = "running"]
      BY <2>7, <3>1, <3>2 DEF PrepareExec, Goto
    <3> QED
      BY <1>a, <2>0, <3>1, <3>2, <3>3, BusyMoves
  <2>8. CASE PassStays(s)
    <3>1. \A k \in Sch : Untouched(k)
      BY <2>8, PassSteps DEF AllPlaced
    <3>2. wtask' = wtask
      BY <2>8 DEF PassStays, ScheduleIo, ScheduleWaiting, ScheduleIdle, ScheduleYielded, StealWork, Rob,
                  worker_vars
    <3> QED
      BY <3>1, <3>2, BusyUntouched
  <2> QED
    BY <1>2, <2>1, <2>2, <2>4, <2>5, <2>6, <2>7, <2>8 DEF ScheduleStep, PassStays
<1>3. ASSUME NEW s \in Sch, SleepStep(s) \/ SpinElapses(s) PROVE AllBusy'
  <2>1. CASE SleepStays(s)
    <3>1. \A k \in Sch : Untouched(k)
      BY <2>1, SleepSteps DEF AllPlaced
    <3>2. wtask' = wtask
      BY <2>1 DEF SleepStays, SpinOrPoll, SleepLock, EnterWait, SignalIdle, SetCheckIdle, NotifyMain,
                  EnterSleep, Wake, WakeInVain, SignalRunning, ShouldExit, SpinElapses, worker_vars
    <3> QED
      BY <3>1, <3>2, BusyUntouched
  <2>2. CASE ShouldExit(s) /\ m_exit[s]
    <3>1. PICK w \in WorkersOf(s) : w = m_worker[s]
      BY <2>2 DEF ShouldExit, AllPlaced, WorkersInv
    <3>2. wstate' = [wstate EXCEPT ![w] = "exiting"] /\ wtask' = wtask /\ pc' = [pc EXCEPT ![s] = "exited"]
      BY <2>2, <3>1 DEF ShouldExit, Goto
    <3>3. \A k \in Sch : k # s => \A v \in WorkersOf(k) : wstate'[v] = wstate[v]
      BY <3>2, WorkerGoes
    <3>4. /\ pc'[s] = "exited"
          /\ \A k \in Sch : k # s => pc'[k] = pc[k]
      BY <3>2, PlaceFacts
    <3> QED
      BY <3>2, <3>3, <3>4 DEF AllBusy, BusyWorkers
  <2> QED
    BY <1>3, <2>1, <2>2 DEF SleepStep, AwakeStep, SleepStays
<1>4. ASSUME NEW th \in Thread, NotifyStep(th) PROVE AllBusy'
  <2>1. wtask' = wtask
    BY <1>4 DEF NotifyStep, MinLoad, Enque, NotifyLock, NotifyFire, worker_vars
  <2> QED
    BY <1>4, <2>1, NotifySteps, BusyUntouched
<1>5. CASE MainStep \/ (\E w \in Worker : Tick(w) \/ IoCompletes(w)) \/ UNCHANGED vars
  <2>1. CASE Join
    <3>1. PICK s : s = it[Main] /\ pc[s] = "exited"
      BY <2>1 DEF Join
    <3>2. \A k \in Sch : pc'[k] = pc[k]
      BY <2>1, PlaceFacts, ThreadFacts DEF Join, Goto
    <3>3. /\ \A w \in Worker : wstate'[w] = IF w \in WorkersOf(s) THEN "exiting" ELSE wstate[w]
          /\ wtask' = wtask
      BY <2>1, <3>1 DEF Join
    <3>4. \A k \in Sch : k # s => \A w \in WorkersOf(k) : w \in Worker /\ w \notin WorkersOf(s)
      BY DEF Worker, WorkersOf
    <3> QED
      BY <3>1, <3>2, <3>3, <3>4 DEF AllBusy, BusyWorkers
  <2>2. CASE ~ Join
    <3>1. \A k \in Sch : Untouched(k)
      BY <1>5, <2>2, MainSteps DEF MainStep, MainThread
    <3>2. wtask' = wtask
      BY <1>5, <2>2 DEF MainStep, MainThread, MainAsync, CheckIdle, AllIdleCount, AllIdleTasks,
                        AllIdleLock, AllIdleCheck, Relock, Destroy, MainWake, Tick, IoCompletes,
                        vars, worker_vars
    <3> QED
      BY <3>1, <3>2, BusyUntouched
  <2> QED
    BY <2>1, <2>2
<1> QED
  BY <1>1, <1>2, <1>3, <1>4, <1>5 DEF Next, SchedulerStep, Environment, Terminated

\* A step that moves no task.
Frozen == UNCHANGED <<hand, m_tasks, wtask, tstate>>

\* Scheduler steps that move no task.
FrozenStep(s) ==
    \/ Yield(s) \/ StartIo(s) \/ SleepUntil(s) \/ WaitTask(s) \/ WaitCondOrSleep(s)
    \/ Recheck(s) \/ NotifyWaiter(s) \/ ScheduleIo(s) \/ ScheduleWaiting(s)
    \/ (ScheduleIdle(s) /\ ~ (runnable[s] = <<>> /\ idle[s] # <<>> /\ has_tasks(s)))
    \/ ScheduleYielded(s) \/ StealWork(s) \/ (Rob(s) /\ ~ has_tasks(it[s]))
    \/ PrepareExec(s) \/ SleepStep(s)

\* Those of the other threads.
FrozenElse ==
    \/ \E th \in Thread : MinLoad(th) \/ NotifyLock(th) \/ NotifyFire(th)
    \/ CheckIdle \/ AllIdleCount \/ AllIdleTasks \/ AllIdleLock \/ AllIdleCheck
    \/ Relock \/ Destroy \/ Join \/ MainWake
    \/ Environment \/ UNCHANGED vars

\* They do not.
LEMMA FrozenSteps ==
    ASSUME (\E s \in Sch : FrozenStep(s)) \/ FrozenElse
    PROVE  Frozen
<1> USE DEF Frozen, worker_vars, task_vars, thread_vars, shared_vars
<1>1. ASSUME NEW s \in Sch, Yield(s) \/ StartIo(s) \/ SleepUntil(s) \/ WaitTask(s) \/ WaitCondOrSleep(s)
                            \/ Recheck(s) \/ NotifyWaiter(s)
      PROVE  Frozen
  BY <1>1 DEF Yield, StartIo, SleepUntil, WaitTask, WaitCondOrSleep, Recheck, NotifyWaiter
<1>2. ASSUME NEW s \in Sch, ScheduleIo(s) \/ ScheduleWaiting(s) \/ ScheduleYielded(s) \/ StealWork(s)
                            \/ PrepareExec(s)
      PROVE  Frozen
  BY <1>2 DEF ScheduleIo, ScheduleWaiting, ScheduleYielded, StealWork, PrepareExec
<1>3. ASSUME NEW s \in Sch, ScheduleIdle(s), ~ (runnable[s] = <<>> /\ idle[s] # <<>> /\ has_tasks(s))
      PROVE  Frozen
  BY <1>3 DEF ScheduleIdle
<1>4. ASSUME NEW s \in Sch, Rob(s), ~ has_tasks(it[s]) PROVE Frozen
  BY <1>4 DEF Rob
<1>5. ASSUME NEW s \in Sch, SleepStep(s) PROVE Frozen
  BY <1>5 DEF SleepStep, AwakeStep, SpinOrPoll, SleepLock, EnterWait, SignalIdle, SetCheckIdle, NotifyMain,
              EnterSleep, Wake, WakeInVain, SignalRunning, ShouldExit
<1>6. ASSUME FrozenElse PROVE Frozen
  BY <1>6 DEF FrozenElse, MinLoad, NotifyLock, NotifyFire, CheckIdle, AllIdleCount, AllIdleTasks,
              AllIdleLock, AllIdleCheck, Relock, Destroy, Join, MainWake, Environment, Tick, IoCompletes,
              SpinElapses, vars
<1> QED
  BY <1>1, <1>2, <1>3, <1>4, <1>5, <1>6 DEF FrozenStep

\* The steps that move one.
LEMMA NextMovesTask ==
    ASSUME [Next]_vars
    PROVE  \/ Frozen
           \/ MainAsync
           \/ \E th \in Thread : Enque(th)
           \/ \E s \in Sch : \/ Async(s) \/ Finish(s) \/ ParkIdle(s)
                             \/ (ScheduleIdle(s) /\ runnable[s] = <<>> /\ idle[s] # <<>> /\ has_tasks(s))
                             \/ (Rob(s) /\ has_tasks(it[s]))
<1>1. ASSUME NEW s \in Sch, UserStep(s)
      PROVE  FrozenStep(s) \/ Async(s) \/ Finish(s) \/ ParkIdle(s)
  BY <1>1 DEF UserStep, FrozenStep
<1>2. ASSUME NEW s \in Sch, ScheduleStep(s)
      PROVE  \/ FrozenStep(s)
             \/ (ScheduleIdle(s) /\ runnable[s] = <<>> /\ idle[s] # <<>> /\ has_tasks(s))
             \/ (Rob(s) /\ has_tasks(it[s]))
  BY <1>2 DEF ScheduleStep, FrozenStep
<1>3. ASSUME NEW s \in Sch, SleepStep(s) PROVE FrozenStep(s)
  BY <1>3 DEF FrozenStep
<1>4. ASSUME NEW th \in Thread, NotifyStep(th) PROVE FrozenElse \/ Enque(th)
  BY <1>4 DEF NotifyStep, FrozenElse
<1>5. ASSUME MainStep \/ Environment \/ UNCHANGED vars PROVE FrozenElse \/ MainAsync
  BY <1>5 DEF MainStep, MainThread, FrozenElse
<1> QED
  BY <1>1, <1>2, <1>3, <1>4, <1>5, FrozenSteps DEF Next, SchedulerStep, Terminated

\* Every step keeps every task that is not done in one place.
LEMMA TasksStep ==
    ASSUME TInv, AllPlaced, AllBusy, AllOver, TasksInv, [Next]_vars
    PROVE  TasksInv'
<1>1. CASE Frozen
  BY <1>1, TasksRest DEF Frozen
<1>2. CASE MainAsync
  <2>1. /\ Main \in Thread /\ pc[Main] \notin AsyncPc /\ MainTask \in Task
        /\ NewTask(Main, MainTask) /\ UNCHANGED <<m_tasks, wtask>>
    BY <1>2, ThreadFacts, TaskAssumption DEF MainAsync, AsyncPc, shared_vars, worker_vars
  <2> QED
    BY <2>1, TaskStarts
<1>3. ASSUME NEW th \in Thread, Enque(th) PROVE TasksInv'
  BY <1>3, TaskQueued
<1>4. ASSUME NEW s \in Sch, Async(s) PROVE TasksInv'
  <2>1. PICK t \in Task : NewTask(s, t)
    BY <1>4 DEF Async
  <2>2. s \in Thread /\ pc[s] \notin AsyncPc /\ UNCHANGED <<m_tasks, wtask>>
    BY <1>4, ThreadFacts DEF Async, AsyncPc, shared_vars, worker_vars
  <2> QED
    BY <2>1, <2>2, TaskStarts
<1>5. ASSUME NEW s \in Sch, Finish(s) PROVE TasksInv'
  <2>1. PICK w \in Worker : w = m_worker[s] /\ wtask[w] \in Task
    BY <1>5, RunningFacts DEF Finish, OnTask, Running
  <2>2. tstate' = [tstate EXCEPT ![wtask[w]] = "done"] /\ UNCHANGED <<hand, m_tasks, wtask>>
    BY <1>5, <2>1 DEF Finish, Running, shared_vars, worker_vars
  <2> QED
    BY <2>1, <2>2, TaskFinishes
<1>6. ASSUME NEW s \in Sch, ParkIdle(s) PROVE TasksInv'
  <2>1. PICK w \in Worker : w = m_worker[s] /\ tstate[wtask[w]] = "done"
    BY <1>6, RunningFacts DEF ParkIdle, OnTask, Running, AllOver, TaskOver
  <2>2. wtask' = [wtask EXCEPT ![w] = NoTask] /\ UNCHANGED <<hand, m_tasks, tstate>>
    BY <1>6, <2>1 DEF ParkIdle, shared_vars, task_vars
  <2> QED
    BY <2>1, <2>2, TaskDropped
<1>7. ASSUME NEW s \in Sch, NEW k \in Sch, GiveTask(s, k), pc[s] # "exited", idle[s] # <<>>, has_tasks(k),
             UNCHANGED <<hand, tstate>>
      PROVE  TasksInv'
  BY <1>7, GiveFacts, TaskGiven
<1>8. ASSUME NEW s \in Sch, ScheduleIdle(s), runnable[s] = <<>>, idle[s] # <<>>, has_tasks(s)
      PROVE  TasksInv'
  BY <1>7, <1>8 DEF ScheduleIdle, task_vars
<1>9. ASSUME NEW s \in Sch, Rob(s), has_tasks(it[s]) PROVE TasksInv'
  <2>1. it[s] \in Sch /\ idle[s] # <<>>
    BY <1>9 DEF Rob, TInv, ThreadInv
  <2>2. PICK k \in Sch : k = it[s]
    BY <2>1
  <2> QED
    BY <1>7, <1>9, <2>1, <2>2 DEF Rob, task_vars
<1> QED
  BY <1>1, <1>2, <1>3, <1>4, <1>5, <1>6, <1>8, <1>9, NextMovesTask

\* A step of one thread leaves the control of the others alone.
Alone(th) == \A x \in Thread : x # th => UNCHANGED <<pc[x], ret[x], target[x]>>

\* The types of the control state.
LEMMA ControlTypes ==
    ASSUME TInv
    PROVE  /\ pc \in [Thread -> Pc] /\ ret \in [Thread -> {"run", "reset", "pred", "join", "end"}]
           /\ target \in [Thread -> Sch \cup {Free}] /\ Sch \subseteq Thread /\ Main \in Thread /\ Main \notin Sch
  BY ThreadFacts DEF TInv, TypeOK, ThreadTypes

\* Every step is one of a thread or of the environment.
LEMMA ThreadsAlone ==
    ASSUME TInv
    PROVE  /\ \A s \in Sch : SchedulerStep(s) => Alone(s)
           /\ \A th \in Thread : NotifyStep(th) => Alone(th)
           /\ MainStep => Alone(Main)
           /\ Environment \/ UNCHANGED vars => UNCHANGED <<pc, ret, target>>
<1> USE DEF Alone, Goto
<1>1. ASSUME NEW s \in Sch, UserStep(s) PROVE Alone(s)
  <2>1. CASE Async(s)
    BY <2>1, ControlTypes DEF Async, NewTask
  <2>2. CASE Yield(s) \/ StartIo(s) \/ SleepUntil(s) \/ Finish(s) \/ ParkIdle(s)
    BY <2>2, ControlTypes DEF Yield, StartIo, SleepUntil, Finish, ParkIdle
  <2>3. CASE WaitTask(s) \/ Recheck(s) \/ WaitCondOrSleep(s)
    BY <2>3, ControlTypes DEF WaitTask, Recheck, WaitCondOrSleep, AddWaiter
  <2>4. CASE NotifyWaiter(s)
    BY <2>4, ControlTypes DEF NotifyWaiter
  <2> QED
    BY <1>1, <2>1, <2>2, <2>3, <2>4 DEF UserStep
<1>2. ASSUME NEW s \in Sch, ScheduleStep(s) PROVE Alone(s)
  BY <1>2, ControlTypes DEF ScheduleStep, ScheduleIo, ScheduleWaiting, ScheduleIdle, ScheduleYielded,
                            StealWork, Rob, PrepareExec
<1>3. ASSUME NEW s \in Sch, SleepStep(s) PROVE Alone(s)
  BY <1>3, ControlTypes DEF SleepStep, AwakeStep, SpinOrPoll, SleepLock, EnterWait, SignalIdle, SetCheckIdle,
              NotifyMain, EnterSleep, Wake, WakeInVain, SignalRunning, ShouldExit, thread_vars
<1>4. ASSUME NEW th \in Thread, NotifyStep(th) PROVE Alone(th)
  BY <1>4, ControlTypes DEF NotifyStep, MinLoad, Enque, NotifyLock, NotifyFire
<1>5. ASSUME MainStep PROVE Alone(Main)
  BY <1>5, ControlTypes DEF MainStep, MainThread, MainAsync, NewTask, CheckIdle, AllIdleCount, AllIdleTasks,
                            AllIdleLock, AllIdleCheck, Relock, Destroy, MainWake, Join
<1>6. ASSUME Environment \/ UNCHANGED vars PROVE UNCHANGED <<pc, ret, target>>
  BY <1>6 DEF Environment, Tick, SpinElapses, IoCompletes, vars, thread_vars
<1> QED
  BY <1>1, <1>2, <1>3, <1>4, <1>5, <1>6 DEF SchedulerStep

\* Only a thread's own steps move it.
LEMMA ControlMoves ==
    ASSUME TInv, [Next]_vars, NEW th \in Thread
    PROVE  \/ UNCHANGED <<pc[th], ret[th]>>
           \/ th \in Sch /\ SchedulerStep(th)
           \/ th = Main /\ MainStep
           \/ NotifyStep(th)
<1>1. ASSUME NEW k \in Sch, SchedulerStep(k), k # th PROVE UNCHANGED <<pc[th], ret[th]>>
  BY <1>1, ThreadsAlone DEF Alone
<1>2. ASSUME NEW x \in Thread, NotifyStep(x), x # th PROVE UNCHANGED <<pc[th], ret[th]>>
  BY <1>2, ThreadsAlone DEF Alone
<1>3. ASSUME MainStep, Main # th PROVE UNCHANGED <<pc[th], ret[th]>>
  BY <1>3, ThreadsAlone DEF Alone
<1>4. ASSUME Environment \/ UNCHANGED vars PROVE UNCHANGED <<pc[th], ret[th]>>
  BY <1>4, ThreadsAlone
<1> QED
  BY <1>1, <1>2, <1>3, <1>4 DEF Next, Terminated

\* A worker gets past the end of its task by finishing it.
LEMMA OverMoves ==
    ASSUME TInv, [Next]_vars, NEW s \in Sch, TaskOver(s)'
    PROVE  TaskOver(s) \/ Finish(s)
<1>0. s \in Thread
  BY ControlTypes
<1>1. CASE UNCHANGED <<pc[s], ret[s]>>
  BY <1>1 DEF TaskOver
<1> USE DEF Goto, TaskOver, NotifyPc
<1>2. CASE UserStep(s)
  <2>1. CASE Async(s)
    BY <2>1, <1>0, ControlTypes DEF Async, NewTask
  <2>2. CASE Yield(s) \/ StartIo(s) \/ SleepUntil(s) \/ ParkIdle(s)
    BY <2>2, <1>0, ControlTypes DEF Yield, StartIo, SleepUntil, ParkIdle
  <2>3. CASE WaitTask(s) \/ Recheck(s) \/ WaitCondOrSleep(s)
    BY <2>3, <1>0, ControlTypes DEF WaitTask, Recheck, WaitCondOrSleep, AddWaiter, Resume
  <2>4. CASE NotifyWaiter(s)
    BY <2>4 DEF NotifyWaiter
  <2> QED
    BY <1>2, <2>1, <2>2, <2>3, <2>4 DEF UserStep
<1>3. CASE ScheduleStep(s)
  <2>1. CASE PrepareExec(s)
    BY <2>1, <1>0, ControlTypes DEF PrepareExec, Resume
  <2>2. CASE ~ PrepareExec(s)
    BY <1>3, <2>2, <1>0, ControlTypes DEF ScheduleStep, ScheduleIo, ScheduleWaiting, ScheduleIdle,
                             ScheduleYielded, StealWork, Rob
  <2> QED
    BY <2>1, <2>2
<1>4. CASE SleepStep(s)
  BY <1>4, <1>0, ControlTypes DEF SleepStep, AwakeStep, SpinOrPoll, SleepLock, EnterWait, SignalIdle, SetCheckIdle,
              NotifyMain, EnterSleep, Wake, WakeInVain, SignalRunning, ShouldExit, thread_vars
<1>5. CASE NotifyStep(s)
  <2>1. /\ pc[s] \in AsyncPc => ret[s] = "run"
        /\ pc[s] \in NotifyPc => ret[s] \in {"run", "reset"}
    BY DEF TInv, ThreadInv
  <2> QED
    BY <1>5, <2>1, <1>0, ControlTypes DEF NotifyStep, MinLoad, Enque, NotifyLock, NotifyFire, AsyncPc
<1>6. \/ UNCHANGED <<pc[s], ret[s]>> \/ SchedulerStep(s) \/ NotifyStep(s)
  <2> HIDE DEF Goto, TaskOver, NotifyPc
  <2> QED
    BY <1>0, ControlMoves, ControlTypes
<1> QED
  BY <1>1, <1>2, <1>3, <1>4, <1>5, <1>6 DEF SchedulerStep

\* What runs on a worker past its task's end stays there, and done.
LEMMA OverStep ==
    ASSUME TInv, AllPlaced, AllBusy, AllOver, TasksInv, [Next]_vars
    PROVE  AllOver'
<1> SUFFICES ASSUME NEW s \in Sch, TaskOver(s)' PROVE tstate'[Running(s)'] = "done"
  BY DEF AllOver
<1>1. TaskOver(s) \/ Finish(s)
  BY OverMoves
<1>2. OnTask(s)
  BY <1>1 DEF TaskOver, OnTask, Finish, NotifyPc
<1>3. PICK w \in WorkersOf(s) : w = m_worker[s] /\ w \in Worker /\ wstate[w] = "running" /\ wtask[w] \in Task
  BY <1>2, RunningFacts DEF Running
<1>4. PICK t \in Task : t = wtask[w] /\ t = Running(s)
  BY <1>3 DEF Running
<1>5. m_worker'[s] = w
  <2>1. ASSUME NEW k \in Sch, PrepareExec(k) PROVE m_worker'[s] = w
    <3>1. k # s
      BY <1>1, <2>1 DEF TaskOver, Finish, PrepareExec, NotifyPc
    <3> QED
      BY <1>3, <2>1, <3>1, PlaceFacts DEF PrepareExec
  <2>2. ASSUME NEW k \in Sch, UserStep(k) \/ (ScheduleStep(k) /\ ~ PrepareExec(k)) \/ SleepStep(k)
        PROVE  m_worker' = m_worker
    <3>1. CASE UserStep(k)
      BY <3>1 DEF UserStep, Async, Yield, StartIo, SleepUntil, WaitTask, WaitCondOrSleep, Recheck, Finish,
                  NotifyWaiter, ParkIdle, queue_vars
    <3>2. CASE ScheduleStep(k) /\ ~ PrepareExec(k)
      BY <3>2 DEF ScheduleStep, ScheduleIo, ScheduleWaiting, ScheduleIdle, ScheduleYielded, StealWork, Rob,
                  GiveTask, queue_vars
    <3>3. CASE SleepStep(k)
      BY <3>3 DEF SleepStep, AwakeStep, SpinOrPoll, SleepLock, EnterWait, SignalIdle, SetCheckIdle,
                  NotifyMain, EnterSleep, Wake, WakeInVain, SignalRunning, ShouldExit, queue_vars
    <3> QED
      BY <2>2, <3>1, <3>2, <3>3
  <2>3. ASSUME NEW th \in Thread, NotifyStep(th) PROVE m_worker' = m_worker
    BY <2>3 DEF NotifyStep, MinLoad, Enque, NotifyLock, NotifyFire, queue_vars
  <2>4. ASSUME MainStep \/ Environment \/ UNCHANGED vars PROVE m_worker' = m_worker
    BY <2>4 DEF MainStep, MainThread, MainAsync, CheckIdle, AllIdleCount, AllIdleTasks, AllIdleLock,
                AllIdleCheck, Relock, Destroy, MainWake, Join, Environment, Tick, SpinElapses, IoCompletes,
                vars, queue_vars
  <2> QED
    BY <1>3, <2>1, <2>2, <2>3, <2>4 DEF Next, SchedulerStep, Terminated
<1>6. tstate[t] # "absent" /\ (~ Finish(s) => tstate[t] = "done")
  BY <1>1, <1>3, <1>4, TaskAssumption DEF TasksInv, AllOver
<1>7. ASSUME NEW th \in Thread, NEW u \in Task, NewTask(th, u), wtask' = wtask, ~ Finish(s)
      PROVE  wtask'[w] = t /\ tstate'[t] = "done"
  BY <1>4, <1>6, <1>7, TaskFacts DEF NewTask
<1>8. ~ Finish(s) => wtask'[w] = t /\ tstate'[t] = "done"
  <2>1. CASE Frozen
    BY <1>4, <1>6, <2>1 DEF Frozen
  <2>2. CASE MainAsync
    BY <1>7, <2>2, ThreadFacts, TaskAssumption DEF MainAsync, worker_vars
  <2>3. ASSUME NEW th \in Thread, Enque(th), ~ Finish(s) PROVE wtask'[w] = t /\ tstate'[t] = "done"
    BY <1>4, <1>6, <2>3 DEF Enque, worker_vars, task_vars
  <2>4. ASSUME NEW k \in Sch, Async(k), ~ Finish(s) PROVE wtask'[w] = t /\ tstate'[t] = "done"
    <3>1. k \in Thread /\ wtask' = wtask /\ \E u \in Task : NewTask(k, u)
      BY <2>4, ThreadFacts DEF Async, worker_vars
    <3> QED
      BY <1>7, <2>4, <3>1
  <2>5. ASSUME NEW k \in Sch, Finish(k), ~ Finish(s) PROVE wtask'[w] = t /\ tstate'[t] = "done"
    <3>1. wtask' = wtask /\ tstate' = [tstate EXCEPT ![Running(k)] = "done"]
      BY <2>5 DEF Finish, worker_vars
    <3> QED
      BY <1>4, <1>6, <2>5, <3>1, TaskFacts
  <2>6. ASSUME NEW k \in Sch, ParkIdle(k), ~ Finish(s) PROVE wtask'[w] = t /\ tstate'[t] = "done"
    <3>1. k # s
      <4>1. CASE k = s
        <5>1. pc[s] = "reset" /\ pc'[s] = "io"
          BY <2>6, <4>1, ControlTypes DEF ParkIdle, Goto
        <5> QED
          BY <5>1 DEF TaskOver, NotifyPc
      <4> QED
        BY <4>1
    <3>2. m_worker[k] \in WorkersOf(k)
      BY <2>6, RunningFacts DEF ParkIdle, OnTask
    <3>3. m_worker[k] # w
      BY <3>1, <3>2 DEF WorkersOf
    <3>4. wtask' = [wtask EXCEPT ![m_worker[k]] = NoTask] /\ tstate' = tstate
      BY <2>6 DEF ParkIdle, task_vars
    <3> QED
      BY <1>3, <1>4, <1>6, <2>6, <3>3, <3>4, TaskFacts
  <2>7. ASSUME NEW k \in Sch, NEW j \in Sch, GiveTask(k, j), pc[k] # "exited", idle[k] # <<>>, has_tasks(j),
               UNCHANGED <<hand, tstate>>, ~ Finish(s)
        PROVE  wtask'[w] = t /\ tstate'[t] = "done"
    <3>1. PICK v \in Worker : TaskGoes(j, v)
      BY <2>7, GiveFacts
    <3>2. v # w /\ wtask' = [wtask EXCEPT ![v] = Head(m_tasks[j])] /\ tstate' = tstate
      BY <1>3, <3>1, TaskFacts DEF TaskGoes
    <3> QED
      BY <1>3, <1>4, <1>6, <2>7, <3>2, TaskFacts
  <2>8. ASSUME NEW k \in Sch, ScheduleIdle(k), runnable[k] = <<>>, idle[k] # <<>>, has_tasks(k), ~ Finish(s)
        PROVE  wtask'[w] = t /\ tstate'[t] = "done"
    BY <2>7, <2>8 DEF ScheduleIdle, task_vars
  <2>9. ASSUME NEW k \in Sch, Rob(k), has_tasks(it[k]), ~ Finish(s)
        PROVE  wtask'[w] = t /\ tstate'[t] = "done"
    <3>1. it[k] \in Sch /\ idle[k] # <<>>
      BY <2>9 DEF Rob, TInv, ThreadInv
    <3>2. PICK j \in Sch : j = it[k]
      BY <3>1
    <3> QED
      BY <2>7, <2>9, <3>1, <3>2 DEF Rob, task_vars
  <2> QED
    BY <2>1, <2>2, <2>3, <2>4, <2>5, <2>6, <2>8, <2>9, NextMovesTask
<1>9. ASSUME Finish(s) PROVE wtask'[w] = t /\ tstate'[t] = "done"
  BY <1>4, <1>9, TaskFacts DEF Finish, worker_vars
<1> QED
  BY <1>5, <1>8, <1>9 DEF Running

\* A queue that lists no member of a set: the set is empty.
LEMMA EnumeratesNone ==
    ASSUME NEW S, Enumerates(<<>>, S)
    PROVE  S = {}
  BY DEF Enumerates

\* Once Main has returned from wait_exit it does not go back.
LEMMA PastStays ==
    ASSUME TInv, [Next]_vars, PastWaitExit
    PROVE  PastWaitExit'
<1>1. ASSUME UNCHANGED <<pc[Main], ret[Main]>> PROVE PastWaitExit'
  BY <1>1 DEF PastWaitExit
<1>2. ASSUME MainStep PROVE PastWaitExit'
  <2>1. pc[Main] \in {"destroy", "join", "end"} \cup NotifyPc
    BY DEF PastWaitExit
  <2>2. Destroy \/ Join
    BY <1>2, <2>1 DEF MainStep, MainThread, MainAsync, CheckIdle, AllIdleCount, AllIdleTasks,
                      AllIdleLock, AllIdleCheck, Relock, MainWake, NotifyPc
  <2>3. pc'[Main] \in {"end", "destroy"} \/ (pc'[Main] = "notify" /\ ret'[Main] = "join")
    BY <2>2, ControlTypes DEF Destroy, Join, Goto
  <2> QED
    BY <2>3 DEF PastWaitExit, NotifyPc
<1>3. ASSUME NotifyStep(Main) PROVE PastWaitExit'
  BY <1>3, ControlTypes DEF NotifyStep, MinLoad, Enque, NotifyLock, NotifyFire, PastWaitExit, NotifyPc, Goto
<1>4. \/ UNCHANGED <<pc[Main], ret[Main]>> \/ MainStep \/ NotifyStep(Main)
  BY ControlMoves, ControlTypes
<1> QED
  BY <1>1, <1>2, <1>3, <1>4

\* It returns when all_idle says so.
LEMMA PastStarts ==
    ASSUME TInv, [Next]_vars, ~ PastWaitExit, PastWaitExit'
    PROVE  AllIdleCheck /\ AllIdle
<1>1. ASSUME UNCHANGED <<pc[Main], ret[Main]>> PROVE FALSE
  BY <1>1 DEF PastWaitExit
<1>2. ASSUME MainStep PROVE AllIdleCheck /\ AllIdle
  <2>1. pc[Main] \notin {"destroy", "join", "end"}
    BY DEF PastWaitExit
  <2>2. CASE MainAsync
    BY <2>2, ControlTypes DEF MainAsync, NewTask, Goto, PastWaitExit, NotifyPc
  <2>3. CASE CheckIdle \/ AllIdleCount \/ AllIdleTasks \/ AllIdleLock \/ Relock \/ MainWake
    BY <2>3, ControlTypes DEF CheckIdle, AllIdleCount, AllIdleTasks, AllIdleLock, Relock, MainWake, Goto,
                              PastWaitExit, NotifyPc
  <2>4. CASE AllIdleCheck
    BY <2>4, ControlTypes DEF AllIdleCheck, Goto, PastWaitExit, NotifyPc
  <2> QED
    BY <1>2, <2>1, <2>2, <2>3, <2>4 DEF MainStep, MainThread, Destroy, Join
<1>3. ASSUME NotifyStep(Main) PROVE FALSE
  <2>1. /\ pc[Main] \in NotifyPc => ret[Main] \in {"pred", "join"}
        /\ pc[Main] \in AsyncPc => ret[Main] = "pred"
    BY DEF TInv, ThreadInv
  <2> QED
    BY <1>3, <2>1, ControlTypes DEF NotifyStep, MinLoad, Enque, NotifyLock, NotifyFire, PastWaitExit, NotifyPc,
                                    AsyncPc, Goto
<1>4. \/ UNCHANGED <<pc[Main], ret[Main]>> \/ MainStep \/ NotifyStep(Main)
  BY ControlMoves, ControlTypes
<1> QED
  BY <1>1, <1>2, <1>3, <1>4

\* all_idle is not fooled: with every m_mtx held, schedulers in idle_sleep and
\* empty queues, nobody has a task.
LEMMA AllIdleMeansDone ==
    ASSUME SInv, AllPlaced, AllBusy, TasksInv, AllIdleCheck, AllIdle
    PROVE  /\ \A t \in Task : tstate[t] # "init"
           /\ \A s \in Sch : ~ has_work(s) /\ pc[s] = "idle_sleep"
<1>1. TInv /\ pc[Main] = "check"
  BY DEF SInv, AllIdleCheck
<1>2. \A s \in Sch : pc[s] = "idle_sleep"
  <2> SUFFICES ASSUME NEW s \in Sch PROVE pc[s] = "idle_sleep"
    OBVIOUS
  <2>1. m_mtx[s] = Main /\ Main # s
    BY <1>1, ThreadFacts DEF SInv, LockInv, MainLocks
  <2>2. pc[s] \notin LockedPc
    BY <2>1 DEF SInv, LockInv
  <2>3. pc[s] \in AsleepPc
    BY DEF AllIdle, SInv, AsleepInv
  <2> QED
    BY <2>2, <2>3 DEF AsleepPc, LockedPc
<1>3. \A s \in Sch : ~ has_work(s)
  <2> SUFFICES ASSUME NEW s \in Sch PROVE ~ has_work(s)
    OBVIOUS
  <2>1. runnable[s] = <<>> /\ waiting[s] = <<>> /\ pending_io[s] = <<>> /\ yielded[s] = NoWorker
    BY <1>2 DEF AllPlaced, WorkersInv, QuietPc, AsleepPc, PassPc
  <2> QED
    BY <2>1 DEF has_work, AllIdle
<1>4. \A th \in Thread : hand[th] = NoTask
  <2>1. \A th \in Thread : th = Main \/ th \in Sch
    BY DEF Thread, Sch, Main
  <2> QED
    BY <1>1, <1>2, <2>1, TaskFacts DEF AsyncPc
<1>5. \A s \in Sch : Queued(s) = {}
  BY DEF AllIdle, has_tasks, Queued
<1>6. \A w \in Worker : wtask[w] = NoTask
  <2> SUFFICES ASSUME NEW w \in Worker PROVE wtask[w] = NoTask
    OBVIOUS
  <2>1. PICK s \in Sch : w \in WorkersOf(s)
    BY DEF Worker, WorkersOf
  <2>2. WorkersInv(s) /\ pc[s] = "idle_sleep"
    BY <1>2 DEF AllPlaced
  <2>3. runnable[s] = <<>> /\ waiting[s] = <<>> /\ pending_io[s] = <<>> /\ yielded[s] = NoWorker /\ ~ OnTask(s)
    BY <2>2 DEF WorkersInv, QuietPc, AsleepPc, PassPc, OnTask, AsyncPc, NotifyPc
  <2>4. /\ Enumerates(<<>>, InWorkerState(s, "runnable"))
        /\ Enumerates(<<>>, InWorkerState(s, "waiting"))
        /\ Enumerates(<<>>, InWorkerState(s, "pending_io"))
        /\ InWorkerState(s, "yielded") = {NoWorker} \ {NoWorker}
        /\ InWorkerState(s, "running") = {}
        /\ wstate[w] \notin {"initializing", "exiting"}
    BY <2>1, <2>2, <2>3 DEF WorkersInv
  <2>5. /\ InWorkerState(s, "runnable") = {} /\ InWorkerState(s, "waiting") = {}
        /\ InWorkerState(s, "pending_io") = {} /\ InWorkerState(s, "yielded") = {}
    BY <2>4, EnumeratesNone
  <2>6. wstate[w] \notin {"runnable", "waiting", "pending_io", "yielded", "running", "initializing", "exiting"}
    BY <2>1, <2>4, <2>5 DEF InWorkerState
  <2>7. wstate[w] = "idle"
    BY <1>1, <2>6, PlaceFacts DEF WorkerState
  <2> QED
    BY <2>1, <2>2, <2>7 DEF AllBusy, BusyWorkers
<1>7. \A t \in Task : ~ SomePlace(t)
  BY <1>4, <1>5, <1>6, TaskAssumption DEF SomePlace
<1> QED
  BY <1>2, <1>3, <1>7 DEF TasksInv

\* ~Scheduler is the one place where m_exit changes.
LEMMA OnlyDestroySetsExit == [Next]_vars /\ ~ Destroy => m_exit' = m_exit
<1> SUFFICES ASSUME [Next]_vars, ~ Destroy PROVE m_exit' = m_exit
  OBVIOUS
<1>1. ASSUME NEW s \in Sch, UserStep(s) PROVE m_exit' = m_exit
  BY <1>1 DEF UserStep, Async, Yield, StartIo, SleepUntil, WaitTask, WaitCondOrSleep, Recheck, Finish,
              NotifyWaiter, ParkIdle, shared_vars
<1>2. ASSUME NEW s \in Sch, ScheduleStep(s) PROVE m_exit' = m_exit
  BY <1>2 DEF ScheduleStep, ScheduleIo, ScheduleWaiting, ScheduleIdle, ScheduleYielded, StealWork, Rob,
              PrepareExec, shared_vars
<1>3. ASSUME NEW s \in Sch, SleepStep(s) PROVE m_exit' = m_exit
  BY <1>3 DEF SleepStep, AwakeStep, SpinOrPoll, SleepLock, EnterWait, SignalIdle, SetCheckIdle,
              NotifyMain, EnterSleep, Wake, WakeInVain, SignalRunning, ShouldExit, shared_vars
<1>4. ASSUME NEW th \in Thread, NotifyStep(th) PROVE m_exit' = m_exit
  BY <1>4 DEF NotifyStep, MinLoad, Enque, NotifyLock, NotifyFire, shared_vars
<1>5. ASSUME MainStep \/ Environment \/ UNCHANGED vars PROVE m_exit' = m_exit
  BY <1>5 DEF MainStep, MainThread, MainAsync, CheckIdle, AllIdleCount, AllIdleTasks, AllIdleLock,
              AllIdleCheck, Relock, MainWake, Join, Environment, Tick, SpinElapses, IoCompletes,
              vars, shared_vars
<1> QED
  BY <1>1, <1>2, <1>3, <1>4, <1>5 DEF Next, SchedulerStep, Terminated

\* After wait_exit the schedulers only wake up, find m_exit set and exit.
LEMMA PastKeeps ==
    ASSUME TInv, ExitInv, PastWaitExit, [Next]_vars
    PROVE  /\ UNCHANGED <<tstate, runnable, waiting, pending_io, yielded, m_tasks>>
           /\ \A s \in Sch : m_exit[s] => m_exit'[s]
           /\ \A s \in Sch : \/ pc'[s] = pc[s]
                             \/ pc'[s] = "woken" /\ m_exit[s]
                             \/ pc'[s] = "exit_check" /\ pc[s] = "woken"
                             \/ pc'[s] = "exited"
<1>1. /\ pc[Main] \in {"destroy", "join", "end"} \cup NotifyPc
      /\ \A s \in Sch : pc[s] \in {"idle_sleep", "woken", "exit_check", "exited"}
      /\ \A s \in Sch : pc[s] = "exit_check" => m_exit[s]
      /\ \A s \in Sch : ~ has_tasks(s)
  BY DEF PastWaitExit, ExitInv, has_work
<1> USE DEF task_vars, queue_vars, shared_vars, Goto, thread_vars
<1>2. ASSUME NEW s \in Sch, SchedulerStep(s)
      PROVE  /\ UNCHANGED <<tstate, runnable, waiting, pending_io, yielded, m_tasks, m_exit>>
             /\ \/ pc'[s] = "woken" /\ m_exit[s]
                \/ pc'[s] = "exit_check" /\ pc[s] = "woken"
                \/ pc'[s] = "exited"
                \/ pc'[s] = pc[s]
  <2>1. Wake(s) \/ WakeInVain(s) \/ SignalRunning(s) \/ ShouldExit(s)
    <3>1. ~ UserStep(s)
      BY <1>1 DEF UserStep, Async, Yield, StartIo, SleepUntil, WaitTask, WaitCondOrSleep, Recheck, Finish,
                  NotifyWaiter, ParkIdle
    <3>2. ~ ScheduleStep(s)
      BY <1>1 DEF ScheduleStep, ScheduleIo, ScheduleWaiting, ScheduleIdle, ScheduleYielded, StealWork, Rob,
                  PrepareExec
    <3> QED
      BY <1>1, <1>2, <3>1, <3>2 DEF SchedulerStep, SleepStep, AwakeStep, SpinOrPoll, SleepLock, EnterWait,
                                    SignalIdle, SetCheckIdle, NotifyMain, EnterSleep
  <2>2. CASE Wake(s)
    BY <1>1, <2>2, ControlTypes DEF Wake, WaitOver
  <2>3. CASE WakeInVain(s)
    BY <2>3 DEF WakeInVain
  <2>4. CASE SignalRunning(s)
    BY <2>4, ControlTypes DEF SignalRunning
  <2>5. CASE ShouldExit(s)
    BY <1>1, <2>5, ControlTypes DEF ShouldExit
  <2> QED
    BY <2>1, <2>2, <2>3, <2>4, <2>5
<1>3. ASSUME NEW th \in Thread, NotifyStep(th)
      PROVE  UNCHANGED <<tstate, runnable, waiting, pending_io, yielded, m_tasks, m_exit>> /\ th = Main
  <2>1. th = Main \/ th \in Sch
    BY DEF Thread, Sch, Main
  <2>2. pc[th] # "min_load" /\ pc[th] # "enque" /\ (th \in Sch => pc[th] \notin NotifyPc)
    BY <1>1, <2>1 DEF NotifyPc
  <2> QED
    BY <1>3, <2>1, <2>2 DEF NotifyStep, MinLoad, Enque, NotifyLock, NotifyFire, NotifyPc
<1>4. ASSUME MainStep
      PROVE  /\ UNCHANGED <<tstate, runnable, waiting, pending_io, yielded, m_tasks>>
             /\ \A s \in Sch : m_exit[s] => m_exit'[s]
  <2>1. Destroy \/ Join
    BY <1>1, <1>4 DEF MainStep, MainThread, MainAsync, CheckIdle, AllIdleCount, AllIdleTasks,
                      AllIdleLock, AllIdleCheck, Relock, MainWake, NotifyPc
  <2>2. m_exit \in [Sch -> BOOLEAN]
    BY DEF TInv, TypeOK, SharedTypes
  <2> QED
    BY <2>1, <2>2 DEF Destroy, Join
<1>5. ASSUME Environment \/ UNCHANGED vars
      PROVE  UNCHANGED <<tstate, runnable, waiting, pending_io, yielded, m_tasks, m_exit>>
  BY <1>5 DEF Environment, Tick, SpinElapses, IoCompletes, vars
<1> HIDE DEF task_vars, queue_vars, shared_vars, Goto, thread_vars
<1>6. ASSUME NEW s \in Sch, SchedulerStep(s), NEW k \in Sch, k # s PROVE pc'[k] = pc[k]
  BY <1>6, ThreadsAlone, ControlTypes DEF Alone
<1>7. ASSUME MainStep \/ NotifyStep(Main), NEW k \in Sch PROVE pc'[k] = pc[k]
  BY <1>7, ThreadsAlone, ControlTypes DEF Alone
<1>8. ASSUME Environment \/ UNCHANGED vars PROVE pc' = pc
  BY <1>8, ThreadsAlone
<1>9. CASE \E s \in Sch : SchedulerStep(s)
  BY <1>2, <1>6, <1>9
<1>10. CASE \E th \in Thread : NotifyStep(th)
  BY <1>3, <1>7, <1>10
<1>11. CASE MainStep
  BY <1>4, <1>7, <1>11
<1>12. CASE Environment \/ UNCHANGED vars
  BY <1>5, <1>8, <1>12
<1> QED
  BY <1>9, <1>10, <1>11, <1>12 DEF Next, Terminated

\* init_ums leaves wait_exit only when there is nothing left to do.
LEMMA ExitStep ==
    ASSUME SInv, AllPlaced, AllBusy, TasksInv, ExitInv, [Next]_vars
    PROVE  ExitInv'
<1>0. TInv
  BY DEF SInv
<1>1. CASE PastWaitExit
  <2>1. PastWaitExit'
    BY <1>0, <1>1, PastStays
  <2>2. /\ UNCHANGED <<tstate, runnable, waiting, pending_io, yielded, m_tasks>>
        /\ \A s \in Sch : m_exit[s] => m_exit'[s]
        /\ \A s \in Sch : \/ pc'[s] = pc[s]
                          \/ pc'[s] = "woken" /\ m_exit[s]
                          \/ pc'[s] = "exit_check" /\ pc[s] = "woken"
                          \/ pc'[s] = "exited"
    BY <1>0, <1>1, PastKeeps
  <2> QED
    BY <1>1, <2>1, <2>2 DEF ExitInv, has_work, has_tasks
<1>2. CASE ~ PastWaitExit /\ PastWaitExit'
  <2>1. AllIdleCheck /\ AllIdle
    BY <1>0, <1>2, PastStarts
  <2>2. /\ \A t \in Task : tstate[t] # "init"
        /\ \A s \in Sch : ~ has_work(s) /\ pc[s] = "idle_sleep"
    BY <2>1, AllIdleMeansDone
  <2>3. /\ UNCHANGED <<tstate, runnable, waiting, pending_io, yielded, m_tasks>>
        /\ \A s \in Sch : pc'[s] = pc[s]
    BY <1>0, <2>1, ControlTypes DEF AllIdleCheck, task_vars, queue_vars, Goto
  <2> QED
    BY <1>2, <2>2, <2>3 DEF ExitInv, has_work, has_tasks
<1>3. CASE ~ PastWaitExit /\ ~ PastWaitExit'
  <2>1. ~ Destroy
    BY <1>3 DEF Destroy, PastWaitExit
  <2>2. m_exit' = m_exit
    BY <1>0, <2>1, OnlyDestroySetsExit
  <2> QED
    BY <1>3, <2>2 DEF ExitInv
<1>4. CASE PastWaitExit /\ ~ PastWaitExit'
  BY <1>0, <1>4, PastStays
<1> QED
  BY <1>1, <1>2, <1>3, <1>4

\* What a scheduler that does not run sees of the steps of the others.
Unseen(s) ==
    /\ UNCHANGED <<pc[s], idle[s], waiting[s], signaled[s], m_running[s]>>
    /\ has_tasks(s)' => has_tasks(s)

\* A scheduler sees of the other threads at most that a task left its queue,
\* unless they enqueue or notify.
LEMMA OthersUnseen ==
    ASSUME TInv, NEW s \in Sch
    PROVE  /\ \A k \in Sch : k # s /\ SchedulerStep(k) => Unseen(s)
           /\ MainStep \/ (\E w \in Worker : Tick(w) \/ IoCompletes(w)) \/ UNCHANGED vars => Unseen(s)
           /\ \A k \in Sch : SpinElapses(k) => Unseen(s)
<1>a. /\ s \in Thread /\ Main # s
      /\ pc \in [Thread -> Pc] /\ idle \in [Sch -> Seq(Worker)] /\ waiting \in [Sch -> Seq(Worker)]
      /\ signaled \in [Thread -> BOOLEAN] /\ m_running \in [Sch -> BOOLEAN] /\ m_tasks \in [Sch -> Seq(Task)]
      /\ Sch \subseteq Thread /\ Main \in Thread
  BY ControlTypes DEF TInv, TypeOK, ThreadTypes, QueueTypes, SharedTypes
<1> USE DEF Unseen, has_tasks, queue_vars, shared_vars, Goto, thread_vars
<1>1. ASSUME NEW k \in Sch, k # s, UserStep(k) PROVE Unseen(s)
  <2>1. CASE Async(k)
    BY <1>a, <1>1, <2>1 DEF Async, NewTask
  <2>2. CASE Yield(k) \/ StartIo(k) \/ SleepUntil(k) \/ Finish(k) \/ ParkIdle(k)
    BY <1>a, <1>1, <2>2 DEF Yield, StartIo, SleepUntil, Finish, ParkIdle
  <2>3. CASE WaitTask(k) \/ Recheck(k) \/ WaitCondOrSleep(k)
    BY <1>a, <1>1, <2>3 DEF WaitTask, Recheck, WaitCondOrSleep, AddWaiter
  <2>4. CASE NotifyWaiter(k)
    BY <1>a, <1>1, <2>4 DEF NotifyWaiter
  <2> QED
    BY <1>1, <2>1, <2>2, <2>3, <2>4 DEF UserStep
<1>2. ASSUME NEW k \in Sch, k # s, ScheduleStep(k) PROVE Unseen(s)
  <2>1. CASE ScheduleIo(k) \/ ScheduleWaiting(k) \/ ScheduleYielded(k) \/ StealWork(k) \/ PrepareExec(k)
    BY <1>a, <1>2, <2>1 DEF ScheduleIo, ScheduleWaiting, ScheduleYielded, StealWork, PrepareExec
  <2>2. CASE ScheduleIdle(k)
    BY <1>a, <1>2, <2>2 DEF ScheduleIdle, GiveTask
  <2>3. CASE Rob(k)
    BY <1>a, <1>2, <2>3 DEF Rob, GiveTask
  <2> QED
    BY <1>2, <2>1, <2>2, <2>3 DEF ScheduleStep
<1>3. ASSUME NEW k \in Sch, k # s, SleepStep(k) PROVE Unseen(s)
  BY <1>a, <1>3 DEF SleepStep, AwakeStep, SpinOrPoll, SleepLock, EnterWait, SignalIdle, SetCheckIdle,
                    NotifyMain, EnterSleep, Wake, WakeInVain, SignalRunning, ShouldExit
<1>4. ASSUME MainStep PROVE Unseen(s)
  BY <1>a, <1>4 DEF MainStep, MainThread, MainAsync, NewTask, CheckIdle, AllIdleCount, AllIdleTasks,
                    AllIdleLock, AllIdleCheck, Relock, Destroy, MainWake, Join
<1>5. ASSUME \E w \in Worker : Tick(w) \/ IoCompletes(w) PROVE Unseen(s)
  BY <1>5 DEF Tick, IoCompletes
<1>6. ASSUME NEW k \in Sch, SpinElapses(k) PROVE Unseen(s)
  BY <1>6 DEF SpinElapses
<1>7. ASSUME UNCHANGED vars PROVE Unseen(s)
  BY <1>7 DEF vars
<1> QED
  BY <1>1, <1>2, <1>3, <1>4, <1>5, <1>6, <1>7 DEF SchedulerStep

\* A condition is set by notify_waiter only, which then notifies the scheduler.
LEMMA ConditionsSet ==
    ASSUME TInv, [Next]_vars, NEW w \in Worker, cond'[w], ~ cond[w]
    PROVE  \E k \in Sch : NotifyWaiter(k) /\ target'[k] = Home(w) /\ pc'[k] = "notify"
<1>a. /\ cond \in [Worker -> BOOLEAN]
      /\ pc \in [Thread -> Pc] /\ target \in [Thread -> Sch \cup {Free}] /\ Sch \subseteq Thread
      /\ m_worker \in [Sch -> Worker]
  BY ControlTypes, PlaceFacts DEF TInv, TypeOK, WorkerTypes
<1>1. ASSUME NEW k \in Sch, UserStep(k) PROVE NotifyWaiter(k)
  BY <1>a, <1>1 DEF UserStep, Async, Yield, StartIo, SleepUntil, WaitTask, WaitCondOrSleep, Recheck, Finish,
                  ParkIdle, AddWaiter, worker_vars
<1>2. ASSUME NEW k \in Sch, ScheduleStep(k) PROVE FALSE
  BY <1>2 DEF ScheduleStep, ScheduleIo, ScheduleWaiting, ScheduleIdle, ScheduleYielded, StealWork, Rob,
              PrepareExec, worker_vars
<1>3. ASSUME NEW k \in Sch, SleepStep(k) PROVE FALSE
  BY <1>3 DEF SleepStep, AwakeStep, SpinOrPoll, SleepLock, EnterWait, SignalIdle, SetCheckIdle,
              NotifyMain, EnterSleep, Wake, WakeInVain, SignalRunning, ShouldExit, worker_vars
<1>4. ASSUME NEW th \in Thread, NotifyStep(th) PROVE FALSE
  BY <1>4 DEF NotifyStep, MinLoad, Enque, NotifyLock, NotifyFire, worker_vars
<1>5. ASSUME MainStep \/ Environment \/ UNCHANGED vars PROVE FALSE
  BY <1>5 DEF MainStep, MainThread, MainAsync, CheckIdle, AllIdleCount, AllIdleTasks, AllIdleLock,
              AllIdleCheck, Relock, Destroy, MainWake, Join, Environment, Tick, SpinElapses, IoCompletes,
              vars, worker_vars
<1>6. PICK k \in Sch : NotifyWaiter(k)
  BY <1>1, <1>2, <1>3, <1>4, <1>5 DEF Next, SchedulerStep, Terminated
<1>7. target'[k] = Home(w) /\ pc'[k] = "notify"
  BY <1>a, <1>6 DEF NotifyWaiter, Goto
<1> QED
  BY <1>6, <1>7

\* An event reaches a scheduler together with a thread that will notify it.
LEMMA EventsNotify ==
    ASSUME TInv, AllPlaced, [Next]_vars, NEW s \in Sch,
           pc[s] \in {"idle_sleep", "idle_wait", "enter_wait"}
    PROVE  LET Told == \E th \in Thread : target'[th] = s /\ pc'[th] = "notify" IN
           /\ Called(s)' => Called(s) \/ Told
           /\ Eventful(s)' => Eventful(s) \/ Told
<1> DEFINE Told == \E th \in Thread : target'[th] = s /\ pc'[th] = "notify"
<1>1. ASSUME has_tasks(s)', ~ has_tasks(s) PROVE Told
  <2>1. PICK th \in Thread : Enque(th)
    <3>1. ASSUME NEW th \in Thread, NotifyStep(th) PROVE Enque(th)
      BY <1>1, <3>1 DEF NotifyStep, MinLoad, NotifyLock, NotifyFire, shared_vars, has_tasks
    <3>2. ASSUME SchedulerStep(s) PROVE FALSE
      <4>1. SleepStep(s)
        BY <3>2 DEF SchedulerStep, UserStep, ScheduleStep, Async, Yield, StartIo, SleepUntil, WaitTask,
                    WaitCondOrSleep, Recheck, Finish, NotifyWaiter, ParkIdle, ScheduleIo, ScheduleWaiting,
                    ScheduleIdle, ScheduleYielded, StealWork, Rob, PrepareExec
      <4> QED
        BY <1>1, <4>1 DEF has_tasks, SleepStep, AwakeStep, SpinOrPoll, SleepLock, EnterWait, SignalIdle,
             SetCheckIdle, NotifyMain, EnterSleep, Wake, WakeInVain, SignalRunning, ShouldExit, shared_vars
    <3> QED
      BY <1>1, <3>1, <3>2, OthersUnseen DEF Unseen, Next, Environment, Terminated
  <2>2. m_tasks'[s] # m_tasks[s]
    BY <1>1 DEF has_tasks
  <2>3. target[th] = s /\ target' = target /\ pc'[th] = "notify"
    BY <2>1, <2>2, TaskFacts, ControlTypes DEF Enque, Goto
  <2> QED
    BY <2>3
<1>2. UNCHANGED <<idle[s], waiting[s]>>
  <2>1. ASSUME SchedulerStep(s) PROVE UNCHANGED <<idle[s], waiting[s]>>
    <3>1. SleepStep(s)
      BY <2>1 DEF SchedulerStep, UserStep, ScheduleStep, Async, Yield, StartIo, SleepUntil, WaitTask,
                    WaitCondOrSleep, Recheck, Finish, NotifyWaiter, ParkIdle, ScheduleIo, ScheduleWaiting,
                    ScheduleIdle, ScheduleYielded, StealWork, Rob, PrepareExec
    <3> QED
      BY <3>1 DEF SleepStep, AwakeStep, SpinOrPoll, SleepLock, EnterWait, SignalIdle, SetCheckIdle,
                  NotifyMain, EnterSleep, Wake, WakeInVain, SignalRunning, ShouldExit, queue_vars
  <2>2. ASSUME NEW th \in Thread, NotifyStep(th) PROVE UNCHANGED <<idle[s], waiting[s]>>
    BY <2>2 DEF NotifyStep, MinLoad, Enque, NotifyLock, NotifyFire, queue_vars
  <2> QED
    BY <2>1, <2>2, OthersUnseen DEF Unseen, Next, Environment, Terminated
<1>3. ASSUME waiters_cond(s)', ~ waiters_cond(s) PROVE Told
  <2>1. PICK i \in 1..Len(waiting[s]) : cond'[waiting[s][i]] /\ ~ cond[waiting[s][i]]
    BY <1>2, <1>3 DEF waiters_cond
  <2>2. PICK w \in WorkersOf(s) : w = waiting[s][i]
    BY <2>1, QueueFacts DEF InWorkerState
  <2>3. w \in Worker /\ Home(w) = s
    BY DEF Worker, WorkersOf, Home
  <2>4. PICK k \in Sch : target'[k] = Home(w) /\ pc'[k] = "notify"
    BY <2>1, <2>2, <2>3, ConditionsSet
  <2> QED
    BY <2>3, <2>4, ControlTypes
<1>4. Eventful(s)' => Eventful(s) \/ Told
  BY <1>1, <1>2, <1>3 DEF Eventful
<1>5. ASSUME m_exit'[s], ~ m_exit[s] PROVE Told
  <2>1. Destroy
    BY <1>5, OnlyDestroySetsExit
  <2>2. PICK k \in Sch : m_exit' = [m_exit EXCEPT ![k] = TRUE] /\ target' = [target EXCEPT ![Main] = k]
    BY <2>1 DEF Destroy
  <2>3. k = s
    BY <1>5, <2>2 DEF TInv, TypeOK, SharedTypes
  <2>4. Main \in Thread /\ target'[Main] = s /\ pc'[Main] = "notify"
    BY <2>1, <2>2, <2>3, ControlTypes DEF Destroy, Goto
  <2> QED
    BY <2>4
<1>6. Called(s)' => Called(s) \/ Told
  BY <1>1, <1>5 DEF Called
<1> QED
  BY <1>4, <1>6

\* A thread on its way through notify goes on only by its own steps.
LEMMA NotifiersStay ==
    ASSUME TInv, (\E k \in Sch : SchedulerStep(k)) \/ MainStep \/ Environment \/ UNCHANGED vars,
           NEW th \in Thread, pc[th] \in NotifyPc
    PROVE  UNCHANGED <<pc[th], target[th]>>
<1>1. ASSUME NEW k \in Sch, SchedulerStep(k) PROVE pc[k] \notin NotifyPc
  BY <1>1 DEF SchedulerStep, UserStep, ScheduleStep, Async, Yield, StartIo, SleepUntil, WaitTask,
              WaitCondOrSleep, Recheck, Finish, NotifyWaiter, ParkIdle, ScheduleIo, ScheduleWaiting,
              ScheduleIdle, ScheduleYielded, StealWork, Rob, PrepareExec, SleepStep, AwakeStep, SpinOrPoll,
              SleepLock, EnterWait, SignalIdle, SetCheckIdle, NotifyMain, EnterSleep, Wake, WakeInVain,
              WaitOver, SignalRunning, ShouldExit, NotifyPc
<1>2. ASSUME MainStep PROVE pc[Main] \notin NotifyPc
  BY <1>2 DEF MainStep, MainThread, MainAsync, CheckIdle, AllIdleCount, AllIdleTasks, AllIdleLock,
              AllIdleCheck, Relock, Destroy, MainWake, Join, NotifyPc
<1>3. ASSUME NEW k \in Sch, SchedulerStep(k) PROVE UNCHANGED <<pc[th], target[th]>>
  BY <1>1, <1>3, ThreadsAlone, ControlTypes DEF Alone
<1>4. ASSUME MainStep PROVE UNCHANGED <<pc[th], target[th]>>
  BY <1>2, <1>4, ThreadsAlone, ControlTypes DEF Alone
<1>5. ASSUME Environment \/ UNCHANGED vars PROVE UNCHANGED <<pc[th], target[th]>>
  BY <1>5, ThreadsAlone
<1> QED
  BY <1>3, <1>4, <1>5

\* A blocked scheduler to be notified, or that has been.
Woken1(s) == signaled[s] \/ WillNotify(s)
Woken2(s) == (signaled[s] /\ m_running[s]) \/ WillNotify(s)
Promised(s) == \E th \in Thread : target[th] = s /\ pc[th] = "notify"

\* What the steps of notify do to it.
LEMMA NotifyKeepsPromise ==
    ASSUME SInv, NEW s \in Sch, NEW th \in Thread, NotifyStep(th), pc[s] \in {"idle_sleep", "idle_wait", "enter_wait"}
    PROVE  /\ pc'[s] = pc[s]
           /\ pc[s] = "idle_sleep" /\ Woken1(s) => Woken1(s)'
           /\ pc[s] = "idle_wait" /\ Woken2(s) => Woken2(s)'
           /\ pc[s] = "enter_wait" /\ Promised(s) => Promised(s)'
<1>a. /\ pc \in [Thread -> Pc] /\ target \in [Thread -> Sch \cup {Free}] /\ Sch \subseteq Thread
      /\ signaled \in [Thread -> BOOLEAN] /\ m_running \in [Sch -> BOOLEAN]
      /\ pc[th] \in NotifyPc \cup AsyncPc => target[th] \in Sch
      /\ pc[s] = "enter_wait" => m_mtx[s] # Free
  <2>1. TInv
    BY DEF SInv
  <2>2. pc[s] = "enter_wait" => m_mtx[s] # Free
    BY DEF SInv, LockInv, LockedPc, Free, Sch
  <2> QED
    BY <2>1, <2>2, ControlTypes DEF TInv, TypeOK, SharedTypes, ThreadInv
<1>b. s # th /\ s \in Thread /\ pc'[s] = pc[s]
  BY <1>a DEF NotifyStep, MinLoad, Enque, NotifyLock, NotifyFire, Goto
<1> USE DEF Woken1, Woken2, Promised, WillNotify
<1>1. CASE MinLoad(th) \/ Enque(th)
  <2>1. \A x \in Thread : pc[x] \in {"notify", "fire"} => pc'[x] = pc[x] /\ target'[x] = target[x]
    BY <1>a, <1>1 DEF MinLoad, Enque, Goto
  <2>2. UNCHANGED <<signaled, m_running>>
    BY <1>1 DEF MinLoad, Enque, shared_vars
  <2> QED
    BY <1>b, <2>1, <2>2
<1>2. CASE NotifyLock(th) /\ target[th] = s
  <2>1. pc'[th] = "fire" /\ target'[th] = s /\ m_running'[s] = TRUE /\ pc[s] # "enter_wait"
    BY <1>a, <1>2 DEF NotifyLock, Goto
  <2> QED
    BY <1>b, <2>1
<1>3. CASE NotifyLock(th) /\ target[th] # s
  <2>1. \A x \in Thread : target[x] = s => pc'[x] = pc[x]
    BY <1>a, <1>3 DEF NotifyLock, Goto
  <2>2. target' = target /\ signaled' = signaled /\ m_running'[s] = m_running[s]
    BY <1>a, <1>3 DEF NotifyLock
  <2> QED
    BY <1>b, <2>1, <2>2
<1>4. CASE NotifyFire(th) /\ target[th] = s
  <2>1. pc[th] = "fire" /\ \A x \in Thread : x # th => pc'[x] = pc[x] /\ target'[x] = target[x]
    BY <1>a, <1>4 DEF NotifyFire, Goto
  <2>2. /\ m_running' = m_running
        /\ pc[s] \in {"idle_sleep", "idle_wait"} => signaled'[s] = TRUE
    BY <1>a, <1>4, <1>b DEF NotifyFire
  <2> QED
    BY <1>b, <2>1, <2>2
<1>5. CASE NotifyFire(th) /\ target[th] # s
  <2>1. \A x \in Thread : target[x] = s => pc'[x] = pc[x] /\ target'[x] = target[x]
    BY <1>a, <1>5 DEF NotifyFire, Goto
  <2>2. signaled'[s] = signaled[s] /\ m_running' = m_running
    BY <1>a, <1>5, <1>b DEF NotifyFire
  <2> QED
    BY <1>b, <2>1, <2>2
<1> QED
  BY <1>1, <1>2, <1>3, <1>4, <1>5 DEF NotifyStep

\* The steps by which a scheduler blocks, or blocks again.
LEMMA BlockingSteps ==
    ASSUME TInv, NEW s \in Sch, SchedulerStep(s), pc'[s] \in {"idle_sleep", "idle_wait", "enter_wait"}
    PROVE  SleepLock(s) \/ EnterWait(s) \/ EnterSleep(s) \/ WakeInVain(s)
<1>1. s \in Thread /\ pc \in [Thread -> Pc]
  BY ControlTypes
<1> USE DEF Goto
<1>2. ~ UserStep(s)
  <2>1. ~ Async(s)
    BY <1>1 DEF Async, NewTask
  <2>2. ~ (Yield(s) \/ StartIo(s) \/ SleepUntil(s) \/ Finish(s) \/ ParkIdle(s))
    BY <1>1 DEF Yield, StartIo, SleepUntil, Finish, ParkIdle
  <2>3. ~ (WaitTask(s) \/ Recheck(s) \/ WaitCondOrSleep(s))
    BY <1>1 DEF WaitTask, Recheck, WaitCondOrSleep, AddWaiter, Resume
  <2>4. ~ NotifyWaiter(s)
    BY <1>1 DEF NotifyWaiter
  <2> QED
    BY <2>1, <2>2, <2>3, <2>4 DEF UserStep
<1>3. ~ ScheduleStep(s)
  BY <1>1 DEF ScheduleStep, ScheduleIo, ScheduleWaiting, ScheduleIdle, ScheduleYielded, StealWork, Rob,
              PrepareExec, Resume
<1>4. ~ (SpinOrPoll(s) \/ SignalIdle(s) \/ SetCheckIdle(s) \/ NotifyMain(s) \/ Wake(s) \/ SignalRunning(s)
         \/ ShouldExit(s))
  BY <1>1 DEF SpinOrPoll, SignalIdle, SetCheckIdle, NotifyMain, Wake, SignalRunning, ShouldExit
<1> QED
  BY <1>2, <1>3, <1>4 DEF SchedulerStep, SleepStep, AwakeStep

\* sleep never blocks past an event.
LEMMA WakeStep ==
    ASSUME SInv, AllPlaced, WakeInv, [Next]_vars
    PROVE  WakeInv'
<1>a. TInv
  BY DEF SInv
<1> DEFINE Old(s) == /\ pc[s] = "idle_sleep" /\ Called(s) => Woken1(s)
                     /\ pc[s] = "idle_wait" /\ Eventful(s) => Woken2(s)
                     /\ pc[s] = "enter_wait" /\ Eventful(s) => Promised(s)
<1>b. \A s \in Sch : Old(s)
  BY DEF WakeInv, NoLostWakeup, Called, Eventful, Woken1, Woken2, Promised
<1> SUFFICES ASSUME NEW s \in Sch PROVE Old(s)'
  BY DEF WakeInv, NoLostWakeup, Called, Eventful, Woken1, Woken2, Promised
<1>1. CASE pc'[s] \notin {"idle_sleep", "idle_wait", "enter_wait"}
  BY <1>1
<1>2. CASE pc'[s] \in {"idle_sleep", "idle_wait", "enter_wait"} /\ SchedulerStep(s)
  <2>0. \A th \in Thread : pc[th] \in NotifyPc => pc'[th] = pc[th] /\ target'[th] = target[th]
    BY <1>a, <1>2, NotifiersStay
  <2>t. s \in Thread /\ pc \in [Thread -> Pc] /\ signaled \in [Thread -> BOOLEAN] /\ m_running \in [Sch -> BOOLEAN]
    BY <1>a, ControlTypes DEF TInv, TypeOK, SharedTypes
  <2>1. CASE SleepLock(s)
    <3>1. UNCHANGED <<m_tasks, idle, waiting, cond>> /\ pc'[s] = "enter_wait" /\ ~ StayAwake(s)
      BY <1>2, <2>1, <2>t DEF SleepLock, Goto, queue_vars, worker_vars
    <3>2. ~ Eventful(s)'
      BY <3>1 DEF Eventful, StayAwake, has_tasks, waiters_cond
    <3> QED
      BY <3>1, <3>2
  <2>2. CASE EnterWait(s)
    <3>1. UNCHANGED <<m_tasks, idle, waiting, cond>> /\ pc[s] = "enter_wait" /\ pc'[s] = "idle_wait"
      BY <2>2, <2>t DEF EnterWait, Goto, queue_vars, worker_vars
    <3>2. Eventful(s)' = Eventful(s)
      BY <3>1 DEF Eventful, has_tasks, waiters_cond
    <3>3. Promised(s) => WillNotify(s)'
      BY <2>0 DEF Promised, WillNotify, NotifyPc
    <3> QED
      BY <1>b, <3>1, <3>2, <3>3 DEF Woken2
  <2>3. CASE EnterSleep(s)
    <3>1. UNCHANGED <<m_tasks, m_exit>> /\ pc'[s] = "idle_sleep" /\ ~ Called(s)
      BY <1>2, <2>3, <2>t DEF EnterSleep, Goto, Called
    <3> QED
      BY <3>1 DEF Called, has_tasks
  <2>4. CASE WakeInVain(s)
    <3>1. /\ UNCHANGED <<m_tasks, m_exit, idle, waiting, cond, m_running>> /\ pc'[s] = pc[s] /\ ~ WaitOver(s)
          /\ pc[s] \in {"idle_sleep", "idle_wait"}
      BY <2>4 DEF WakeInVain, thread_vars, queue_vars, worker_vars
    <3>2. Eventful(s)' = Eventful(s) /\ Called(s)' = Called(s)
      BY <3>1 DEF Eventful, Called, has_tasks, waiters_cond
    <3>3. WillNotify(s) => WillNotify(s)'
      BY <2>0, <3>1 DEF WillNotify, NotifyPc
    <3> QED
      BY <1>b, <3>1, <3>2, <3>3 DEF Woken2, Called, WaitOver
  <2> QED
    BY <1>a, <1>2, <2>1, <2>2, <2>3, <2>4, BlockingSteps
<1>3. ASSUME pc[s] \in {"idle_sleep", "idle_wait", "enter_wait"}, pc'[s] = pc[s],
             pc[s] = "idle_sleep" /\ Woken1(s) => Woken1(s)',
             pc[s] = "idle_wait" /\ Woken2(s) => Woken2(s)',
             pc[s] = "enter_wait" /\ Promised(s) => Promised(s)'
      PROVE  Old(s)'
  <2>1. /\ Called(s)' => Called(s) \/ Promised(s)'
        /\ Eventful(s)' => Eventful(s) \/ Promised(s)'
    BY <1>a, <1>3, EventsNotify DEF Promised
  <2>2. Promised(s)' => Woken1(s)' /\ Woken2(s)'
    BY DEF Promised, Woken1, Woken2, WillNotify
  <2> QED
    BY <1>b, <1>3, <2>1, <2>2
<1>4. CASE \E th \in Thread : NotifyStep(th)
  <2>1. PICK th \in Thread : NotifyStep(th)
    BY <1>4
  <2>2. CASE pc[s] \in {"idle_sleep", "idle_wait", "enter_wait"}
    BY <1>3, <2>1, <2>2, NotifyKeepsPromise
  <2>3. CASE pc[s] \notin {"idle_sleep", "idle_wait", "enter_wait"}
    <3>1. pc'[s] \notin {"idle_sleep", "idle_wait", "enter_wait"}
      <4>1. CASE th # s
        BY <1>a, <2>1, <2>3, <4>1, ThreadsAlone, ControlTypes DEF Alone
      <4>2. CASE th = s
        <5>1. pc[s] \in NotifyPc => ret[s] \in {"run", "reset"}
          BY <1>a DEF TInv, ThreadInv
        <5> QED
          BY <1>a, <2>1, <2>3, <4>2, <5>1, ControlTypes
             DEF NotifyStep, MinLoad, Enque, NotifyLock, NotifyFire, Goto, NotifyPc
      <4> QED
        BY <4>1, <4>2
    <3> QED
      BY <1>1, <3>1
  <2> QED
    BY <2>2, <2>3
<1>5. CASE /\ pc'[s] \in {"idle_sleep", "idle_wait", "enter_wait"}
           /\ (\E k \in Sch : k # s /\ SchedulerStep(k)) \/ MainStep \/ Environment \/ UNCHANGED vars
  <2>1. \A th \in Thread : pc[th] \in NotifyPc => pc'[th] = pc[th] /\ target'[th] = target[th]
    BY <1>a, <1>5, NotifiersStay
  <2>2. UNCHANGED <<pc[s], signaled[s], m_running[s]>>
    BY <1>a, <1>5, OthersUnseen DEF Unseen, Environment
  <2>3. (WillNotify(s) => WillNotify(s)') /\ (Promised(s) => Promised(s)')
    BY <2>1, <2>2 DEF WillNotify, Promised, NotifyPc
  <2> QED
    BY <1>3, <1>5, <2>2, <2>3 DEF Woken1, Woken2
<1> QED
  BY <1>1, <1>2, <1>4, <1>5 DEF Next, Terminated

-----------------------------------------------------------------------------
(* The invariant and the theorems. *)

\* The constructors leave every worker in its scheduler's idle queue, and no task.
LEMMA XInvInit == Init => XInv
<1> SUFFICES ASSUME Init PROVE XInv
  OBVIOUS
<1>1. AllPlaced
  <2> SUFFICES ASSUME NEW s \in Sch PROVE WorkersInv(s)
    BY DEF AllPlaced
  <2>0. s \in Thread /\ s # Main /\ K \in Nat \ {0}
    BY ThreadFacts, SizeAssumption
  <2>1. /\ pc[s] = "idle_sleep" /\ m_worker[s] = <<s, 1>> /\ yielded[s] = NoWorker
        /\ runnable[s] = <<>> /\ waiting[s] = <<>> /\ pending_io[s] = <<>>
        /\ idle[s] = [i \in 1..K |-> <<s, i>>]
    BY <2>0 DEF Init
  <2>2. \A w \in WorkersOf(s) : wstate[w] = "idle"
    BY PlaceFacts, TInvInit DEF Init
  <2>3. /\ InWorkerState(s, "idle") = WorkersOf(s)
        /\ InWorkerState(s, "runnable") = {} /\ InWorkerState(s, "waiting") = {}
        /\ InWorkerState(s, "pending_io") = {} /\ InWorkerState(s, "yielded") = {}
        /\ InWorkerState(s, "running") = {}
    BY <2>2 DEF InWorkerState
  <2>4. Enumerates(<<>>, {})
    BY DEF Enumerates
  <2>5. Enumerates(idle[s], WorkersOf(s))
    <3>1. \A i \in 1..K : <<s, i>> \in WorkersOf(s)
      BY DEF WorkersOf
    <3>2. idle[s] \in Seq(WorkersOf(s)) /\ Len(idle[s]) = K
      BY <2>0, <2>1, <3>1
    <3>3. \A i \in 1..K : idle[s][i] = <<s, i>>
      BY <2>1
    <3>4. \A x \in WorkersOf(s) : \E i \in 1..K : x = <<s, i>>
      BY DEF WorkersOf
    <3>5. \A i, j \in 1..K : <<s, i>> = <<s, j>> => i = j
      OBVIOUS
    <3>6. \A i, j \in 1..K : idle[s][i] = idle[s][j] => i = j
      BY <3>3, <3>5
    <3>7. \A x \in WorkersOf(s) : \E i \in 1..K : idle[s][i] = x
      BY <3>3, <3>4
    <3> QED
      BY <3>2, <3>6, <3>7 DEF Enumerates
  <2>6. m_worker[s] \in WorkersOf(s)
    BY <2>0, <2>1 DEF WorkersOf
  <2>7. ~ OnTask(s)
    BY <2>1 DEF OnTask, AsyncPc, NotifyPc
  <2> QED
    BY <2>1, <2>2, <2>3, <2>4, <2>5, <2>6, <2>7 DEF WorkersInv
<1>2. AllBusy
  BY TInvInit, PlaceFacts DEF AllBusy, BusyWorkers, Init
<1>3. AllOver
  BY ThreadFacts DEF AllOver, TaskOver, Init, NotifyPc
<1>4. TasksInv
  <2>1. \A s \in Sch : Queued(s) = {}
    BY DEF Init, Queued
  <2>2. (\A th \in Thread : hand[th] = NoTask) /\ (\A w \in Worker : wtask[w] = NoTask)
        /\ (\A t \in Task : tstate[t] = "absent")
    BY DEF Init
  <2>3. OnePlace
    BY <2>1, <2>2 DEF OnePlace
  <2> QED
    BY <2>1, <2>2, <2>3 DEF TasksInv
<1>5. ExitInv
  BY ThreadFacts DEF ExitInv, PastWaitExit, Init, NotifyPc
<1>6. WakeInv
  BY ThreadFacts DEF WakeInv, NoLostWakeup, Init, has_tasks
<1> QED
  BY <1>1, <1>2, <1>3, <1>4, <1>5, <1>6 DEF XInv

\* Where the workers, the tasks and the notifications are is an invariant.
THEOREM XInvHolds == Spec => []XInv
<1>1. SInv /\ XInv /\ [Next]_vars => XInv'
  <2> SUFFICES ASSUME SInv, XInv, [Next]_vars PROVE XInv'
    OBVIOUS
  <2>0. TInv /\ AllPlaced /\ AllBusy /\ AllOver /\ TasksInv /\ ExitInv /\ WakeInv
    BY DEF SInv, XInv
  <2>1. AllPlaced'
    BY <2>0, WorkersStep
  <2>2. AllBusy'
    BY <2>0, BusyStep
  <2>3. AllOver'
    BY <2>0, OverStep
  <2>4. TasksInv'
    BY <2>0, TasksStep
  <2>5. ExitInv'
    BY <2>0, ExitStep
  <2>6. WakeInv'
    BY <2>0, WakeStep
  <2> QED
    BY <2>1, <2>2, <2>3, <2>4, <2>5, <2>6 DEF XInv
<1> QED
  BY XInvInit, <1>1, SInvHolds, PTL DEF Spec

\* park, prepare_exec and schedule_workers: every worker of a scheduler is in the
\* one queue its state names, or runs.
THEOREM WorkersPlaced == Spec => []WorkerInOnePlace
<1>1. XInv => WorkerInOnePlace
  BY DEF XInv, AllPlaced, WorkersInv, WorkerInOnePlace
<1> QED
  BY <1>1, XInvHolds, PTL

\* The three kinds of places.
Hands(t) == {<<"hand", th>> : th \in {x \in Thread : hand[x] = t}}
Queues(t) ==
    UNION {{<<"queue", s, i>> : i \in {j \in 1..Len(m_tasks[s]) : m_tasks[s][j] = t}} : s \in Sch}
Workers(t) == {<<"worker", w>> : w \in {x \in Worker : wtask[x] = t}}

\* There are no others.
LEMMA PlaceKinds ==
    ASSUME NEW t
    PROVE  /\ PlacesOf(t) = Hands(t) \cup Queues(t) \cup Workers(t)
           /\ (\A th \in Thread : hand[th] # t) => Hands(t) = {}
           /\ (\A s \in Sch : \A i \in Queued(s) : m_tasks[s][i] # t) => Queues(t) = {}
           /\ (\A w \in Worker : wtask[w] # t) => Workers(t) = {}
<1>1. PlacesOf(t) = Hands(t) \cup Queues(t) \cup Workers(t)
  BY DEF PlacesOf, Hands, Queues, Workers
<1>2. (\A th \in Thread : hand[th] # t) => Hands(t) = {}
  BY DEF Hands
<1>3. (\A s \in Sch : \A i \in Queued(s) : m_tasks[s][i] # t) => Queues(t) = {}
  BY DEF Queues, Queued
<1>4. (\A w \in Worker : wtask[w] # t) => Workers(t) = {}
  BY DEF Workers
<1> QED
  BY <1>1, <1>2, <1>3, <1>4

\* One place of a task that is somewhere.
LEMMA PlaceIsOne ==
    ASSUME TInv, TasksInv, NEW t \in Task, SomePlace(t)
    PROVE  \E p : PlacesOf(t) = {p}
<1>0. OnePlace /\ t # NoTask
  BY TaskAssumption DEF TasksInv
<1>1. CASE \E th \in Thread : hand[th] = t
  <2>1. PICK th \in Thread : hand[th] = t
    BY <1>1
  <2>2. /\ \A x \in Thread : hand[x] = t => x = th
        /\ \A s \in Sch : \A i \in Queued(s) : m_tasks[s][i] # t
        /\ \A w \in Worker : wtask[w] # t
    BY <1>0, <2>1 DEF OnePlace
  <2>3. Hands(t) = {<<"hand", th>>} /\ Queues(t) = {} /\ Workers(t) = {}
    BY <2>1, <2>2, PlaceKinds DEF Hands
  <2>4. PlacesOf(t) = {<<"hand", th>>}
    BY <2>3, PlaceKinds
  <2> QED
    BY <2>4
<1>2. CASE \E s \in Sch : \E i \in Queued(s) : m_tasks[s][i] = t
  <2>1. PICK s \in Sch : \E i \in Queued(s) : m_tasks[s][i] = t
    BY <1>2
  <2>2. PICK i \in Queued(s) : m_tasks[s][i] = t
    BY <2>1
  <2>3. /\ \A x \in Thread : hand[x] # t
        /\ \A k \in Sch : \A j \in Queued(k) : m_tasks[k][j] = t => k = s /\ j = i
        /\ \A w \in Worker : wtask[w] # t
    BY <1>0, <2>2 DEF OnePlace
  <2>4. Hands(t) = {} /\ Workers(t) = {}
    BY <2>3, PlaceKinds
  <2>5. <<"queue", s, i>> \in Queues(t)
    BY <2>2 DEF Queues, Queued
  <2>6. \A p \in Queues(t) : p = <<"queue", s, i>>
    BY <2>3 DEF Queues, Queued
  <2>7. PlacesOf(t) = {<<"queue", s, i>>}
    BY <2>4, <2>5, <2>6, PlaceKinds
  <2> QED
    BY <2>7
<1>3. CASE \E w \in Worker : wtask[w] = t
  <2>1. PICK w \in Worker : wtask[w] = t
    BY <1>3
  <2>2. /\ \A x \in Thread : hand[x] # t
        /\ \A s \in Sch : \A i \in Queued(s) : m_tasks[s][i] # t
        /\ \A v \in Worker : wtask[v] = t => v = w
    BY <1>0, <2>1 DEF OnePlace
  <2>3. Hands(t) = {} /\ Queues(t) = {} /\ Workers(t) = {<<"worker", w>>}
    BY <2>1, <2>2, PlaceKinds DEF Workers
  <2>4. PlacesOf(t) = {<<"worker", w>>}
    BY <2>3, PlaceKinds
  <2> QED
    BY <2>4
<1> QED
  BY <1>1, <1>2, <1>3 DEF SomePlace

\* async, enque, next_task and steal_work: a task that is started and not done is
\* in the hands of one thread, at one position of one queue, or on one worker.
THEOREM TasksPlaced == Spec => []TaskInOnePlace
<1>1. SInv /\ XInv => TaskInOnePlace
  <2> SUFFICES ASSUME SInv, XInv, NEW t \in Task
               PROVE  /\ tstate[t] = "absent" => PlacesOf(t) = {}
                      /\ tstate[t] = "init" => Cardinality(PlacesOf(t)) = 1
                      /\ tstate[t] = "done" => \A p \in PlacesOf(t) : p[1] = "worker"
    BY DEF TaskInOnePlace
  <2>0. TInv /\ TasksInv /\ t # NoTask
    BY TaskAssumption DEF SInv, XInv
  <2>1. ASSUME tstate[t] = "absent" PROVE PlacesOf(t) = {}
    <3>1. /\ \A x \in Thread : hand[x] # t
          /\ \A s \in Sch : \A i \in Queued(s) : m_tasks[s][i] # t
          /\ \A w \in Worker : wtask[w] # t
      BY <2>0, <2>1 DEF TasksInv
    <3> QED
      BY <3>1 DEF PlacesOf, Queued
  <2>2. ASSUME tstate[t] = "init" PROVE Cardinality(PlacesOf(t)) = 1
    <3>1. PICK p : PlacesOf(t) = {p}
      BY <2>0, <2>2, PlaceIsOne DEF TasksInv
    <3> QED
      BY <3>1, FS_Singleton
  <2>3. ASSUME tstate[t] = "done" PROVE \A p \in PlacesOf(t) : p[1] = "worker"
    <3>1. /\ \A x \in Thread : hand[x] # t
          /\ \A s \in Sch : \A i \in Queued(s) : m_tasks[s][i] # t
      BY <2>0, <2>3 DEF TasksInv
    <3>2. PlacesOf(t) = Workers(t)
      BY <3>1, PlaceKinds
    <3> QED
      BY <3>2 DEF Workers
  <2> QED
    BY <2>1, <2>2, <2>3
<1> QED
  BY <1>1, SInvHolds, XInvHolds, PTL

\* next_task: a task handed to a worker is not done and is on no other worker.
THEOREM EachTaskRunsOnce == Spec => NoTaskRunsTwice
<1> DEFINE Once == \A w \in Worker, t \in Task :
                      wtask'[w] = t /\ wtask[w] # t
                         => tstate[t] = "init" /\ \A v \in Worker : wtask[v] # t
<1>1. SInv /\ XInv /\ [Next]_vars => Once
  <2> SUFFICES ASSUME SInv, XInv, [Next]_vars, NEW w \in Worker, NEW t \in Task,
                      wtask'[w] = t, wtask[w] # t
               PROVE  tstate[t] = "init" /\ \A v \in Worker : wtask[v] # t
    OBVIOUS
  <2>0. TInv /\ AllPlaced /\ AllBusy /\ TasksInv /\ t # NoTask
    BY TaskAssumption DEF SInv, XInv
  <2>1. wtask' # wtask
    OBVIOUS
  <2>2. ASSUME NEW s \in Sch, NEW k \in Sch, GiveTask(s, k), pc[s] # "exited", idle[s] # <<>>, has_tasks(k),
               UNCHANGED <<hand, tstate>>
        PROVE  tstate[t] = "init" /\ \A v \in Worker : wtask[v] # t
    <3>1. PICK v \in Worker : TaskGoes(k, v)
      BY <2>0, <2>2, GiveFacts
    <3>2. w = v /\ t = Head(m_tasks[k])
      BY <2>0, <3>1, TaskFacts DEF TaskGoes
    <3>3. m_tasks[k] \in Seq(Task) /\ m_tasks[k] # <<>>
      BY <2>0, <2>2, TaskFacts DEF has_tasks
    <3>4. 1 \in Queued(k) /\ m_tasks[k][1] = t
      BY <3>2, <3>3, TailFacts DEF Queued
    <3>5. \A v1 \in Worker : wtask[v1] # t
      BY <2>0, <3>4 DEF TasksInv, OnePlace
    <3>6. tstate[t] = "init"
      BY <2>0, <3>4 DEF TasksInv
    <3> QED
      BY <3>5, <3>6
  <2>3. ASSUME NEW s \in Sch, ScheduleIdle(s), runnable[s] = <<>>, idle[s] # <<>>, has_tasks(s)
        PROVE  tstate[t] = "init" /\ \A v \in Worker : wtask[v] # t
    BY <2>2, <2>3 DEF ScheduleIdle, task_vars
  <2>4. ASSUME NEW s \in Sch, Rob(s), has_tasks(it[s])
        PROVE  tstate[t] = "init" /\ \A v \in Worker : wtask[v] # t
    <3>1. it[s] \in Sch /\ idle[s] # <<>>
      BY <2>0, <2>4 DEF Rob, TInv, ThreadInv
    <3>2. PICK k \in Sch : k = it[s]
      BY <3>1
    <3> QED
      BY <2>2, <2>4, <3>1, <3>2 DEF Rob, task_vars
  <2>5. ASSUME NEW s \in Sch PROVE ~ ParkIdle(s)
    <3>1. ASSUME ParkIdle(s) PROVE wtask'[w] \in {wtask[w], NoTask}
      BY <2>0, <3>1, TaskFacts DEF ParkIdle
    <3> QED
      BY <2>0, <3>1
  <2>6. ~ Frozen /\ ~ MainAsync
    BY <2>1 DEF Frozen, MainAsync, worker_vars
  <2>7. ASSUME NEW s \in Sch PROVE ~ Async(s) /\ ~ Finish(s)
    BY <2>1 DEF Async, Finish, worker_vars
  <2>8. ASSUME NEW th \in Thread PROVE ~ Enque(th)
    BY <2>1 DEF Enque, worker_vars
  <2> QED
    BY <2>3, <2>4, <2>5, <2>6, <2>7, <2>8, NextMovesTask
<1>2. SInv /\ XInv /\ [Next]_vars => [Once]_vars
  BY <1>1
<1> QED
  BY <1>2, SInvHolds, XInvHolds, PTL DEF Spec, NoTaskRunsTwice

\* sleep and notify: no event is slept over.
THEOREM NoWakeupIsLost == Spec => []NoLostWakeup
<1>1. XInv => NoLostWakeup
  BY DEF XInv, WakeInv
<1> QED
  BY <1>1, XInvHolds, PTL

\* wait_exit and all_idle: init_ums returns only when every task is done.
THEOREM ExitIsSafe == Spec => []ExitOnlyWhenDone
<1>1. XInv => ExitOnlyWhenDone
  BY DEF XInv, ExitInv, ExitOnlyWhenDone
<1> QED
  BY <1>1, XInvHolds, PTL

\* The assertion of should_exit holds.
THEOREM ExitHasNoWork == Spec => []NoWorkAtExit
<1>1. XInv => NoWorkAtExit
  BY DEF XInv, ExitInv, NoWorkAtExit
<1> QED
  BY <1>1, XInvHolds, PTL
=============================================================================

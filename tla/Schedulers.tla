----------------------------- MODULE Schedulers -----------------------------
(***************************************************************************)
(* The cooperative scheduler of the library: scheduler.cpp/.hpp with the   *)
(* parts of worker, task, condition_variable, async and ums that it drives.*)
(*                                                                         *)
(* Each scheduler owns K workers (OS threads) of which exactly one runs at *)
(* any time: the hand-over between them (context_switch) is the subject of *)
(* module WorkerSwitch, so here a scheduler is ONE thread of control, the  *)
(* thread of its current worker m_worker[s].  The other thread is Main,    *)
(* the caller of init_ums.  A step is one access to state that another     *)
(* thread can see, together with the thread-local work around it.          *)
(*                                                                         *)
(* The initial state is the one the constructors leave: every scheduler in *)
(* idle_sleep, m_check_idle set by the last signal_idle.                   *)
(***************************************************************************)
EXTENDS Integers, FiniteSets, Lists

CONSTANTS
    N,               \* number of schedulers
    K,               \* workers per scheduler
    Task,            \* the tasks user code may start
    MainTask,        \* the function handed to init_ums
    UserOps,         \* which of "yield", "sleep", "io", "wait" user code uses
    MaxOps,          \* bound: yields, sleeps and I/Os of one task
    NoTask, NoWorker,
    WorkStealing,    \* FS_work_stealing_allowed
    IdleSpinning     \* FS_idle_spinning_allowed

ASSUME SizeAssumption == N \in Nat \ {0} /\ K \in Nat \ {0} /\ MaxOps \in Nat
ASSUME TaskAssumption == MainTask \in Task /\ NoTask \notin Task
ASSUME OptionAssumption == WorkStealing \in BOOLEAN /\ IdleSpinning \in BOOLEAN

Sch == 1..N
Main == 0
Thread == 0..N
Free == -1                       \* an unlocked mutex, a notification to nobody
Worker == Sch \X (1..K)
ASSUME WorkerAssumption == NoWorker \notin Worker

WorkersOf(s) == {s} \X (1..K)
Home(w) == w[1]

VARIABLES
    \* per thread: control point, where to return after a notify, the
    \* scheduler being notified, the task being enqueued, a loop cursor
    pc, ret, target, hand, it,
    \* private to a scheduler's running worker
    m_worker, runnable, idle, waiting, pending_io, yielded, idle_start,
    \* shared between a scheduler and other threads
    m_tasks, m_mtx, m_running, m_state, m_exit, signaled,
    \* shared by all (class Schedulers)
    m_idle_schedulers, m_check_idle,
    \* per worker
    wstate, wtask, cond, timer, io, awaits,
    \* per task
    tstate, spawner, ops

thread_vars == <<pc, ret, target, hand, it>>
queue_vars  == <<m_worker, runnable, idle, waiting, pending_io, yielded, idle_start>>
shared_vars == <<m_tasks, m_mtx, m_running, m_state, m_exit, signaled>>
exit_vars   == <<m_idle_schedulers, m_check_idle>>
worker_vars == <<wstate, wtask, cond, timer, io, awaits>>
task_vars   == <<tstate, spawner, ops>>
vars == <<thread_vars, queue_vars, shared_vars, exit_vars, worker_vars, task_vars>>

-----------------------------------------------------------------------------
(* The values of the state. *)

WorkerState == {"initializing", "idle", "waiting", "pending_io", "yielded",
                "runnable", "running", "exiting"}
SchedulerState == {"initializing", "running", "idle_wait", "idle_sleep", "exiting"}

\* Distance of now() from a worker's m_sleep_time_point: no timeout at all,
\* further away than CFG_idle_sleep_threshold, closer than it, reached.
TimerState == {"max", "far", "near", "due"}

\* Distance of now() from m_idle_start_time + CFG_idle_spin_threshold.
SpinState == {"max", "spinning", "elapsed"}

NotifyPc == {"notify", "fire"}
SchedulerPc == {"run", "wait_check", "recheck", "done", "reset",
                "io", "waiting", "idle", "yielded", "steal", "rob", "decide",
                "enter_wait", "enter_sleep", "signal_idle", "notify_main", "sleep",
                "idle_wait", "idle_sleep", "woken", "exit_check", "exited"}
MainPc == {"async", "pred", "cv_wait", "count", "tasks", "lock_all", "check",
           "relock", "destroy", "join", "end"}
AsyncPc == {"min_load", "enque"}
Pc == NotifyPc \cup AsyncPc \cup SchedulerPc \cup MainPc

\* The task a scheduler's running worker executes.
Running(s) == wtask[m_worker[s]]

-----------------------------------------------------------------------------
(* Queries. *)

has_tasks(s) == m_tasks[s] # <<>>

has_work(s) ==
    \/ runnable[s] # <<>>
    \/ waiting[s] # <<>>
    \/ pending_io[s] # <<>>
    \/ has_tasks(s)
    \/ yielded[s] # NoWorker

InState(s, S) == Cardinality({w \in WorkersOf(s) : wstate[w] \in S})

\* m_state_load is moved by Loads[new] - Loads[old] on every change of a
\* worker's state, so it is the sum of the loads of the workers' states.
state_load(s) == InState(s, {"waiting"}) + 2 * InState(s, {"pending_io"})
                 + 10 * InState(s, {"yielded", "runnable", "running"})

load(s) == state_load(s) + 10 * Len(m_tasks[s])

has_stealable_work(s) ==
    \/ Len(m_tasks[s]) > 1
    \/ Len(m_tasks[s]) = 1 /\ state_load(s) > 0

check_wait_info(w) == cond[w] \/ timer[w] = "due"

waiters_cond(s) == \E i \in 1..Len(waiting[s]) : cond[waiting[s][i]]

\* now() >= m_earliest_wait - CFG_idle_sleep_threshold
waiters_near(s) == \E i \in 1..Len(waiting[s]) : timer[waiting[s][i]] \in {"near", "due"}

\* A worker finishing task t holds the m_waiters_lock of t's condition
\* variable from before set_cond until Scheduler::notify has returned.
WaitersLocked(t) ==
    \E s \in Sch : pc[s] \in NotifyPc /\ ret[s] = "reset" /\ Running(s) = t

-----------------------------------------------------------------------------
Init ==
    /\ pc = [th \in Thread |-> IF th = Main THEN "async" ELSE "idle_sleep"]
    /\ ret = [th \in Thread |-> "end"]
    /\ target = [th \in Thread |-> Free]
    /\ hand = [th \in Thread |-> NoTask]
    /\ it = [th \in Thread |-> 1]
    /\ m_worker = [s \in Sch |-> <<s, 1>>]
    /\ runnable = [s \in Sch |-> <<>>]
    /\ idle = [s \in Sch |-> [i \in 1..K |-> <<s, i>>]]
    /\ waiting = [s \in Sch |-> <<>>]
    /\ pending_io = [s \in Sch |-> <<>>]
    /\ yielded = [s \in Sch |-> NoWorker]
    /\ idle_start = [s \in Sch |-> "max"]
    /\ m_tasks = [s \in Sch |-> <<>>]
    /\ m_mtx = [s \in Sch |-> Free]
    /\ m_running = [s \in Sch |-> FALSE]
    /\ m_state = [s \in Sch |-> "idle_sleep"]
    /\ m_exit = [s \in Sch |-> FALSE]
    /\ signaled = [th \in Thread |-> FALSE]
    /\ m_idle_schedulers = N
    /\ m_check_idle = TRUE
    /\ wstate = [w \in Worker |-> "idle"]
    /\ wtask = [w \in Worker |-> NoTask]
    /\ cond = [w \in Worker |-> FALSE]
    /\ timer = [w \in Worker |-> "max"]
    /\ io = [w \in Worker |-> FALSE]
    /\ awaits = [w \in Worker |-> NoTask]
    /\ tstate = [t \in Task |-> "absent"]
    /\ spawner = [t \in Task |-> NoTask]
    /\ ops = [t \in Task |-> 0]

-----------------------------------------------------------------------------
(* Steps shared by all threads: enqueue_task and notify. *)

Goto(th, l) == pc' = [pc EXCEPT ![th] = l]

\* async -> enque_task: a new task; the first scheduler is the least loaded so far.
NewTask(th, t) ==
    /\ tstate[t] = "absent"
    /\ tstate' = [tstate EXCEPT ![t] = "init"]
    /\ hand' = [hand EXCEPT ![th] = t]
    /\ target' = [target EXCEPT ![th] = 1]
    /\ it' = [it EXCEPT ![th] = 2]
    /\ Goto(th, IF N = 1 THEN "enque" ELSE "min_load")

\* min_load_scheduler: one comparison of min_element.  The loads of the others
\* may change between two comparisons and before the task is enqueued.
MinLoad(th) ==
    /\ pc[th] = "min_load"
    /\ target' = [target EXCEPT ![th] = IF load(it[th]) < load(@) THEN it[th] ELSE @]
    /\ it' = [it EXCEPT ![th] = IF @ = N THEN 1 ELSE @ + 1]
    /\ Goto(th, IF it[th] = N THEN "enque" ELSE "min_load")
    /\ UNCHANGED <<ret, hand, queue_vars, shared_vars, exit_vars, worker_vars, task_vars>>

\* enqueue_task: Tasks::enque is one critical section of its spinlock; the
\* target's m_mtx is not held.
Enque(th) ==
    /\ pc[th] = "enque"
    /\ m_tasks' = [m_tasks EXCEPT ![target[th]] = Append(@, hand[th])]
    /\ hand' = [hand EXCEPT ![th] = NoTask]
    /\ Goto(th, "notify")
    /\ UNCHANGED <<ret, target, it, queue_vars, m_mtx, m_running, m_state, m_exit,
                   signaled, exit_vars, worker_vars, task_vars>>

\* Mutant: notify sets m_running without waiting for the target's m_mtx.
NotifyLock_Unlocked(th) ==
    /\ pc[th] = "notify"
    /\ m_running' = [m_running EXCEPT ![target[th]] = TRUE]
    /\ Goto(th, "fire")
    /\ UNCHANGED <<ret, target, hand, it, queue_vars, m_tasks, m_mtx, m_state, m_exit,
                   signaled, exit_vars, worker_vars, task_vars>>

\* notify, first half: m_running is set under the target's m_mtx.
NotifyLock(th) ==
    /\ pc[th] = "notify"
    /\ m_mtx[target[th]] = Free
    /\ m_running' = [m_running EXCEPT ![target[th]] = TRUE]
    /\ Goto(th, "fire")
    /\ UNCHANGED <<ret, target, hand, it, queue_vars, m_tasks, m_mtx, m_state, m_exit,
                   signaled, exit_vars, worker_vars, task_vars>>

\* notify, second half: m_cv.notify_one, lost unless the target is blocked.
NotifyFire(th) ==
    /\ pc[th] = "fire"
    /\ signaled' = [signaled EXCEPT ![target[th]] =
                       IF pc[target[th]] \in {"idle_wait", "idle_sleep"} THEN TRUE ELSE @]
    /\ target' = [target EXCEPT ![th] = Free]
    /\ Goto(th, ret[th])
    /\ UNCHANGED <<ret, hand, it, queue_vars, m_tasks, m_mtx, m_running, m_state, m_exit,
                   exit_vars, worker_vars, task_vars>>

-----------------------------------------------------------------------------
(* User code, run by the current worker of scheduler s. *)

\* ums::async from a task.
Async(s) ==
    /\ pc[s] = "run"
    /\ \E t \in Task \ {MainTask} :
          /\ NewTask(s, t)
          /\ spawner' = [spawner EXCEPT ![t] = Running(s)]
    /\ ret' = [ret EXCEPT ![s] = "run"]
    /\ UNCHANGED <<queue_vars, shared_vars, exit_vars, worker_vars, ops>>

\* Uses one unit of the running task's budget of scheduling operations.
Spend(s) ==
    /\ ops[Running(s)] < MaxOps
    /\ ops' = [ops EXCEPT ![Running(s)] = @ + 1]

\* Worker::yield: park_yielded, then schedule().
Yield(s) ==
    /\ pc[s] = "run" /\ "yield" \in UserOps
    /\ Spend(s)
    /\ yielded' = [yielded EXCEPT ![s] = m_worker[s]]
    /\ wstate' = [wstate EXCEPT ![m_worker[s]] = "yielded"]
    /\ it' = [it EXCEPT ![s] = 1]
    /\ Goto(s, "io")
    /\ UNCHANGED <<ret, target, hand, m_worker, runnable, idle, waiting, pending_io,
                   idle_start, shared_vars, exit_vars, wtask, cond, timer, io, awaits,
                   tstate, spawner>>

\* Worker::read_file and write_file: the request is pending once submitted.
StartIo(s) ==
    /\ pc[s] = "run" /\ "io" \in UserOps
    /\ Spend(s)
    /\ pending_io' = [pending_io EXCEPT ![s] = Append(@, m_worker[s])]
    /\ wstate' = [wstate EXCEPT ![m_worker[s]] = "pending_io"]
    /\ io' = [io EXCEPT ![m_worker[s]] = TRUE]
    /\ it' = [it EXCEPT ![s] = 1]
    /\ Goto(s, "io")
    /\ UNCHANGED <<ret, target, hand, m_worker, runnable, idle, waiting, yielded,
                   idle_start, shared_vars, exit_vars, wtask, cond, timer, awaits,
                   tstate, spawner>>

\* Worker::sleep_until_internal: set_wait_info(false, time_point); the time
\* point may already be reached.
SleepUntil(s) ==
    /\ pc[s] = "run" /\ "sleep" \in UserOps
    /\ Spend(s)
    /\ cond' = [cond EXCEPT ![m_worker[s]] = FALSE]
    /\ \E d \in {"far", "near", "due"} : timer' = [timer EXCEPT ![m_worker[s]] = d]
    /\ Goto(s, "wait_check")
    /\ UNCHANGED <<ret, target, hand, it, queue_vars, shared_vars, exit_vars, wstate,
                   wtask, io, awaits, tstate, spawner>>

\* Condition_variable::wait_internal up to its unlock, by a worker that holds
\* the task's Mutex and found it not done.
AddWaiter(s, t) ==
    /\ awaits' = [awaits EXCEPT ![m_worker[s]] = t]
    /\ cond' = [cond EXCEPT ![m_worker[s]] = FALSE]
    /\ timer' = [timer EXCEPT ![m_worker[s]] = "max"]
    /\ Goto(s, "wait_check")

\* TaskBase::wait on a task this one started and that is not done yet (on a
\* done one it returns at once).
WaitTask(s) ==
    /\ pc[s] = "run" /\ "wait" \in UserOps
    /\ \E t \in Task : /\ spawner[t] = Running(s)
                       /\ tstate[t] = "init"
                       /\ AddWaiter(s, t)
    /\ UNCHANGED <<ret, target, hand, it, queue_vars, shared_vars, exit_vars, wstate,
                   wtask, io, task_vars>>

\* Where a worker continues after wait_cond_or_sleep.
Resume(w) == IF awaits[w] # NoTask THEN "recheck" ELSE "run"

\* Worker::wait_cond_or_sleep: park unless the wait is over already.
WaitCondOrSleep(s) ==
    /\ pc[s] = "wait_check"
    /\ IF check_wait_info(m_worker[s])
          THEN /\ Goto(s, Resume(m_worker[s]))
               /\ UNCHANGED <<waiting, wstate, it>>
          ELSE /\ waiting' = [waiting EXCEPT ![s] = Append(@, m_worker[s])]
               /\ wstate' = [wstate EXCEPT ![m_worker[s]] = "waiting"]
               /\ it' = [it EXCEPT ![s] = 1]
               /\ Goto(s, "io")
    /\ UNCHANGED <<ret, target, hand, m_worker, runnable, idle, pending_io, yielded,
                   idle_start, shared_vars, exit_vars, wtask, cond, timer, io, awaits,
                   task_vars>>

\* The rest of wait_internal (relock, remove_waiter) and the predicate loop of
\* TaskBase::wait.
Recheck(s) ==
    LET t == awaits[m_worker[s]] IN
    /\ pc[s] = "recheck"
    /\ ~ WaitersLocked(t)
    /\ IF tstate[t] = "done"
          THEN /\ awaits' = [awaits EXCEPT ![m_worker[s]] = NoTask]
               /\ Goto(s, "run")
               /\ UNCHANGED <<cond, timer>>
          ELSE AddWaiter(s, t)
    /\ UNCHANGED <<ret, target, hand, it, queue_vars, shared_vars, exit_vars, wstate,
                   wtask, io, task_vars>>

\* invoke_noexcept returned; TaskBase::notify sets the state under the Mutex.
Finish(s) ==
    /\ pc[s] = "run"
    /\ tstate' = [tstate EXCEPT ![Running(s)] = "done"]
    /\ Goto(s, "done")
    /\ UNCHANGED <<ret, target, hand, it, queue_vars, shared_vars, exit_vars, worker_vars,
                   spawner, ops>>

\* TaskBase::notify -> Condition_variable::notify_one -> notify_waiter:
\* set_cond of the front waiter, then Scheduler::notify of its scheduler.
NotifyWaiter(s) ==
    LET waiters == {w \in Worker : awaits[w] = Running(s)} IN
    /\ pc[s] = "done"
    /\ \/ /\ waiters = {}
          /\ Goto(s, "reset")
          /\ UNCHANGED <<ret, target, cond>>
       \/ \E w \in waiters :
             /\ cond' = [cond EXCEPT ![w] = TRUE]
             /\ target' = [target EXCEPT ![s] = Home(w)]
             /\ ret' = [ret EXCEPT ![s] = "reset"]
             /\ Goto(s, "notify")
    /\ UNCHANGED <<hand, it, queue_vars, shared_vars, exit_vars, wstate, wtask, timer, io,
                   awaits, task_vars>>

\* m_task.reset() and back in main_loop: sync<main> parks the worker in front
\* of the idle queue.
ParkIdle(s) ==
    /\ pc[s] = "reset"
    /\ wtask' = [wtask EXCEPT ![m_worker[s]] = NoTask]
    /\ idle' = [idle EXCEPT ![s] = <<m_worker[s]>> \o @]
    /\ wstate' = [wstate EXCEPT ![m_worker[s]] = "idle"]
    /\ it' = [it EXCEPT ![s] = 1]
    /\ Goto(s, "io")
    /\ UNCHANGED <<ret, target, hand, m_worker, runnable, waiting, pending_io, yielded,
                   idle_start, shared_vars, exit_vars, cond, timer, io, awaits, task_vars>>

UserStep(s) ==
    \/ Async(s) \/ Yield(s) \/ StartIo(s) \/ SleepUntil(s) \/ WaitTask(s)
    \/ WaitCondOrSleep(s) \/ Recheck(s) \/ Finish(s) \/ NotifyWaiter(s) \/ ParkIdle(s)

-----------------------------------------------------------------------------
(* Scheduler::schedule: schedule_workers, then prepare_exec or sleep. *)

\* schedule_io_workers: the element the cursor is at, and the end of the list.
ScheduleIo(s) ==
    /\ pc[s] = "io"
    /\ IF it[s] > Len(pending_io[s])
          THEN /\ Goto(s, "waiting")
               /\ it' = [it EXCEPT ![s] = 1]
               /\ UNCHANGED <<pending_io, runnable, wstate>>
          ELSE LET w == pending_io[s][it[s]] IN
               /\ IF io[w]
                     THEN /\ it' = [it EXCEPT ![s] = @ + 1]
                          /\ UNCHANGED <<pending_io, runnable, wstate>>
                     ELSE /\ pending_io' = [pending_io EXCEPT ![s] = RemoveAt(@, it[s])]
                          /\ runnable' = [runnable EXCEPT ![s] = Append(@, w)]
                          /\ wstate' = [wstate EXCEPT ![w] = "runnable"]
                          /\ UNCHANGED it
               /\ UNCHANGED pc
    /\ UNCHANGED <<ret, target, hand, m_worker, idle, waiting, yielded, idle_start,
                   shared_vars, exit_vars, wtask, cond, timer, io, awaits, task_vars>>

\* schedule_waiting_workers, the same walk over the waiting queue.
ScheduleWaiting(s) ==
    /\ pc[s] = "waiting"
    /\ IF it[s] > Len(waiting[s])
          THEN /\ Goto(s, "idle")
               /\ it' = [it EXCEPT ![s] = 1]
               /\ UNCHANGED <<waiting, runnable, wstate>>
          ELSE LET w == waiting[s][it[s]] IN
               /\ IF ~ check_wait_info(w)
                     THEN /\ it' = [it EXCEPT ![s] = @ + 1]
                          /\ UNCHANGED <<waiting, runnable, wstate>>
                     ELSE /\ waiting' = [waiting EXCEPT ![s] = RemoveAt(@, it[s])]
                          /\ runnable' = [runnable EXCEPT ![s] = Append(@, w)]
                          /\ wstate' = [wstate EXCEPT ![w] = "runnable"]
                          /\ UNCHANGED it
               /\ UNCHANGED pc
    /\ UNCHANGED <<ret, target, hand, m_worker, idle, pending_io, yielded, idle_start,
                   shared_vars, exit_vars, wtask, cond, timer, io, awaits, task_vars>>

\* Mutant: deque returns the front task and forgets pop_front.
GiveTask_NoPop(s, k) ==
    LET w == Head(idle[s]) IN
    /\ idle' = [idle EXCEPT ![s] = Tail(@)]
    /\ wtask' = [wtask EXCEPT ![w] = Head(m_tasks[k])]
    /\ runnable' = [runnable EXCEPT ![s] = Append(@, w)]
    /\ wstate' = [wstate EXCEPT ![w] = "runnable"]
    /\ UNCHANGED m_tasks

\* schedule_idle_worker: next_task of scheduler k, given to the first idle
\* worker of s.
GiveTask(s, k) ==
    LET w == Head(idle[s]) IN
    /\ m_tasks' = [m_tasks EXCEPT ![k] = Tail(@)]
    /\ idle' = [idle EXCEPT ![s] = Tail(@)]
    /\ wtask' = [wtask EXCEPT ![w] = Head(m_tasks[k])]
    /\ runnable' = [runnable EXCEPT ![s] = Append(@, w)]
    /\ wstate' = [wstate EXCEPT ![w] = "runnable"]

\* Mutant: the last task of the queue is not seen.
ScheduleIdle_OffByOne(s) ==
    /\ pc[s] = "idle"
    /\ IF runnable[s] = <<>> /\ idle[s] # <<>> /\ Len(m_tasks[s]) > 1
          THEN GiveTask(s, s)
          ELSE UNCHANGED <<m_tasks, idle, wtask, runnable, wstate>>
    /\ Goto(s, "yielded")
    /\ UNCHANGED <<ret, target, hand, it, m_worker, waiting, pending_io, yielded, idle_start,
                   m_mtx, m_running, m_state, m_exit, signaled, exit_vars,
                   cond, timer, io, awaits, task_vars>>

\* schedule_idle_workers.  A task seen by has_tasks may be gone at next_task
\* (stolen); seeing none and finding none have the same effect.
ScheduleIdle(s) ==
    /\ pc[s] = "idle"
    /\ IF runnable[s] = <<>> /\ idle[s] # <<>> /\ has_tasks(s)
          THEN GiveTask(s, s)
          ELSE UNCHANGED <<m_tasks, idle, wtask, runnable, wstate>>
    /\ Goto(s, "yielded")
    /\ UNCHANGED <<ret, target, hand, it, m_worker, waiting, pending_io, yielded, idle_start,
                   m_mtx, m_running, m_state, m_exit, signaled, exit_vars,
                   cond, timer, io, awaits, task_vars>>

\* Mutant: m_yielded_worker is parked without the test for nullptr.
ScheduleYielded_NoTest(s) ==
    /\ pc[s] = "yielded"
    /\ runnable' = [runnable EXCEPT ![s] = Append(@, yielded[s])]
    /\ wstate' = [w \in Worker |-> IF w = yielded[s] THEN "runnable" ELSE wstate[w]]
    /\ yielded' = [yielded EXCEPT ![s] = NoWorker]
    /\ Goto(s, "steal")
    /\ UNCHANGED <<ret, target, hand, it, m_worker, idle, waiting, pending_io, idle_start,
                   shared_vars, exit_vars, wtask, cond, timer, io, awaits, task_vars>>

\* Mutant: m_yielded_worker is not reset.
ScheduleYielded_Keep(s) ==
    /\ pc[s] = "yielded"
    /\ IF yielded[s] # NoWorker
          THEN /\ runnable' = [runnable EXCEPT ![s] = Append(@, yielded[s])]
               /\ wstate' = [wstate EXCEPT ![yielded[s]] = "runnable"]
          ELSE UNCHANGED <<runnable, wstate>>
    /\ Goto(s, "steal")
    /\ UNCHANGED <<ret, target, hand, it, m_worker, idle, waiting, pending_io, yielded,
                   idle_start, shared_vars, exit_vars, wtask, cond, timer, io, awaits,
                   task_vars>>

\* schedule_yielded_workers
ScheduleYielded(s) ==
    /\ pc[s] = "yielded"
    /\ IF yielded[s] # NoWorker
          THEN /\ runnable' = [runnable EXCEPT ![s] = Append(@, yielded[s])]
               /\ wstate' = [wstate EXCEPT ![yielded[s]] = "runnable"]
               /\ yielded' = [yielded EXCEPT ![s] = NoWorker]
          ELSE UNCHANGED <<runnable, wstate, yielded>>
    /\ Goto(s, "steal")
    /\ UNCHANGED <<ret, target, hand, it, m_worker, idle, waiting, pending_io, idle_start,
                   shared_vars, exit_vars, wtask, cond, timer, io, awaits, task_vars>>

\* steal_work, the filter: has_stealable_work of the scheduler at the cursor.
StealWork(s) ==
    /\ pc[s] = "steal"
    /\ IF ~ WorkStealing \/ runnable[s] # <<>> \/ idle[s] = <<>> \/ it[s] > N
          THEN Goto(s, "decide") /\ it' = [it EXCEPT ![s] = 1]
          ELSE IF it[s] # s /\ has_stealable_work(it[s])
                  THEN Goto(s, "rob") /\ UNCHANGED it
                  ELSE it' = [it EXCEPT ![s] = @ + 1] /\ UNCHANGED pc
    /\ UNCHANGED <<ret, target, hand, queue_vars, shared_vars, exit_vars, worker_vars,
                   task_vars>>

\* Mutant: the stolen task is dequeued and given to nobody.
Rob_Drop(s) ==
    /\ pc[s] = "rob"
    /\ m_tasks' = [m_tasks EXCEPT ![it[s]] = IF @ = <<>> THEN @ ELSE Tail(@)]
    /\ Goto(s, "decide")
    /\ it' = [it EXCEPT ![s] = 1]
    /\ UNCHANGED <<ret, target, hand, queue_vars, m_mtx, m_running, m_state, m_exit,
                   signaled, exit_vars, worker_vars, task_vars>>

\* steal_work, the body: next_task of the victim, which may have none by now.
Rob(s) ==
    /\ pc[s] = "rob"
    /\ IF has_tasks(it[s])
          THEN /\ GiveTask(s, it[s])
               /\ Goto(s, "decide")
               /\ it' = [it EXCEPT ![s] = 1]
          ELSE /\ Goto(s, "steal")
               /\ it' = [it EXCEPT ![s] = @ + 1]
               /\ UNCHANGED <<m_tasks, idle, wtask, runnable, wstate>>
    /\ UNCHANGED <<ret, target, hand, m_worker, waiting, pending_io, yielded, idle_start,
                   m_mtx, m_running, m_state, m_exit, signaled, exit_vars,
                   cond, timer, io, awaits, task_vars>>

\* prepare_exec, and sync's context switch to the chosen worker.
PrepareExec(s) ==
    LET w == Head(runnable[s]) IN
    /\ pc[s] = "decide" /\ runnable[s] # <<>>
    /\ idle_start' = [idle_start EXCEPT ![s] = "max"]
    /\ m_worker' = [m_worker EXCEPT ![s] = w]
    /\ runnable' = [runnable EXCEPT ![s] = Tail(@)]
    /\ wstate' = [wstate EXCEPT ![w] = "running"]
    /\ Goto(s, Resume(w))
    /\ UNCHANGED <<ret, target, hand, it, idle, waiting, pending_io, yielded, shared_vars,
                   exit_vars, wtask, cond, timer, io, awaits, task_vars>>

ScheduleStep(s) ==
    \/ ScheduleIo(s) \/ ScheduleWaiting(s) \/ ScheduleIdle(s) \/ ScheduleYielded(s)
    \/ StealWork(s) \/ Rob(s) \/ PrepareExec(s)

-----------------------------------------------------------------------------
(* Scheduler::sleep and should_exit. *)

\* The two returns before the lock: pending I/O is polled, and a scheduler
\* that just became idle spins for CFG_idle_spin_threshold.
SpinOrPoll(s) ==
    /\ pc[s] = "decide" /\ runnable[s] = <<>>
    /\ \/ pending_io[s] # <<>> /\ UNCHANGED idle_start
       \/ /\ pending_io[s] = <<>> /\ IdleSpinning /\ idle_start[s] # "elapsed"
          /\ idle_start' = [idle_start EXCEPT ![s] = "spinning"]
    /\ Goto(s, "exit_check")
    /\ UNCHANGED <<ret, target, hand, it, m_worker, runnable, idle, waiting, pending_io,
                   yielded, shared_vars, exit_vars, worker_vars, task_vars>>

\* The three returns under the lock.
StayAwake(s) ==
    \/ has_tasks(s) /\ idle[s] # <<>>
    \/ m_exit[s] /\ waiting[s] = <<>> /\ ~ has_tasks(s)
    \/ waiters_cond(s) \/ waiters_near(s)

\* sleep locks m_mtx and checks everything that could have arrived.
SleepLock(s) ==
    /\ pc[s] = "decide" /\ runnable[s] = <<>> /\ pending_io[s] = <<>>
    /\ ~ IdleSpinning \/ idle_start[s] = "elapsed"
    /\ m_mtx[s] = Free
    /\ IF StayAwake(s)
          THEN Goto(s, "exit_check") /\ UNCHANGED m_mtx
          ELSE /\ m_mtx' = [m_mtx EXCEPT ![s] = s]
               /\ Goto(s, IF waiting[s] # <<>> THEN "enter_wait" ELSE "enter_sleep")
    /\ UNCHANGED <<ret, target, hand, it, queue_vars, m_tasks, m_running, m_state, m_exit,
                   signaled, exit_vars, worker_vars, task_vars>>

\* wait_until: m_running is cleared and the lock released by blocking.
EnterWait(s) ==
    /\ pc[s] = "enter_wait"
    /\ m_state' = [m_state EXCEPT ![s] = "idle_wait"]
    /\ m_running' = [m_running EXCEPT ![s] = FALSE]
    /\ m_mtx' = [m_mtx EXCEPT ![s] = Free]
    /\ Goto(s, "idle_wait")
    /\ UNCHANGED <<ret, target, hand, it, queue_vars, m_tasks, m_exit, signaled, exit_vars,
                   worker_vars, task_vars>>

\* signal_idle, the counter.
SignalIdle(s) ==
    /\ pc[s] = "enter_sleep"
    /\ m_state' = [m_state EXCEPT ![s] = "idle_sleep"]
    /\ m_idle_schedulers' = m_idle_schedulers + 1
    /\ Goto(s, IF m_idle_schedulers + 1 < N THEN "sleep" ELSE "signal_idle")
    /\ UNCHANGED <<ret, target, hand, it, queue_vars, m_tasks, m_mtx, m_running, m_exit,
                   signaled, m_check_idle, worker_vars, task_vars>>

\* signal_idle, the flag (one critical section of Schedulers::m_mtx).
SetCheckIdle(s) ==
    /\ pc[s] = "signal_idle"
    /\ m_check_idle' = TRUE
    /\ Goto(s, "notify_main")
    /\ UNCHANGED <<ret, target, hand, it, queue_vars, shared_vars, m_idle_schedulers,
                   worker_vars, task_vars>>

\* signal_idle, m_cv.notify_one: lost unless Main is blocked on m_cv.
NotifyMain(s) ==
    /\ pc[s] = "notify_main"
    /\ signaled' = [signaled EXCEPT ![Main] = IF pc[Main] = "cv_wait" THEN TRUE ELSE @]
    /\ Goto(s, "sleep")
    /\ UNCHANGED <<ret, target, hand, it, queue_vars, m_tasks, m_mtx, m_running, m_state,
                   m_exit, exit_vars, worker_vars, task_vars>>

\* wait: m_cv.wait looks at its predicate once before it blocks.
EnterSleep(s) ==
    /\ pc[s] = "sleep"
    /\ m_running' = [m_running EXCEPT ![s] = FALSE]
    /\ IF has_tasks(s) \/ m_exit[s]
          THEN Goto(s, "woken") /\ UNCHANGED m_mtx
          ELSE Goto(s, "idle_sleep") /\ m_mtx' = [m_mtx EXCEPT ![s] = Free]
    /\ UNCHANGED <<ret, target, hand, it, queue_vars, m_tasks, m_state, m_exit, signaled,
                   exit_vars, worker_vars, task_vars>>

\* The predicate of each of the two waits; a timeout ends the timed one.
WaitOver(s) ==
    \/ pc[s] = "idle_wait" /\ (m_running[s] \/ waiters_near(s))
    \/ pc[s] = "idle_sleep" /\ (has_tasks(s) \/ m_exit[s])

\* m_cv returns with m_mtx held and the predicate true.  Being notified is not
\* required: condition variables may wake spuriously.
Wake(s) ==
    /\ WaitOver(s)
    /\ m_mtx[s] = Free
    /\ signaled' = [signaled EXCEPT ![s] = FALSE]
    /\ IF pc[s] = "idle_wait"
          THEN /\ m_running' = [m_running EXCEPT ![s] = TRUE]
               /\ m_state' = [m_state EXCEPT ![s] = "running"]
               /\ Goto(s, "exit_check")
               /\ UNCHANGED m_mtx
          ELSE /\ m_mtx' = [m_mtx EXCEPT ![s] = s]
               /\ Goto(s, "woken")
               /\ UNCHANGED <<m_running, m_state>>
    /\ UNCHANGED <<ret, target, hand, it, queue_vars, m_tasks, m_exit, exit_vars,
                   worker_vars, task_vars>>

\* A notification that finds the predicate false: back to the wait.
WakeInVain(s) ==
    /\ pc[s] \in {"idle_wait", "idle_sleep"} /\ ~ WaitOver(s)
    /\ m_mtx[s] = Free
    /\ signaled[s]
    /\ signaled' = [signaled EXCEPT ![s] = FALSE]
    /\ UNCHANGED <<thread_vars, queue_vars, m_tasks, m_mtx, m_running, m_state, m_exit,
                   exit_vars, worker_vars, task_vars>>

\* Mutant: sleep returns without signal_running.
SignalRunning_Missing(s) ==
    /\ pc[s] = "woken"
    /\ m_state' = [m_state EXCEPT ![s] = "running"]
    /\ m_mtx' = [m_mtx EXCEPT ![s] = Free]
    /\ Goto(s, "exit_check")
    /\ UNCHANGED <<ret, target, hand, it, queue_vars, m_tasks, m_running, m_exit, signaled,
                   exit_vars, worker_vars, task_vars>>

\* signal_running and the end of sleep.
SignalRunning(s) ==
    /\ pc[s] = "woken"
    /\ m_idle_schedulers' = m_idle_schedulers - 1
    /\ m_state' = [m_state EXCEPT ![s] = "running"]
    /\ m_mtx' = [m_mtx EXCEPT ![s] = Free]
    /\ Goto(s, "exit_check")
    /\ UNCHANGED <<ret, target, hand, it, queue_vars, m_tasks, m_running, m_exit, signaled,
                   m_check_idle, worker_vars, task_vars>>

\* should_exit: exit() ends the worker's main_loop, otherwise schedule() loops.
ShouldExit(s) ==
    /\ pc[s] = "exit_check"
    /\ IF m_exit[s]
          THEN /\ wstate' = [wstate EXCEPT ![m_worker[s]] = "exiting"]
               /\ m_state' = [m_state EXCEPT ![s] = "exiting"]
               /\ Goto(s, "exited")
               /\ UNCHANGED it
          ELSE /\ Goto(s, "io")
               /\ it' = [it EXCEPT ![s] = 1]
               /\ UNCHANGED <<wstate, m_state>>
    /\ UNCHANGED <<ret, target, hand, queue_vars, m_tasks, m_mtx, m_running, m_exit,
                   signaled, exit_vars, wtask, cond, timer, io, awaits, task_vars>>

AwakeStep(s) ==
    \/ SpinOrPoll(s) \/ SleepLock(s) \/ EnterWait(s) \/ SignalIdle(s) \/ SetCheckIdle(s)
    \/ NotifyMain(s) \/ EnterSleep(s) \/ SignalRunning(s) \/ ShouldExit(s)

SleepStep(s) == AwakeStep(s) \/ Wake(s) \/ WakeInVain(s)

-----------------------------------------------------------------------------
(* init_ums after the construction of the schedulers, on the Main thread. *)

\* async(main)
MainAsync ==
    /\ pc[Main] = "async"
    /\ NewTask(Main, MainTask)
    /\ ret' = [ret EXCEPT ![Main] = "pred"]
    /\ UNCHANGED <<queue_vars, shared_vars, exit_vars, worker_vars, spawner, ops>>

\* wait_exit's predicate, first part, under Schedulers::m_mtx.
CheckIdle ==
    /\ pc[Main] = "pred"
    /\ IF m_check_idle
          THEN m_check_idle' = FALSE /\ Goto(Main, "count")
          ELSE Goto(Main, "cv_wait") /\ UNCHANGED m_check_idle
    /\ UNCHANGED <<ret, target, hand, it, queue_vars, shared_vars, m_idle_schedulers,
                   worker_vars, task_vars>>

\* all_idle, with Schedulers::m_mtx released: the counter,
AllIdleCount ==
    /\ pc[Main] = "count"
    /\ Goto(Main, IF m_idle_schedulers < N THEN "relock" ELSE "tasks")
    /\ it' = [it EXCEPT ![Main] = 1]
    /\ UNCHANGED <<ret, target, hand, queue_vars, shared_vars, exit_vars, worker_vars,
                   task_vars>>

\* Mutant: all_idle trusts the counter and the unlocked look at the queues.
AllIdleTasks_NoLocks ==
    LET s == it[Main] IN
    /\ pc[Main] = "tasks"
    /\ Goto(Main, IF has_tasks(s) THEN "relock" ELSE IF s = N THEN "destroy" ELSE "tasks")
    /\ it' = [it EXCEPT ![Main] = IF s = N THEN 1 ELSE s + 1]
    /\ UNCHANGED <<ret, target, hand, queue_vars, shared_vars, exit_vars, worker_vars,
                   task_vars>>

\* the queues, one after the other and without locks,
AllIdleTasks ==
    LET s == it[Main] IN
    /\ pc[Main] = "tasks"
    /\ Goto(Main, IF has_tasks(s) THEN "relock" ELSE IF s = N THEN "lock_all" ELSE "tasks")
    /\ it' = [it EXCEPT ![Main] = IF s = N THEN 1 ELSE s + 1]
    /\ UNCHANGED <<ret, target, hand, queue_vars, shared_vars, exit_vars, worker_vars,
                   task_vars>>

\* every scheduler's m_mtx, one after the other,
AllIdleLock ==
    LET s == it[Main] IN
    /\ pc[Main] = "lock_all"
    /\ m_mtx[s] = Free
    /\ m_mtx' = [m_mtx EXCEPT ![s] = Main]
    /\ it' = [it EXCEPT ![Main] = @ + 1]
    /\ Goto(Main, IF s = N THEN "check" ELSE "lock_all")
    /\ UNCHANGED <<ret, target, hand, queue_vars, m_tasks, m_running, m_state, m_exit,
                   signaled, exit_vars, worker_vars, task_vars>>

\* Mutant: only the states are looked at under the locks.
AllIdle_StatesOnly == \A s \in Sch : m_state[s] = "idle_sleep"

\* and the states and queues with all of them held.
AllIdle == \A s \in Sch : m_state[s] = "idle_sleep" /\ ~ has_tasks(s)

AllIdleCheck ==
    /\ pc[Main] = "check"
    /\ Goto(Main, IF AllIdle THEN "destroy" ELSE "relock")
    /\ m_mtx' = [s \in Sch |-> Free]
    /\ UNCHANGED <<ret, target, hand, it, queue_vars, m_tasks, m_running, m_state, m_exit,
                   signaled, exit_vars, worker_vars, task_vars>>

\* The predicate was false: m_mtx is locked again and m_cv.wait blocks, without
\* another look at m_check_idle.
Relock ==
    /\ pc[Main] = "relock"
    /\ Goto(Main, "cv_wait")
    /\ UNCHANGED <<ret, target, hand, it, queue_vars, shared_vars, exit_vars, worker_vars,
                   task_vars>>

\* Main's wait ends, by a notification or spuriously.
MainWake ==
    /\ pc[Main] = "cv_wait"
    /\ signaled' = [signaled EXCEPT ![Main] = FALSE]
    /\ Goto(Main, "pred")
    /\ UNCHANGED <<ret, target, hand, it, queue_vars, m_tasks, m_mtx, m_running, m_state,
                   m_exit, exit_vars, worker_vars, task_vars>>

\* sch::get().reset(): ~Scheduler of each one, in the order of the vector's
\* destructor, which the standard leaves open: signal_exit and notify,
Destroy ==
    /\ pc[Main] = "destroy"
    /\ \E s \in Sch : /\ ~ m_exit[s]
                      /\ m_exit' = [m_exit EXCEPT ![s] = TRUE]
                      /\ target' = [target EXCEPT ![Main] = s]
                      /\ it' = [it EXCEPT ![Main] = s]
    /\ ret' = [ret EXCEPT ![Main] = "join"]
    /\ Goto(Main, "notify")
    /\ UNCHANGED <<hand, queue_vars, m_tasks, m_mtx, m_running, m_state, signaled, exit_vars,
                   worker_vars, task_vars>>

\* then ~Worker of each of its workers, which joins their threads.
Join ==
    /\ pc[Main] = "join"
    /\ pc[it[Main]] = "exited"
    /\ wstate' = [w \in Worker |-> IF w \in WorkersOf(it[Main]) THEN "exiting" ELSE wstate[w]]
    /\ Goto(Main, IF \A s \in Sch : m_exit[s] THEN "end" ELSE "destroy")
    /\ UNCHANGED <<ret, target, hand, it, queue_vars, shared_vars, exit_vars, wtask, cond,
                   timer, io, awaits, task_vars>>

MainThread ==
    \/ MainAsync \/ CheckIdle \/ AllIdleCount \/ AllIdleTasks \/ AllIdleLock \/ AllIdleCheck
    \/ Relock \/ Destroy \/ Join

MainStep == MainThread \/ MainWake

-----------------------------------------------------------------------------
(* The environment: time and the kernel. *)

\* now() gets closer to the time point a parked worker sleeps until.
Tick(w) ==
    /\ wstate[w] = "waiting"
    /\ \/ timer[w] = "far" /\ timer' = [timer EXCEPT ![w] = "near"]
       \/ timer[w] = "near" /\ timer' = [timer EXCEPT ![w] = "due"]
    /\ UNCHANGED <<thread_vars, queue_vars, shared_vars, exit_vars, wstate, wtask, cond, io,
                   awaits, task_vars>>

\* CFG_idle_spin_threshold passes.
SpinElapses(s) ==
    /\ idle_start[s] = "spinning"
    /\ idle_start' = [idle_start EXCEPT ![s] = "elapsed"]
    /\ UNCHANGED <<thread_vars, m_worker, runnable, idle, waiting, pending_io, yielded,
                   shared_vars, exit_vars, worker_vars, task_vars>>

\* The kernel completes (or fails) a worker's I/O request.
IoCompletes(w) ==
    /\ io[w]
    /\ io' = [io EXCEPT ![w] = FALSE]
    /\ UNCHANGED <<thread_vars, queue_vars, shared_vars, exit_vars, wstate, wtask, cond,
                   timer, awaits, task_vars>>

\* The process has returned from init_ums.
Terminated == pc[Main] = "end" /\ UNCHANGED vars

NotifyStep(th) == MinLoad(th) \/ Enque(th) \/ NotifyLock(th) \/ NotifyFire(th)
SchedulerStep(s) == UserStep(s) \/ ScheduleStep(s) \/ SleepStep(s)
Environment ==
    \/ \E w \in Worker : Tick(w) \/ IoCompletes(w)
    \/ \E s \in Sch : SpinElapses(s)

Next ==
    \/ \E th \in Thread : NotifyStep(th)
    \/ \E s \in Sch : SchedulerStep(s)
    \/ MainStep
    \/ Environment
    \/ Terminated

Spec == Init /\ [][Next]_vars

-----------------------------------------------------------------------------
(* Fairness.  Every thread that can take a step takes one eventually, a     *)
(* mutex that stays free is obtained, a notified or timed-out wait returns,*)
(* time passes and I/O completes.  Spurious wake-ups are possible and never*)
(* owed.                                                                    *)

Notified(s) ==
    /\ signaled[s] \/ (pc[s] = "idle_wait" /\ waiters_near(s))
    /\ Wake(s) \/ WakeInVain(s)

MainNotified == signaled[Main] /\ MainWake

FairScheduler(s) ==
    /\ WF_vars(UserStep(s) \/ ScheduleStep(s) \/ AwakeStep(s) \/ NotifyStep(s))
    /\ WF_vars(Notified(s))
    /\ WF_vars(SpinElapses(s))

FairMain == WF_vars(MainThread \/ NotifyStep(Main)) /\ WF_vars(MainNotified)

FairSpec ==
    /\ Spec
    /\ \A s \in Sch : FairScheduler(s)
    /\ \A w \in Worker : WF_vars(Tick(w)) /\ WF_vars(IoCompletes(w))
    /\ FairMain

-----------------------------------------------------------------------------
(* Properties. *)

ThreadTypes ==
    /\ pc \in [Thread -> Pc]
    /\ ret \in [Thread -> {"run", "reset", "pred", "join", "end"}]
    /\ target \in [Thread -> Sch \cup {Free}]
    /\ hand \in [Thread -> Task \cup {NoTask}]
    /\ it \in [Thread -> Nat \ {0}]

QueueTypes ==
    /\ m_worker \in [Sch -> Worker]
    /\ runnable \in [Sch -> Seq(Worker)]
    /\ idle \in [Sch -> Seq(Worker)]
    /\ waiting \in [Sch -> Seq(Worker)]
    /\ pending_io \in [Sch -> Seq(Worker)]
    /\ yielded \in [Sch -> Worker \cup {NoWorker}]
    /\ idle_start \in [Sch -> SpinState]

SharedTypes ==
    /\ m_tasks \in [Sch -> Seq(Task)]
    /\ m_mtx \in [Sch -> Thread \cup {Free}]
    /\ m_running \in [Sch -> BOOLEAN]
    /\ m_state \in [Sch -> SchedulerState]
    /\ m_exit \in [Sch -> BOOLEAN]
    /\ signaled \in [Thread -> BOOLEAN]
    /\ m_idle_schedulers \in Int
    /\ m_check_idle \in BOOLEAN

WorkerTypes ==
    /\ wstate \in [Worker -> WorkerState]
    /\ wtask \in [Worker -> Task \cup {NoTask}]
    /\ cond \in [Worker -> BOOLEAN]
    /\ timer \in [Worker -> TimerState]
    /\ io \in [Worker -> BOOLEAN]
    /\ awaits \in [Worker -> Task \cup {NoTask}]

TaskTypes ==
    /\ tstate \in [Task -> {"absent", "init", "done"}]
    /\ spawner \in [Task -> Task \cup {NoTask}]
    /\ ops \in [Task -> 0..MaxOps]

\* Every variable of the schedulers, the workers and the tasks has its type; in
\* particular the queues hold workers only, never a null pointer.
TypeOK == ThreadTypes /\ QueueTypes /\ SharedTypes /\ WorkerTypes /\ TaskTypes

\* The counter that decides whether Main is woken and whether all_idle goes on:
\* signal_idle and signal_running keep it equal to the number of schedulers in
\* idle_sleep.
IdleCountMatches ==
    m_idle_schedulers = Cardinality({s \in Sch : m_state[s] = "idle_sleep"})

\* Main has returned from wait_exit.
PastWaitExit ==
    \/ pc[Main] \in {"destroy", "join", "end"}
    \/ pc[Main] \in NotifyPc /\ ret[Main] = "join"

\* wait_exit returns only when every task that was ever started is done and
\* no scheduler has work left: all_idle is not fooled by a task that is on its
\* way to a sleeping scheduler ("a tricky case that we must handle").
ExitOnlyWhenDone ==
    PastWaitExit => /\ \A t \in Task : tstate[t] # "init"
                    /\ \A s \in Sch : ~ has_work(s)

\* The assertion in should_exit: a scheduler told to exit has no work.
NoWorkAtExit ==
    \A s \in Sch : pc[s] = "exit_check" /\ m_exit[s] => ~ has_work(s)

\* A thread that will still set m_running of s and notify it, or one that has
\* set it and will notify it.
WillNotify(s) ==
    \E th \in Thread : target[th] = s /\ (pc[th] = "notify" \/ (pc[th] = "fire" /\ m_running[s]))

\* sleep never blocks past an event: a scheduler blocked on m_cv with something
\* to do (a task it has a worker for, a waiting worker whose condition is set,
\* the exit its destructor asks for) has been woken or is about to be.
NoLostWakeup ==
    \A s \in Sch :
       /\ pc[s] = "idle_sleep" /\ (has_tasks(s) \/ m_exit[s]) => signaled[s] \/ WillNotify(s)
       /\ pc[s] = "idle_wait" /\ ((has_tasks(s) /\ idle[s] # <<>>) \/ waiters_cond(s))
             => (signaled[s] /\ m_running[s]) \/ WillNotify(s)

\* The places a task that is not done can be: in a thread's hands between
\* async and enque, at a position of a queue, on a worker.
PlacesOf(t) ==
    {<<"hand", th>> : th \in {x \in Thread : hand[x] = t}}
    \cup (UNION {{<<"queue", s, i>> : i \in {j \in 1..Len(m_tasks[s]) : m_tasks[s][j] = t}} :
                 s \in Sch})
    \cup {<<"worker", w>> : w \in {x \in Worker : wtask[x] = t}}

\* Stealing, dequeuing and enqueuing neither lose nor duplicate a task: one
\* that is started and not done is in exactly one place.
TaskInOnePlace ==
    \A t \in Task :
       /\ tstate[t] = "absent" => PlacesOf(t) = {}
       /\ tstate[t] = "init" => Cardinality(PlacesOf(t)) = 1
       /\ tstate[t] = "done" => \A p \in PlacesOf(t) : p[1] = "worker"

\* The running worker of s executes a task: it is not parked in any queue.
OnTask(s) == pc[s] \in {"run", "wait_check", "recheck", "done", "reset"} \cup AsyncPc \cup NotifyPc

\* The workers of s in worker state st.
InWorkerState(s, st) == {w \in WorkersOf(s) : wstate[w] = st}

\* Every worker of a scheduler is in exactly one of its queues, the one its
\* state names, or is the one that runs.
WorkerInOnePlace ==
    \A s \in Sch : pc[s] # "exited" =>
       /\ Enumerates(idle[s], InWorkerState(s, "idle"))
       /\ Enumerates(runnable[s], InWorkerState(s, "runnable"))
       /\ Enumerates(waiting[s], InWorkerState(s, "waiting"))
       /\ Enumerates(pending_io[s], InWorkerState(s, "pending_io"))
       /\ InWorkerState(s, "yielded") = {yielded[s]} \ {NoWorker}
       /\ InWorkerState(s, "running") = IF OnTask(s) THEN {m_worker[s]} ELSE {}

\* A worker gets a task only once: a task handed to a worker is not done and
\* was on no other worker.
NoTaskRunsTwice ==
    [][\A w \in Worker, t \in Task :
          wtask'[w] = t /\ wtask[w] # t
             => tstate[t] = "init" /\ \A v \in Worker : wtask[v] # t]_vars

\* Every task that is started is done eventually.
TasksComplete == \A t \in Task : (tstate[t] = "init") ~> (tstate[t] = "done")

\* Work stealing: no task stays queued for ever on a busy scheduler while
\* another one, all of whose workers are idle, sleeps.
NoTaskStranded ==
    \A k \in Sch : []<>~(has_tasks(k) /\ \E s \in Sch : pc[s] = "idle_sleep")

\* init_ums returns (user code as modelled always finishes).
InitUmsReturns == <>(pc[Main] = "end")
=============================================================================

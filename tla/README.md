# TLA+ specifications of ums

`ums` is a user-mode, cooperative scheduling library: an application calls
`init_ums(main, options)`, which creates one *scheduler* per CPU with a fixed pool of *worker*
threads each, runs `main` as the first task and returns when all tasks are done. Tasks are
started with `async`, wait for each other, yield, sleep, do I/O and use the library's own
mutexes and condition variables instead of those of `std`.

This directory holds TLA+ models of that code, the TLC configurations that check them on small
instances, and TLAPS proofs of their main safety properties. `PROJECT.json` is the index:
which definition models which lines, which run checks which property, which mutant shows that
the property can fail, which hazard of the code each property is for.

## Inventory

| Component | State it keeps | Operations | Hard behaviour |
|---|---|---|---|
| `Scheduler` (scheduler.cpp) | queues of workers by state (runnable, idle, waiting, pending I/O, the yielded worker), the current worker, the task queue, `m_state`, `m_running`, `m_exit`, `m_mtx`/`m_cv` | `schedule` (io, waiting, idle, yielded, steal), `sleep`, `notify`, `enqueue_task`, `should_exit`, `exit` | tasks, conditions and the exit arrive from other threads while it decides to sleep; stealing races with the owner |
| `Schedulers` (scheduler.cpp) | `m_idle_schedulers`, `m_check_idle`, `m_mtx`/`m_cv` | `min_load_scheduler`, `signal_idle`, `signal_running`, `all_idle`, `wait_exit` | the test that everything is idle is spread over many steps |
| `Worker` (worker.cpp) | state, `m_running`, `m_cv`, wait info (condition, time point), task, I/O request | constructor, destructor, `yield`, `sleep_until`, `wait_cond_or_sleep`, `read_file`/`write_file`, `notify_waiter`, `main_loop` | threads of one scheduler hand control to each other over unprotected data |
| `TaskBase`, `Task`, `Tasks`, `async` (task.hpp, async.hpp) | task state, its Mutex and Condition_variable, the queue | `async`, `wait`, `get`, `notify`, `enque`, `deque` | a waiter and the end of the task race; a result is got once; the storage outlives both sides |
| `Spinlock`, `Plain_mutex`, `Mutex`, `Recursive_mutex` (spinlock.cpp, mutex.cpp) | `m_flag`, `m_tid`, `m_locks_count` | `lock`, `try_lock`, `unlock` | `m_tid` is read without the lock; an owner may be queued behind a spinning worker |
| `Condition_variable`, `Condition_variable_any` | waiters list and its spinlock; a second Mutex | `wait`, `wait_until`, `notify_one`, `notify_all`, destructor | a notified waiter stays in the list until it runs; two locks are exchanged around a wait |
| `Timed_mutex`, `Recursive_timed_mutex`, `Shared_mutex`, `Shared_timed_mutex` | a Mutex, condition variables, counts | timed and shared locking | timeouts race with notifications |
| I/O (io.cpp, file.hpp, os_specific.cpp) | state of a request, a ring per thread, the file handle | open, submit, update, close | the completion is polled by other threads than the one that submitted; the kernel may refuse, fail or do a part |
| start-up (options.hpp, config.hpp, scheduler.cpp, os_specific.cpp) | options, CPU masks, the affinity of each thread | clamp, read the mask, create schedulers, bind threads | masks of unusual systems |
| demo, tests, benchmarks, build | – | – | – |

How they interact: every thread that enqueues a task or completes something another worker
waits for calls `Scheduler::notify` of the scheduler concerned; schedulers call `signal_idle`
and `signal_running`; the main thread waits in `wait_exit`, then destroys the schedulers, whose
destructors wake and join the worker threads. A worker that yields, waits, sleeps or does I/O
runs `schedule()` on its own thread and hands control to the worker chosen.


What makes each part correct, and what the runs and proofs below are about:

* schedulers: no event is missed by a scheduler that goes to sleep; a worker is in the one
  queue its state names; a task is never lost, duplicated or run twice; the idle count is exact;
  `wait_exit` returns only when everything is done, and does return;
* worker threads: one at a time, the one that was chosen; no hand-over, start-up or shutdown
  notification is lost;
* mutexes: they implement an abstract lock; somebody who waits gets it; no notification is
  wasted, whatever times out in between;
* tasks and condition variables: a result or an exception is got once and never before it is
  there; whoever waits for an item or for a task learns of it; what a waiter still has to touch
  after its notification outlives it;
* start-up and I/O: one scheduler on each available CPU, its threads on that CPU only; a
  completion belongs to the request it is found for; no call returns while the kernel uses its
  buffer, and every request the kernel took returns.

## Modules

| Module | Models | Uses |
|---|---|---|
| `Lists`, `ListProofs` | `push_front`, `push_back`, `pop_front` and `erase` of the lists, and lemmas about what they do to the set that is listed | – |
| `Schedulers` | all schedulers, their workers' states and queues, tasks, and the main thread from `async(main)` to the end of `init_ums` | `Lists` |
| `MCSchedulers` | tasks as model values, symmetry of the tasks other than main | `Schedulers` |
| `SchedulersProofs` | proofs | `Schedulers`, `ListProofs` |
| `WorkerSwitch` | the threads of one scheduler: `sync_init`, `context_switch`, constructor, destructor | – |
| `WorkerSwitchProofs` | proofs | `WorkerSwitch` |
| `Lock` | abstract lock with re-entry | – |
| `Mutex`, `MCMutex`, `MutexProofs` | `Mutex` and `Recursive_mutex` on `Plain_mutex` and `Spinlock` | `Lock` |
| `ConditionVariable` | `Condition_variable` step by step | `Lists` |
| `TimedMutex`, `MCTimedMutex`, `TimedMutexProofs` | `Timed_mutex`, `Recursive_timed_mutex` | `ConditionVariable`, `Lock` |
| `SharedLock` | abstract shared lock | – |
| `SharedMutex`, `MCSharedMutex`, `SharedMutexProofs` | `Shared_mutex`, `Shared_timed_mutex` | `ConditionVariable`, `SharedLock` |
| `TaskProgram`, `MCTaskProgram`, `TaskProgramProofs` | `asyncs`, `Task`, `TaskBase`, the end of `main_loop`, `Condition_variable_any`, user code with producers and consumers | `ConditionVariable` |
| `Startup` | `Options`, the constructor of `Schedulers`, CPU masks, `bind_thread` | – |
| `Io`, `MCIo` | `File_handle`, `IO_Request`, `read_file`/`write_file`, io_uring and overlapped I/O | `Startup` |
| `IoProofs` | proofs about `Startup` and `Io` | `Io` |

### How the models correspond to the code

**Schedulers.** A scheduler is one thread of control, `pc[s]`, the thread of its current worker
`m_worker[s]`; that the code keeps it so is what `WorkerSwitch` is about. The queues, `m_tasks`,
`m_mtx`, `m_running`, `m_state`, `m_exit`, `m_idle_schedulers` and `m_check_idle` have their
names from the code. A step is one access to state another thread can see, with the
thread-local work around it. `schedule()` is the sequence `ScheduleIo`, `ScheduleWaiting`,
`ScheduleIdle`, `ScheduleYielded`, `StealWork`/`Rob`, `PrepareExec`; `sleep()` is `SpinOrPoll`,
`SleepLock`, then `EnterWait` or `SignalIdle` … `EnterSleep`, and `Wake`/`WakeInVain` for every
way a wait can end, spurious ones included; `all_idle` is four actions because other threads run
between its three looks. User code is the environment: a running task may start a task that is
still absent, wait for one it started, yield, sleep, do I/O or end. What is abstracted:

* time is a distance: a time point is further away than `CFG_idle_sleep_threshold`, near, or
  reached, and `Tick` moves it; the spin threshold likewise;
* a section under a `Spinlock` is one step, and so is taking a task's `Mutex` (this is what
  `Mutex` is shown to implement);
* the checks `sleep` makes under `m_mtx` are sampled in one step: every other thread that can
  change their outcome takes `m_mtx` afterwards in `notify`;
* a task is awaited by the task that started it (results and exceptions are in `TaskProgram`);
  an I/O request is pending until `IoCompletes` (what happens to it is in `Io`);
* the constructors are the initial state (they are in `Startup` and `WorkerSwitch`); Tracy
  messages are left out.

**WorkerSwitch.** `wpc[w]` is the thread of worker `w`, `opc` the thread that constructs and
destroys the scheduler. `cv[w]` is the set of threads blocked on the condition variable of
worker `w`; a wait can end spuriously at any time. What `schedule()` decides is a choice of any
parked worker.

**Mutex.** `kind` says which of the two classes it is; every run and proof is about both. One
action per access to the atomics `m_flag` and `m_tid`; the run queues of the
schedulers decide who can take a step, so that spinning in front of an owner that waits for the
CPU is a behaviour of the model.

**ConditionVariable, TimedMutex, SharedMutex.** `wait_internal` is five steps: enter the list,
clear `m_cond` and release the mutex, park, lock again, leave the list. A notified waiter stays
in the list until the last of them, as in the code. The module has a set of condition variables
and the Mutex each goes with; `kind` again tells the plain from the recursive timed mutex. A time point is absent, ahead or reached;
the calls with `lock` have none. `m_locks_count` stands for `m_locked` of `Timed_mutex`;
`m_state` of the shared mutexes keeps its packed form, the readers below the write bit, with
`ReadersBits` as the limit of readers.

**TaskProgram.** The root starts the tasks of `Order`, waits for each of them (`asyncs<true>`),
calls `get` once or twice on each and leaves the frame with the mutex, the condition variable and
the queue. Every task has a Mutex and a Condition_variable of its own, those of its `TaskBase`;
the user's is a `Condition_variable` or a `Condition_variable_any`, by the variable `cv`. The
user code has the shape of the tests of condition variables in `test/test_mutex.cpp`, with two
consumers that wait with or without a time point. `Invoked`, `SetDone` and `NotifyDone` are the end
of `main_loop`: the done bit is set under the mutex and the notification follows without it.

**Startup.** A mask is the set of its bits. `ReadMask`, `NextCpu` and `StartWorker` are the
constructor of `Schedulers` with the threads it starts. `1U << i` beyond the width of
`unsigned int` is undefined: `wraps` is what the build makes of it. On Linux a failed
`sched_getaffinity` gives the mask −1, and a failed `pthread_setaffinity_np` (which returns its
error, so that the comparison with −1 never sees it) leaves the thread where its creator was.

**Io.** One action per step of a request: `Submit`, `Sync` (to the pending queue, if it is
pending), `KernelDone`, `Update` (by any worker of the scheduler, one entry of the queue at a
time), `Resume`. `sq`, `inflight` and `cq` are the entry that was not taken, the kernel's work and
the completion; for Windows the last one is the result in the `OVERLAPPED`. Assertions are
invariants, as the release build that the repository's README describes drops them.

## Runs

| Run | Instance | What it shows |
|---|---|---|
| `sched_tasks` | 2 schedulers × 2 workers, 3 tasks | no task lost or run twice; `wait_exit` and `should_exit` are not fooled |
| `sched_ops` | 2 × 2, 2 tasks, yield, wait and I/O, idle spinning | types, queues, idle count, no lost wake-up (tasks, conditions, the exit) |
| `sched_live` | 2 × 2, 2 tasks, sleep and wait, fair | every task that is started completes |
| `sched_exit_hang` | 2 × 1, 2 tasks, fair | **finding**: `init_ums` may never return |
| `sched_stranded` | 2 × 1, 3 tasks, fair | **finding**: a task may stay queued while a scheduler sleeps |
| `worker_switch` | 4 workers | one at a time, the chosen one, no lost notification from construction to join |
| `mutex` | both kinds, 3 workers on 2 schedulers, limit 3 | mutual exclusion, refinement of `Lock`, progress |
| `timed_mutex` | both kinds, 3 workers, 5 calls, limit 3 | refinement of `Lock` with timeouts and re-entry, the notification is never wasted, calls return |
| `shared_mutex` | 3 workers, 2 calls each, at most 2 readers | refinement of `SharedLock`, packed state, no lost notification, writers first; no call is stuck |
| `task_program` | 1 producer of 2 items, 2 consumers, either condition variable, last item announced with `notify_all` | each result or exception is got once; nobody sleeps beside a task that is done; the frame outlives its users; the program ends |
| `cv_two_notifies` | the same, last item announced with `notify_one` | **finding**: a consumer may wait for ever beside a full queue |
| `io` | up to 3 CPUs, an `unsigned int` of 2 bits, every affinity, options below, in and above their range; 3 requests by 2 threads | schedulers and threads on the right CPUs; completions belong to their requests; buffers are safe; requests return |

Bounds. `N`, `K`, `Task` and `MaxOps` bound the schedulers, workers, tasks and the yields, sleeps
and I/Os of a task; `MaxCalls` the calls of all users of a timed mutex or of each user of a shared one; `MaxRec` and `ReadersBits` replace
the limits 2^32 − 1 and 2^31 − 1 by ones that are reached; `MaxTry` the 256 attempts of the spin
loop. Two schedulers are the least where a task can be stolen, arrive at a sleeper and be
waited for across schedulers (a task that moves between two schedulers while `all_idle` looks at a
third one is beyond the runs, and covered by the theorem `ExitIsSafe`); two workers per scheduler are the least where one can wait while
another runs. Three users of a mutex are a holder, a waiter that is notified and one that must
not be forgotten; with at most two readers, two can read together and the third waits for the
limit. In `shared_mutex` TLC's deadlock check says that no call is stuck: the number of calls is
bounded, so a state without a step other than `Terminated` would be a call that never returns.
(A limit of two and four workers would show that the one notification at the limit does not
reach a second waiting reader; with 2^31 − 1 readers that is out of reach for the real program.)
In `task_program` two consumers are the least where a notification can reach the wrong one, and
two items the least where one can be announced while the other is not yet taken; the second of
them makes the difference between the two runs. In `io` two bits and three CPUs stand for 32 and
64: there are systems within the width, beyond it, and with a gap in the CPU numbers. Three
requests by two threads are the least where a thread's second request overlaps with another
thread's; deadlock is not checked there because user code may stop doing I/O.
The mutants in `PROJECT.json` show that each property fails for a plausible
change of the code within these bounds.

Fairness. A thread that can take a step takes one (they are OS threads), a mutex that stays free
is obtained, a wait that was notified or has timed out returns, time passes, and the kernel
completes the I/O it took (a refused submission is never completed).
Spurious wake-ups are possible and never owed. Users of a mutex unlock it, and in `Mutex` a
running task eventually yields, as cooperative tasks must. In the timed and shared mutexes a
user makes a bounded number of calls: the runs show that no call is stuck, not that a user who
competes with an endless stream of others gets its turn, which the code does not promise.

## Findings

1. `sched_exit_hang`. The predicate of `wait_exit` clears `m_check_idle`, releases `m_mtx` and
   calls `all_idle`. If that finds a scheduler awake, the scheduler may go idle, set
   `m_check_idle` and notify before the main thread blocks again. The notification reaches
   nobody, `wait` blocks after a false predicate without a second look at the flag, and with
   all schedulers asleep nobody notifies again: `init_ums` never returns.
2. `sched_stranded`. Only a scheduler that is awake steals, and `enqueue_task` wakes only the
   scheduler it chose. A task queued on a scheduler whose workers all wait is not run, although
   another scheduler is idle; if one of the workers waits for that task, neither ever is.

3. `cv_two_notifies`. `notify_one` notifies the front of the waiters list, and a notified worker
   leaves the list only when it has run, locked the mutex and removed itself. Two `notify_one`
   in a row reach the same worker: with two consumers asleep and two items announced one by one,
   one of them sleeps on beside an item. `std::condition_variable`, which the class stands in for,
   unblocks a thread that is still blocked. The library's own mutexes are not affected: whoever
   is woken passes the wake-up on (`timed_mutex`, `shared_mutex`).

Limits seen while modelling, for which there is no run of their own: beyond 32 CPUs, or with a gap
in the CPU numbers, Linux schedulers are missing or on CPUs outside the affinity (`Supported` in
`Startup` says what is relied on); a submission that io_uring refuses leaves a release build's
worker pending for ever (`IoReturns` excludes it); a failed or partial transfer is not reported to
the caller of `cos_read_file`; a second worker that waits for the same `Task` is never woken;
`Mutex::try_lock` does not set `m_tid`, so that a lock by its holder is not diagnosed.

`TasksComplete` in `sched_live` holds because there are as many workers per scheduler as tasks.

## Proofs

Every invariant and every action property that a passing run checks, and every refinement, is
also a theorem, for all values of the constants that the named assumptions allow: any number of
schedulers, workers per scheduler and tasks; any number of users, calls and re-entries of a
mutex (a recursion limit above 1, at least one attempt of the spin loop); any set of I/O threads
and of CPUs; placeholders such as `NoTask` and `NoWorker` that are no task and no worker. In
`TaskProgram` it is any sequence of one or more distinct tasks, none of them the root, with names
that are not those of the program's own mutexes and condition variables: `asyncs` takes at least
one function and makes a `TaskBase` with its own mutex for each.

All of them follow one pattern: `Init => Inv`, `Inv /\ [Next]_vars => Inv'` with a lemma per
part of the invariant and a step per action, and `Inv => Property`. What makes `Inv` inductive
is the content.

**`SchedulersProofs`, first part.**

* `TypeCorrect` (`TypeOK`). `TInv` adds what the typing of a step depends on: which threads can
  be at which control points, that a thread that enqueues or notifies has a task and a target,
  that the cursor of a scheduler's loop is a scheduler.
* `SInvHolds`, `IdleCountCorrect` (`IdleCountMatches`). Between the change of `m_state` and that
  of the counter the two agree only because of where the thread is. `SInv` says who holds each
  `m_mtx` (`LockInv`), when `m_state` is `idle_sleep` (`AsleepInv`) and that the count is the
  number of schedulers at those control points (`CountInv`), all in terms of `pc`. Most actions
  are `Plain`: they touch none of it.

**`SchedulersProofs`, second part.** `XInv` says where everything is, on top of `SInv`.

* `WorkersPlaced` (`WorkerInOnePlace`). `WorkersInv` ties each queue to the set of the workers
  whose state names it, through `Enumerates`: the queue lists that set, each member once. The
  lemmas of `ListProofs` say what each operation of a list does to the set. A yielded worker is
  the one exception, and only until its turn in the same pass; a scheduler that decided to sleep
  without a timeout has idle workers only.
* `TasksPlaced`, `EachTaskRunsOnce` (`TaskInOnePlace`, `NoTaskRunsTwice`). A task that is started
  and not done is in one of the places: a hand, a position of a queue, a worker. What is in a
  hand or a queue is not done (`TasksInv`), and an idle worker has no task (`BusyWorkers`), so
  stealing and scheduling move a task to where there is none.
* `NoWakeupIsLost` (`NoLostWakeup`). What `sleep` looks at under `m_mtx` can be changed by others
  only in a step that is followed by `notify` of this scheduler, and `notify` needs that `m_mtx`
  too: a thread at its `notify` stays there until the wait has released the mutex. `WakeInv` says
  this for the step between the check and the wait. The exit is such an event as well: `~Scheduler`
  is the only place that sets `m_exit` (`OnlyDestroySetsExit`), and it notifies next, so that a
  scheduler that sleeps without a timeout beside its `m_exit` has been woken or will be. A
  destructor that skips the `notify` violates the invariant in `sched_ops`.
* `ExitIsSafe`, `ExitHasNoWork` (`ExitOnlyWhenDone`, `NoWorkAtExit`). `all_idle` reads the count
  and the queues without a lock, then locks all schedulers and looks at each state and queue
  again. When it succeeds it holds every `m_mtx`, every scheduler is in `idle_sleep` and no queue
  has a task; a scheduler at such a control point has nothing in its hand and idle workers only
  (`WorkersInv`), and idle workers have no task (`BusyWorkers`). So no place is left for a task that
  is not done, and nobody to start another one. What the first, unlocked looks saw does not matter
  to the proof, and the number of schedulers neither: it covers a task that moves between two
  schedulers while a third one is looked at, for which the runs are too small.

**`WorkerSwitchProofs`**: `MutualExclusion` and `ChosenRuns`. Control is a token: it is either with
the thread that runs or on its way to the worker whose `m_running` is set, and never both,
through start-up and shutdown.

**`MutexProofs`**: `Exclusive`, `TidIsOwner`, `Refinement`. `IInv` ties `m_flag`, `m_tid` and the
count to the one worker on the path from a successful exchange to the release; the refinement
maps each step to a step of `Lock` or a stutter. `kind` is a variable, so one proof is about both
classes.

**`TimedMutexProofs`**: `TypesKept`, `NotifyIsNotLost` (`NoLostNotify`), `Refinement`
(`ImplementsLock`). `m_mtx` is held by the call that is between its test and the end of the wait
(`MtxInv`), the waiters list enumerates those who are between their entry and their exit
(`ListInv`), the counted locks are one worker's (`OwnerInv`). One `notify_one` per unlock is enough
because whoever is at the front of the list of a free mutex has released `m_mtx` (`BlockedInv`):
it is parked, and now notified, or already on its way to the test, and who tests a free mutex
takes it. So a waiter that times out does not use up a notification of another one.

**`SharedMutexProofs`**: `TypesKept`, `WordIsTrue` (`StateMatches`), `WritersGoFirst`
(`WriterFirst`), `Refinement` (`ImplementsSharedLock`), `NotifyIsNotLost` (`NoLostNotify`). `WordInv`
says whose the readers of the packed word are and that the write bit is one writer's, inside or at
the second gate. Therefore the second gate has at most one waiter, the head of its list, and the
last reader's `notify_one` reaches it; the bit is cleared only with a `notify_all` of the first gate
pending. `NotifyIsNotLost` has the hypothesis `FewWorkers`: all workers may be readers at once.
`config.hpp` allows 256 workers per scheduler, the limit of readers is 2^31 − 1. Without it the
property is false: with a limit of two readers and four workers, two of them waiting for the
limit, one notification reaches one of them, and the other sleeps on below the limit.

**`TaskProgramProofs`**: `TypesKept`, `ResultsAreRight` (`GetsRight`), `FrameIsSafe`
(`FrameOutlivesTasks`), `RootIsNotified` (`NoLostDone`). `TaskInv` says that the done bit comes after the result and after the last
step of a task in the frame, `GetInv` that a result is got when the taken bit is set and only
then, `WaitInv` that the tasks the root went past are done. At the end that is all of them:
nobody is at a control point where a Mutex is held (`MtxInv`) or where a worker is on a list
(`ListInv`), so the frame's mutexes are free and its list is empty, whichever condition variable
it is and whichever waits timed out. For `NoLostDone`, `WakeInv` adds that the root holds the
task's `m_mtx` from its test to the end of the wait but for the time it is parked, so that the done
bit cannot be set in between, and `ListInv` with `TaskInv` that nobody else is on that task's list:
the one `notify_one` that follows the bit finds the root.

**`IoProofs`**

* `SchedulersStarted`, `ThreadsStayBound` (`OneSchedulerPerCpu`, `ThreadsBound`). `CpusInv` says
  which CPUs the loop of the constructor has gone past and what it has made of them; `BoundInv`
  where each of the threads started by then is.
* `TypeCorrect`, `Asserted`, `Safe` (`TypeOK`, `AssertsHold`, `BufferSafe`). What the assertions
  look at is not inductive: a completion found later must be known to be the request's while the
  kernel still works on it. `RequestInv` says that between submission and `io_uring_cqe_seen` a
  thread has exactly one of a refused entry, work in the kernel and a completion with the
  request's id, and none of them elsewhere; the threads' requests are independent, whatever
  start-up has created.

Only model-checked is what the prover does not reach, liveness under fairness: `TasksComplete`,
`HandOverCompletes`, `ConstructorReturns`, `DestructorReturns`, `LockProgress`, `CallsReturn`,
`ProgramEnds`, `IoReturns`, and that no call of a shared mutex is stuck (TLC's deadlock check). The
three findings are violations TLC found; there is nothing to prove about them.

## Not modelled

The halves of a Windows offset and the contents of buffers; `io_uring_queue_init`, whose result
the code does not look at; `Task::wait` and `get` on an empty `Task`, which throw at once;
`notify_all_at_thread_exit`, which is only declared; `Spinlock`'s back-off; memory orders weaker
than sequential consistency; the demo, tests, benchmarks and build.

## Plan

Done: the scheduler core, the hand-over between worker threads, all mutexes, condition variables
and tasks, start-up, I/O; theorems for all safety properties the runs check and for the three
refinements.

Next: the safety part of more liveness properties, stated as invariants: in `Mutex`, that a
worker that spins waits for a lock that somebody holds; in `WorkerSwitch`, that the worker that was
chosen has been notified whenever it is blocked.

----------------------------- MODULE TaskProgram -----------------------------
(***************************************************************************)
(* A program in the shape of the repository's tests of condition           *)
(* variables.  A root task starts producers and consumers with             *)
(* asyncs<true>; they share a queue, guarded by a Mutex and a              *)
(* Condition_variable or Condition_variable_any in the root's frame.  The  *)
(* root waits for the tasks, gets their results and leaves the frame.      *)
(*                                                                         *)
(* Every TaskBase has a Mutex and a Condition_variable of its own, both    *)
(* named like the task; a task runs on the worker of its name (which       *)
(* worker and when is the subject of Schedulers).                          *)
(***************************************************************************)
EXTENDS ConditionVariable

CONSTANTS
    Root,                    \* the worker of the root task
    Order,                   \* the tasks in the order asyncs starts them
    Producer,                \* those that fill the queue; the others take one item each
    MaxItems,                \* bound: items of one producer
    LastNotify,              \* the call after a producer's last item: notify_one or notify_all
    Throws                   \* the tasks whose function ends with an exception

Task == {Order[i] : i \in 1..Len(Order)}
Consumer == Task \ Producer

ASSUME ProgramAssumption ==
    /\ Order \in Seq(Worker) /\ Order # <<>>
    /\ \A i, j \in 1..Len(Order) : Order[i] = Order[j] => i = j
    /\ Worker = Task \cup {Root} /\ Root \notin Task /\ Producer \subseteq Task /\ Throws \subseteq Task
    /\ Task \cap {"cv", "cv_any", "mutex", "m_mtx"} = {}
    /\ Cv = Task \cup {"cv", "cv_any"} /\ Mtx = Task \cup {"mutex", "m_mtx"}
    /\ MtxOf = [c \in Cv |-> IF c = "cv" THEN "mutex" ELSE IF c = "cv_any" THEN "m_mtx" ELSE c]
    /\ MaxItems \in Nat \ {0} /\ LastNotify \in {"notify_one", "notify_all"}

VARIABLES
    cv,                      \* which of the two classes the program uses
    items,                   \* length of the queue
    todo,                    \* items each producer has still to make
    phase, at,               \* what the root does, and with which task of Order
    m_state,                 \* TaskBase: the bits done and taken
    result,                  \* TaskResult's storage or m_exception
    m_task,                  \* Worker::m_task: the worker's reference to its task
    got                      \* what the root's calls of get gave it, per task

task_vars == <<m_state, result, m_task, got>>
root_vars == <<cv, phase, at>>
queue_vars == <<items, todo>>
vars == <<cv_vars, task_vars, root_vars, queue_vars>>

Init ==
    /\ CvInit
    /\ cv \in {"cv", "cv_any"}
    /\ items = 0 /\ todo = [p \in Producer |-> MaxItems]
    /\ phase = "asyncs" /\ at = 1
    /\ m_state = [t \in Task |-> {}]
    /\ result = [t \in Task |-> "none"]
    /\ m_task = [t \in Task |-> FALSE]
    /\ got = [t \in Task |-> <<>>]

-----------------------------------------------------------------------------
(* The root: asyncs, Task::wait, Task::get. *)

\* The root is done with one task in phase ph and turns to the next one, or to the
\* first one in the next phase.
Advance(ph, next) ==
    IF at < Len(Order) THEN at' = at + 1 /\ phase' = ph ELSE at' = 1 /\ phase' = next

\* async: the task is enqueued, and a worker picks it up.
Async ==
    /\ phase = "asyncs"
    /\ pc' = [pc EXCEPT ![Order[at]] = "begin"]
    /\ m_task' = [m_task EXCEPT ![Order[at]] = TRUE]
    /\ Advance("asyncs", "wait")
    /\ UNCHANGED <<m_mtx, waiters, on, cond, timer, cv, queue_vars, m_state, result, got>>

\* Mutant: prepare_get does not look whether the result was taken.
StartGet_Again ==
    /\ phase = "get" /\ pc[Root] = "user"
    /\ Goto(Root, "t_lock")
    /\ UNCHANGED <<m_mtx, waiters, on, cond, timer, root_vars, queue_vars, task_vars>>

\* get: prepare_get looks, without the lock, whether the result was taken.
StartGet ==
    /\ phase = "get" /\ pc[Root] = "user"
    /\ IF "taken" \in m_state[Order[at]]
          THEN /\ got' = [got EXCEPT ![Order[at]] = Append(@, "logic_error")]
               /\ Advance("get", "leave")
               /\ UNCHANGED pc
          ELSE Goto(Root, "t_lock") /\ UNCHANGED <<got, phase, at>>
    /\ UNCHANGED <<m_mtx, waiters, on, cond, timer, cv, queue_vars, m_state, result, m_task>>

\* wait of TaskBase, by asyncs<true> or by prepare_get: m_mtx is locked,
StartWait ==
    /\ \/ phase = "wait" /\ pc[Root] = "user"
       \/ pc[Root] = "t_lock"
    /\ Acquire(Root, Order[at])
    /\ Goto(Root, "t_test")
    /\ UNCHANGED <<waiters, on, cond, timer, root_vars, queue_vars, task_vars>>

\* Mutant: an untested wait, as if every wake-up meant that the task is done.
TestDone_Once ==
    /\ pc[Root] = "t_test"
    /\ Release(Order[at])
    /\ IF phase = "wait" THEN Goto(Root, "user") /\ Advance("wait", "get")
                         ELSE Goto(Root, "t_take") /\ UNCHANGED <<phase, at>>
    /\ UNCHANGED <<on, waiters, cond, timer, cv, queue_vars, task_vars>>

\* and is_state_done is the predicate of m_cv.wait.
TestDone ==
    /\ pc[Root] = "t_test"
    /\ IF "done" \in m_state[Order[at]]
          THEN /\ Release(Order[at])
               /\ IF phase = "wait" THEN Goto(Root, "user") /\ Advance("wait", "get")
                                    ELSE Goto(Root, "t_take") /\ UNCHANGED <<phase, at>>
               /\ UNCHANGED on
          ELSE Wait(Root, Order[at]) /\ UNCHANGED <<m_mtx, phase, at>>
    /\ UNCHANGED <<waiters, cond, timer, cv, queue_vars, task_vars>>

\* The end of get: the taken bit, set without the lock, and the exception or the
\* result.  The root goes on, or tries to get the result once more.
Take ==
    /\ pc[Root] = "t_take"
    /\ m_state' = [m_state EXCEPT ![Order[at]] = @ \cup {"taken"}]
    /\ got' = [got EXCEPT ![Order[at]] = Append(@, result[Order[at]])]
    /\ Goto(Root, "user")
    /\ Advance("get", "leave") \/ UNCHANGED <<phase, at>>
    /\ UNCHANGED <<m_mtx, waiters, on, cond, timer, cv, queue_vars, result, m_task>>

\* The root's frame ends: ~Condition_variable notifies all, the Tasks go.
Leave ==
    /\ phase = "leave"
    /\ NotifyAll(cv)
    /\ phase' = "over"
    /\ UNCHANGED <<pc, m_mtx, waiters, on, timer, cv, at, queue_vars, task_vars>>

-----------------------------------------------------------------------------
(* The tasks' functions. *)

\* A producer's critical section.  notify_* of Condition_variable_any comes with
\* one of its own.
Put(p) ==
    /\ p \in Producer /\ pc[p] = "begin" /\ Free("mutex")
    /\ items' = items + 1 /\ todo' = [todo EXCEPT ![p] = @ - 1]
    /\ Goto(p, IF cv = "cv_any" THEN "any_notify" ELSE "notify")
    /\ UNCHANGED <<m_mtx, waiters, on, cond, timer, root_vars, task_vars>>

\* Mutant: notify_* of Condition_variable_any does not lock its Mutex.
AnyNotify_Unlocked(p) ==
    /\ pc[p] = "any_notify"
    /\ Goto(p, "notify")
    /\ UNCHANGED <<m_mtx, waiters, on, cond, timer, root_vars, queue_vars, task_vars>>

\* Condition_variable_any::notify_one and notify_all wait until nobody is between
\* its test and its entry in the waiters list.
AnyNotify(p) ==
    /\ pc[p] = "any_notify" /\ Free("m_mtx")
    /\ Goto(p, "notify")
    /\ UNCHANGED <<m_mtx, waiters, on, cond, timer, root_vars, queue_vars, task_vars>>

\* The producer notifies, after its last item with LastNotify.
Notify(p) ==
    /\ pc[p] = "notify"
    /\ IF todo[p] = 0 /\ LastNotify = "notify_all" THEN NotifyAll(cv) ELSE NotifyOne(cv)
    /\ Goto(p, IF todo[p] = 0 THEN "return" ELSE "begin")
    /\ UNCHANGED <<m_mtx, waiters, on, timer, root_vars, queue_vars, task_vars>>

\* A consumer locks the mutex and waits with or without a time point.
Fetch(c) ==
    /\ c \in Consumer /\ pc[c] = "begin"
    /\ Acquire(c, "mutex")
    /\ \E t \in {"max", "future"} : timer' = [timer EXCEPT ![c] = t]
    /\ Goto(c, "test")
    /\ UNCHANGED <<waiters, on, cond, root_vars, queue_vars, task_vars>>

\* Mutant: the caller takes its item whatever wait_until returned.
Test_Unchecked(c) ==
    /\ pc[c] \in {"test", "last_test"}
    /\ items' = items - 1
    /\ Release("mutex")
    /\ timer' = [timer EXCEPT ![c] = "max"]
    /\ Goto(c, "return")
    /\ UNCHANGED <<on, waiters, cond, todo, root_vars, task_vars>>

\* wait and wait_until with a predicate: an item, no item in time, or one more
\* wait.  Only Condition_variable looks at the time before it waits.
Test(c) ==
    /\ pc[c] \in {"test", "last_test"}
    /\ \/ /\ items > 0 \/ pc[c] = "last_test" \/ (cv = "cv" /\ timer[c] = "due")
          /\ items' = IF items > 0 THEN items - 1 ELSE items
          /\ Release("mutex")
          /\ timer' = [timer EXCEPT ![c] = "max"]
          /\ Goto(c, "return")
          /\ UNCHANGED on
       \/ /\ items = 0 /\ pc[c] = "test" /\ cv = "cv" /\ timer[c] # "due"
          /\ Wait(c, "cv")
          /\ UNCHANGED <<m_mtx, timer, items>>
       \/ /\ items = 0 /\ pc[c] = "test" /\ cv = "cv_any"
          /\ Goto(c, "any_lock")
          /\ UNCHANGED <<m_mtx, on, timer, items>>
    /\ UNCHANGED <<waiters, cond, todo, root_vars, task_vars>>

\* Condition_variable_any::wait: its Mutex is locked,
AnyLock(c) ==
    /\ pc[c] = "any_lock"
    /\ Acquire(c, "m_mtx")
    /\ Goto(c, "any_unlock")
    /\ UNCHANGED <<waiters, on, cond, timer, root_vars, queue_vars, task_vars>>

\* the user's lock is released, and wait or wait_until of its m_cv called.
AnyUnlock(c) ==
    /\ pc[c] = "any_unlock"
    /\ Release("mutex")
    /\ IF timer[c] = "due" THEN Goto(c, "last_exit") /\ UNCHANGED on ELSE Wait(c, "cv_any")
    /\ UNCHANGED <<waiters, cond, timer, root_vars, queue_vars, task_vars>>

\* After it both are exchanged again, Mutex first.
AnyExit(c) ==
    /\ \/ pc[c] = "any_exit" /\ Goto(c, "any_relock")
       \/ pc[c] = "last_exit" /\ Goto(c, "last_relock")
    /\ Release("m_mtx")
    /\ UNCHANGED <<waiters, on, cond, timer, root_vars, queue_vars, task_vars>>

AnyRelock(c) ==
    /\ \/ pc[c] = "any_relock" /\ Goto(c, "test")
       \/ pc[c] = "last_relock" /\ Goto(c, "last_test")
    /\ Acquire(c, "mutex")
    /\ UNCHANGED <<waiters, on, cond, timer, root_vars, queue_vars, task_vars>>

\* Where m_cv.wait goes on: the root at its test, the user of a
\* Condition_variable_any out of that, after a timeout for the last time.
AfterWait(w) ==
    CASE w = Root -> "t_test"
      [] w # Root /\ cv = "cv" -> "test"
      [] w # Root /\ cv = "cv_any" -> IF timer[w] = "due" THEN "last_exit" ELSE "any_exit"

-----------------------------------------------------------------------------
(* The end of a task: Worker::main_loop. *)

\* What a function ends with, constructed in the storage or thrown.
Outcome(t) == IF t \in Throws THEN "exception" ELSE "value"

\* Mutant: the exception is not caught by invoke_noexcept.
Invoked_Uncaught(t) ==
    /\ pc[t] = "return"
    /\ result' = IF t \in Throws THEN result ELSE [result EXCEPT ![t] = "value"]
    /\ Goto(t, "done")
    /\ UNCHANGED <<m_mtx, waiters, on, cond, timer, root_vars, queue_vars, m_state, m_task, got>>

\* The function returns or throws; invoke and invoke_noexcept keep the result.
Invoked(t) ==
    /\ pc[t] = "return"
    /\ result' = [result EXCEPT ![t] = Outcome(t)]
    /\ Goto(t, "done")
    /\ UNCHANGED <<m_mtx, waiters, on, cond, timer, root_vars, queue_vars, m_state, m_task, got>>

\* Mutant: the done bit is set without m_mtx.
SetDone_Unlocked(t) ==
    /\ pc[t] = "done"
    /\ m_state' = [m_state EXCEPT ![t] = @ \cup {"done"}]
    /\ Goto(t, "t_notify")
    /\ UNCHANGED <<m_mtx, waiters, on, cond, timer, root_vars, queue_vars, result, m_task, got>>

\* TaskBase::notify: the done bit, in a critical section of m_mtx,
SetDone(t) ==
    /\ pc[t] = "done" /\ Free(t)
    /\ m_state' = [m_state EXCEPT ![t] = @ \cup {"done"}]
    /\ Goto(t, "t_notify")
    /\ UNCHANGED <<m_mtx, waiters, on, cond, timer, root_vars, queue_vars, result, m_task, got>>

\* m_cv.notify_one() after it, and m_task.reset().
NotifyDone(t) ==
    /\ pc[t] = "t_notify"
    /\ NotifyOne(t)
    /\ m_task' = [m_task EXCEPT ![t] = FALSE]
    /\ Goto(t, "user")
    /\ UNCHANGED <<m_mtx, waiters, on, timer, root_vars, queue_vars, m_state, result, got>>

-----------------------------------------------------------------------------
\* What the root does with its Tasks.
RootStep == Async \/ StartGet \/ StartWait \/ TestDone \/ Take \/ Leave

TaskStep(t) ==
    \/ Put(t) \/ AnyNotify(t) \/ Notify(t)
    \/ Fetch(t) \/ Test(t) \/ AnyLock(t) \/ AnyUnlock(t) \/ AnyExit(t) \/ AnyRelock(t)
    \/ Invoked(t) \/ SetDone(t) \/ NotifyDone(t)

CvStep(w) ==
    /\ AddWaiter(w) \/ SetWaitInfo(w) \/ WaitOver(w) \/ Relock(w) \/ RemoveWaiter(w, AfterWait(w))
    /\ UNCHANGED <<task_vars, root_vars, queue_vars>>

Clock(w) == Tick(w) /\ UNCHANGED <<task_vars, root_vars, queue_vars>>

Over == phase = "over" /\ UNCHANGED vars

Next ==
    \/ RootStep
    \/ \E t \in Task : TaskStep(t)
    \/ \E w \in Worker : CvStep(w) \/ Clock(w)
    \/ Over

Spec == Init /\ [][Next]_vars

\* Workers run (Schedulers) and time passes.
FairSpec ==
    /\ Spec
    /\ WF_vars(RootStep)
    /\ \A t \in Task : WF_vars(TaskStep(t))
    /\ \A w \in Worker : WF_vars(CvStep(w)) /\ WF_vars(Clock(w))

-----------------------------------------------------------------------------
Pc == {"user", "t_lock", "t_test", "t_take", "begin", "any_notify", "notify", "test",
       "last_test", "any_lock", "any_unlock", "any_exit", "last_exit", "any_relock",
       "last_relock", "return", "done", "t_notify"}

\* The types of the variables.
TypeOK ==
    /\ CvTypeOK(Pc)
    /\ cv \in {"cv", "cv_any"}
    /\ items \in Nat /\ todo \in [Producer -> 0..MaxItems]
    /\ phase \in {"asyncs", "wait", "get", "leave", "over"} /\ at \in 1..Len(Order)
    /\ m_state \in [Task -> SUBSET {"done", "taken"}]
    /\ result \in [Task -> {"none", "value", "exception"}]
    /\ m_task \in [Task -> BOOLEAN]
    /\ got \in [Task -> Seq({"none", "value", "exception", "logic_error"})]

\* The first get of a Task gives what its function returned or threw, never the
\* storage before it was written, and every other one throws "Result already taken.":
\* a moved-out result is not given twice (TaskBase::prepare_get, TaskResult::get).
GetsRight ==
    \A t \in Task : got[t] # <<>> =>
        /\ got[t][1] = result[t] /\ result[t] # "none"
        /\ \A i \in 2..Len(got[t]) : got[t][i] = "logic_error"

\* The root leaves the frame that holds the mutex, the condition variable and the queue
\* only when no task can touch them any more, not even a notified waiter that has still
\* to lock the mutex and to leave the waiters list; what a worker does after that it
\* does on its task, to which it still has a reference (asyncs<true>, TaskBase::notify).
FrameOutlivesTasks ==
    phase = "over" =>
        /\ \A m \in Mtx \ Task : Free(m)
        /\ waiters[cv] = <<>>
        /\ \A t \in Task : pc[t] = "user" \/ (pc[t] = "t_notify" /\ m_task[t])

\* The root is not left asleep beside a task that is done: it tests and enters the list
\* in one critical section of the task's m_mtx, the bit is set in another, and the list
\* of TaskBase's m_cv holds nobody else that the one notify_one could reach instead
\* (TaskBase::wait, TaskBase::notify).
NoLostDone ==
    pc[Root] = "parked" /\ ~ cond[Root] /\ "done" \in m_state[Order[at]] => pc[Order[at]] = "t_notify"

\* With an item for every consumer the program ends: no notification is lost, on its way
\* to a consumer or to the root, and no two of them deadlock on the mutexes.
ProgramEnds == <>(phase = "over")
=============================================================================

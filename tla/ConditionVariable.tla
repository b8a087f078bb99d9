-------------------------- MODULE ConditionVariable --------------------------
(***************************************************************************)
(* Condition_variable (condition_variable.cpp): a set Cv of condition      *)
(* variables, each with the Mutex its users go with.  A waiter that has    *)
(* been notified stays in the waiters list until it has run and locked the *)
(* Mutex again, so a second notify_one can hit it once more, and           *)
(* wait_internal enters the list before it clears m_cond.                  *)
(*                                                                         *)
(* A Mutex is locked in one step: module Mutex shows that Mutex implements *)
(* that.  When a parked worker runs again is the subject of Schedulers.    *)
(***************************************************************************)
EXTENDS Integers, Lists

CONSTANTS
    Worker, NoWorker,
    Cv, Mtx,                 \* the condition variables and the Mutexes
    MtxOf                    \* the Mutex of each condition variable

ASSUME WorkerAssumption == NoWorker \notin Worker /\ MtxOf \in [Cv -> Mtx]

VARIABLES
    pc,                      \* control point of each worker
    m_mtx,                   \* who holds each Mutex
    waiters,                 \* m_waiters of each condition variable
    on,                      \* per worker: the condition variable it waits on
    cond,                    \* per worker: Wait_info::m_cond
    timer                    \* per worker: the time point of the call it is in

cv_vars == <<pc, m_mtx, waiters, on, cond, timer>>

\* No time point (Time_point::max()), one in the future, one that is reached.
TimerState == {"max", "future", "due"}

CvPc == {"add", "set_wait", "parked", "relock", "remove"}

CvInit ==
    /\ pc = [w \in Worker |-> "user"]
    /\ m_mtx = [m \in Mtx |-> NoWorker]
    /\ waiters = [c \in Cv |-> <<>>]
    /\ on = [w \in Worker |-> CHOOSE c \in Cv : TRUE]
    /\ cond = [w \in Worker |-> FALSE]
    /\ timer = [w \in Worker |-> "max"]

Goto(w, l) == pc' = [pc EXCEPT ![w] = l]

\* Mutex::lock and unlock.
Free(m) == m_mtx[m] = NoWorker
Acquire(w, m) == Free(m) /\ m_mtx' = [m_mtx EXCEPT ![m] = w]
Release(m) == m_mtx' = [m_mtx EXCEPT ![m] = NoWorker]

\* The caller holds the Mutex of c and found its predicate false: it will wait on c.
Wait(w, c) == Goto(w, "add") /\ on' = [on EXCEPT ![w] = c]

\* wait_internal: add_waiter,
AddWaiter(w) ==
    /\ pc[w] = "add"
    /\ waiters' = [waiters EXCEPT ![on[w]] = Append(@, w)]
    /\ Goto(w, "set_wait")
    /\ UNCHANGED <<m_mtx, on, cond, timer>>

\* set_wait_info(false, abs_time) and the unlock of the Mutex,
SetWaitInfo(w) ==
    /\ pc[w] = "set_wait"
    /\ cond' = [cond EXCEPT ![w] = FALSE]
    /\ Release(MtxOf[on[w]])
    /\ Goto(w, "parked")
    /\ UNCHANGED <<waiters, on, timer>>

\* wait_cond_or_sleep returns, without parking or after it,
WaitOver(w) ==
    /\ pc[w] = "parked"
    /\ cond[w] \/ timer[w] = "due"
    /\ Goto(w, "relock")
    /\ UNCHANGED <<m_mtx, waiters, on, cond, timer>>

\* the Mutex is locked again,
Relock(w) ==
    /\ pc[w] = "relock"
    /\ Acquire(w, MtxOf[on[w]])
    /\ Goto(w, "remove")
    /\ UNCHANGED <<waiters, on, cond, timer>>

\* remove_waiter, and the predicate is evaluated again (control point l).
RemoveWaiter(w, l) ==
    /\ pc[w] = "remove"
    /\ \E i \in 1..Len(waiters[on[w]]) :
          waiters[on[w]][i] = w /\ waiters' = [waiters EXCEPT ![on[w]] = RemoveAt(@, i)]
    /\ Goto(w, l)
    /\ UNCHANGED <<m_mtx, on, cond, timer>>

\* notify_one: the front of the list, notified before or not.
NotifyOne(c) ==
    cond' = IF waiters[c] = <<>> THEN cond ELSE [cond EXCEPT ![Head(waiters[c])] = TRUE]

\* notify_all
NotifyAll(c) ==
    cond' = [w \in Worker |-> cond[w] \/ \E i \in 1..Len(waiters[c]) : waiters[c][i] = w]

\* Time passes during a timed call.
Tick(w) ==
    /\ pc[w] # "user" /\ timer[w] = "future"
    /\ timer' = [timer EXCEPT ![w] = "due"]
    /\ UNCHANGED <<pc, m_mtx, waiters, on, cond>>

\* The type of the variables above; Pc are the control points of the callers.
CvTypeOK(Pc) ==
    /\ pc \in [Worker -> CvPc \cup Pc]
    /\ m_mtx \in [Mtx -> Worker \cup {NoWorker}]
    /\ waiters \in [Cv -> Seq(Worker)]
    /\ on \in [Worker -> Cv]
    /\ cond \in [Worker -> BOOLEAN]
    /\ timer \in [Worker -> TimerState]
=============================================================================

---------------------------- MODULE WorkerSwitch ----------------------------
(***************************************************************************)
(* The worker threads of ONE scheduler and the hand-over of control between*)
(* them: the constructors and destructors of Scheduler and Worker, sync,   *)
(* sync_init and context_switch.  All workers share m_workers_mtx and each *)
(* has a condition variable of its own; everything else of the scheduler   *)
(* (queues, m_worker) is unprotected and relies on one thread at a time.   *)
(*                                                                         *)
(* What schedule() decides is the subject of module Schedulers; here it    *)
(* picks any parked worker, and the program ends only when all are idle.   *)
(***************************************************************************)
EXTENDS Integers, FiniteSets

CONSTANT K                       \* workers per scheduler
ASSUME KAssumption == K \in Nat \ {0}

Worker == 1..K
Owner == 0                       \* the thread that constructs and destroys
Free == -1

VARIABLES
    wpc,               \* control point of each worker's thread
    opc, oi,           \* control point of the owner, the worker it deals with
    mtx,               \* holder of m_workers_mtx
    m_running,         \* Worker::m_running
    cv,                \* threads blocked on each worker's m_cv
    m_worker,          \* Scheduler::m_worker
    wstate, ctx,       \* Worker::m_state and the context it was parked with
    initializing,      \* Scheduler::m_state is initializing
    m_workers_started, m_exit,
    joined             \* workers whose destructor has returned

vars == <<wpc, opc, oi, mtx, m_running, cv, m_worker, wstate, ctx, initializing,
          m_workers_started, m_exit, joined>>
owner_vars == <<opc, oi, joined>>

WorkerPc == {"unborn", "park", "init_lock", "init_wait", "init_blocked", "schedule",
             "switch_lock", "switch_wait", "blocked", "loop_test", "user", "ended"}
OwnerPc == {"spawn", "ctor_lock", "ctor_wait", "start", "starting", "up", "destroy",
            "join", "end"}

Init ==
    /\ wpc = [w \in Worker |-> "unborn"]
    /\ opc = "spawn" /\ oi = 1
    /\ mtx = Free
    /\ m_running = [w \in Worker |-> TRUE]
    /\ cv = [w \in Worker |-> {}]
    /\ m_worker = Free
    /\ wstate = [w \in Worker |-> "initializing"]
    /\ ctx = [w \in Worker |-> "main"]
    /\ initializing = TRUE
    /\ m_workers_started = FALSE
    /\ m_exit = FALSE
    /\ joined = {}

Goto(w, l) == wpc' = [wpc EXCEPT ![w] = l]

\* Mutant: notify sets the flag and forgets notify_one.
Notify_FlagOnly(w) == m_running' = [m_running EXCEPT ![w] = TRUE] /\ UNCHANGED cv

\* Worker::notify: set the flag and notify_one on the worker's m_cv.
Notify(w) ==
    /\ m_running' = [m_running EXCEPT ![w] = TRUE]
    /\ \/ cv[w] = {} /\ UNCHANGED cv
       \/ \E th \in cv[w] : cv' = [cv EXCEPT ![w] = @ \ {th}]

\* Worker::wait up to the release of m_workers_mtx.
Wait(w) ==
    /\ m_running' = [m_running EXCEPT ![w] = FALSE]
    /\ cv' = [cv EXCEPT ![w] = @ \cup {w}]
    /\ mtx' = Free

\* The end of Worker::wait: m_running seen under m_workers_mtx.  The worker may
\* have been notified or wake spuriously.
WaitOver(w) == m_running[w] /\ mtx = Free /\ cv' = [cv EXCEPT ![w] = @ \ {w}]

-----------------------------------------------------------------------------
(* The owner: Scheduler::Scheduler and Scheduler::~Scheduler. *)

\* Worker::Worker starts the thread,
Spawn ==
    /\ opc = "spawn"
    /\ Goto(oi, "park")
    /\ opc' = "ctor_lock"
    /\ UNCHANGED <<oi, mtx, m_running, cv, m_worker, wstate, ctx, initializing,
                   m_workers_started, m_exit, joined>>

\* Mutant: the constructor's loop runs one worker too far.
CtorLock_PastEnd ==
    /\ opc = "ctor_lock" /\ mtx = Free
    /\ IF m_running[oi]
          THEN /\ cv' = [cv EXCEPT ![oi] = @ \cup {Owner}]
               /\ opc' = "ctor_wait"
               /\ UNCHANGED oi
          ELSE /\ opc' = IF oi > K THEN "start" ELSE "spawn"
               /\ oi' = oi + 1
               /\ UNCHANGED cv
    /\ UNCHANGED <<wpc, mtx, m_running, m_worker, wstate, ctx, initializing,
                   m_workers_started, m_exit, joined>>

\* and waits until it has parked itself.
CtorLock ==
    /\ opc = "ctor_lock" /\ mtx = Free
    /\ IF m_running[oi]
          THEN /\ cv' = [cv EXCEPT ![oi] = @ \cup {Owner}]
               /\ opc' = "ctor_wait"
               /\ UNCHANGED oi
          ELSE /\ opc' = IF oi = K THEN "start" ELSE "spawn"
               /\ oi' = IF oi = K THEN oi ELSE oi + 1
               /\ UNCHANGED cv
    /\ UNCHANGED <<wpc, mtx, m_running, m_worker, wstate, ctx, initializing,
                   m_workers_started, m_exit, joined>>

CtorWake ==
    /\ opc = "ctor_wait"
    /\ cv' = [cv EXCEPT ![oi] = @ \ {Owner}]
    /\ opc' = "ctor_lock"
    /\ UNCHANGED <<wpc, oi, mtx, m_running, m_worker, wstate, ctx, initializing,
                   m_workers_started, m_exit, joined>>

\* The front of the idle queue (the worker created first) is started.
Start ==
    /\ opc = "start" /\ mtx = Free
    /\ m_worker' = 1
    /\ Notify(1)
    /\ opc' = "starting"
    /\ UNCHANGED <<wpc, oi, mtx, wstate, ctx, initializing, m_workers_started, m_exit,
                   joined>>

\* The constructor returns once the started worker is asleep.
Started ==
    /\ opc = "starting" /\ ~ initializing
    /\ opc' = "up"
    /\ UNCHANGED <<wpc, oi, mtx, m_running, cv, m_worker, wstate, ctx, initializing,
                   m_workers_started, m_exit, joined>>

\* ~Scheduler, called when the scheduler is idle (Schedulers!ExitOnlyWhenDone):
\* signal_exit.
SignalExit ==
    /\ opc = "up"
    /\ \E w \in Worker : wpc[w] = "schedule"
    /\ \A w \in Worker : wstate[w] = "idle"
    /\ m_exit' = TRUE
    /\ opc' = "destroy"
    /\ UNCHANGED <<wpc, oi, mtx, m_running, cv, m_worker, wstate, ctx, initializing,
                   m_workers_started, joined>>

\* Mutant: ~Worker sets the state and does not notify the thread.
Destroy_NoNotify ==
    /\ opc = "destroy" /\ mtx = Free
    /\ \E w \in Worker \ joined :
          /\ oi' = w
          /\ wstate' = [wstate EXCEPT ![w] = "exiting"]
    /\ opc' = "join"
    /\ UNCHANGED <<wpc, mtx, m_running, cv, m_worker, ctx, initializing, m_workers_started,
                   m_exit, joined>>

\* ~Worker of the elements of m_workers, in any order: wake the thread,
Destroy ==
    /\ opc = "destroy" /\ mtx = Free
    /\ \E w \in Worker \ joined :
          /\ oi' = w
          /\ wstate' = [wstate EXCEPT ![w] = "exiting"]
          /\ Notify(w)
    /\ opc' = "join"
    /\ UNCHANGED <<wpc, mtx, m_worker, ctx, initializing, m_workers_started, m_exit, joined>>

\* and join it.
Join ==
    /\ opc = "join" /\ wpc[oi] = "ended"
    /\ joined' = joined \cup {oi}
    /\ opc' = IF joined' = Worker THEN "end" ELSE "destroy"
    /\ UNCHANGED <<wpc, oi, mtx, m_running, cv, m_worker, wstate, ctx, initializing,
                   m_workers_started, m_exit>>

OwnerThread ==
    \/ Spawn \/ CtorLock \/ Start \/ Started \/ Destroy \/ Join

-----------------------------------------------------------------------------
(* A worker thread: main_loop and sync. *)

\* sync<main> of a new thread: park_idle, then sync_init finds initializing().
ParkInit(w) ==
    /\ wpc[w] = "park"
    /\ wstate' = [wstate EXCEPT ![w] = "idle"]
    /\ Goto(w, "init_lock")
    /\ UNCHANGED <<owner_vars, mtx, m_running, cv, m_worker, ctx, initializing,
                   m_workers_started, m_exit>>

\* Mutant: sync_init goes to sleep without notifying the constructor.
InitLock_NoNotify(w) ==
    /\ wpc[w] = "init_lock" /\ mtx = Free
    /\ mtx' = w
    /\ Goto(w, "init_wait")
    /\ UNCHANGED <<owner_vars, m_running, cv, m_worker, wstate, ctx, initializing,
                   m_workers_started, m_exit>>

\* sync_init: notify the constructor,
InitLock(w) ==
    /\ wpc[w] = "init_lock" /\ mtx = Free
    /\ mtx' = w
    /\ Notify(w)
    /\ Goto(w, "init_wait")
    /\ UNCHANGED <<owner_vars, m_worker, wstate, ctx, initializing, m_workers_started, m_exit>>

\* go to sleep,
InitWait(w) ==
    /\ wpc[w] = "init_wait"
    /\ Wait(w)
    /\ Goto(w, "init_blocked")
    /\ UNCHANGED <<owner_vars, m_worker, wstate, ctx, initializing, m_workers_started, m_exit>>

\* Mutant: every worker that leaves sync_init goes on to schedule().
InitWake_Always(w) ==
    /\ wpc[w] = "init_blocked" /\ WaitOver(w)
    /\ Goto(w, IF m_exit THEN "loop_test" ELSE "schedule")
    /\ m_workers_started' = TRUE
    /\ UNCHANGED <<owner_vars, mtx, m_running, m_worker, wstate, ctx, initializing, m_exit>>

\* and when woken schedule only if no worker has been started yet; the others
\* have been scheduled by the one that wakes them.
InitWake(w) ==
    /\ wpc[w] = "init_blocked" /\ WaitOver(w)
    /\ Goto(w, IF m_exit \/ m_workers_started THEN "loop_test" ELSE "schedule")
    /\ m_workers_started' = IF m_exit THEN m_workers_started ELSE TRUE
    /\ UNCHANGED <<owner_vars, mtx, m_running, m_worker, wstate, ctx, initializing, m_exit>>

\* The first sleep() of the started worker ends the initialization.
InitSleep(w) ==
    /\ wpc[w] = "schedule" /\ initializing
    /\ initializing' = FALSE
    /\ UNCHANGED <<wpc, owner_vars, mtx, m_running, cv, m_worker, wstate, ctx,
                   m_workers_started, m_exit>>

\* Where a worker continues when sync returns: main_loop looks at exit(), user
\* code that yielded, waited or did I/O goes on.
Resume(w) == IF ctx[w] = "main" THEN "loop_test" ELSE "user"

\* schedule returns through prepare_exec with some parked worker chosen.
Schedule(w) ==
    /\ wpc[w] = "schedule" /\ ~ initializing /\ ~ m_exit
    /\ \E v \in Worker :
          /\ wstate[v] \in {"idle", "parked"}
          /\ m_worker' = v
          /\ wstate' = [wstate EXCEPT ![v] = "running"]
          /\ Goto(w, IF v = w THEN Resume(w) ELSE "switch_lock")
    /\ UNCHANGED <<owner_vars, mtx, m_running, cv, ctx, initializing, m_workers_started,
                   m_exit>>

\* schedule returns through exit().
ScheduleExit(w) ==
    /\ wpc[w] = "schedule" /\ m_exit
    /\ wstate' = [wstate EXCEPT ![m_worker] = "exiting"]
    /\ Goto(w, "loop_test")
    /\ UNCHANGED <<owner_vars, mtx, m_running, cv, m_worker, ctx, initializing,
                   m_workers_started, m_exit>>

\* context_switch: notify the next worker under m_workers_mtx,
SwitchLock(w) ==
    /\ wpc[w] = "switch_lock" /\ mtx = Free
    /\ mtx' = w
    /\ Notify(m_worker)
    /\ Goto(w, "switch_wait")
    /\ UNCHANGED <<owner_vars, m_worker, wstate, ctx, initializing, m_workers_started, m_exit>>

\* Mutant: wait does not clear m_running.
SwitchWait_StaleFlag(w) ==
    /\ wpc[w] = "switch_wait"
    /\ cv' = [cv EXCEPT ![w] = @ \cup {w}]
    /\ mtx' = Free
    /\ Goto(w, "blocked")
    /\ UNCHANGED <<owner_vars, m_running, m_worker, wstate, ctx, initializing,
                   m_workers_started, m_exit>>

\* and wait, which releases it.
SwitchWait(w) ==
    /\ wpc[w] = "switch_wait"
    /\ Wait(w)
    /\ Goto(w, "blocked")
    /\ UNCHANGED <<owner_vars, m_worker, wstate, ctx, initializing, m_workers_started, m_exit>>

SwitchWake(w) ==
    /\ wpc[w] = "blocked" /\ WaitOver(w)
    /\ Goto(w, Resume(w))
    /\ UNCHANGED <<owner_vars, mtx, m_running, m_worker, wstate, ctx, initializing,
                   m_workers_started, m_exit>>

\* main_loop after sync<main>: exit() or the task of this worker.
LoopTest(w) ==
    /\ wpc[w] = "loop_test"
    /\ Goto(w, IF wstate[w] = "exiting" THEN "ended" ELSE "user")
    /\ UNCHANGED <<owner_vars, mtx, m_running, cv, m_worker, wstate, ctx, initializing,
                   m_workers_started, m_exit>>

\* The task ends (sync<main> parks the worker idle) or gives up the CPU.
Park(w) ==
    /\ wpc[w] = "user"
    /\ \E c \in {"main", "user"} :
          /\ ctx' = [ctx EXCEPT ![w] = c]
          /\ wstate' = [wstate EXCEPT ![w] = IF c = "main" THEN "idle" ELSE "parked"]
    /\ Goto(w, "schedule")
    /\ UNCHANGED <<owner_vars, mtx, m_running, cv, m_worker, initializing,
                   m_workers_started, m_exit>>

WorkerThread(w) ==
    \/ ParkInit(w) \/ InitLock(w) \/ InitWait(w) \/ InitSleep(w) \/ Schedule(w)
    \/ ScheduleExit(w) \/ SwitchLock(w) \/ SwitchWait(w) \/ LoopTest(w) \/ Park(w)

WorkerWake(w) == InitWake(w) \/ SwitchWake(w)

Terminated == opc = "end" /\ UNCHANGED vars

Next ==
    \/ OwnerThread \/ CtorWake \/ SignalExit
    \/ \E w \in Worker : WorkerThread(w) \/ WorkerWake(w)
    \/ Terminated

Spec == Init /\ [][Next]_vars

\* A thread that is not blocked goes on; a wait whose notification has been
\* received returns (spurious wake-ups are never owed).
FairSpec ==
    /\ Spec
    /\ WF_vars(OwnerThread)
    /\ WF_vars(opc = "ctor_wait" /\ Owner \notin cv[oi] /\ CtorWake)
    /\ \A w \in Worker : WF_vars(WorkerThread(w)) /\ WF_vars(w \notin cv[w] /\ WorkerWake(w))

-----------------------------------------------------------------------------
(* Properties. *)

\* The type of every variable of the hand-over protocol.
TypeOK ==
    /\ wpc \in [Worker -> WorkerPc]
    /\ opc \in OwnerPc /\ oi \in Worker
    /\ mtx \in Worker \cup {Free}
    /\ m_running \in [Worker -> BOOLEAN]
    /\ cv \in [Worker -> SUBSET (Worker \cup {Owner})]
    /\ m_worker \in Worker \cup {Free}
    /\ wstate \in [Worker -> {"initializing", "idle", "parked", "running", "exiting"}]
    /\ ctx \in [Worker -> {"main", "user"}]
    /\ initializing \in BOOLEAN /\ m_workers_started \in BOOLEAN /\ m_exit \in BOOLEAN
    /\ joined \subseteq Worker

\* Thread w may touch the unprotected state of the scheduler.
InScheduler(w) == wpc[w] \in {"park", "schedule", "switch_lock", "user"}

\* At most one worker thread at a time is in the scheduler's unprotected code
\* (its queues, m_worker) or in user code, through start-up, context switches
\* and shutdown.
OneAtATime == \A v, w \in Worker : InScheduler(v) /\ InScheduler(w) => v = w

\* The thread that runs user code is the worker the scheduler chose: m_worker,
\* in state running.  A scheduling thread is parked itself, or has just been
\* told to exit.
RunsWhatWasChosen ==
    \A w \in Worker :
       /\ wpc[w] = "user" => m_worker = w /\ wstate[w] = "running"
       /\ wpc[w] = "schedule" => wstate[w] \in {"idle", "parked"} \/ m_exit

\* No lost notification: the worker chosen by a context switch resumes.
HandOverCompletes ==
    \A v \in Worker :
       (m_worker = v /\ \E w \in Worker : wpc[w] = "switch_lock")
          ~> (wpc[v] \in {"user", "loop_test"})

\* The constructor of Scheduler returns: no worker sleeps on a notification that
\* Worker::Worker waits for, and the first worker gets to its first sleep().
ConstructorReturns == <>(opc = "up")

\* The destructor returns: every worker thread, wherever it is parked (in
\* sync_init, in a context switch, in schedule), ends and is joined.
DestructorReturns == (opc = "destroy") ~> (opc = "end")
=============================================================================

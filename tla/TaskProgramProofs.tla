--------------------------- MODULE TaskProgramProofs ---------------------------
(***************************************************************************)
(* The program with any tasks, any number of items and either way to       *)
(* notify: the root gets each result once and leaves its frame only when   *)
(* nobody uses it any more.                                                *)
(***************************************************************************)
EXTENDS TaskProgram, ListProofs

\* Control points of the root, and of the users of Condition_variable_any.
RootPc == {"t_lock", "t_test", "t_take"}
AnyPc == {"any_lock", "any_unlock", "any_exit", "last_exit", "any_relock", "last_relock"}

\* The root waits for the task it is at; it takes a result that is there and not taken.
RootInv ==
    /\ pc[Root] \in {"user"} \cup RootPc \cup CvPc
    /\ pc[Root] # "user" => phase \in {"wait", "get"}
    /\ pc[Root] \in {"t_lock", "t_take"} => phase = "get"
    /\ pc[Root] \in CvPc => on[Root] = Order[at]
    /\ pc[Root] = "t_take" => "done" \in m_state[Order[at]]
    /\ pc[Root] # "user" /\ phase = "get" => "taken" \notin m_state[Order[at]]

\* A task waits on the program's condition variable only, and is referred to by its
\* worker until it has notified; a task that is done has a result and touches nothing of
\* the program any more.
TaskInv(t) ==
    /\ pc[t] \notin RootPc
    /\ pc[t] \in CvPc => on[t] = cv
    /\ pc[t] \in AnyPc => cv = "cv_any"
    /\ pc[t] # "user" => m_task[t]
    /\ "done" \in m_state[t] => pc[t] \in {"user", "t_notify"} /\ result[t] # "none"
    /\ pc[t] = "done" => result[t] # "none"
    /\ t \in Producer /\ pc[t] = "begin" => todo[t] > 0

\* A result is got after it was taken, and taken after the task was done.
GetInv(t) ==
    /\ "taken" \in m_state[t] => "done" \in m_state[t]
    /\ got[t] # <<>> <=> "taken" \in m_state[t]
    /\ got[t] # <<>> => got[t][1] = result[t]
    /\ \A i \in 2..Len(got[t]) : got[t][i] = "logic_error"

\* The tasks are started in order,
AsyncInv ==
    phase = "asyncs" =>
        \A i \in at..Len(Order) : /\ pc[Order[i]] = "user" /\ m_state[Order[i]] = {}
                                  /\ Order[i] \in Producer => todo[Order[i]] > 0

\* and waited for in order.
Waited(i) == phase \in {"get", "leave", "over"} \/ (phase = "wait" /\ i < at)
WaitInv == \A i \in 1..Len(Order) : Waited(i) => "done" \in m_state[Order[i]]

ProgramInv == RootInv /\ AsyncInv /\ WaitInv /\ \A t \in Task : TaskInv(t) /\ GetInv(t)

\* Who holds a Mutex is where the code has it locked.
Holds(w, m) ==
    \/ w = Root /\ m = Order[at] /\ pc[w] \in {"t_test", "add", "set_wait", "remove"}
    \/ /\ w # Root /\ m = "mutex"
       /\ \/ pc[w] \in {"test", "last_test", "any_lock", "any_unlock"}
          \/ cv = "cv" /\ pc[w] \in {"add", "set_wait", "remove"}
    \/ /\ w # Root /\ m = "m_mtx" /\ cv = "cv_any"
       /\ pc[w] \in {"any_unlock", "any_exit", "last_exit", "add", "set_wait", "remove"}
MtxInv == \A w \in Worker, m \in Mtx : m_mtx[m] = w => Holds(w, m)

\* Who waits is on its list, once.
ListedPc == {"set_wait", "parked", "relock", "remove"}
Listed(c) == {w \in Worker : on[w] = c /\ pc[w] \in ListedPc}
ListInv == \A c \in Cv : Enumerates(waiters[c], Listed(c))

IInv == TypeOK /\ ProgramInv /\ MtxInv /\ ListInv
-----------------------------------------------------------------------------
(* What the program is made of. *)

\* TypeOK without the variables of ConditionVariable.
OwnTypes ==
    /\ cv \in {"cv", "cv_any"}
    /\ items \in Nat /\ todo \in [Producer -> 0..MaxItems]
    /\ phase \in {"asyncs", "wait", "get", "leave", "over"} /\ at \in 1..Len(Order)
    /\ m_state \in [Task -> SUBSET {"done", "taken"}]
    /\ result \in [Task -> {"none", "value", "exception"}]
    /\ m_task \in [Task -> BOOLEAN]
    /\ got \in [Task -> Seq({"none", "value", "exception", "logic_error"})]

LEMMA Program ==
    /\ Order \in Seq(Task) /\ Len(Order) \in Nat \ {0}
    /\ \A i \in 1..Len(Order) : Order[i] \in Task
    /\ \A i, j \in 1..Len(Order) : Order[i] = Order[j] => i = j
    /\ \A t \in Task : \E i \in 1..Len(Order) : Order[i] = t
    /\ Worker = Task \cup {Root} /\ Root \notin Task /\ NoWorker \notin Worker /\ Producer \subseteq Task
    /\ Cv = Task \cup {"cv", "cv_any"} /\ Mtx = Task \cup {"mutex", "m_mtx"}
    /\ Task \cap {"cv", "cv_any", "mutex", "m_mtx"} = {}
    /\ \A t \in Task : MtxOf[t] = t
    /\ MtxOf["cv"] = "mutex" /\ MtxOf["cv_any"] = "m_mtx" /\ MtxOf \in [Cv -> Mtx]
    /\ MaxItems \in Nat \ {0}
<1>1. /\ Order \in Seq(Worker) /\ Order # <<>> /\ Len(Order) \in Nat \ {0}
      /\ \A i, j \in 1..Len(Order) : Order[i] = Order[j] => i = j
  BY ProgramAssumption
<1>2. Order \in Seq(Task) /\ \A i \in 1..Len(Order) : Order[i] \in Task
  BY <1>1 DEF Task
<1>3. \A t \in Task : \E i \in 1..Len(Order) : Order[i] = t
  BY DEF Task
<1>4. /\ Worker = Task \cup {Root} /\ Root \notin Task /\ NoWorker \notin Worker /\ Producer \subseteq Task
      /\ Cv = Task \cup {"cv", "cv_any"} /\ Mtx = Task \cup {"mutex", "m_mtx"}
      /\ Task \cap {"cv", "cv_any", "mutex", "m_mtx"} = {}
      /\ MtxOf = [c \in Cv |-> IF c = "cv" THEN "mutex" ELSE IF c = "cv_any" THEN "m_mtx" ELSE c]
      /\ MaxItems \in Nat \ {0} /\ MtxOf \in [Cv -> Mtx]
  BY ProgramAssumption, WorkerAssumption
<1>5. \A t \in Task : t \in Cv /\ t # "cv" /\ t # "cv_any"
  BY <1>4
<1>6. /\ \A t \in Task : MtxOf[t] = t
      /\ MtxOf["cv"] = "mutex" /\ MtxOf["cv_any"] = "m_mtx"
  BY <1>4, <1>5
<1> QED
  BY <1>1, <1>2, <1>3, <1>4, <1>6

\* A notification sets conditions of workers.
LEMMA NotifyTypes ==
    ASSUME CvTypeOK(Pc), NEW c \in Cv, NotifyOne(c) \/ NotifyAll(c)
    PROVE  cond' \in [Worker -> BOOLEAN]
<1>1. waiters[c] \in Seq(Worker) /\ cond \in [Worker -> BOOLEAN]
  BY DEF CvTypeOK
<1>2. CASE NotifyOne(c)
  <2>1. CASE waiters[c] = <<>>
    BY <1>1, <1>2, <2>1 DEF NotifyOne
  <2>2. CASE waiters[c] # <<>>
    <3>1. Head(waiters[c]) \in Worker
      BY <1>1, <2>2
    <3> QED
      BY <1>1, <1>2, <2>2, <3>1 DEF NotifyOne
  <2> QED
    BY <2>1, <2>2
<1>3. CASE NotifyAll(c)
  BY <1>1, <1>3 DEF NotifyAll
<1> QED
  BY <1>2, <1>3

\* The variables of the condition variables keep their types.
LEMMA CvTypesStep ==
    ASSUME IInv, [Next]_vars
    PROVE  CvTypeOK(Pc)'
<1>0. /\ CvTypeOK(Pc) /\ OwnTypes /\ Order[at] \in Task
      /\ \A p \in Producer : pc[p] = "begin" => todo[p] > 0
      /\ Task \subseteq Worker /\ Root \in Worker /\ Task \subseteq Cv /\ Task \subseteq Mtx
      /\ {"cv", "cv_any"} \subseteq Cv /\ {"mutex", "m_mtx"} \subseteq Mtx /\ MtxOf \in [Cv -> Mtx]
      /\ MaxItems \in Nat
  BY Program DEF IInv, ProgramInv, TypeOK, OwnTypes, TaskInv
<1>1. CASE Async
  BY <1>0, <1>1 DEF Async, task_vars, root_vars, queue_vars, CvTypeOK, CvPc, Pc, TimerState, Goto, Acquire, Release, Free, Wait
<1>2. CASE StartGet
  <2>1. CASE "taken" \in m_state[Order[at]]
    BY <1>0, <1>2, <2>1 DEF StartGet, CvTypeOK
  <2>2. CASE "taken" \notin m_state[Order[at]]
    BY <1>0, <1>2, <2>2 DEF StartGet, CvTypeOK, Goto, Pc
  <2> QED
    BY <2>1, <2>2
<1>3. CASE StartWait
  BY <1>0, <1>3 DEF StartWait, task_vars, root_vars, queue_vars, CvTypeOK, CvPc, Pc, TimerState, Goto, Acquire, Release, Free, Wait
<1>4. CASE TestDone
  <2>1. CASE "done" \in m_state[Order[at]] /\ phase = "wait"
    BY <1>0, <1>4, <2>1 DEF TestDone, CvTypeOK, Goto, Release, Pc
  <2>2. CASE "done" \in m_state[Order[at]] /\ phase # "wait"
    BY <1>0, <1>4, <2>2 DEF TestDone, CvTypeOK, Goto, Release, Pc
  <2>3. CASE "done" \notin m_state[Order[at]]
    BY <1>0, <1>4, <2>3 DEF TestDone, CvTypeOK, Wait, Goto, CvPc
  <2> QED
    BY <2>1, <2>2, <2>3
<1>5. CASE Take
  BY <1>0, <1>5 DEF Take, task_vars, root_vars, queue_vars, CvTypeOK, CvPc, Pc, TimerState, Goto, Acquire, Release, Free, Wait
<1>6. CASE Leave
  <2>1. cond' \in [Worker -> BOOLEAN]
    BY <1>0, <1>6, NotifyTypes DEF Leave, OwnTypes
  <2> QED
    BY <1>0, <1>6, <2>1 DEF Leave, CvTypeOK
<1>7. ASSUME NEW u \in Task, Put(u) PROVE CvTypeOK(Pc)'
  BY <1>0, <1>7 DEF Put, task_vars, root_vars, queue_vars, CvTypeOK, CvPc, Pc, TimerState, Goto, Acquire, Release, Free, Wait
<1>8. ASSUME NEW u \in Task, AnyNotify(u) PROVE CvTypeOK(Pc)'
  BY <1>0, <1>8 DEF AnyNotify, task_vars, root_vars, queue_vars, CvTypeOK, CvPc, Pc, TimerState, Goto, Acquire, Release, Free, Wait
<1>9. ASSUME NEW u \in Task, Notify(u) PROVE CvTypeOK(Pc)'
  <2>1. cond' \in [Worker -> BOOLEAN]
    <3>1. cv \in Cv /\ (NotifyAll(cv) \/ NotifyOne(cv))
      BY <1>0, <1>9 DEF Notify, OwnTypes
    <3> QED
      BY <1>0, <3>1, NotifyTypes
  <2>2. pc' \in [Worker -> CvPc \cup Pc]
    BY <1>0, <1>9 DEF Notify, CvTypeOK, Goto, Pc
  <2> QED
    BY <1>0, <1>9, <2>1, <2>2 DEF Notify, CvTypeOK
<1>10. ASSUME NEW u \in Task, Fetch(u) PROVE CvTypeOK(Pc)'
  <2>1. timer' \in [Worker -> TimerState]
    BY <1>0, <1>10 DEF Fetch, CvTypeOK, TimerState
  <2>2. m_mtx' \in [Mtx -> Worker \cup {NoWorker}] /\ pc' \in [Worker -> CvPc \cup Pc]
    BY <1>0, <1>10 DEF Fetch, CvTypeOK, Acquire, Goto, Pc
  <2> QED
    BY <1>0, <1>10, <2>1, <2>2 DEF Fetch, CvTypeOK
<1>11. ASSUME NEW u \in Task, Test(u) PROVE CvTypeOK(Pc)'
  <2>1. /\ pc' \in [Worker -> CvPc \cup Pc] /\ on' \in [Worker -> Cv]
        /\ m_mtx' \in [Mtx -> Worker \cup {NoWorker}] /\ timer' \in [Worker -> TimerState]
    <3>1. \/ Goto(u, "return") /\ Release("mutex") /\ timer' = [timer EXCEPT ![u] = "max"] /\ UNCHANGED on
          \/ Wait(u, "cv") /\ UNCHANGED <<m_mtx, timer>>
          \/ Goto(u, "any_lock") /\ UNCHANGED <<m_mtx, on, timer>>
      BY <1>11 DEF Test
    <3>2. CASE Goto(u, "return") /\ Release("mutex") /\ timer' = [timer EXCEPT ![u] = "max"] /\ UNCHANGED on
      BY <1>0, <3>2 DEF Goto, Release, CvTypeOK, Pc, TimerState
    <3>3. CASE Wait(u, "cv") /\ UNCHANGED <<m_mtx, timer>>
      BY <1>0, <3>3 DEF Wait, Goto, CvTypeOK, CvPc
    <3>4. CASE Goto(u, "any_lock") /\ UNCHANGED <<m_mtx, on, timer>>
      BY <1>0, <3>4 DEF Goto, CvTypeOK, Pc
    <3> QED
      BY <3>1, <3>2, <3>3, <3>4
  <2> QED
    BY <1>0, <1>11, <2>1 DEF Test, CvTypeOK
<1>12. ASSUME NEW u \in Task, AnyLock(u) PROVE CvTypeOK(Pc)'
  BY <1>0, <1>12 DEF AnyLock, task_vars, root_vars, queue_vars, CvTypeOK, CvPc, Pc, TimerState, Goto, Acquire, Release, Free, Wait
<1>13. ASSUME NEW u \in Task, AnyUnlock(u) PROVE CvTypeOK(Pc)'
  <2>1. CASE timer[u] = "due"
    BY <1>0, <1>13, <2>1 DEF AnyUnlock, CvTypeOK, Goto, Release, Pc
  <2>2. CASE timer[u] # "due"
    BY <1>0, <1>13, <2>2 DEF AnyUnlock, CvTypeOK, Wait, Goto, Release, CvPc
  <2> QED
    BY <2>1, <2>2
<1>14. ASSUME NEW u \in Task, AnyExit(u) PROVE CvTypeOK(Pc)'
  <2>1. Goto(u, "any_relock") \/ Goto(u, "last_relock")
    BY <1>14 DEF AnyExit
  <2>2. pc' \in [Worker -> CvPc \cup Pc]
    BY <1>0, <2>1 DEF Goto, CvTypeOK, Pc
  <2>3. m_mtx' \in [Mtx -> Worker \cup {NoWorker}] /\ UNCHANGED <<waiters, on, cond, timer>>
    BY <1>0, <1>14 DEF AnyExit, Release, CvTypeOK
  <2> QED
    BY <1>0, <2>2, <2>3 DEF CvTypeOK
<1>15. ASSUME NEW u \in Task, AnyRelock(u) PROVE CvTypeOK(Pc)'
  <2>1. Goto(u, "test") \/ Goto(u, "last_test")
    BY <1>15 DEF AnyRelock
  <2>2. pc' \in [Worker -> CvPc \cup Pc]
    BY <1>0, <2>1 DEF Goto, CvTypeOK, Pc
  <2>3. m_mtx' \in [Mtx -> Worker \cup {NoWorker}] /\ UNCHANGED <<waiters, on, cond, timer>>
    BY <1>0, <1>15 DEF AnyRelock, Acquire, CvTypeOK
  <2> QED
    BY <1>0, <2>2, <2>3 DEF CvTypeOK
<1>16. ASSUME NEW u \in Task, Invoked(u) PROVE CvTypeOK(Pc)'
  BY <1>0, <1>16 DEF Invoked, task_vars, root_vars, queue_vars, CvTypeOK, CvPc, Pc, TimerState, Goto, Acquire, Release, Free, Wait
<1>17. ASSUME NEW u \in Task, SetDone(u) PROVE CvTypeOK(Pc)'
  BY <1>0, <1>17 DEF SetDone, task_vars, root_vars, queue_vars, CvTypeOK, CvPc, Pc, TimerState, Goto, Acquire, Release, Free, Wait
<1>18. ASSUME NEW u \in Task, NotifyDone(u) PROVE CvTypeOK(Pc)'
  <2>1. cond' \in [Worker -> BOOLEAN]
    BY <1>0, <1>18, NotifyTypes DEF NotifyDone
  <2> QED
    BY <1>0, <1>18, <2>1 DEF NotifyDone, CvTypeOK, Goto, Pc
<1>19. ASSUME NEW u \in Worker, AddWaiter(u), UNCHANGED <<task_vars, root_vars, queue_vars>> PROVE CvTypeOK(Pc)'
  <2>1. waiters' \in [Cv -> Seq(Worker)]
    BY <1>0, <1>19 DEF AddWaiter, CvTypeOK
  <2>2. pc' \in [Worker -> CvPc \cup Pc] /\ UNCHANGED <<m_mtx, on, cond, timer>>
    BY <1>0, <1>19 DEF AddWaiter, CvTypeOK, Goto, CvPc
  <2> QED
    BY <1>0, <2>1, <2>2 DEF CvTypeOK
<1>20. ASSUME NEW u \in Worker, SetWaitInfo(u), UNCHANGED <<task_vars, root_vars, queue_vars>> PROVE CvTypeOK(Pc)'
  BY <1>0, <1>20 DEF SetWaitInfo, task_vars, root_vars, queue_vars, CvTypeOK, CvPc, Pc, TimerState, Goto, Acquire, Release, Free, Wait
<1>21. ASSUME NEW u \in Worker, WaitOver(u), UNCHANGED <<task_vars, root_vars, queue_vars>> PROVE CvTypeOK(Pc)'
  BY <1>0, <1>21 DEF WaitOver, task_vars, root_vars, queue_vars, CvTypeOK, CvPc, Pc, TimerState, Goto, Acquire, Release, Free, Wait
<1>22. ASSUME NEW u \in Worker, Relock(u), UNCHANGED <<task_vars, root_vars, queue_vars>> PROVE CvTypeOK(Pc)'
  BY <1>0, <1>22 DEF Relock, task_vars, root_vars, queue_vars, CvTypeOK, CvPc, Pc, TimerState, Goto, Acquire, Release, Free, Wait
<1>23. ASSUME NEW u \in Worker, RemoveWaiter(u, AfterWait(u)), UNCHANGED <<task_vars, root_vars, queue_vars>> PROVE CvTypeOK(Pc)'
  <2>1. AfterWait(u) \in Pc
    BY <1>0 DEF AfterWait, Pc, OwnTypes
  <2>2. pc' \in [Worker -> CvPc \cup Pc] /\ UNCHANGED <<m_mtx, on, cond, timer>>
    BY <1>0, <1>23, <2>1 DEF RemoveWaiter, CvTypeOK, Goto
  <2>3. waiters' \in [Cv -> Seq(Worker)]
    <3>1. PICK i \in 1..Len(waiters[on[u]]) :
             waiters' = [waiters EXCEPT ![on[u]] = RemoveAt(waiters[on[u]], i)]
      BY <1>23 DEF RemoveWaiter
    <3>2. on[u] \in Cv /\ waiters \in [Cv -> Seq(Worker)]
      BY <1>0 DEF CvTypeOK
    <3>3. RemoveAt(waiters[on[u]], i) \in Seq(Worker)
      BY <3>2, RemoveAtType
    <3> QED
      BY <3>1, <3>2, <3>3
  <2> QED
    BY <1>0, <2>2, <2>3 DEF CvTypeOK
<1>24. ASSUME NEW u \in Worker, Tick(u), UNCHANGED <<task_vars, root_vars, queue_vars>> PROVE CvTypeOK(Pc)'
  BY <1>0, <1>24 DEF Tick, task_vars, root_vars, queue_vars, CvTypeOK, CvPc, Pc, TimerState, Goto, Acquire, Release, Free, Wait
<1>25. CASE UNCHANGED vars
  BY <1>0, <1>25 DEF vars, cv_vars, task_vars, root_vars, queue_vars, CvTypeOK, CvPc, Pc, TimerState
<1> QED
  BY <1>1, <1>2, <1>3, <1>4, <1>5, <1>6, <1>7, <1>8, <1>9, <1>10, <1>11, <1>12, <1>13, <1>14, <1>15, <1>16, <1>17, <1>18, <1>19, <1>20, <1>21, <1>22, <1>23, <1>24, <1>25
     DEF Next, RootStep, TaskStep, CvStep, Clock, Over

\* The root goes to the next task, or to the first one in the next phase.
LEMMA AdvanceTypes ==
    ASSUME at \in 1..Len(Order), NEW ph, NEW next, Advance(ph, next)
    PROVE  at' \in 1..Len(Order) /\ phase' \in {ph, next}
  BY Program DEF Advance

\* So do the program's.
LEMMA OwnTypesStep ==
    ASSUME IInv, [Next]_vars
    PROVE  OwnTypes'
<1>0. /\ CvTypeOK(Pc) /\ OwnTypes /\ Order[at] \in Task
      /\ \A p \in Producer : pc[p] = "begin" => todo[p] > 0
      /\ Task \subseteq Worker /\ Root \in Worker /\ Task \subseteq Cv /\ Task \subseteq Mtx
      /\ {"cv", "cv_any"} \subseteq Cv /\ {"mutex", "m_mtx"} \subseteq Mtx /\ MtxOf \in [Cv -> Mtx]
      /\ MaxItems \in Nat
  BY Program DEF IInv, ProgramInv, TypeOK, OwnTypes, TaskInv
<1>1. CASE Async
  <2>1. m_task' \in [Task -> BOOLEAN] /\ UNCHANGED <<cv, items, todo, m_state, result, got>>
    BY <1>0, <1>1 DEF Async, OwnTypes, queue_vars
  <2> QED
    BY <1>0, <1>1, <2>1, AdvanceTypes DEF Async, OwnTypes
<1>2. CASE StartGet
  <2>1. CASE "taken" \in m_state[Order[at]]
    <3>1. got' = [got EXCEPT ![Order[at]] = Append(@, "logic_error")] /\ Advance("get", "leave")
      BY <1>2, <2>1 DEF StartGet
    <3>2. got' \in [Task -> Seq({"none", "value", "exception", "logic_error"})]
      BY <1>0, <3>1 DEF OwnTypes
    <3> QED
      BY <1>0, <1>2, <3>1, <3>2, AdvanceTypes DEF StartGet, OwnTypes, queue_vars
  <2>2. CASE "taken" \notin m_state[Order[at]]
    BY <1>0, <1>2, <2>2 DEF StartGet, OwnTypes, queue_vars
  <2> QED
    BY <2>1, <2>2
<1>3. CASE StartWait
  BY <1>0, <1>3 DEF StartWait, task_vars, root_vars, queue_vars, OwnTypes, Outcome
<1>4. CASE TestDone
  <2>1. Advance("wait", "get") \/ UNCHANGED <<phase, at>>
    BY <1>4 DEF TestDone
  <2> QED
    BY <1>0, <1>4, <2>1, AdvanceTypes DEF TestDone, OwnTypes, task_vars, queue_vars
<1>5. CASE Take
  <2>1. got' = [got EXCEPT ![Order[at]] = Append(@, result[Order[at]])]
    BY <1>5 DEF Take
  <2>2. result[Order[at]] \in {"none", "value", "exception", "logic_error"}
    BY <1>0 DEF OwnTypes
  <2>3. got' \in [Task -> Seq({"none", "value", "exception", "logic_error"})]
    BY <1>0, <2>1, <2>2 DEF OwnTypes
  <2>4. m_state' \in [Task -> SUBSET {"done", "taken"}]
    BY <1>0, <1>5 DEF Take, OwnTypes
  <2>5. Advance("get", "leave") \/ UNCHANGED <<phase, at>>
    BY <1>5 DEF Take
  <2> QED
    BY <1>0, <1>5, <2>3, <2>4, <2>5, AdvanceTypes DEF Take, OwnTypes, queue_vars
<1>6. CASE Leave
  BY <1>0, <1>6 DEF Leave, task_vars, root_vars, queue_vars, OwnTypes, Outcome
<1>7. ASSUME NEW u \in Task, Put(u) PROVE OwnTypes'
  <2>1. todo[u] - 1 \in 0..MaxItems
    BY <1>0, <1>7 DEF Put, OwnTypes
  <2>2. todo' \in [Producer -> 0..MaxItems] /\ items' \in Nat
    BY <1>0, <1>7, <2>1 DEF Put, OwnTypes
  <2> QED
    BY <1>0, <1>7, <2>2 DEF Put, OwnTypes, root_vars, task_vars
<1>8. ASSUME NEW u \in Task, AnyNotify(u) PROVE OwnTypes'
  BY <1>0, <1>8 DEF AnyNotify, task_vars, root_vars, queue_vars, OwnTypes, Outcome
<1>9. ASSUME NEW u \in Task, Notify(u) PROVE OwnTypes'
  BY <1>0, <1>9 DEF Notify, task_vars, root_vars, queue_vars, OwnTypes, Outcome
<1>10. ASSUME NEW u \in Task, Fetch(u) PROVE OwnTypes'
  BY <1>0, <1>10 DEF Fetch, task_vars, root_vars, queue_vars, OwnTypes, Outcome
<1>11. ASSUME NEW u \in Task, Test(u) PROVE OwnTypes'
  <2>1. UNCHANGED items \/ (items > 0 /\ items' = items - 1)
    BY <1>11 DEF Test
  <2>2. items' \in Nat
    BY <1>0, <2>1 DEF OwnTypes
  <2> QED
    BY <1>0, <1>11, <2>2 DEF Test, OwnTypes, root_vars, task_vars
<1>12. ASSUME NEW u \in Task, AnyLock(u) PROVE OwnTypes'
  BY <1>0, <1>12 DEF AnyLock, task_vars, root_vars, queue_vars, OwnTypes, Outcome
<1>13. ASSUME NEW u \in Task, AnyUnlock(u) PROVE OwnTypes'
  BY <1>0, <1>13 DEF AnyUnlock, task_vars, root_vars, queue_vars, OwnTypes, Outcome
<1>14. ASSUME NEW u \in Task, AnyExit(u) PROVE OwnTypes'
  BY <1>0, <1>14 DEF AnyExit, task_vars, root_vars, queue_vars, OwnTypes, Outcome
<1>15. ASSUME NEW u \in Task, AnyRelock(u) PROVE OwnTypes'
  BY <1>0, <1>15 DEF AnyRelock, task_vars, root_vars, queue_vars, OwnTypes, Outcome
<1>16. ASSUME NEW u \in Task, Invoked(u) PROVE OwnTypes'
  BY <1>0, <1>16 DEF Invoked, task_vars, root_vars, queue_vars, OwnTypes, Outcome
<1>17. ASSUME NEW u \in Task, SetDone(u) PROVE OwnTypes'
  BY <1>0, <1>17 DEF SetDone, task_vars, root_vars, queue_vars, OwnTypes, Outcome
<1>18. ASSUME NEW u \in Task, NotifyDone(u) PROVE OwnTypes'
  BY <1>0, <1>18 DEF NotifyDone, task_vars, root_vars, queue_vars, OwnTypes, Outcome
<1>19. ASSUME NEW u \in Worker, AddWaiter(u), UNCHANGED <<task_vars, root_vars, queue_vars>> PROVE OwnTypes'
  BY <1>0, <1>19 DEF AddWaiter, task_vars, root_vars, queue_vars, OwnTypes, Outcome
<1>20. ASSUME NEW u \in Worker, SetWaitInfo(u), UNCHANGED <<task_vars, root_vars, queue_vars>> PROVE OwnTypes'
  BY <1>0, <1>20 DEF SetWaitInfo, task_vars, root_vars, queue_vars, OwnTypes, Outcome
<1>21. ASSUME NEW u \in Worker, WaitOver(u), UNCHANGED <<task_vars, root_vars, queue_vars>> PROVE OwnTypes'
  BY <1>0, <1>21 DEF WaitOver, task_vars, root_vars, queue_vars, OwnTypes, Outcome
<1>22. ASSUME NEW u \in Worker, Relock(u), UNCHANGED <<task_vars, root_vars, queue_vars>> PROVE OwnTypes'
  BY <1>0, <1>22 DEF Relock, task_vars, root_vars, queue_vars, OwnTypes, Outcome
<1>23. ASSUME NEW u \in Worker, RemoveWaiter(u, AfterWait(u)), UNCHANGED <<task_vars, root_vars, queue_vars>> PROVE OwnTypes'
  BY <1>0, <1>23 DEF RemoveWaiter, task_vars, root_vars, queue_vars, OwnTypes, Outcome
<1>24. ASSUME NEW u \in Worker, Tick(u), UNCHANGED <<task_vars, root_vars, queue_vars>> PROVE OwnTypes'
  BY <1>0, <1>24 DEF Tick, task_vars, root_vars, queue_vars, OwnTypes, Outcome
<1>25. CASE UNCHANGED vars
  BY <1>0, <1>25 DEF vars, cv_vars, task_vars, root_vars, queue_vars, OwnTypes, Outcome
<1> QED
  BY <1>1, <1>2, <1>3, <1>4, <1>5, <1>6, <1>7, <1>8, <1>9, <1>10, <1>11, <1>12, <1>13, <1>14, <1>15, <1>16, <1>17, <1>18, <1>19, <1>20, <1>21, <1>22, <1>23, <1>24, <1>25
     DEF Next, RootStep, TaskStep, CvStep, Clock, Over

LEMMA TypesStep == IInv /\ [Next]_vars => TypeOK'
  BY CvTypesStep, OwnTypesStep DEF TypeOK, OwnTypes

-----------------------------------------------------------------------------
(* The root and the tasks. *)

\* The facts on the state the lemmas below start from.
LEMMA States ==
    ASSUME IInv
    PROVE  /\ at \in 1..Len(Order) /\ Order[at] \in Task /\ Root \notin Task
           /\ Task \subseteq Worker /\ Root \in Worker /\ Worker = Task \cup {Root} /\ Producer \subseteq Task
           /\ phase \in {"asyncs", "wait", "get", "leave", "over"} /\ cv \in {"cv", "cv_any"}
           /\ pc \in [Worker -> CvPc \cup Pc] /\ on \in [Worker -> Cv]
           /\ m_state \in [Task -> SUBSET {"done", "taken"}]
           /\ result \in [Task -> {"none", "value", "exception"}] /\ m_task \in [Task -> BOOLEAN]
           /\ got \in [Task -> Seq({"none", "value", "exception", "logic_error"})]
           /\ todo \in [Producer -> 0..MaxItems] /\ m_mtx \in [Mtx -> Worker \cup {NoWorker}]
           /\ waiters \in [Cv -> Seq(Worker)] /\ MaxItems \in Nat
           /\ \A i \in 1..Len(Order) : Order[i] \in Task
  BY Program DEF IInv, TypeOK, CvTypeOK

\* Where the root is in Order, and what is before and after that.
LEMMA Places ==
    ASSUME IInv
    PROVE  /\ Len(Order) \in Nat /\ at \in Nat /\ at \in 1..Len(Order) /\ at \in at..Len(Order)
           /\ \A i \in at..Len(Order) : i \in 1..Len(Order)
           /\ \A i \in (at + 1)..Len(Order) : i \in at..Len(Order) /\ i \in 1..Len(Order) /\ i # at
           /\ \A i \in 1..Len(Order) : i < at + 1 => i <= at
           /\ at = Len(Order) => \A i \in 1..Len(Order) : i <= at
           /\ at < Len(Order) \/ at = Len(Order)
<1>1. Len(Order) \in Nat /\ at \in 1..Len(Order)
  BY Program DEF IInv, TypeOK
<1> QED
  BY <1>1

\* No task is started twice.
LEMMA Once == \A i, j \in 1..Len(Order) : Order[i] = Order[j] => i = j
  BY Program

\* A step of worker u that touches nothing of the others, and of the tasks' states and
\* the root's way through them nothing at all.
Own(u) ==
    /\ \A w \in Worker : w # u => pc'[w] = pc[w] /\ on'[w] = on[w]
    /\ \A p \in Producer : p # u => todo'[p] = todo[p]
    /\ UNCHANGED <<cv, phase, at, m_state, result, m_task, got>>

LEMMA OwnKeeps ==
    ASSUME IInv, NEW u \in Worker, Own(u), u # Root => pc[u] # "user"
    PROVE  /\ AsyncInv' /\ WaitInv' /\ (u # Root => RootInv')
           /\ \A t \in Task : GetInv(t)' /\ (t # u => TaskInv(t)')
<1>1. AsyncInv'
  <2>1. SUFFICES ASSUME phase = "asyncs", NEW i \in at..Len(Order)
                 PROVE  /\ pc'[Order[i]] = "user" /\ m_state[Order[i]] = {}
                        /\ Order[i] \in Producer => todo'[Order[i]] > 0
    BY DEF AsyncInv, Own
  <2>2. Order[i] \in Task
    BY States
  <2>3. /\ pc[Order[i]] = "user" /\ m_state[Order[i]] = {}
        /\ Order[i] \in Producer => todo[Order[i]] > 0
    BY <2>1 DEF IInv, ProgramInv, AsyncInv
  <2> QED
    BY <2>2, <2>3, States DEF Own
<1>2. WaitInv'
  BY DEF IInv, ProgramInv, WaitInv, Waited, Own
<1>3. ASSUME u # Root PROVE RootInv'
  BY <1>3, States DEF IInv, ProgramInv, RootInv, Own
<1>4. ASSUME NEW t \in Task PROVE GetInv(t)'
  BY DEF IInv, ProgramInv, GetInv, Own
<1>5. ASSUME NEW t \in Task, t # u PROVE TaskInv(t)'
  <2>1. pc'[t] = pc[t] /\ on'[t] = on[t] /\ (t \in Producer => todo'[t] = todo[t])
    BY <1>5, States DEF Own
  <2> QED
    BY <2>1 DEF IInv, ProgramInv, TaskInv, Own
<1> QED
  BY <1>1, <1>2, <1>3, <1>4, <1>5

\* A task goes on in its function.
Function(u) ==
    \/ Put(u) \/ AnyNotify(u) \/ Notify(u)
    \/ Fetch(u) \/ Test(u) \/ AnyLock(u) \/ AnyUnlock(u) \/ AnyExit(u) \/ AnyRelock(u)

LEMMA FunctionOwn ==
    ASSUME IInv, NEW u \in Task, Function(u) \/ CvStep(u)
    PROVE  Own(u) /\ pc[u] # "user" /\ TaskInv(u)'
<1>0. TaskInv(u) /\ u \in Worker /\ u # Root
  BY States DEF IInv, ProgramInv
<1> DEFINE Goes(from, l) == pc[u] \in from /\ pc' = [pc EXCEPT ![u] = l]
           Still == UNCHANGED <<cv, phase, at, m_state, result, m_task, got>>
<1>t. ASSUME NEW from, NEW l, Goes(from, l), Still, UNCHANGED <<on, todo>>,
             "user" \notin from, from \cap {"t_notify"} = {},
             l \notin {"user", "done", "begin"} \cup RootPc,
             l \in CvPc => pc[u] \in CvPc, l \in AnyPc => cv = "cv_any"
      PROVE  Own(u) /\ pc[u] # "user" /\ TaskInv(u)'
  <2>1. Own(u)
    BY <1>t, States DEF Own
  <2>2. pc'[u] = l
    BY <1>0, <1>t, States
  <2> QED
    BY <1>0, <1>t, <2>1, <2>2 DEF TaskInv, RootPc
<1> HIDE DEF Goes, Still
<1>1. CASE Put(u)
  <2>1. /\ pc[u] = "begin" /\ pc' = [pc EXCEPT ![u] = IF cv = "cv_any" THEN "any_notify" ELSE "notify"]
        /\ todo' = [todo EXCEPT ![u] = @ - 1] /\ UNCHANGED <<on, cv, phase, at, m_state, result, m_task, got>>
    BY <1>1 DEF Put, Goto, root_vars, task_vars
  <2>2. Own(u) /\ pc'[u] \in {"any_notify", "notify"}
    BY <1>0, <2>1, States DEF Own
  <2> QED
    BY <1>0, <2>1, <2>2 DEF TaskInv, RootPc, CvPc, AnyPc
<1>2. CASE AnyNotify(u)
  BY <1>2, <1>t DEF AnyNotify, Goto, root_vars, queue_vars, task_vars, RootPc, CvPc, AnyPc, Goes, Still
<1>3. CASE Notify(u)
  <2>1. /\ pc[u] = "notify" /\ pc' = [pc EXCEPT ![u] = IF todo[u] = 0 THEN "return" ELSE "begin"]
        /\ UNCHANGED <<on, todo, cv, phase, at, m_state, result, m_task, got>>
    BY <1>3 DEF Notify, Goto, root_vars, queue_vars, task_vars
  <2>2. Own(u) /\ pc'[u] = IF todo[u] = 0 THEN "return" ELSE "begin"
    BY <1>0, <2>1, States DEF Own
  <2>3. u \in Producer /\ pc'[u] = "begin" => todo[u] > 0
    <3>1. u \in Producer => todo[u] \in 0..MaxItems
      BY States
    <3> QED
      BY <2>2, <3>1, States
  <2> QED
    BY <1>0, <2>1, <2>2, <2>3 DEF TaskInv, RootPc, CvPc, AnyPc
<1>4. CASE Fetch(u)
  BY <1>4, <1>t DEF Fetch, Goto, root_vars, queue_vars, task_vars, RootPc, CvPc, AnyPc, Goes, Still
<1>5. CASE Test(u)
  <2>1. /\ pc[u] \in {"test", "last_test"} /\ UNCHANGED <<todo, cv, phase, at, m_state, result, m_task, got>>
        /\ \/ Goto(u, "return") /\ UNCHANGED on
           \/ Wait(u, "cv") /\ cv = "cv"
           \/ Goto(u, "any_lock") /\ UNCHANGED on /\ cv = "cv_any"
    BY <1>5 DEF Test, root_vars, task_vars
  <2>2. CASE Goto(u, "return") /\ UNCHANGED on
    BY <1>t, <2>1, <2>2 DEF Goto, RootPc, CvPc, AnyPc, Goes, Still
  <2>3. CASE Wait(u, "cv") /\ cv = "cv"
    <3>1. pc' = [pc EXCEPT ![u] = "add"] /\ on' = [on EXCEPT ![u] = "cv"] /\ pc'[u] = "add" /\ on'[u] = "cv"
      BY <1>0, <2>3, States DEF Wait, Goto
    <3>2. Own(u)
      BY <2>1, <3>1, States DEF Own
    <3> QED
      BY <1>0, <2>1, <2>3, <3>1, <3>2 DEF TaskInv, RootPc, CvPc, AnyPc
  <2>4. CASE Goto(u, "any_lock") /\ UNCHANGED on /\ cv = "cv_any"
    BY <1>t, <2>1, <2>4 DEF Goto, RootPc, CvPc, Goes, Still
  <2> QED
    BY <2>1, <2>2, <2>3, <2>4
<1>6. CASE AnyLock(u)
  <2>1. cv = "cv_any"
    BY <1>0, <1>6 DEF AnyLock, TaskInv, AnyPc
  <2> QED
    BY <1>6, <1>t, <2>1 DEF AnyLock, Goto, root_vars, queue_vars, task_vars, RootPc, CvPc, Goes, Still
<1>7. CASE AnyUnlock(u)
  <2>1. cv = "cv_any" /\ pc[u] = "any_unlock" /\ UNCHANGED <<todo, cv, phase, at, m_state, result, m_task, got>>
    BY <1>0, <1>7 DEF AnyUnlock, TaskInv, AnyPc, root_vars, queue_vars, task_vars
  <2>2. CASE timer[u] = "due"
    BY <1>7, <1>t, <2>1, <2>2 DEF AnyUnlock, Goto, RootPc, CvPc, Goes, Still
  <2>3. CASE timer[u] # "due"
    <3>1. /\ pc' = [pc EXCEPT ![u] = "add"] /\ on' = [on EXCEPT ![u] = "cv_any"]
          /\ pc'[u] = "add" /\ on'[u] = "cv_any"
      BY <1>0, <1>7, <2>3, States DEF AnyUnlock, Wait, Goto
    <3>2. Own(u)
      BY <2>1, <3>1, States DEF Own
    <3> QED
      BY <1>0, <2>1, <3>1, <3>2 DEF TaskInv, RootPc, CvPc, AnyPc
  <2> QED
    BY <2>2, <2>3
<1>8. CASE AnyExit(u) \/ AnyRelock(u)
  <2>1. /\ cv = "cv_any" /\ pc[u] \in AnyPc /\ UNCHANGED <<on, todo, cv, phase, at, m_state, result, m_task, got>>
    BY <1>0, <1>8 DEF AnyExit, AnyRelock, TaskInv, AnyPc, root_vars, queue_vars, task_vars
  <2>2. PICK l \in {"any_relock", "last_relock", "test", "last_test"} : pc' = [pc EXCEPT ![u] = l]
    BY <1>8 DEF AnyExit, AnyRelock, Goto
  <2>3. Goes(AnyPc, l) /\ Still /\ UNCHANGED <<on, todo>>
    BY <2>1, <2>2 DEF Goes, Still
  <2> QED
    BY <1>t, <2>1, <2>3 DEF RootPc, CvPc, AnyPc
<1>9. CASE CvStep(u)
  <2>1. /\ pc[u] \in CvPc /\ UNCHANGED <<on, todo, cv, phase, at, m_state, result, m_task, got>>
    BY <1>9 DEF CvStep, AddWaiter, SetWaitInfo, WaitOver, Relock, RemoveWaiter, CvPc, root_vars,
                queue_vars, task_vars
  <2>2. AfterWait(u) \in {"test", "last_exit", "any_exit"} /\ (AfterWait(u) \in AnyPc => cv = "cv_any")
    BY <1>0, States DEF AfterWait, AnyPc
  <2>3. PICK l \in CvPc \cup {AfterWait(u)} : pc' = [pc EXCEPT ![u] = l]
    BY <1>9 DEF CvStep, AddWaiter, SetWaitInfo, WaitOver, Relock, RemoveWaiter, CvPc, Goto
  <2>4. Goes(CvPc, l) /\ Still /\ UNCHANGED <<on, todo>>
    BY <2>1, <2>3 DEF Goes, Still
  <2> QED
    BY <1>t, <2>1, <2>2, <2>3, <2>4 DEF RootPc, CvPc, AnyPc
<1> QED
  BY <1>1, <1>2, <1>3, <1>4, <1>5, <1>6, <1>7, <1>8, <1>9 DEF Function

\* Tasks that the step leaves alone.
Same(t) ==
    /\ pc'[t] = pc[t] /\ on'[t] = on[t] /\ m_task'[t] = m_task[t] /\ cv' = cv
    /\ result'[t] = result[t] /\ (t \in Producer => todo'[t] = todo[t])
    /\ "done" \in m_state'[t] <=> "done" \in m_state[t]

LEMMA SameKeeps ==
    ASSUME IInv, NEW t \in Task, Same(t)
    PROVE  TaskInv(t)'
  BY DEF IInv, ProgramInv, TaskInv, Same

\* async
LEMMA AsyncKeeps == IInv /\ Async => ProgramInv'
<1> SUFFICES ASSUME IInv, Async PROVE ProgramInv'
  OBVIOUS
<1>1. PICK t \in Task : t = Order[at]
  BY States
<1>2. /\ phase = "asyncs" /\ pc' = [pc EXCEPT ![t] = "begin"] /\ m_task' = [m_task EXCEPT ![t] = TRUE]
      /\ Advance("asyncs", "wait") /\ UNCHANGED <<on, cv, todo, m_state, result, got>>
  BY <1>1 DEF Async, queue_vars
<1>3. \A i \in at..Len(Order) : /\ pc[Order[i]] = "user" /\ m_state[Order[i]] = {}
                                /\ Order[i] \in Producer => todo[Order[i]] > 0
  BY <1>2 DEF IInv, ProgramInv, AsyncInv
<1>4. m_state[t] = {} /\ (t \in Producer => todo[t] > 0) /\ at \in at..Len(Order)
  <2>1. at \in at..Len(Order)
    BY Places
  <2> QED
    BY <1>1, <1>3, <2>1
<1>5. RootInv'
  <2>1. pc[Root] = "user"
    BY <1>2 DEF IInv, ProgramInv, RootInv
  <2>2. pc'[Root] = "user"
    BY <1>2, <2>1, States
  <2> QED
    BY <2>2 DEF RootInv, RootPc, CvPc
<1>6. AsyncInv'
  <2>1. CASE at < Len(Order)
    <3>1. at' = at + 1
      BY <1>2, <2>1 DEF Advance
    <3>2. ASSUME NEW i \in (at + 1)..Len(Order) PROVE pc'[Order[i]] = pc[Order[i]] /\ i \in at..Len(Order)
      <4>1. i # at /\ i \in at..Len(Order) /\ i \in 1..Len(Order)
        BY <3>2, Places
      <4>2. Order[i] # t /\ Order[i] \in Worker
        BY <1>1, <4>1, States, Once
      <4> QED
        BY <1>2, <4>1, <4>2, States
    <3> QED
      BY <1>2, <1>3, <3>1, <3>2 DEF AsyncInv
  <2>2. CASE ~ (at < Len(Order))
    BY <1>2, <2>2 DEF Advance, AsyncInv
  <2> QED
    BY <2>1, <2>2
<1>7. WaitInv'
  <2>1. phase' = "asyncs" \/ (phase' = "wait" /\ at' = 1)
    BY <1>2 DEF Advance
  <2> QED
    BY <2>1 DEF WaitInv, Waited
<1>8. ASSUME NEW u \in Task PROVE GetInv(u)'
  BY <1>2 DEF IInv, ProgramInv, GetInv
<1>9. ASSUME NEW u \in Task PROVE TaskInv(u)'
  <2>1. CASE u # t
    BY <1>2, <2>1, SameKeeps, States DEF Same
  <2>2. CASE u = t
    <3>1. pc'[t] = "begin" /\ m_task'[t]
      BY <1>2, States
    <3> QED
      BY <1>2, <1>4, <2>2, <3>1 DEF TaskInv, RootPc, CvPc, AnyPc
  <2> QED
    BY <2>1, <2>2
<1> QED
  BY <1>5, <1>6, <1>7, <1>8, <1>9 DEF ProgramInv

\* prepare_get
LEMMA StartGetKeeps == IInv /\ StartGet => ProgramInv'
<1> SUFFICES ASSUME IInv, StartGet PROVE ProgramInv'
  OBVIOUS
<1>1. PICK t \in Task : t = Order[at]
  BY States
<1>2. /\ phase = "get" /\ pc[Root] = "user"
      /\ UNCHANGED <<on, cv, todo, m_state, result, m_task>>
  BY DEF StartGet, queue_vars
<1>3. CASE "taken" \in m_state[t]
  <2>1. /\ got' = [got EXCEPT ![t] = Append(@, "logic_error")] /\ Advance("get", "leave") /\ UNCHANGED pc
    BY <1>1, <1>3 DEF StartGet
  <2>2. phase' \in {"get", "leave"}
    BY <2>1 DEF Advance
  <2>3. RootInv'
    BY <1>2, <2>1 DEF RootInv, RootPc, CvPc
  <2>4. AsyncInv' /\ WaitInv'
    BY <1>2, <2>2 DEF IInv, ProgramInv, AsyncInv, WaitInv, Waited
  <2>5. ASSUME NEW u \in Task PROVE TaskInv(u)'
    BY <1>2, <2>1, SameKeeps DEF Same
  <2>6. ASSUME NEW u \in Task PROVE GetInv(u)'
    <3>1. GetInv(u)
      BY DEF IInv, ProgramInv
    <3>2. CASE u # t
      BY <1>2, <2>1, <3>1, <3>2, States DEF GetInv
    <3>3. CASE u = t
      <4>1. /\ got[t] \in Seq({"none", "value", "exception", "logic_error"}) /\ got[t] # <<>>
            /\ got'[t] = Append(got[t], "logic_error")
        BY <1>3, <2>1, <3>1, <3>3, States DEF GetInv
      <4>2. /\ Len(got'[t]) = Len(got[t]) + 1 /\ got'[t] # <<>> /\ Len(got[t]) \in Nat \ {0}
            /\ got'[t][Len(got[t]) + 1] = "logic_error"
            /\ \A i \in 1..Len(got[t]) : got'[t][i] = got[t][i]
        BY <4>1
      <4>3. \A i \in 2..Len(got'[t]) : got'[t][i] = "logic_error"
        <5>1. \A i \in 2..Len(got'[t]) : i \in 2..Len(got[t]) \/ i = Len(got[t]) + 1
          BY <4>2
        <5>2. \A i \in 2..Len(got[t]) : i \in 1..Len(got[t]) /\ got[t][i] = "logic_error"
          BY <3>1, <3>3 DEF GetInv
        <5> QED
          BY <4>2, <5>1, <5>2
      <4>4. got'[t][1] = got[t][1]
        BY <4>2
      <4> QED
        BY <1>2, <3>1, <3>3, <4>1, <4>2, <4>3, <4>4 DEF GetInv
    <3> QED
      BY <3>2, <3>3
  <2> QED
    BY <2>3, <2>4, <2>5, <2>6 DEF ProgramInv
<1>4. CASE "taken" \notin m_state[t]
  <2>1. pc' = [pc EXCEPT ![Root] = "t_lock"] /\ UNCHANGED <<got, phase, at>>
    BY <1>1, <1>4 DEF StartGet, Goto
  <2>2. Own(Root) /\ pc'[Root] = "t_lock"
    BY <1>2, <2>1, States DEF Own
  <2>3. RootInv'
    BY <1>1, <1>2, <1>4, <2>1, <2>2 DEF RootInv, RootPc, CvPc
  <2> QED
    BY <2>2, <2>3, OwnKeeps, States DEF ProgramInv
<1> QED
  BY <1>3, <1>4

\* The root locks m_mtx, and goes through Condition_variable::wait.
LEMMA RootWaitsKeeps == IInv /\ (StartWait \/ CvStep(Root)) => ProgramInv'
<1> SUFFICES ASSUME IInv, StartWait \/ CvStep(Root) PROVE ProgramInv'
  OBVIOUS
<1>0. RootInv
  BY DEF IInv, ProgramInv
<1>1. CASE StartWait
  <2>1. /\ pc' = [pc EXCEPT ![Root] = "t_test"] /\ UNCHANGED <<on, cv, todo, phase, at, m_state, result, m_task, got>>
        /\ (phase = "wait" /\ pc[Root] = "user") \/ pc[Root] = "t_lock"
    BY <1>1 DEF StartWait, Goto, root_vars, queue_vars, task_vars
  <2>2. Own(Root) /\ pc'[Root] = "t_test"
    BY <2>1, States DEF Own
  <2>3. RootInv'
    BY <1>0, <2>1, <2>2 DEF RootInv, RootPc, CvPc
  <2> QED
    BY <2>2, <2>3, OwnKeeps, States DEF ProgramInv
<1>2. CASE CvStep(Root)
  <2>1. pc[Root] \in CvPc /\ UNCHANGED <<on, cv, todo, phase, at, m_state, result, m_task, got>>
    BY <1>2 DEF CvStep, AddWaiter, SetWaitInfo, WaitOver, Relock, RemoveWaiter, CvPc, root_vars,
                queue_vars, task_vars
  <2>2. AfterWait(Root) = "t_test"
    BY States DEF AfterWait
  <2>3. PICK l \in CvPc \cup {"t_test"} : pc' = [pc EXCEPT ![Root] = l]
    BY <1>2, <2>2 DEF CvStep, AddWaiter, SetWaitInfo, WaitOver, Relock, RemoveWaiter, CvPc, Goto
  <2>4. Own(Root) /\ pc'[Root] = l
    BY <2>1, <2>3, States DEF Own
  <2>5. RootInv'
    BY <1>0, <2>1, <2>3, <2>4 DEF RootInv, RootPc, CvPc
  <2> QED
    BY <2>4, <2>5, OwnKeeps, States DEF ProgramInv
<1> QED
  BY <1>1, <1>2

\* is_state_done
LEMMA TestDoneKeeps == IInv /\ TestDone => ProgramInv'
<1> SUFFICES ASSUME IInv, TestDone PROVE ProgramInv'
  OBVIOUS
<1>0. RootInv
  BY DEF IInv, ProgramInv
<1>1. pc[Root] = "t_test" /\ UNCHANGED <<cv, todo, m_state, result, m_task, got>>
  BY DEF TestDone, queue_vars, task_vars
<1>2. CASE "done" \in m_state[Order[at]] /\ phase = "wait"
  <2>1. pc' = [pc EXCEPT ![Root] = "user"] /\ Advance("wait", "get") /\ UNCHANGED on
    BY <1>2 DEF TestDone, Goto
  <2>2. phase' = "get" \/ (phase' = "wait" /\ at' = at + 1)
    BY <2>1 DEF Advance
  <2>3. RootInv'
    BY <2>1, States DEF RootInv, RootPc, CvPc
  <2>4. AsyncInv'
    BY <2>2 DEF AsyncInv
  <2>5. WaitInv'
    <3>1. phase' = "get" => at = Len(Order)
      BY <1>2, <2>1, Places DEF Advance
    <3>2. \A i \in 1..Len(Order) : i <= at => "done" \in m_state[Order[i]]
      <4>1. \A i \in 1..Len(Order) : i < at => "done" \in m_state[Order[i]]
        BY <1>2 DEF IInv, ProgramInv, WaitInv, Waited
      <4>2. \A i \in 1..Len(Order) : i <= at => i < at \/ i = at
        BY States
      <4> QED
        BY <1>2, <4>1, <4>2
    <3>3. ASSUME NEW i \in 1..Len(Order), Waited(i)' PROVE i <= at
      BY <2>2, <3>1, <3>3, Places DEF Waited
    <3> QED
      BY <1>1, <3>2, <3>3 DEF WaitInv
  <2>6. ASSUME NEW u \in Task PROVE TaskInv(u)'
    BY <1>1, <2>1, SameKeeps, States DEF Same
  <2>7. ASSUME NEW u \in Task PROVE GetInv(u)'
    BY <1>1 DEF IInv, ProgramInv, GetInv
  <2> QED
    BY <2>3, <2>4, <2>5, <2>6, <2>7 DEF ProgramInv
<1>3. CASE "done" \in m_state[Order[at]] /\ phase # "wait"
  <2>1. pc' = [pc EXCEPT ![Root] = "t_take"] /\ UNCHANGED <<phase, at, on>>
    BY <1>3 DEF TestDone, Goto
  <2>2. Own(Root) /\ pc'[Root] = "t_take"
    BY <1>1, <2>1, States DEF Own
  <2>3. RootInv'
    BY <1>0, <1>1, <1>3, <2>1, <2>2 DEF RootInv, RootPc, CvPc
  <2> QED
    BY <2>2, <2>3, OwnKeeps, States DEF ProgramInv
<1>4. CASE "done" \notin m_state[Order[at]]
  <2>1. /\ pc' = [pc EXCEPT ![Root] = "add"] /\ on' = [on EXCEPT ![Root] = Order[at]]
        /\ UNCHANGED <<phase, at>>
    BY <1>4 DEF TestDone, Wait, Goto
  <2>2. Own(Root) /\ pc'[Root] = "add" /\ on'[Root] = Order[at]
    BY <1>1, <2>1, States DEF Own
  <2>3. RootInv'
    BY <1>0, <1>1, <2>1, <2>2 DEF RootInv, RootPc, CvPc
  <2> QED
    BY <2>2, <2>3, OwnKeeps, States DEF ProgramInv
<1> QED
  BY <1>2, <1>3, <1>4

\* TaskResult::get
LEMMA TakeKeeps == IInv /\ Take => ProgramInv'
<1> SUFFICES ASSUME IInv, Take PROVE ProgramInv'
  OBVIOUS
<1>1. PICK t \in Task : t = Order[at]
  BY States
<1>2. /\ m_state' = [m_state EXCEPT ![t] = @ \cup {"taken"}]
      /\ got' = [got EXCEPT ![t] = Append(@, result[t])] /\ pc' = [pc EXCEPT ![Root] = "user"]
      /\ Advance("get", "leave") \/ UNCHANGED <<phase, at>>
      /\ UNCHANGED <<on, cv, todo, result, m_task>>
  BY <1>1 DEF Take, Goto, queue_vars
<1>3. phase = "get" /\ "done" \in m_state[t] /\ "taken" \notin m_state[t]
  BY <1>1 DEF IInv, ProgramInv, RootInv, Take
<1>4. phase' \in {"get", "leave"}
  BY <1>2, <1>3 DEF Advance
<1>5. \A u \in Task : "done" \in m_state'[u] <=> "done" \in m_state[u]
  BY <1>2, States
<1>6. RootInv'
  BY <1>2, States DEF RootInv, RootPc, CvPc
<1>7. AsyncInv' /\ WaitInv'
  BY <1>3, <1>4, <1>5, States DEF IInv, ProgramInv, AsyncInv, WaitInv, Waited
<1>8. ASSUME NEW u \in Task PROVE TaskInv(u)'
  BY <1>2, <1>5, SameKeeps, States DEF Same
<1>9. ASSUME NEW u \in Task PROVE GetInv(u)'
  <2>1. GetInv(u)
    BY DEF IInv, ProgramInv
  <2>2. CASE u # t
    BY <1>2, <2>1, <2>2, States DEF GetInv
  <2>3. CASE u = t
    <3>1. got[t] = <<>> /\ got'[t] = Append(got[t], result[t]) /\ m_state'[t] = m_state[t] \cup {"taken"}
      BY <1>2, <1>3, <2>1, <2>3, States DEF GetInv
    <3>2. got'[t] # <<>> /\ got'[t][1] = result[t] /\ Len(got'[t]) = 1
      BY <3>1
    <3> QED
      BY <1>2, <1>3, <2>3, <3>1, <3>2 DEF GetInv
  <2> QED
    BY <2>2, <2>3
<1> QED
  BY <1>6, <1>7, <1>8, <1>9 DEF ProgramInv

\* The frame ends, or time passes.
LEMMA LeaveKeeps == IInv /\ Leave => ProgramInv'
<1> SUFFICES ASSUME IInv, Leave PROVE ProgramInv'
  OBVIOUS
<1>1. phase = "leave" /\ phase' = "over" /\ UNCHANGED <<pc, on, cv, at, todo, m_state, result, m_task, got>>
  BY DEF Leave, queue_vars, task_vars
<1>2. RootInv'
  BY <1>1 DEF IInv, ProgramInv, RootInv
<1>3. AsyncInv' /\ WaitInv'
  BY <1>1 DEF IInv, ProgramInv, AsyncInv, WaitInv, Waited
<1>4. ASSUME NEW u \in Task PROVE TaskInv(u)' /\ GetInv(u)'
  BY <1>1, SameKeeps DEF Same, IInv, ProgramInv, GetInv
<1> QED
  BY <1>2, <1>3, <1>4 DEF ProgramInv

LEMMA IdleKeeps ==
    ASSUME IInv, UNCHANGED <<pc, on, cv, phase, at, todo, m_state, result, m_task, got>>
    PROVE  ProgramInv'
<1>1. Own(Root)
  BY DEF Own
<1>2. RootInv'
  BY DEF IInv, ProgramInv, RootInv
<1> QED
  BY <1>1, <1>2, OwnKeeps, States DEF ProgramInv

\* The end of a task.
LEMMA EndKeeps ==
    ASSUME IInv, NEW u \in Task, Invoked(u) \/ SetDone(u) \/ NotifyDone(u)
    PROVE  ProgramInv'
<1>0. TaskInv(u) /\ GetInv(u) /\ u # Root
  BY States DEF IInv, ProgramInv
<1>1. /\ UNCHANGED <<on, cv, phase, at, todo, got>> /\ pc[u] # "user"
      /\ \A w \in Worker : w # u => pc'[w] = pc[w]
  BY States DEF Invoked, SetDone, NotifyDone, Goto, root_vars, queue_vars
<1>2. \A t \in Task : /\ t # u => m_state'[t] = m_state[t] /\ result'[t] = result[t] /\ m_task'[t] = m_task[t]
                      /\ "done" \in m_state[t] => "done" \in m_state'[t]
                      /\ "taken" \in m_state'[t] <=> "taken" \in m_state[t]
  <2>1. CASE Invoked(u)
    BY <2>1, States DEF Invoked
  <2>2. CASE SetDone(u)
    BY <2>2, States DEF SetDone
  <2>3. CASE NotifyDone(u)
    BY <2>3, States DEF NotifyDone
  <2> QED
    BY <2>1, <2>2, <2>3
<1>3. RootInv'
  BY <1>0, <1>1, <1>2, States DEF IInv, ProgramInv, RootInv
<1>4. AsyncInv'
  <2>1. SUFFICES ASSUME phase = "asyncs", NEW i \in at..Len(Order)
                 PROVE  /\ pc'[Order[i]] = "user" /\ m_state'[Order[i]] = {}
                        /\ Order[i] \in Producer => todo[Order[i]] > 0
    BY <1>1 DEF AsyncInv
  <2>2. /\ pc[Order[i]] = "user" /\ m_state[Order[i]] = {} /\ Order[i] \in Task
        /\ Order[i] \in Producer => todo[Order[i]] > 0
    <3>1. i \in 1..Len(Order)
      BY Places
    <3> QED
      BY <2>1, <3>1, States DEF IInv, ProgramInv, AsyncInv
  <2>3. Order[i] # u
    BY <1>1, <2>2
  <2> QED
    BY <1>1, <1>2, <2>2, <2>3, States
<1>5. WaitInv'
  BY <1>1, <1>2, States DEF IInv, ProgramInv, WaitInv, Waited
<1>6. ASSUME NEW t \in Task, t # u PROVE TaskInv(t)' /\ GetInv(t)'
  <2>1. TaskInv(t)'
    BY <1>1, <1>2, <1>6, SameKeeps, States DEF Same
  <2>2. GetInv(t)'
    BY <1>1, <1>2, <1>6 DEF IInv, ProgramInv, GetInv
  <2> QED
    BY <2>1, <2>2
<1>7. CASE Invoked(u)
  <2>1. /\ pc[u] = "return" /\ pc'[u] = "done" /\ result'[u] \in {"value", "exception"}
        /\ m_state'[u] = m_state[u] /\ m_task'[u] = m_task[u]
    BY <1>7, States DEF Invoked, Goto, Outcome
  <2>2. "done" \notin m_state[u]
    BY <1>0, <2>1 DEF TaskInv
  <2>3. TaskInv(u)'
    BY <1>0, <2>1, <2>2 DEF TaskInv, RootPc, CvPc, AnyPc
  <2>4. GetInv(u)'
    BY <1>0, <1>1, <2>1, <2>2 DEF GetInv
  <2> QED
    BY <1>3, <1>4, <1>5, <1>6, <2>3, <2>4 DEF ProgramInv
<1>8. CASE SetDone(u)
  <2>1. /\ pc[u] = "done" /\ pc'[u] = "t_notify" /\ result'[u] = result[u]
        /\ m_state'[u] = m_state[u] \cup {"done"} /\ m_task'[u] = m_task[u]
    BY <1>8, States DEF SetDone, Goto
  <2>2. TaskInv(u)'
    BY <1>0, <2>1 DEF TaskInv, RootPc, CvPc, AnyPc
  <2>3. GetInv(u)'
    BY <1>0, <1>1, <1>2, <2>1 DEF GetInv
  <2> QED
    BY <1>3, <1>4, <1>5, <1>6, <2>2, <2>3 DEF ProgramInv
<1>9. CASE NotifyDone(u)
  <2>1. /\ pc[u] = "t_notify" /\ pc'[u] = "user" /\ result'[u] = result[u] /\ m_state'[u] = m_state[u]
    BY <1>9, States DEF NotifyDone, Goto
  <2>2. TaskInv(u)'
    BY <1>0, <2>1 DEF TaskInv, RootPc, CvPc, AnyPc
  <2>3. GetInv(u)'
    BY <1>0, <1>1, <2>1 DEF GetInv
  <2> QED
    BY <1>3, <1>4, <1>5, <1>6, <2>2, <2>3 DEF ProgramInv
<1> QED
  BY <1>7, <1>8, <1>9

LEMMA ProgramStep == IInv /\ [Next]_vars => ProgramInv'
<1> SUFFICES ASSUME IInv, [Next]_vars PROVE ProgramInv'
  OBVIOUS
<1>1. CASE RootStep
  BY <1>1, AsyncKeeps, StartGetKeeps, RootWaitsKeeps, TestDoneKeeps, TakeKeeps, LeaveKeeps DEF RootStep
<1>2. ASSUME NEW u \in Task, Function(u) \/ CvStep(u) PROVE ProgramInv'
  <2>1. Own(u) /\ pc[u] # "user" /\ TaskInv(u)' /\ u \in Worker /\ u # Root
    BY <1>2, FunctionOwn, States
  <2> QED
    BY <2>1, OwnKeeps DEF ProgramInv
<1>3. ASSUME NEW u \in Task, Invoked(u) \/ SetDone(u) \/ NotifyDone(u) PROVE ProgramInv'
  BY <1>3, EndKeeps
<1>4. CASE UNCHANGED vars \/ \E w \in Worker : Clock(w)
  BY <1>4, IdleKeeps DEF Clock, Tick, vars, cv_vars, task_vars, root_vars, queue_vars
<1>5. ASSUME NEW w \in Worker, CvStep(w) PROVE ProgramInv'
  BY <1>2, <1>5, RootWaitsKeeps, States
<1> QED
  BY <1>1, <1>2, <1>3, <1>4, <1>5 DEF Next, TaskStep, Function, Over

-----------------------------------------------------------------------------
(* The Mutexes. *)

\* In a call of wait it is the condition variable's Mutex.
LEMMA CvHolds ==
    ASSUME IInv, NEW u \in Worker, pc[u] \in CvPc, NEW m \in Mtx
    PROVE  Holds(u, m) <=> m = MtxOf[on[u]] /\ pc[u] \in {"add", "set_wait", "remove"}
<1>1. CASE u = Root
  <2>1. on[u] = Order[at] /\ MtxOf[Order[at]] = Order[at]
    BY <1>1, States, Program DEF IInv, ProgramInv, RootInv
  <2> QED
    BY <1>1, <2>1 DEF Holds, CvPc
<1>2. CASE u # Root
  <2>1. on[u] = cv /\ cv \in {"cv", "cv_any"}
    BY <1>2, States DEF IInv, ProgramInv, TaskInv
  <2>2. MtxOf["cv"] = "mutex" /\ MtxOf["cv_any"] = "m_mtx"
    BY Program
  <2> QED
    BY <1>2, <2>1, <2>2 DEF Holds, CvPc
<1> QED
  BY <1>1, <1>2

\* A worker u goes on; a Mutex changes hands only when u locks or unlocks it.
LEMMA MtxKeeps ==
    ASSUME IInv, NEW u \in Worker, \A w \in Worker : w # u => pc'[w] = pc[w], cv' = cv,
           u # Root => at' = at \/ pc[Root] = "user",
           \A m \in Mtx : \/ m_mtx'[m] = m_mtx[m] /\ (Holds(u, m) => Holds(u, m)')
                          \/ m_mtx'[m] = NoWorker
                          \/ m_mtx'[m] = u /\ Holds(u, m)'
    PROVE  MtxInv'
<1> SUFFICES ASSUME NEW w \in Worker, NEW m \in Mtx, m_mtx'[m] = w PROVE Holds(w, m)'
  BY DEF MtxInv
<1>1. MtxInv /\ NoWorker \notin Worker
  BY Program DEF IInv
<1>2. CASE w = u
  BY <1>1, <1>2 DEF MtxInv
<1>3. CASE w # u
  <2>1. Holds(w, m)
    BY <1>1, <1>3 DEF MtxInv
  <2> QED
    BY <1>3, <2>1 DEF Holds
<1> QED
  BY <1>2, <1>3

\* Condition_variable::wait
LEMMA CvMtx ==
    ASSUME IInv, NEW u \in Worker, CvStep(u)
    PROVE  MtxInv'
<1>0. /\ pc[u] \in CvPc /\ pc \in [Worker -> CvPc \cup Pc] /\ UNCHANGED <<on, cv, at>>
      /\ m_mtx \in [Mtx -> Worker \cup {NoWorker}] /\ MtxOf[on[u]] \in Mtx
  <2>1. pc[u] \in CvPc /\ UNCHANGED <<on, cv, at>>
    BY DEF CvStep, AddWaiter, SetWaitInfo, WaitOver, Relock, RemoveWaiter, CvPc, root_vars
  <2>2. on[u] \in Cv /\ MtxOf \in [Cv -> Mtx]
    BY States, Program
  <2> QED
    BY <2>1, <2>2, States
<1>1. PICK l : pc' = [pc EXCEPT ![u] = l]
  BY DEF CvStep, AddWaiter, SetWaitInfo, WaitOver, Relock, RemoveWaiter, Goto
<1>2. pc'[u] = l /\ \A w \in Worker : w # u => pc'[w] = pc[w]
  BY <1>0, <1>1
<1>3. ASSUME NEW m \in Mtx
      PROVE  \/ m_mtx'[m] = m_mtx[m] /\ (Holds(u, m) => Holds(u, m)')
             \/ m_mtx'[m] = NoWorker
             \/ m_mtx'[m] = u /\ Holds(u, m)'
  <2>0. Holds(u, m) <=> m = MtxOf[on[u]] /\ pc[u] \in {"add", "set_wait", "remove"}
    BY <1>0, CvHolds
  <2>1. CASE AddWaiter(u)
    <3>1. pc[u] = "add" /\ pc'[u] = "set_wait" /\ UNCHANGED m_mtx
      BY <1>0, <2>1 DEF AddWaiter, Goto
    <3> QED
      BY <1>0, <3>1 DEF Holds
  <2>2. CASE SetWaitInfo(u)
    <3>1. m_mtx' = [m_mtx EXCEPT ![MtxOf[on[u]]] = NoWorker]
      BY <2>2 DEF SetWaitInfo, Release
    <3> QED
      BY <1>0, <2>0, <3>1
  <2>3. CASE WaitOver(u)
    BY <2>0, <2>3 DEF WaitOver
  <2>4. CASE Relock(u)
    <3>1. /\ m_mtx' = [m_mtx EXCEPT ![MtxOf[on[u]]] = u] /\ pc[u] = "relock" /\ pc'[u] = "remove"
      BY <1>0, <2>4 DEF Relock, Acquire, Goto
    <3>2. CASE m # MtxOf[on[u]]
      BY <1>0, <2>0, <3>1, <3>2
    <3>3. CASE m = MtxOf[on[u]] /\ u = Root
      <4>1. m = Order[at]
        BY <1>0, <3>3, States, Program DEF IInv, ProgramInv, RootInv
      <4> QED
        BY <1>0, <3>1, <3>3, <4>1 DEF Holds
    <3>4. CASE m = MtxOf[on[u]] /\ u # Root
      <4>1. on[u] = cv /\ cv \in {"cv", "cv_any"}
        BY <1>0, <3>4, States DEF IInv, ProgramInv, TaskInv
      <4>2. MtxOf["cv"] = "mutex" /\ MtxOf["cv_any"] = "m_mtx"
        BY Program
      <4> QED
        BY <1>0, <3>1, <3>4, <4>1, <4>2 DEF Holds
    <3> QED
      BY <3>2, <3>3, <3>4
  <2>5. CASE RemoveWaiter(u, AfterWait(u))
    <3>1. pc[u] = "remove" /\ pc'[u] = AfterWait(u) /\ UNCHANGED m_mtx
      BY <1>0, <2>5 DEF RemoveWaiter, Goto
    <3>2. cv \in {"cv", "cv_any"}
      BY States
    <3> QED
      BY <1>0, <3>1, <3>2 DEF Holds, AfterWait
  <2> QED
    BY <2>1, <2>2, <2>3, <2>4, <2>5 DEF CvStep
<1> QED
  BY <1>0, <1>2, <1>3, MtxKeeps

\* The tasks' functions, and their ends.
LEMMA TaskMtx ==
    ASSUME IInv, NEW u \in Task, TaskStep(u)
    PROVE  MtxInv'
<1>0. /\ u \in Worker /\ u # Root /\ cv \in {"cv", "cv_any"} /\ pc \in [Worker -> CvPc \cup Pc]
      /\ m_mtx \in [Mtx -> Worker \cup {NoWorker}] /\ TaskInv(u)
  BY States DEF IInv, ProgramInv
<1> DEFINE Moves(l) == pc' = [pc EXCEPT ![u] = l] /\ cv' = cv /\ at' = at
           Fine(m) == \/ m_mtx'[m] = m_mtx[m] /\ (Holds(u, m) => Holds(u, m)')
                      \/ m_mtx'[m] = NoWorker
                      \/ m_mtx'[m] = u /\ Holds(u, m)'
<1>t. ASSUME NEW l, Moves(l), \A m \in Mtx : Fine(m) PROVE MtxInv'
  <2>1. \A w \in Worker : w # u => pc'[w] = pc[w]
    BY <1>0, <1>t
  <2> QED
    BY <1>0, <1>t, <2>1, MtxKeeps
\* Who holds nothing and locks nothing.
<1>a. ASSUME NEW l, Moves(l), UNCHANGED m_mtx,
             pc[u] \in {"begin", "any_notify", "notify", "return", "done", "t_notify"}
      PROVE  MtxInv'
  <2>1. \A m \in Mtx : Fine(m)
    BY <1>0, <1>a DEF Holds
  <2> QED
    BY <1>a, <1>t, <2>1
\* Who locks m0 next to what it holds, or unlocks it.
<1>b. ASSUME NEW l, Moves(l), NEW m0 \in Mtx, Acquire(u, m0),
             pc'[u] = l /\ cv' = cv => Holds(u, m0)' /\ \A m \in Mtx : Holds(u, m) => Holds(u, m)'
      PROVE  MtxInv'
  <2>1. pc'[u] = l /\ m_mtx' = [m_mtx EXCEPT ![m0] = u]
    BY <1>0, <1>b DEF Acquire
  <2>2. \A m \in Mtx : Fine(m)
    BY <1>0, <1>b, <2>1
  <2> QED
    BY <1>b, <1>t, <2>2
<1>c. ASSUME NEW l, Moves(l), NEW m0 \in Mtx, Release(m0),
             pc'[u] = l /\ cv' = cv => \A m \in Mtx : m # m0 /\ Holds(u, m) => Holds(u, m)'
      PROVE  MtxInv'
  <2>1. pc'[u] = l /\ m_mtx' = [m_mtx EXCEPT ![m0] = NoWorker]
    BY <1>0, <1>c DEF Release
  <2>2. \A m \in Mtx : Fine(m)
    BY <1>0, <1>c, <2>1
  <2> QED
    BY <1>c, <1>t, <2>2
\* Who goes on with the same Mutexes.
<1>d. ASSUME NEW l, Moves(l), UNCHANGED m_mtx,
             pc'[u] = l /\ cv' = cv => \A m \in Mtx : Holds(u, m) => Holds(u, m)'
      PROVE  MtxInv'
  <2>1. pc'[u] = l
    BY <1>0, <1>d
  <2>2. \A m \in Mtx : Fine(m)
    BY <1>d, <2>1
  <2> QED
    BY <1>d, <1>t, <2>2
<1>m. "mutex" \in Mtx /\ "m_mtx" \in Mtx
  BY Program
<1> HIDE DEF Fine
<1>1. CASE Put(u) \/ AnyNotify(u) \/ Notify(u)
  <2>1. PICK l : pc' = [pc EXCEPT ![u] = l]
    BY <1>1 DEF Put, AnyNotify, Notify, Goto
  <2> QED
    BY <1>1, <1>a, <2>1 DEF Put, AnyNotify, Notify, root_vars
<1>2. CASE Invoked(u) \/ SetDone(u) \/ NotifyDone(u)
  <2>1. PICK l : pc' = [pc EXCEPT ![u] = l]
    BY <1>2 DEF Invoked, SetDone, NotifyDone, Goto
  <2> QED
    BY <1>2, <1>a, <2>1 DEF Invoked, SetDone, NotifyDone, root_vars
<1>3. CASE Fetch(u)
  <2>1. pc[u] = "begin" /\ Moves("test") /\ Acquire(u, "mutex")
    BY <1>3 DEF Fetch, Goto, root_vars
  <2>2. pc'[u] = "test" => Holds(u, "mutex")' /\ \A m \in Mtx : Holds(u, m) => Holds(u, m)'
    BY <1>0, <2>1 DEF Holds
  <2> QED
    BY <1>b, <1>m, <2>1, <2>2
<1>4. CASE Test(u)
  <2>1. /\ pc[u] \in {"test", "last_test"} /\ UNCHANGED <<cv, at>>
        /\ \/ Goto(u, "return") /\ Release("mutex")
           \/ Wait(u, "cv") /\ cv = "cv" /\ UNCHANGED m_mtx
           \/ Goto(u, "any_lock") /\ cv = "cv_any" /\ UNCHANGED m_mtx
    BY <1>4 DEF Test, root_vars
  <2>2. \A m \in Mtx : Holds(u, m) => m = "mutex"
    BY <1>0, <2>1 DEF Holds
  <2>3. CASE Goto(u, "return") /\ Release("mutex")
    BY <1>c, <1>m, <2>1, <2>2, <2>3 DEF Goto
  <2>4. CASE Wait(u, "cv") /\ cv = "cv" /\ UNCHANGED m_mtx
    <3>1. Moves("add") /\ (pc'[u] = "add" => \A m \in Mtx : Holds(u, m) => Holds(u, m)')
      BY <1>0, <2>1, <2>2, <2>4 DEF Wait, Goto, Holds
    <3> QED
      BY <1>d, <2>4, <3>1
  <2>5. CASE Goto(u, "any_lock") /\ cv = "cv_any" /\ UNCHANGED m_mtx
    <3>1. Moves("any_lock") /\ (pc'[u] = "any_lock" => \A m \in Mtx : Holds(u, m) => Holds(u, m)')
      BY <1>0, <2>1, <2>2, <2>5 DEF Goto, Holds
    <3> QED
      BY <1>d, <2>5, <3>1
  <2> QED
    BY <2>1, <2>3, <2>4, <2>5
<1>5. CASE AnyLock(u)
  <2>1. pc[u] = "any_lock" /\ Moves("any_unlock") /\ Acquire(u, "m_mtx") /\ cv = "cv_any"
    BY <1>0, <1>5 DEF AnyLock, Goto, root_vars, TaskInv, AnyPc
  <2>2. pc'[u] = "any_unlock" => Holds(u, "m_mtx")' /\ \A m \in Mtx : Holds(u, m) => Holds(u, m)'
    BY <1>0, <2>1 DEF Holds
  <2> QED
    BY <1>b, <1>m, <2>1, <2>2
<1>6. CASE AnyUnlock(u)
  <2>1. pc[u] = "any_unlock" /\ Release("mutex") /\ cv = "cv_any" /\ UNCHANGED <<cv, at>>
    BY <1>0, <1>6 DEF AnyUnlock, root_vars, TaskInv, AnyPc
  <2>2. PICK l \in {"last_exit", "add"} : Moves(l)
    BY <1>6, <2>1 DEF AnyUnlock, Wait, Goto
  <2>3. pc'[u] = l => \A m \in Mtx : m # "mutex" /\ Holds(u, m) => Holds(u, m)'
    BY <1>0, <2>1, <2>2 DEF Holds
  <2> QED
    BY <1>c, <1>m, <2>1, <2>2, <2>3
<1>7. CASE AnyExit(u)
  <2>1. pc[u] \in {"any_exit", "last_exit"} /\ Release("m_mtx") /\ UNCHANGED <<cv, at>>
    BY <1>7 DEF AnyExit, root_vars
  <2>2. PICK l \in {"any_relock", "last_relock"} : Moves(l)
    BY <1>7, <2>1 DEF AnyExit, Goto
  <2>3. \A m \in Mtx : Holds(u, m) => m = "m_mtx"
    BY <1>0, <2>1 DEF Holds
  <2> QED
    BY <1>c, <1>m, <2>1, <2>2, <2>3
<1>8. CASE AnyRelock(u)
  <2>1. pc[u] \in {"any_relock", "last_relock"} /\ Acquire(u, "mutex") /\ UNCHANGED <<cv, at>>
    BY <1>8 DEF AnyRelock, root_vars
  <2>2. PICK l \in {"test", "last_test"} : Moves(l)
    BY <1>8, <2>1 DEF AnyRelock, Goto
  <2>3. pc'[u] = l => Holds(u, "mutex")' /\ \A m \in Mtx : Holds(u, m) => Holds(u, m)'
    BY <1>0, <2>1, <2>2 DEF Holds
  <2> QED
    BY <1>b, <1>m, <2>1, <2>2, <2>3
<1> QED
  BY <1>1, <1>2, <1>3, <1>4, <1>5, <1>6, <1>7, <1>8 DEF TaskStep

\* The root.
LEMMA RootMtx == IInv /\ RootStep => MtxInv'
<1> SUFFICES ASSUME IInv, RootStep PROVE MtxInv'
  OBVIOUS
<1>0. RootInv /\ Root \in Worker /\ Root \notin Task /\ Order[at] \in Worker /\ Order[at] # Root /\ Order[at] \in Mtx
      /\ pc \in [Worker -> CvPc \cup Pc] /\ m_mtx \in [Mtx -> Worker \cup {NoWorker}]
  BY States, Program DEF IInv, ProgramInv
<1>1. CASE Async
  <2>1. /\ pc' = [pc EXCEPT ![Order[at]] = "begin"] /\ cv' = cv /\ UNCHANGED m_mtx /\ phase = "asyncs"
    BY <1>1 DEF Async
  <2>2. pc[Root] = "user" /\ pc[Order[at]] = "user"
    <3>1. at \in at..Len(Order)
      BY Places
    <3> QED
      BY <1>0, <2>1, <3>1 DEF IInv, ProgramInv, RootInv, AsyncInv
  <2>3. \A m \in Mtx : ~ Holds(Order[at], m)
    BY <1>0, <2>2 DEF Holds
  <2>4. PICK t \in Worker : t = Order[at]
    BY <1>0
  <2>5. \A w \in Worker : w # t => pc'[w] = pc[w]
    BY <1>0, <2>1, <2>4
  <2> QED
    BY <2>1, <2>2, <2>3, <2>4, <2>5, MtxKeeps
<1>2. CASE StartGet \/ Take \/ Leave
  <2>1. /\ pc[Root] \in {"user", "t_take"} \/ phase = "leave"
        /\ \A w \in Worker : w # Root => pc'[w] = pc[w]
    BY <1>0, <1>2 DEF StartGet, Take, Leave, Goto
  <2>2. \A m \in Mtx : ~ Holds(Root, m)
    BY <1>0, <2>1 DEF Holds, RootInv
  <2>3. cv' = cv /\ UNCHANGED m_mtx
    BY <1>2 DEF StartGet, Take, Leave
  <2> QED
    BY <1>0, <2>1, <2>2, <2>3, MtxKeeps
<1>3. CASE StartWait
  <2>1. /\ pc' = [pc EXCEPT ![Root] = "t_test"] /\ pc[Root] \in {"user", "t_lock"} /\ UNCHANGED <<cv, at>>
        /\ m_mtx' = [m_mtx EXCEPT ![Order[at]] = Root]
    BY <1>3 DEF StartWait, Acquire, Goto, root_vars
  <2>2. /\ \A w \in Worker : w # Root => pc'[w] = pc[w]
        /\ \A m \in Mtx : ~ Holds(Root, m) /\ (m # Order[at] => m_mtx'[m] = m_mtx[m])
        /\ m_mtx'[Order[at]] = Root /\ Holds(Root, Order[at])'
    BY <1>0, <2>1 DEF Holds
  <2> QED
    BY <1>0, <2>1, <2>2, MtxKeeps
<1>4. CASE TestDone
  <2>0. pc[Root] = "t_test" /\ cv' = cv
    BY <1>4 DEF TestDone
  <2>1. CASE "done" \in m_state[Order[at]]
    <3>1. PICK l : pc' = [pc EXCEPT ![Root] = l]
      BY <1>4, <2>1 DEF TestDone, Goto
    <3>2. m_mtx' = [m_mtx EXCEPT ![Order[at]] = NoWorker]
      BY <1>4, <2>1 DEF TestDone, Release
    <3>3. /\ \A w \in Worker : w # Root => pc'[w] = pc[w]
          /\ \A m \in Mtx : m_mtx'[m] = NoWorker \/ (m_mtx'[m] = m_mtx[m] /\ ~ Holds(Root, m))
      BY <1>0, <3>1, <3>2 DEF Holds
    <3> QED
      BY <1>0, <2>0, <3>3, MtxKeeps
  <2>2. CASE "done" \notin m_state[Order[at]]
    <3>1. pc' = [pc EXCEPT ![Root] = "add"] /\ UNCHANGED <<m_mtx, at>>
      BY <1>4, <2>2 DEF TestDone, Wait, Goto
    <3>2. /\ \A w \in Worker : w # Root => pc'[w] = pc[w]
          /\ \A m \in Mtx : Holds(Root, m) => Holds(Root, m)'
      BY <1>0, <2>0, <3>1 DEF Holds
    <3> QED
      BY <1>0, <2>0, <3>1, <3>2, MtxKeeps
  <2> QED
    BY <2>1, <2>2
<1> QED
  BY <1>1, <1>2, <1>3, <1>4 DEF RootStep

LEMMA MtxStep == IInv /\ [Next]_vars => MtxInv'
<1> SUFFICES ASSUME IInv, [Next]_vars PROVE MtxInv'
  OBVIOUS
<1>1. CASE UNCHANGED vars \/ \E w \in Worker : Clock(w)
  <2>1. UNCHANGED <<pc, m_mtx, cv, at>>
    BY <1>1 DEF Clock, Tick, vars, cv_vars, root_vars
  <2> QED
    BY <2>1 DEF IInv, MtxInv, Holds
<1> QED
  BY <1>1, RootMtx, TaskMtx, CvMtx DEF Next, Over

-----------------------------------------------------------------------------
(* The lists of waiters. *)

\* Nobody enters a list or leaves one.
LEMMA ListKeeps ==
    ASSUME IInv, UNCHANGED waiters,
           \A w \in Worker : /\ pc'[w] \in ListedPc <=> pc[w] \in ListedPc
                             /\ pc[w] \in ListedPc => on'[w] = on[w]
    PROVE  ListInv'
<1>1. \A c \in Cv : Listed(c)' = Listed(c)
  BY DEF Listed
<1> QED
  BY <1>1 DEF IInv, ListInv

LEMMA CvList ==
    ASSUME IInv, NEW u \in Worker, CvStep(u)
    PROVE  ListInv'
<1>0. /\ pc \in [Worker -> CvPc \cup Pc] /\ on \in [Worker -> Cv] /\ waiters \in [Cv -> Seq(Worker)]
      /\ cv \in {"cv", "cv_any"} /\ ListInv
  BY States DEF IInv
<1>1. PICK c \in Cv : c = on[u]
  BY <1>0
<1>2. CASE AddWaiter(u)
  <2>1. /\ waiters' = [waiters EXCEPT ![c] = Append(waiters[c], u)] /\ pc[u] = "add"
        /\ pc' = [pc EXCEPT ![u] = "set_wait"] /\ UNCHANGED on
    BY <1>1, <1>2 DEF AddWaiter, Goto
  <2>2. u \notin Listed(c) /\ Listed(c)' = Listed(c) \cup {u}
    BY <1>0, <1>1, <2>1 DEF Listed, ListedPc
  <2>3. \A d \in Cv : d # c => Listed(d)' = Listed(d)
    BY <1>0, <1>1, <2>1 DEF Listed, ListedPc
  <2>4. Enumerates(Append(waiters[c], u), Listed(c) \cup {u})
    BY <1>0, <2>2, EnumeratesAppend DEF ListInv
  <2>5. waiters'[c] = Append(waiters[c], u) /\ \A d \in Cv : d # c => waiters'[d] = waiters[d]
    BY <1>0, <2>1
  <2> QED
    BY <1>0, <2>2, <2>3, <2>4, <2>5 DEF ListInv
<1>3. CASE RemoveWaiter(u, AfterWait(u))
  <2>1. PICK i \in 1..Len(waiters[c]) :
           waiters[c][i] = u /\ waiters' = [waiters EXCEPT ![c] = RemoveAt(waiters[c], i)]
    BY <1>1, <1>3 DEF RemoveWaiter
  <2>2. pc[u] = "remove" /\ pc' = [pc EXCEPT ![u] = AfterWait(u)] /\ UNCHANGED on
    BY <1>3 DEF RemoveWaiter, Goto
  <2>3. AfterWait(u) \notin ListedPc
    BY <1>0 DEF AfterWait, ListedPc
  <2>4. Listed(c)' = Listed(c) \ {u}
    BY <1>0, <1>1, <2>2, <2>3 DEF Listed, ListedPc
  <2>5. \A d \in Cv : d # c => Listed(d)' = Listed(d)
    BY <1>0, <1>1, <2>2, <2>3 DEF Listed, ListedPc
  <2>6. Enumerates(RemoveAt(waiters[c], i), Listed(c) \ {u})
    BY <1>0, <2>1, EnumeratesRemove DEF ListInv
  <2>7. waiters'[c] = RemoveAt(waiters[c], i) /\ \A d \in Cv : d # c => waiters'[d] = waiters[d]
    BY <1>0, <2>1
  <2> QED
    BY <1>0, <2>4, <2>5, <2>6, <2>7 DEF ListInv
<1>4. CASE SetWaitInfo(u) \/ WaitOver(u) \/ Relock(u)
  <2>1. PICK l \in ListedPc : pc' = [pc EXCEPT ![u] = l]
    BY <1>4 DEF SetWaitInfo, WaitOver, Relock, Goto, ListedPc
  <2>2. pc[u] \in ListedPc /\ UNCHANGED <<on, waiters>>
    BY <1>4 DEF SetWaitInfo, WaitOver, Relock, ListedPc
  <2>3. \A w \in Worker : /\ pc'[w] \in ListedPc <=> pc[w] \in ListedPc
                          /\ pc[w] \in ListedPc => on'[w] = on[w]
    BY <1>0, <2>1, <2>2
  <2> QED
    BY <2>2, <2>3, ListKeeps
<1> QED
  BY <1>2, <1>3, <1>4 DEF CvStep

LEMMA TaskList ==
    ASSUME IInv, NEW u \in Worker, UNCHANGED waiters, pc[u] \notin ListedPc,
           NEW l, l \notin ListedPc, pc' = [pc EXCEPT ![u] = l],
           \A w \in Worker : w # u => on'[w] = on[w]
    PROVE  ListInv'
<1>1. \A w \in Worker : /\ pc'[w] \in ListedPc <=> pc[w] \in ListedPc
                        /\ pc[w] \in ListedPc => on'[w] = on[w]
  BY States
<1> QED
  BY <1>1, ListKeeps

LEMMA ListStep == IInv /\ [Next]_vars => ListInv'
<1> SUFFICES ASSUME IInv, [Next]_vars PROVE ListInv'
  OBVIOUS
<1>0. /\ pc \in [Worker -> CvPc \cup Pc] /\ on \in [Worker -> Cv] /\ Task \subseteq Worker
      /\ Root \in Worker /\ Order[at] \in Task
  BY States
<1>1. CASE UNCHANGED <<pc, on, waiters>>
  BY <1>1, ListKeeps
<1>2. ASSUME NEW u \in Task, Function(u) PROVE ListInv'
  <2>0. UNCHANGED waiters /\ pc[u] \notin ListedPc
    BY <1>2 DEF Function, Put, AnyNotify, Notify, Fetch, Test, AnyLock, AnyUnlock, AnyExit, AnyRelock, ListedPc
  <2>1. \A w \in Worker : w # u => on'[w] = on[w]
    BY <1>2, FunctionOwn DEF Own
  <2>2. CASE Put(u) \/ AnyNotify(u) \/ Notify(u)
    <3>1. PICK l \in {"any_notify", "notify", "return", "begin"} : pc' = [pc EXCEPT ![u] = l]
      BY <2>2 DEF Put, AnyNotify, Notify, Goto
    <3> QED
      BY <1>0, <2>0, <2>1, <3>1, TaskList DEF ListedPc
  <2>3. CASE Fetch(u) \/ Test(u) \/ AnyLock(u)
    <3>1. PICK l \in {"test", "return", "add", "any_lock", "any_unlock"} : pc' = [pc EXCEPT ![u] = l]
      BY <2>3 DEF Fetch, Test, AnyLock, Wait, Goto
    <3> QED
      BY <1>0, <2>0, <2>1, <3>1, TaskList DEF ListedPc
  <2>4. CASE AnyUnlock(u) \/ AnyExit(u) \/ AnyRelock(u)
    <3>1. PICK l \in {"last_exit", "add", "any_relock", "last_relock", "test", "last_test"} : pc' = [pc EXCEPT ![u] = l]
      BY <2>4 DEF AnyUnlock, AnyExit, AnyRelock, Wait, Goto
    <3> QED
      BY <1>0, <2>0, <2>1, <3>1, TaskList DEF ListedPc
  <2> QED
    BY <1>2, <2>2, <2>3, <2>4 DEF Function
<1>3. ASSUME NEW u \in Task, Invoked(u) \/ SetDone(u) \/ NotifyDone(u) PROVE ListInv'
  <2>1. PICK l \in {"done", "t_notify", "user"} : pc' = [pc EXCEPT ![u] = l]
    BY <1>3 DEF Invoked, SetDone, NotifyDone, Goto
  <2>2. UNCHANGED <<waiters, on>> /\ pc[u] \notin ListedPc
    BY <1>3 DEF Invoked, SetDone, NotifyDone, ListedPc
  <2> QED
    BY <1>0, <2>1, <2>2, TaskList DEF ListedPc
<1>4. CASE Async
  <2>1. PICK t \in Task : t = Order[at]
    BY <1>0
  <2>2. pc' = [pc EXCEPT ![t] = "begin"] /\ UNCHANGED <<waiters, on>> /\ phase = "asyncs"
    BY <1>4, <2>1 DEF Async
  <2>3. pc[t] = "user"
    <3>1. at \in at..Len(Order)
      BY Places
    <3> QED
      BY <2>1, <2>2, <3>1 DEF IInv, ProgramInv, AsyncInv
  <2> QED
    BY <1>0, <2>2, <2>3, TaskList DEF ListedPc
<1>5. CASE StartGet \/ StartWait \/ Take \/ Leave
  <2>1. UNCHANGED <<pc, on, waiters>> \/ \E l \in {"t_lock", "t_test", "user"} : pc' = [pc EXCEPT ![Root] = l]
    BY <1>5 DEF StartGet, StartWait, Take, Leave, Goto
  <2>2. /\ pc[Root] \notin ListedPc \/ UNCHANGED <<pc, on, waiters>>
        /\ UNCHANGED <<on, waiters>>
    BY <1>5 DEF StartGet, StartWait, Take, Leave, ListedPc
  <2> QED
    BY <1>0, <1>1, <2>1, <2>2, TaskList DEF ListedPc
<1>6. CASE TestDone
  <2>1. PICK l \in {"t_take", "user", "add"} : pc' = [pc EXCEPT ![Root] = l]
    BY <1>6 DEF TestDone, Wait, Goto
  <2>2. UNCHANGED waiters /\ pc[Root] \notin ListedPc /\ \A w \in Worker : w # Root => on'[w] = on[w]
    BY <1>0, <1>6 DEF TestDone, Wait, ListedPc
  <2> QED
    BY <1>0, <2>1, <2>2, TaskList DEF ListedPc
<1>7. CASE UNCHANGED vars \/ \E w \in Worker : Clock(w)
  BY <1>1, <1>7 DEF Clock, Tick, vars, cv_vars
<1> QED
  BY <1>2, <1>3, <1>4, <1>5, <1>6, <1>7, CvList DEF Next, RootStep, TaskStep, Function, Over

-----------------------------------------------------------------------------
(* The theorems. *)

LEMMA InitOK == Init => IInv
<1> SUFFICES ASSUME Init PROVE IInv
  OBVIOUS
<1>0. /\ Len(Order) \in Nat \ {0} /\ Worker = Task \cup {Root} /\ Root \notin Task /\ NoWorker \notin Worker
      /\ Producer \subseteq Task /\ "cv" \in Cv /\ MaxItems \in Nat \ {0}
      /\ \A i \in 1..Len(Order) : Order[i] \in Task
  BY Program
<1>1. /\ pc = [w \in Worker |-> "user"] /\ m_mtx = [m \in Mtx |-> NoWorker] /\ waiters = [c \in Cv |-> <<>>]
      /\ phase = "asyncs" /\ at = 1 /\ m_state = [t \in Task |-> {}] /\ got = [t \in Task |-> <<>>]
      /\ todo = [p \in Producer |-> MaxItems]
  BY DEF Init, CvInit
<1>2. CvTypeOK(Pc)
  <2>1. (CHOOSE c \in Cv : TRUE) \in Cv
    BY <1>0
  <2> QED
    BY <1>0, <2>1 DEF Init, CvInit, CvTypeOK, CvPc, Pc, TimerState
<1>3. TypeOK
  BY <1>0, <1>2 DEF Init, TypeOK
<1>4. RootInv /\ AsyncInv /\ WaitInv
  <2>1. \A i \in at..Len(Order) : i \in 1..Len(Order)
    BY <1>0, <1>1
  <2> QED
    BY <1>0, <1>1, <2>1 DEF RootInv, RootPc, CvPc, AsyncInv, WaitInv, Waited
<1>5. ASSUME NEW t \in Task PROVE TaskInv(t) /\ GetInv(t)
  BY <1>0, <1>1 DEF TaskInv, GetInv, RootPc, CvPc, AnyPc
<1>6. MtxInv
  BY <1>0, <1>1 DEF MtxInv
<1>7. ListInv
  <2>1. ASSUME NEW c \in Cv PROVE Enumerates(waiters[c], Listed(c))
    <3>1. waiters[c] = <<>> /\ Listed(c) = {}
      BY <1>1 DEF Listed, ListedPc
    <3> QED
      BY <3>1 DEF Enumerates
  <2> QED
    BY <2>1 DEF ListInv
<1> QED
  BY <1>3, <1>4, <1>5, <1>6, <1>7 DEF IInv, ProgramInv

\* The inductive invariant of the program.
THEOREM IInvHolds == Spec => []IInv
<1>1. IInv /\ [Next]_vars => IInv'
  BY TypesStep, ProgramStep, MtxStep, ListStep DEF IInv
<1> QED
  BY InitOK, <1>1, PTL DEF Spec

\* Every variable of the program keeps its type: a result is a value or an exception once
\* it is there, and no worker is at a control point that is not its own (TaskBase,
\* Condition_variable, Condition_variable_any).
THEOREM TypesKept == Spec => []TypeOK
<1>1. IInv => TypeOK
  BY DEF IInv
<1> QED
  BY IInvHolds, <1>1, PTL

\* get of any task gives what its function returned or threw, once: prepare_get does not
\* go on before the done bit is set, and the bit is set after the result was constructed
\* (TaskBase::prepare_get, TaskBase::notify, TaskResult::get).
THEOREM ResultsAreRight == Spec => []GetsRight
<1>1. IInv => GetsRight
  <2> SUFFICES ASSUME IInv, NEW t \in Task, got[t] # <<>>
               PROVE  /\ got[t][1] = result[t] /\ result[t] # "none"
                      /\ \A i \in 2..Len(got[t]) : got[t][i] = "logic_error"
    BY DEF GetsRight
  <2>1. GetInv(t) /\ TaskInv(t)
    BY DEF IInv, ProgramInv
  <2> QED
    BY <2>1 DEF GetInv, TaskInv
<1> QED
  BY IInvHolds, <1>1, PTL

\* When the root leaves its frame every task is done, and a task that is done has left
\* the mutex, the condition variable and its list; so has the root itself (asyncs<true>,
\* Condition_variable::wait_internal, TaskBase::notify).
THEOREM FrameIsSafe == Spec => []FrameOutlivesTasks
<1>1. IInv => FrameOutlivesTasks
  <2> SUFFICES ASSUME IInv, phase = "over" PROVE FrameOutlivesTasks
    BY DEF FrameOutlivesTasks
  <2>1. pc[Root] = "user" /\ Worker = Task \cup {Root}
    BY States DEF IInv, ProgramInv, RootInv
  <2>2. ASSUME NEW t \in Task PROVE pc[t] = "user" \/ (pc[t] = "t_notify" /\ m_task[t])
    <3>1. PICK i \in 1..Len(Order) : Order[i] = t
      BY Program
    <3>2. "done" \in m_state[t] /\ TaskInv(t)
      BY <3>1 DEF IInv, ProgramInv, WaitInv, Waited
    <3> QED
      BY <3>2 DEF TaskInv
  <2>3. \A w \in Worker : pc[w] \in {"user", "t_notify"}
    BY <2>1, <2>2
  <2>4. ASSUME NEW m \in Mtx PROVE Free(m)
    <3>1. m_mtx[m] \in Worker \cup {NoWorker}
      BY States
    <3>2. \A w \in Worker : ~ Holds(w, m)
      BY <2>3 DEF Holds
    <3> QED
      BY <3>1, <3>2 DEF IInv, MtxInv, Free
  <2>5. waiters[cv] = <<>>
    <3>1. cv \in Cv /\ Listed(cv) = {}
      BY <2>3, States, Program DEF Listed, ListedPc
    <3>2. Enumerates(waiters[cv], {})
      BY <3>1 DEF IInv, ListInv
    <3>3. waiters[cv] \in Seq({}) /\ Len(waiters[cv]) \in Nat /\ \A i \in 1..Len(waiters[cv]) : waiters[cv][i] \in {}
      BY <3>2, EnumeratesFacts
    <3> QED
      BY <3>2, <3>3, EnumeratesFacts
  <2> QED
    BY <2>2, <2>4, <2>5 DEF FrameOutlivesTasks
<1> QED
  BY IInvHolds, <1>1, PTL

-----------------------------------------------------------------------------
(* The notification of the root. *)

\* The root holds the task's m_mtx from its test to the end of its wait but for the
\* time it is parked,
RootHolds == pc[Root] \in {"t_test", "add", "set_wait", "remove"} => m_mtx[Order[at]] = Root

\* and does not begin to wait for one that is done.
WaitsInTime == pc[Root] \in {"add", "set_wait"} => "done" \notin m_state[Order[at]]

WakeInv == RootHolds /\ WaitsInTime /\ NoLostDone

\* Steps of others that do not set the done bit.
LEMMA OthersKeep ==
    ASSUME WakeInv, pc'[Root] = pc[Root], at' = at, m_mtx'[Order[at]] = m_mtx[Order[at]],
           cond[Root] => cond'[Root], m_state'[Order[at]] = m_state[Order[at]],
           pc[Order[at]] = "t_notify" => pc'[Order[at]] = "t_notify"
    PROVE  WakeInv'
  BY DEF WakeInv, RootHolds, WaitsInTime, NoLostDone

\* The root is neither in a critical section of m_mtx nor parked.
LEMMA ElsewhereKeeps ==
    ASSUME pc'[Root] \notin {"t_test", "add", "set_wait", "remove", "parked"}
    PROVE  WakeInv'
  BY DEF WakeInv, RootHolds, WaitsInTime, NoLostDone

\* A notification takes no condition back.
LEMMA NotifyGrows ==
    ASSUME IInv, NEW c \in Cv, NotifyOne(c) \/ NotifyAll(c), cond[Root]
    PROVE  cond'[Root]
<1>1. Root \in Worker /\ cond \in [Worker -> BOOLEAN] /\ waiters \in [Cv -> Seq(Worker)]
  BY States DEF IInv, TypeOK, CvTypeOK
<1>2. CASE NotifyAll(c)
  BY <1>1, <1>2 DEF NotifyAll
<1>3. CASE NotifyOne(c)
  BY <1>1, <1>3 DEF NotifyOne
<1> QED
  BY <1>2, <1>3

\* The root on its own.
LEMMA RootWakes == IInv /\ WakeInv /\ (RootStep \/ CvStep(Root)) => WakeInv'
<1> SUFFICES ASSUME IInv, WakeInv, RootStep \/ CvStep(Root) PROVE WakeInv'
  OBVIOUS
<1>0. /\ RootInv /\ Root \in Worker /\ Order[at] \in Task /\ Order[at] # Root /\ Order[at] \in Mtx
      /\ pc \in [Worker -> CvPc \cup Pc] /\ m_mtx \in [Mtx -> Worker \cup {NoWorker}]
      /\ MtxOf[Order[at]] = Order[at]
  BY States, Program DEF IInv, ProgramInv
<1>1. CASE Async
  <2>1. pc'[Root] = "user"
    BY <1>0, <1>1 DEF Async, RootInv
  <2> QED
    BY <2>1, ElsewhereKeeps
<1>2. CASE StartGet \/ Take \/ Leave
  <2>1. pc'[Root] \in {"user", "t_lock"}
    BY <1>0, <1>2 DEF StartGet, Take, Leave, Goto, RootInv
  <2> QED
    BY <2>1, ElsewhereKeeps
<1>3. CASE StartWait
  <2>1. pc'[Root] = "t_test" /\ m_mtx'[Order[at]] = Root /\ at' = at
    BY <1>0, <1>3 DEF StartWait, Acquire, Goto, root_vars
  <2> QED
    BY <2>1 DEF WakeInv, RootHolds, WaitsInTime, NoLostDone
<1>4. CASE TestDone
  <2>1. CASE "done" \in m_state[Order[at]]
    <3>1. pc'[Root] \in {"user", "t_take"}
      BY <1>0, <1>4, <2>1 DEF TestDone, Goto
    <3> QED
      BY <3>1, ElsewhereKeeps
  <2>2. CASE "done" \notin m_state[Order[at]]
    <3>1. /\ pc[Root] = "t_test" /\ pc'[Root] = "add" /\ UNCHANGED <<m_mtx, at, m_state>>
      BY <1>0, <1>4, <2>2 DEF TestDone, Wait, Goto, task_vars
    <3> QED
      BY <2>2, <3>1 DEF WakeInv, RootHolds, WaitsInTime, NoLostDone
  <2> QED
    BY <2>1, <2>2
<1>5. CASE CvStep(Root)
  <2>0. UNCHANGED <<at, m_state>>
    BY <1>5 DEF CvStep, root_vars, task_vars
  <2>1. CASE AddWaiter(Root)
    <3>1. pc[Root] = "add" /\ pc'[Root] = "set_wait" /\ UNCHANGED m_mtx
      BY <1>0, <2>1 DEF AddWaiter, Goto
    <3> QED
      BY <2>0, <3>1 DEF WakeInv, RootHolds, WaitsInTime, NoLostDone
  <2>2. CASE SetWaitInfo(Root)
    <3>1. pc[Root] = "set_wait" /\ pc'[Root] = "parked"
      BY <1>0, <2>2 DEF SetWaitInfo, Goto
    <3> QED
      BY <2>0, <3>1 DEF WakeInv, RootHolds, WaitsInTime, NoLostDone
  <2>3. CASE WaitOver(Root)
    <3>1. pc'[Root] = "relock"
      BY <1>0, <2>3 DEF WaitOver, Goto
    <3> QED
      BY <3>1, ElsewhereKeeps
  <2>4. CASE Relock(Root)
    <3>1. pc[Root] = "relock" /\ pc'[Root] = "remove" /\ m_mtx' = [m_mtx EXCEPT ![MtxOf[on[Root]]] = Root]
      BY <1>0, <2>4 DEF Relock, Acquire, Goto
    <3>2. on[Root] = Order[at]
      BY <1>0, <3>1 DEF RootInv, CvPc
    <3>3. m_mtx'[Order[at]] = Root
      BY <1>0, <3>1, <3>2
    <3> QED
      BY <2>0, <3>1, <3>3 DEF WakeInv, RootHolds, WaitsInTime, NoLostDone
  <2>5. CASE RemoveWaiter(Root, AfterWait(Root))
    <3>1. pc[Root] = "remove" /\ pc'[Root] = "t_test" /\ UNCHANGED m_mtx
      BY <1>0, <2>5 DEF RemoveWaiter, AfterWait, Goto
    <3> QED
      BY <2>0, <3>1 DEF WakeInv, RootHolds, WaitsInTime, NoLostDone
  <2> QED
    BY <1>5, <2>1, <2>2, <2>3, <2>4, <2>5 DEF CvStep
<1> QED
  BY <1>1, <1>2, <1>3, <1>4, <1>5 DEF RootStep

\* Tasks before their end use the program's mutexes and condition variable only.
LEMMA FunctionWakes ==
    ASSUME IInv, WakeInv, NEW u \in Task, Function(u) \/ CvStep(u)
    PROVE  WakeInv'
<1>0. /\ u \in Worker /\ u # Root /\ Root \in Worker /\ Order[at] \in Task /\ Order[at] \in Mtx
      /\ Order[at] \notin {"mutex", "m_mtx"} /\ cv \in Cv
      /\ Task \subseteq Worker
      /\ m_mtx \in [Mtx -> Worker \cup {NoWorker}] /\ cond \in [Worker -> BOOLEAN]
  BY States, Program DEF IInv, TypeOK, CvTypeOK
<1>1. /\ \A w \in Worker : w # u => pc'[w] = pc[w]
      /\ UNCHANGED <<at, m_state>>
  BY <1>0, FunctionOwn DEF Own
<1>2. m_mtx'[Order[at]] = m_mtx[Order[at]]
  <2>1. ASSUME NEW m \in {"mutex", "m_mtx"}, NEW v, m_mtx' = [m_mtx EXCEPT ![m] = v]
        PROVE  m_mtx'[Order[at]] = m_mtx[Order[at]]
    BY <1>0, <2>1
  <2>2. CASE CvStep(u)
    <3>1. CASE AddWaiter(u) \/ WaitOver(u) \/ RemoveWaiter(u, AfterWait(u))
      BY <3>1 DEF AddWaiter, WaitOver, RemoveWaiter
    <3>2. CASE SetWaitInfo(u) \/ Relock(u)
      <4>1. on[u] = cv /\ cv \in {"cv", "cv_any"}
        BY <1>0, <3>2, States DEF IInv, ProgramInv, TaskInv, SetWaitInfo, Relock, CvPc
      <4>2. MtxOf["cv"] = "mutex" /\ MtxOf["cv_any"] = "m_mtx"
        BY Program
      <4>3. MtxOf[on[u]] \in {"mutex", "m_mtx"}
        BY <4>1, <4>2
      <4> QED
        BY <2>1, <3>2, <4>3 DEF SetWaitInfo, Relock, Release, Acquire
    <3> QED
      BY <2>2, <3>1, <3>2 DEF CvStep
  <2>3. CASE Put(u) \/ AnyNotify(u) \/ Notify(u)
    BY <2>3 DEF Put, AnyNotify, Notify
  <2>4. CASE Fetch(u) \/ AnyLock(u) \/ AnyUnlock(u)
    BY <2>1, <2>4 DEF Fetch, AnyLock, AnyUnlock, Acquire, Release
  <2>5. CASE AnyExit(u) \/ AnyRelock(u) \/ Test(u)
    BY <2>1, <2>5 DEF AnyExit, AnyRelock, Test, Acquire, Release
  <2> QED
    BY <2>2, <2>3, <2>4, <2>5 DEF Function
<1>3. cond[Root] => cond'[Root]
  <2>1. CASE CvStep(u)
    BY <1>0, <2>1 DEF CvStep, AddWaiter, SetWaitInfo, WaitOver, Relock, RemoveWaiter
  <2>2. CASE Notify(u)
    <3>1. NotifyOne(cv) \/ NotifyAll(cv)
      BY <2>2 DEF Notify
    <3> QED
      BY <1>0, <3>1, NotifyGrows
  <2>3. CASE Function(u) /\ ~ Notify(u)
    BY <2>3 DEF Function, Put, AnyNotify, Fetch, Test, AnyLock, AnyUnlock, AnyExit, AnyRelock
  <2> QED
    BY <2>1, <2>2, <2>3
<1>4. pc[u] # "t_notify"
  BY DEF Function, Put, AnyNotify, Notify, Fetch, Test, AnyLock, AnyUnlock, AnyExit, AnyRelock, CvStep,
         AddWaiter, SetWaitInfo, WaitOver, Relock, RemoveWaiter
<1>5. pc[Order[at]] = "t_notify" => pc'[Order[at]] = "t_notify"
  BY <1>0, <1>1, <1>4
<1> QED
  BY <1>0, <1>1, <1>2, <1>3, <1>5, OthersKeep

\* The end of a task: the bit, in a critical section, and then the notification.
LEMMA EndWakes ==
    ASSUME IInv, WakeInv, NEW u \in Task, Invoked(u) \/ SetDone(u) \/ NotifyDone(u)
    PROVE  WakeInv'
<1>0. /\ u \in Worker /\ u # Root /\ u \in Cv /\ Root \in Worker /\ Order[at] \in Task /\ Order[at] \in Mtx
      /\ Task \subseteq Worker /\ pc \in [Worker -> CvPc \cup Pc] /\ cond \in [Worker -> BOOLEAN]
      /\ m_state \in [Task -> SUBSET {"done", "taken"}] /\ NoWorker # Root
  BY States, Program DEF IInv, TypeOK, CvTypeOK
<1>1. UNCHANGED <<m_mtx, at>> /\ \A w \in Worker : w # u => pc'[w] = pc[w]
  BY <1>0 DEF Invoked, SetDone, NotifyDone, Goto, root_vars
<1>2. cond[Root] => cond'[Root]
  <2>1. CASE NotifyDone(u)
    BY <1>0, <2>1, NotifyGrows DEF NotifyDone
  <2>2. CASE Invoked(u) \/ SetDone(u)
    BY <2>2 DEF Invoked, SetDone
  <2> QED
    BY <2>1, <2>2
<1>3. CASE Order[at] # u
  <2>1. m_state'[Order[at]] = m_state[Order[at]]
    BY <1>0, <1>3 DEF Invoked, SetDone, NotifyDone
  <2> QED
    BY <1>0, <1>1, <1>2, <1>3, <2>1, OthersKeep
<1>4. CASE Order[at] = u /\ Invoked(u)
  <2>1. m_state' = m_state /\ pc[u] # "t_notify"
    BY <1>4 DEF Invoked
  <2> QED
    BY <1>0, <1>1, <1>2, <1>4, <2>1, OthersKeep
<1>5. CASE Order[at] = u /\ SetDone(u)
  <2>1. m_mtx[u] = NoWorker /\ pc'[u] = "t_notify"
    BY <1>0, <1>5 DEF SetDone, Free, Goto
  <2>2. pc[Root] \notin {"t_test", "add", "set_wait", "remove"}
    BY <1>0, <1>5, <2>1 DEF WakeInv, RootHolds
  <2> QED
    BY <1>0, <1>1, <1>5, <2>1, <2>2 DEF WakeInv, RootHolds, WaitsInTime, NoLostDone
<1>6. CASE Order[at] = u /\ NotifyDone(u)
  <2>1. NotifyOne(u) /\ UNCHANGED m_state
    BY <1>6 DEF NotifyDone
  <2>2. ASSUME pc[Root] = "parked" PROVE cond'[Root]
    <3>1. Root \in Listed(u)
      BY <1>0, <1>6, <2>2 DEF IInv, ProgramInv, RootInv, CvPc, Listed, ListedPc
    <3>2. \A w \in Listed(u) : w = Root
      <4> SUFFICES ASSUME NEW w \in Listed(u), w # Root PROVE FALSE
        OBVIOUS
      <4>1. w \in Task /\ on[w] = u /\ pc[w] \in CvPc
        BY States DEF Listed, ListedPc, CvPc
      <4>2. on[w] = cv /\ cv \in {"cv", "cv_any"}
        BY <4>1, States DEF IInv, ProgramInv, TaskInv
      <4> QED
        BY <4>1, <4>2, Program
    <3>3. Enumerates(waiters[u], Listed(u))
      BY <1>0 DEF IInv, ListInv
    <3>4. waiters[u] # <<>>
      <4>1. PICK i \in 1..Len(waiters[u]) : waiters[u][i] = Root
        BY <3>1, <3>3, EnumeratesFacts
      <4> QED
        BY <4>1
    <3>5. Head(waiters[u]) = Root
      BY <3>2, <3>3, <3>4, EnumeratesTail
    <3> QED
      BY <1>0, <2>1, <3>4, <3>5 DEF NotifyOne
  <2> QED
    BY <1>0, <1>1, <1>6, <2>1, <2>2 DEF WakeInv, RootHolds, WaitsInTime, NoLostDone
<1> QED
  BY <1>3, <1>4, <1>5, <1>6

LEMMA WakeStep == IInv /\ WakeInv /\ [Next]_vars => WakeInv'
<1> SUFFICES ASSUME IInv, WakeInv, [Next]_vars PROVE WakeInv'
  OBVIOUS
<1>1. CASE UNCHANGED vars \/ \E w \in Worker : Clock(w)
  <2>1. UNCHANGED <<pc, m_mtx, at, cond, m_state>>
    BY <1>1 DEF Clock, Tick, vars, cv_vars, root_vars, task_vars
  <2> QED
    BY <2>1, OthersKeep
<1>2. ASSUME NEW w \in Worker, CvStep(w) PROVE WakeInv'
  BY <1>2, RootWakes, FunctionWakes, States
<1> QED
  BY <1>1, <1>2, RootWakes, FunctionWakes, EndWakes DEF Next, TaskStep, Function, Over

\* Whoever waits for a task learns that it is done: one notify_one of TaskBase::notify is
\* enough, whenever it comes between the test and the sleep of TaskBase::wait.
THEOREM RootIsNotified == Spec => []NoLostDone
<1>1. Init => WakeInv
  <2> SUFFICES ASSUME Init PROVE WakeInv
    OBVIOUS
  <2>1. pc[Root] = "user"
    BY Program DEF Init, CvInit
  <2> QED
    BY <2>1 DEF WakeInv, RootHolds, WaitsInTime, NoLostDone
<1>2. WakeInv => NoLostDone
  BY DEF WakeInv
<1> QED
  BY <1>1, <1>2, WakeStep, IInvHolds, PTL DEF Spec
=============================================================================

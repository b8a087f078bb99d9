--------------------------- MODULE SharedMutexProofs ---------------------------
(***************************************************************************)
(* The shared mutexes, for any number of workers and calls and any limit   *)
(* of readers: the packed word tells the truth, writers come first, and    *)
(* the abstract shared lock.  For as many workers as the limit allows, no  *)
(* notification is lost.                                                   *)
(***************************************************************************)
EXTENDS SharedMutex, ListProofs, FiniteSetTheorems

\* Every worker may hold the mutex shared at once.  config.hpp allows 256 workers per
\* scheduler, and the limit is 2^31 - 1 readers.
FewWorkers == IsFiniteSet(Worker) /\ Cardinality(Worker) <= ReadersBits

\* Who holds the mutex shared, and who has the write bit.
Readers == {w \in Worker : held[w] = "read"}
Writers == {w \in Worker : held[w] = "write" \/ At(w, "gate2")}

\* The readers are counted, and the bit is one writer's, who excludes them.
WordInv ==
    /\ IsFiniteSet(Readers) /\ Cardinality(Readers) = readers
    /\ IF has_write THEN \E w \in Worker : Writers = {w} ELSE Writers = {}
    /\ (\E w \in Worker : held[w] = "write") => ~ has_readers

\* A call that is under way holds nothing yet, or nothing any more.
CallInv == \A w \in Worker : pc[w] # "user" => held[w] = "none"

\* m_mtx is held by the call that is inside,
Inside == {"gate1", "gate2", "add", "set_wait", "remove"}
MtxInv == \A w \in Worker : m_mtx["m_mtx"] = w <=> pc[w] \in Inside

\* who waits is on its gate's list, once, from before it unlocks m_mtx to after it
\* locked it,
Listed(c) == {w \in Worker : on[w] = c /\ pc[w] \in {"set_wait", "parked", "relock", "remove"}}
ListInv == \A c \in Cv : Enumerates(waiters[c], Listed(c))

\* and does not enter the list while the gate is open for it.
Shut(w, c) == IF c = "gate2" THEN has_readers ELSE IF want[w] = "read" THEN ~ MayRead ELSE has_write
BlockedInv == \A w \in Worker : pc[w] \in {"add", "set_wait"} => Shut(w, on[w])

\* Who sleeps at gate 1 while no writer has the bit is about to be notified by
\* notify_all; who sleeps at gate 2 without a reader by the last one.
GateInv ==
    /\ FewWorkers /\ (\E w \in Worker : Asleep(w, "gate1")) /\ ~ has_write
          => \E v \in Worker : pc[v] = "notify_all"
    /\ (\E w \in Worker : Asleep(w, "gate2")) /\ ~ has_readers
          => \E v \in Worker : pc[v] = "notify_writer"

IInv == TypeOK /\ WordInv /\ CallInv /\ MtxInv /\ ListInv /\ BlockedInv /\ GateInv

-----------------------------------------------------------------------------
(* The packed word. *)

WordFacts ==
    /\ readers \in 0..ReadersBits
    /\ has_write <=> m_state >= WriteBit
    /\ readers = IF has_write THEN m_state - WriteBit ELSE m_state

\* The word splits into the count and the bit.
LEMMA WordIs == m_state \in 0..(2 * WriteBit - 1) => WordFacts
<1> SUFFICES ASSUME m_state \in 0..(2 * WriteBit - 1) PROVE WordFacts
  OBVIOUS
<1>0. WriteBit \in Nat \ {0} /\ WriteBit = ReadersBits + 1 /\ ReadersBits \in Nat
  BY SharedAssumption DEF WriteBit
<1> HIDE DEF WriteBit
<1>1. m_state % WriteBit \in 0..(WriteBit - 1)
  BY <1>0
<1>2. m_state >= WriteBit <=> m_state \div WriteBit = 1
  BY <1>0
<1>3. m_state < WriteBit => m_state % WriteBit = m_state
  BY <1>0
<1>4. m_state >= WriteBit => m_state % WriteBit = m_state - WriteBit
  BY <1>0
<1> QED
  BY <1>0, <1>1, <1>2, <1>3, <1>4 DEF WordFacts, readers, has_write

LEMMA WordIsNext == (m_state \in 0..(2 * WriteBit - 1))' => WordFacts'
  BY WordIs, PTL

\* What the operations of Shared_mutex_state do to the count and to the bit.
LEMMA WordMoves ==
    ASSUME m_state \in 0..(2 * WriteBit - 1)
    PROVE  /\ set_write => /\ (m_state \in 0..(2 * WriteBit - 1))'
                           /\ readers' = readers /\ has_write'
           /\ unset_write => /\ (m_state \in 0..(2 * WriteBit - 1))'
                             /\ readers' = readers /\ ~ has_write'
           /\ inc_readers => /\ (m_state \in 0..(2 * WriteBit - 1))'
                             /\ MayRead => readers' = readers + 1 /\ ~ has_write'
           /\ dec_readers => /\ (m_state \in 0..(2 * WriteBit - 1))'
                             /\ has_readers => readers' = readers - 1 /\ (has_write' <=> has_write)
<1>0. WriteBit \in Nat \ {0} /\ WriteBit = ReadersBits + 1 /\ ReadersBits \in Nat
  BY SharedAssumption DEF WriteBit
<1>w. /\ readers \in 0..ReadersBits
      /\ has_write <=> m_state >= WriteBit
      /\ readers = IF has_write THEN m_state - WriteBit ELSE m_state
  BY WordIs DEF WordFacts
<1>n. m_state' \in 0..(2 * WriteBit - 1) =>
         /\ has_write' <=> m_state' >= WriteBit
         /\ readers' = IF has_write' THEN m_state' - WriteBit ELSE m_state'
  BY WordIsNext DEF WordFacts, WriteBit
<1>t. m_state' \in 0..(2 * WriteBit - 1) => (m_state \in 0..(2 * WriteBit - 1))'
  BY DEF WriteBit
<1> USE DEF has_readers, MayRead, max_readers
<1> HIDE DEF WriteBit, readers, has_write
<1>1. ASSUME set_write
      PROVE  m_state' \in 0..(2 * WriteBit - 1) /\ readers' = readers /\ has_write'
  <2>1. m_state' = readers + WriteBit
    BY <1>1 DEF set_write
  <2> QED
    BY <1>0, <1>w, <1>n, <2>1
<1>2. ASSUME unset_write
      PROVE  m_state' \in 0..(2 * WriteBit - 1) /\ readers' = readers /\ ~ has_write'
  <2>1. m_state' = readers
    BY <1>2 DEF unset_write
  <2> QED
    BY <1>0, <1>w, <1>n, <2>1
<1>3. ASSUME inc_readers
      PROVE  /\ m_state' \in 0..(2 * WriteBit - 1)
             /\ MayRead => readers' = readers + 1 /\ ~ has_write'
  <2>1. m_state' = (m_state + 1) % (2 * WriteBit)
    BY <1>3 DEF inc_readers
  <2>2. m_state' = IF m_state = 2 * WriteBit - 1 THEN 0 ELSE m_state + 1
    BY <1>0, <2>1
  <2> QED
    BY <1>0, <1>w, <1>n, <2>2
<1>4. ASSUME dec_readers
      PROVE  /\ m_state' \in 0..(2 * WriteBit - 1)
             /\ has_readers => readers' = readers - 1 /\ (has_write' <=> has_write)
  <2>1. m_state' = (m_state - 1) % (2 * WriteBit)
    BY <1>4 DEF dec_readers
  <2>2. m_state' = IF m_state = 0 THEN 2 * WriteBit - 1 ELSE m_state - 1
    BY <1>0, <2>1
  <2> QED
    BY <1>0, <1>w, <1>n, <2>2
<1> QED
  BY <1>t, <1>1, <1>2, <1>3, <1>4

-----------------------------------------------------------------------------
(* The steps of a worker. *)

\* There is one Mutex, and two gates.
LEMMA One ==
    ASSUME TypeOK
    PROVE  /\ Cv = {"gate1", "gate2"} /\ Mtx = {"m_mtx"} /\ NoWorker \notin Worker
           /\ \A w \in Worker : on[w] \in {"gate1", "gate2"} /\ MtxOf[on[w]] = "m_mtx"
  BY WorkerAssumption, SharedAssumption DEF TypeOK, CvTypeOK

\* Gate 1 lets a reader in, or a writer through; gate 2 lets the writer in or it
\* gives up; at both a call waits or times out.
ReadIn(w) ==
    /\ pc[w] = "gate1" /\ want[w] = "read" /\ MayRead
    /\ inc_readers /\ held' = [held EXCEPT ![w] = "read"] /\ Leave(w, "user")
    /\ UNCHANGED <<waiters, cond, want, calls>>

Announce(w) ==
    /\ pc[w] = "gate1" /\ want[w] = "write" /\ ~ has_write
    /\ set_write /\ Goto(w, "gate2")
    /\ UNCHANGED <<m_mtx, on, timer, held, waiters, cond, want, calls>>

WriteIn(w) ==
    /\ pc[w] = "gate2" /\ ~ has_readers
    /\ held' = [held EXCEPT ![w] = "write"] /\ Leave(w, "user")
    /\ UNCHANGED <<m_state, waiters, cond, want, calls>>

GiveUp(w) ==
    /\ pc[w] = "gate2" /\ has_readers
    /\ unset_write /\ Leave(w, "notify_all")
    /\ UNCHANGED <<held, waiters, cond, want, calls>>

Expire(w) ==
    /\ pc[w] = "gate1" /\ Leave(w, "user")
    /\ UNCHANGED <<m_state, held, waiters, cond, want, calls>>

Blocks(w, c) ==
    /\ c \in Cv /\ pc[w] = c /\ Shut(w, c) /\ Wait(w, c)
    /\ UNCHANGED <<m_mtx, timer, m_state, held, waiters, cond, want, calls>>

Steps(w) ==
    \/ Call(w) \/ TryLock(w) \/ TryLockShared(w)
    \/ Unlock(w) \/ UnlockShared(w) \/ Enter(w) \/ Notify(w)
    \/ ReadIn(w) \/ Announce(w) \/ WriteIn(w) \/ GiveUp(w) \/ Expire(w)
    \/ Blocks(w, "gate1")
    \/ Blocks(w, "gate2")
    \/ AddWaiter(w) /\ UNCHANGED mtx_vars
    \/ SetWaitInfo(w) /\ UNCHANGED mtx_vars
    \/ WaitOver(w) /\ UNCHANGED mtx_vars
    \/ Relock(w) /\ UNCHANGED mtx_vars
    \/ RemoveWaiter(w, on[w]) /\ UNCHANGED mtx_vars
    \/ Tick(w) /\ UNCHANGED mtx_vars

\* What the gates do.
LEMMA GateSplit ==
    ASSUME TypeOK, NEW w \in Worker
    PROVE  /\ Gate1(w) => ReadIn(w) \/ Announce(w) \/ Expire(w) \/ Blocks(w, "gate1")
           /\ Gate2(w) => WriteIn(w) \/ GiveUp(w) \/ Blocks(w, "gate2")
<1>0. "gate1" \in Cv /\ "gate2" \in Cv /\ "gate1" # "gate2" /\ want[w] \in {"read", "write"}
  BY One DEF TypeOK
<1>1. ASSUME Gate1(w) PROVE ReadIn(w) \/ Announce(w) \/ Expire(w) \/ Blocks(w, "gate1")
  BY <1>0, <1>1 DEF Gate1, NotYet, ReadIn, Announce, Expire, Blocks, Shut
<1>2. ASSUME Gate2(w) PROVE WriteIn(w) \/ GiveUp(w) \/ Blocks(w, "gate2")
  BY <1>0, <1>2 DEF Gate2, WriteIn, GiveUp, Blocks, Shut
<1> QED
  BY <1>1, <1>2

\* Every step is one of them, or none.
LEMMA NextSteps ==
    ASSUME TypeOK, Next
    PROVE  (\E w \in Worker : Steps(w)) \/ UNCHANGED vars
<1>1. CASE Terminated
  BY <1>1 DEF Terminated
<1>2. ASSUME NEW w \in Worker, Gate1(w) \/ Gate2(w) PROVE Steps(w)
  BY <1>2, GateSplit DEF Steps
<1>3. ASSUME NEW w \in Worker, CallStep(w) PROVE Steps(w)
  BY <1>2, <1>3 DEF CallStep, Steps
<1> QED
  BY <1>1, <1>3 DEF Next, Steps

-----------------------------------------------------------------------------
(* The holders. *)

\* A step of w does one of these to the word and to who holds the mutex.
TakesShared(w) ==
    /\ held[w] = "none" /\ MayRead /\ inc_readers
    /\ held' = [held EXCEPT ![w] = "read"] /\ Writers' = Writers
TakesWrite(w) ==
    /\ held[w] = "none" /\ ~ has_readers /\ ~ has_write /\ set_write
    /\ held' = [held EXCEPT ![w] = "write"] /\ Writers' = Writers \cup {w}
Announces(w) ==
    /\ held[w] = "none" /\ ~ has_write /\ set_write
    /\ held' = held /\ Writers' = Writers \cup {w}
GetsWrite(w) ==
    /\ held[w] = "none" /\ w \in Writers /\ ~ has_readers /\ m_state' = m_state
    /\ held' = [held EXCEPT ![w] = "write"] /\ Writers' = Writers
Withdraws(w) ==
    /\ held[w] = "none" /\ w \in Writers /\ has_readers /\ unset_write
    /\ held' = held /\ Writers' = Writers \ {w}
EndsWrite(w) ==
    /\ held[w] = "write" /\ unset_write
    /\ held' = [held EXCEPT ![w] = "none"] /\ Writers' = Writers \ {w}
EndsShared(w) ==
    /\ held[w] = "read" /\ dec_readers
    /\ held' = [held EXCEPT ![w] = "none"] /\ Writers' = Writers
SameHolders == m_state' = m_state /\ held' = held /\ Writers' = Writers

Moves(w) ==
    \/ TakesShared(w) \/ TakesWrite(w) \/ Announces(w) \/ GetsWrite(w)
    \/ Withdraws(w) \/ EndsWrite(w) \/ EndsShared(w) \/ SameHolders

\* The control points of the callers.
Pc == CvPc \cup {"user", "enter", "gate1", "gate2", "notify_all", "notify_writer", "notify_reader"}

LEMMA Types ==
    ASSUME TypeOK
    PROVE  /\ pc \in [Worker -> Pc] /\ m_mtx \in [Mtx -> Worker \cup {NoWorker}]
           /\ waiters \in [Cv -> Seq(Worker)] /\ on \in [Worker -> Cv] /\ cond \in [Worker -> BOOLEAN]
           /\ timer \in [Worker -> TimerState]
           /\ m_state \in 0..(2 * WriteBit - 1) /\ held \in [Worker -> {"none", "read", "write"}]
           /\ want \in [Worker -> {"read", "write"}] /\ calls \in [Worker -> 0..MaxCalls]
  BY DEF TypeOK, CvTypeOK, Pc

\* Whether w is a writer is the only thing about Writers that a step of w changes.
LEMMA WritersAre ==
    ASSUME NEW w \in Worker,
           \A v \in Worker \ {w} : pc'[v] = pc[v] /\ on'[v] = on[v] /\ held'[v] = held[v]
    PROVE  /\ w \in Writers' /\ w \in Writers => Writers' = Writers
           /\ w \notin Writers' /\ w \notin Writers => Writers' = Writers
           /\ w \in Writers' => Writers' = Writers \cup {w}
           /\ w \notin Writers' => Writers' = Writers \ {w}
<1>1. \A v \in Worker \ {w} : v \in Writers' <=> v \in Writers
  BY DEF Writers, At
<1>2. Writers \subseteq Worker /\ Writers' \subseteq Worker
  BY DEF Writers
<1> QED
  BY <1>1, <1>2

\* A step of w is one of the moves.
LEMMA StepMoves ==
    ASSUME TypeOK, CallInv, NEW w \in Worker, Steps(w)
    PROVE  Moves(w)
<1>0. /\ Cv = {"gate1", "gate2"} /\ pc \in [Worker -> Pc] /\ on \in [Worker -> Cv]
      /\ held \in [Worker -> {"none", "read", "write"}] /\ on[w] \in Cv
  BY Types, One
<1>w. w \in Writers <=> held[w] = "write" \/ At(w, "gate2")
  BY DEF Writers
<1>p. w \in Writers' <=> held'[w] = "write" \/ At(w, "gate2")'
  BY DEF Writers
<1>u. held[w] = "none" \/ pc[w] = "user"
  BY DEF CallInv
<1> USE DEF Goto, At, CvPc, Moves
<1>1. CASE Call(w) \/ Enter(w) \/ Notify(w) \/ Expire(w)
  <2>1. /\ UNCHANGED <<on, held, m_state>> /\ pc[w] \in {"user", "enter", "gate1", "notify_all", "notify_writer", "notify_reader"}
        /\ \E l \in {"enter", "gate1", "user"} : pc' = [pc EXCEPT ![w] = l]
    <3>1. CASE Call(w) \/ Enter(w)
      BY <3>1 DEF Call, MayCall, Enter, mtx_vars
    <3>2. CASE Notify(w)
      BY <3>2 DEF Notify, mtx_vars
    <3>3. CASE Expire(w)
      BY <3>3 DEF Expire, Leave
    <3> QED
      BY <1>1, <3>1, <3>2, <3>3
  <2>2. /\ w \in Writers' <=> w \in Writers
        /\ \A v \in Worker \ {w} : pc'[v] = pc[v] /\ on'[v] = on[v] /\ held'[v] = held[v]
    BY <1>0, <1>w, <1>p, <2>1
  <2> QED
    BY <2>1, <2>2, WritersAre DEF SameHolders
<1>2. CASE TryLock(w)
  <2>1. /\ pc[w] = "user" /\ held[w] = "none" /\ UNCHANGED <<pc, on>> /\ want'[w] = "write"
    BY <1>0, <1>2, Types DEF TryLock, MayCall, cv_vars
  <2>2. CASE ~ has_readers /\ ~ has_write
    <3>1. set_write /\ held' = [held EXCEPT ![w] = "write"]
      BY <1>2, <2>1, <2>2 DEF TryLock, Give
    <3>2. w \in Writers' /\ \A v \in Worker \ {w} : pc'[v] = pc[v] /\ on'[v] = on[v] /\ held'[v] = held[v]
      BY <1>0, <1>p, <2>1, <3>1
    <3> QED
      BY <2>1, <2>2, <3>1, <3>2, WritersAre DEF TakesWrite
  <2>3. CASE ~ (~ has_readers /\ ~ has_write)
    <3>1. m_state' = m_state /\ held' = held
      BY <1>2, <2>3 DEF TryLock
    <3>2. Writers' = Writers
      BY <2>1, <3>1 DEF Writers
    <3> QED
      BY <3>1, <3>2 DEF SameHolders
  <2> QED
    BY <2>2, <2>3
<1>3. CASE TryLockShared(w)
  <2>1. /\ pc[w] = "user" /\ held[w] = "none" /\ UNCHANGED <<pc, on>> /\ want'[w] = "read"
    BY <1>0, <1>3, Types DEF TryLockShared, MayCall, cv_vars
  <2>2. CASE MayRead
    <3>1. inc_readers /\ held' = [held EXCEPT ![w] = "read"]
      BY <1>3, <2>1, <2>2 DEF TryLockShared, Give
    <3>2. Writers' = Writers
      BY <1>0, <2>1, <3>1 DEF Writers
    <3> QED
      BY <2>1, <2>2, <3>1, <3>2 DEF TakesShared
  <2>3. CASE ~ MayRead
    <3>1. m_state' = m_state /\ held' = held
      BY <1>3, <2>3 DEF TryLockShared
    <3>2. Writers' = Writers
      BY <2>1, <3>1 DEF Writers
    <3> QED
      BY <3>1, <3>2 DEF SameHolders
  <2> QED
    BY <2>2, <2>3
<1>4. CASE Unlock(w)
  <2>1. /\ pc[w] = "user" /\ held[w] = "write" /\ unset_write /\ on' = on
        /\ held' = [held EXCEPT ![w] = "none"] /\ pc' = [pc EXCEPT ![w] = "notify_all"]
    BY <1>4 DEF Unlock
  <2>2. w \notin Writers' /\ \A v \in Worker \ {w} : pc'[v] = pc[v] /\ on'[v] = on[v] /\ held'[v] = held[v]
    BY <1>0, <1>p, <2>1
  <2> QED
    BY <2>1, <2>2, WritersAre DEF EndsWrite
<1>5. CASE UnlockShared(w)
  <2>1. /\ pc[w] = "user" /\ held[w] = "read" /\ dec_readers /\ on' = on
        /\ held' = [held EXCEPT ![w] = "none"] /\ pc' = [pc EXCEPT ![w] = AfterUnlockShared]
    BY <1>5 DEF UnlockShared
  <2>2. AfterUnlockShared \in {"notify_writer", "notify_reader", "user"}
    BY DEF AfterUnlockShared
  <2>3. /\ w \notin Writers' /\ w \notin Writers
        /\ \A v \in Worker \ {w} : pc'[v] = pc[v] /\ on'[v] = on[v] /\ held'[v] = held[v]
    BY <1>0, <1>w, <1>p, <2>1, <2>2
  <2> QED
    BY <2>1, <2>3, WritersAre DEF EndsShared
<1>6. CASE ReadIn(w)
  <2>1. /\ pc[w] = "gate1" /\ MayRead /\ inc_readers /\ on' = on
        /\ held' = [held EXCEPT ![w] = "read"] /\ pc' = [pc EXCEPT ![w] = "user"]
    BY <1>6 DEF ReadIn, Leave
  <2>2. /\ w \notin Writers' /\ w \notin Writers /\ held[w] = "none"
        /\ \A v \in Worker \ {w} : pc'[v] = pc[v] /\ on'[v] = on[v] /\ held'[v] = held[v]
    BY <1>0, <1>w, <1>p, <1>u, <2>1
  <2> QED
    BY <2>1, <2>2, WritersAre DEF TakesShared
<1>7. CASE Announce(w)
  <2>1. /\ pc[w] = "gate1" /\ ~ has_write /\ set_write /\ on' = on
        /\ held' = held /\ pc' = [pc EXCEPT ![w] = "gate2"]
    BY <1>7 DEF Announce
  <2>2. /\ w \in Writers' /\ held[w] = "none"
        /\ \A v \in Worker \ {w} : pc'[v] = pc[v] /\ on'[v] = on[v] /\ held'[v] = held[v]
    BY <1>0, <1>p, <1>u, <2>1
  <2> QED
    BY <2>1, <2>2, WritersAre DEF Announces
<1>8. CASE WriteIn(w)
  <2>1. /\ pc[w] = "gate2" /\ ~ has_readers /\ m_state' = m_state /\ on' = on
        /\ held' = [held EXCEPT ![w] = "write"] /\ pc' = [pc EXCEPT ![w] = "user"]
    BY <1>8 DEF WriteIn, Leave
  <2>2. /\ w \in Writers' /\ w \in Writers /\ held[w] = "none"
        /\ \A v \in Worker \ {w} : pc'[v] = pc[v] /\ on'[v] = on[v] /\ held'[v] = held[v]
    BY <1>0, <1>w, <1>p, <1>u, <2>1
  <2> QED
    BY <2>1, <2>2, WritersAre DEF GetsWrite
<1>9. CASE GiveUp(w)
  <2>1. /\ pc[w] = "gate2" /\ has_readers /\ unset_write /\ on' = on
        /\ held' = held /\ pc' = [pc EXCEPT ![w] = "notify_all"]
    BY <1>9 DEF GiveUp, Leave
  <2>2. /\ w \notin Writers' /\ w \in Writers /\ held[w] = "none"
        /\ \A v \in Worker \ {w} : pc'[v] = pc[v] /\ on'[v] = on[v] /\ held'[v] = held[v]
    BY <1>0, <1>w, <1>p, <1>u, <2>1
  <2> QED
    BY <2>1, <2>2, WritersAre DEF Withdraws
<1>10. ASSUME NEW c \in Cv, Blocks(w, c) PROVE Moves(w)
  <2>1. /\ pc[w] = c /\ on' = [on EXCEPT ![w] = c] /\ m_state' = m_state
        /\ held' = held /\ pc' = [pc EXCEPT ![w] = "add"]
    BY <1>10 DEF Blocks, Wait
  <2>2. /\ w \in Writers' <=> w \in Writers
        /\ \A v \in Worker \ {w} : pc'[v] = pc[v] /\ on'[v] = on[v] /\ held'[v] = held[v]
    BY <1>0, <1>w, <1>p, <2>1
  <2> QED
    BY <2>1, <2>2, WritersAre DEF SameHolders
<1>11. CASE UNCHANGED mtx_vars /\ (AddWaiter(w) \/ SetWaitInfo(w) \/ WaitOver(w) \/ Relock(w))
  <2>1. /\ \A v \in Worker \ {w} : pc'[v] = pc[v] /\ on'[v] = on[v] /\ held'[v] = held[v]
        /\ held' = held /\ m_state' = m_state
        /\ w \in Writers' <=> w \in Writers
    BY <1>0, <1>w, <1>p, <1>11 DEF AddWaiter, SetWaitInfo, WaitOver, Relock, mtx_vars
  <2> QED
    BY <2>1, WritersAre DEF SameHolders
<1>12. CASE UNCHANGED mtx_vars /\ RemoveWaiter(w, on[w])
  <2>1. /\ pc[w] = "remove" /\ pc' = [pc EXCEPT ![w] = on[w]] /\ UNCHANGED <<on, held, m_state>>
    BY <1>12 DEF RemoveWaiter, mtx_vars
  <2>2. /\ \A v \in Worker \ {w} : pc'[v] = pc[v] /\ on'[v] = on[v] /\ held'[v] = held[v]
        /\ w \in Writers' <=> w \in Writers
    BY <1>0, <1>w, <1>p, <2>1
  <2> QED
    BY <2>1, <2>2, WritersAre DEF SameHolders
<1>13. CASE UNCHANGED mtx_vars /\ Tick(w)
  BY <1>13 DEF Tick, mtx_vars, Writers, SameHolders
<1> QED
  BY <1>0, <1>1, <1>2, <1>3, <1>4, <1>5, <1>6, <1>7, <1>8, <1>9, <1>10, <1>11, <1>12, <1>13 DEF Steps

\* The word goes on telling the truth.
LEMMA WordStep ==
    ASSUME TypeOK, WordInv, NEW w \in Worker, Moves(w)
    PROVE  WordInv' /\ (m_state \in 0..(2 * WriteBit - 1))'
<1>0. /\ held \in [Worker -> {"none", "read", "write"}] /\ m_state \in 0..(2 * WriteBit - 1)
      /\ IsFiniteSet(Readers) /\ Cardinality(Readers) = readers
      /\ has_write => \E v \in Worker : Writers = {v}
      /\ ~ has_write => Writers = {}
      /\ (\E v \in Worker : held[v] = "write") => ~ has_readers
      /\ readers \in 0..ReadersBits /\ ReadersBits \in Nat
      /\ \A v \in Worker : held[v] = "write" => v \in Writers
      /\ \A v \in Worker : held'[v] = "write" => v \in Writers'
  BY Types, WordIs, SharedAssumption DEF WordInv, WordFacts, Writers
<1>r. readers = 0 => Readers = {}
  BY <1>0, FS_EmptySet
<1> USE DEF has_readers
<1>n. SUFFICES /\ (m_state \in 0..(2 * WriteBit - 1))'
               /\ IsFiniteSet(Readers') /\ Cardinality(Readers') = readers'
               /\ IF has_write' THEN \E v \in Worker : Writers' = {v} ELSE Writers' = {}
               /\ (\E v \in Worker : held'[v] = "write") => readers' = 0
  BY DEF WordInv
<1>1. CASE TakesShared(w)
  <2>1. /\ (m_state \in 0..(2 * WriteBit - 1))' /\ readers' = readers + 1 /\ ~ has_write' /\ ~ has_write
    BY <1>0, <1>1, WordMoves DEF TakesShared, MayRead
  <2>2. Readers' = Readers \cup {w} /\ w \notin Readers
    BY <1>0, <1>1 DEF TakesShared, Readers
  <2>3. IsFiniteSet(Readers') /\ Cardinality(Readers') = readers'
    BY <1>0, <2>1, <2>2, FS_AddElement
  <2>4. Writers' = {}
    BY <1>0, <1>1, <2>1 DEF TakesShared
  <2> QED
    BY <1>0, <2>1, <2>3, <2>4
<1>2. CASE TakesWrite(w)
  <2>1. /\ (m_state \in 0..(2 * WriteBit - 1))' /\ readers' = readers /\ has_write' /\ ~ has_write /\ readers = 0
    BY <1>0, <1>2, WordMoves DEF TakesWrite
  <2>2. Readers' = Readers
    BY <1>0, <1>2 DEF TakesWrite, Readers
  <2>3. Writers' = {w}
    BY <1>0, <1>2, <2>1 DEF TakesWrite
  <2> QED
    BY <1>0, <2>1, <2>2, <2>3
<1>3. CASE Announces(w)
  <2>1. /\ (m_state \in 0..(2 * WriteBit - 1))' /\ readers' = readers /\ has_write' /\ ~ has_write
    BY <1>0, <1>3, WordMoves DEF Announces
  <2>2. Readers' = Readers /\ held' = held
    BY <1>3 DEF Announces, Readers
  <2>3. Writers' = {w}
    BY <1>0, <1>3, <2>1 DEF Announces
  <2> QED
    BY <1>0, <2>1, <2>2, <2>3
<1>4. CASE GetsWrite(w)
  <2>1. m_state' = m_state /\ readers' = readers /\ (has_write' <=> has_write) /\ Writers' = Writers /\ readers = 0
    BY <1>4 DEF GetsWrite, readers, has_write
  <2>2. Readers' = Readers
    BY <1>0, <1>4 DEF GetsWrite, Readers
  <2>3. (m_state \in 0..(2 * WriteBit - 1))'
    BY <1>0, <2>1 DEF WriteBit
  <2> QED
    BY <1>0, <2>1, <2>2, <2>3
<1>5. CASE Withdraws(w)
  <2>1. (m_state \in 0..(2 * WriteBit - 1))' /\ readers' = readers /\ ~ has_write'
    BY <1>0, <1>5, WordMoves DEF Withdraws
  <2>2. Readers' = Readers /\ held' = held
    BY <1>5 DEF Withdraws, Readers
  <2>3. Writers' = {}
    BY <1>0, <1>5 DEF Withdraws
  <2> QED
    BY <1>0, <2>1, <2>2, <2>3
<1>6. CASE EndsWrite(w)
  <2>1. (m_state \in 0..(2 * WriteBit - 1))' /\ readers' = readers /\ ~ has_write'
    BY <1>0, <1>6, WordMoves DEF EndsWrite
  <2>2. Readers' = Readers
    BY <1>0, <1>6 DEF EndsWrite, Readers
  <2>3. w \in Writers
    BY <1>0, <1>6 DEF EndsWrite
  <2>4. Writers' = {}
    BY <1>0, <1>6, <2>3 DEF EndsWrite
  <2> QED
    BY <1>0, <2>1, <2>2, <2>4
<1>7. CASE EndsShared(w)
  <2>1. w \in Readers /\ held[w] = "read" /\ Writers' = Writers
    BY <1>7 DEF EndsShared, Readers
  <2>2. readers # 0
    BY <1>r, <2>1
  <2>3. (m_state \in 0..(2 * WriteBit - 1))' /\ readers' = readers - 1 /\ (has_write' <=> has_write)
    BY <1>0, <1>7, <2>2, WordMoves DEF EndsShared
  <2>4. Readers' = Readers \ {w}
    BY <1>0, <1>7 DEF EndsShared, Readers
  <2>5. IsFiniteSet(Readers') /\ Cardinality(Readers') = readers'
    BY <1>0, <2>1, <2>3, <2>4, FS_RemoveElement
  <2>6. \A v \in Worker : held'[v] # "write"
    BY <1>0, <1>7, <2>2 DEF EndsShared
  <2> QED
    BY <1>0, <2>1, <2>3, <2>5, <2>6
<1>8. CASE SameHolders
  <2>1. m_state' = m_state /\ readers' = readers /\ (has_write' <=> has_write) /\ Writers' = Writers /\ held' = held
    BY <1>8 DEF SameHolders, readers, has_write
  <2>2. (m_state \in 0..(2 * WriteBit - 1))' /\ Readers' = Readers
    BY <1>0, <2>1 DEF WriteBit, Readers
  <2> QED
    BY <1>0, <2>1, <2>2
<1> QED
  BY <1>1, <1>2, <1>3, <1>4, <1>5, <1>6, <1>7, <1>8 DEF Moves

-----------------------------------------------------------------------------
(* The control state, m_mtx and the lists of the gates. *)

\* The types of the other variables.
LEMMA ControlStep ==
    ASSUME TypeOK, NEW w \in Worker, Steps(w)
    PROVE  /\ CvTypeOK({"user", "enter", "gate1", "gate2", "notify_all", "notify_writer", "notify_reader"})'
           /\ held' \in [Worker -> {"none", "read", "write"}]
           /\ want' \in [Worker -> {"read", "write"}] /\ calls' \in [Worker -> 0..MaxCalls]
<1>0. /\ pc \in [Worker -> Pc] /\ m_mtx \in [Mtx -> Worker \cup {NoWorker}]
      /\ waiters \in [Cv -> Seq(Worker)] /\ on \in [Worker -> Cv] /\ cond \in [Worker -> BOOLEAN]
      /\ timer \in [Worker -> TimerState] /\ held \in [Worker -> {"none", "read", "write"}]
      /\ want \in [Worker -> {"read", "write"}] /\ calls \in [Worker -> 0..MaxCalls]
      /\ Cv = {"gate1", "gate2"} /\ Mtx = {"m_mtx"} /\ on[w] \in Cv /\ MtxOf[on[w]] = "m_mtx"
      /\ MaxCalls \in Nat
  BY Types, One, SharedAssumption
<1>m. "max" \in TimerState /\ "due" \in TimerState
  BY DEF TimerState
<1> SUFFICES /\ pc' \in [Worker -> Pc] /\ m_mtx' \in [Mtx -> Worker \cup {NoWorker}]
             /\ waiters' \in [Cv -> Seq(Worker)] /\ on' \in [Worker -> Cv] /\ cond' \in [Worker -> BOOLEAN]
             /\ timer' \in [Worker -> TimerState] /\ held' \in [Worker -> {"none", "read", "write"}]
             /\ want' \in [Worker -> {"read", "write"}] /\ calls' \in [Worker -> 0..MaxCalls]
  BY DEF CvTypeOK, Pc
<1> USE DEF Goto, Acquire, Release
<1>p. /\ \A l \in {"user", "enter", "gate1", "gate2", "notify_all", "notify_writer", "notify_reader"} : l \in Pc
      /\ \A l \in CvPc : l \in Pc
  BY DEF Pc
<1>c. ASSUME NEW l \in {"read", "write"}, MayCall(w, l)
      PROVE  /\ want' \in [Worker -> {"read", "write"}] /\ calls' \in [Worker -> 0..MaxCalls]
             /\ want'[w] = l
  BY <1>0, <1>c DEF MayCall
<1>1. CASE Call(w)
  BY <1>0, <1>c, <1>p, <1>1 DEF Call
<1>2. CASE TryLock(w) \/ TryLockShared(w)
  <2>1. UNCHANGED cv_vars
    BY <1>2 DEF TryLock, TryLockShared
  <2>2. PICK l \in {"read", "write"} : MayCall(w, l)
    BY <1>2 DEF TryLock, TryLockShared
  <2>3. held' = held \/ held' = [held EXCEPT ![w] = want'[w]]
    BY <1>2 DEF TryLock, TryLockShared, Give
  <2>4. held' \in [Worker -> {"none", "read", "write"}]
    BY <1>0, <1>c, <2>2, <2>3
  <2> QED
    BY <1>0, <1>c, <2>1, <2>2, <2>4 DEF cv_vars
<1>3. CASE Unlock(w)
  BY <1>0, <1>p, <1>3 DEF Unlock
<1>4. CASE UnlockShared(w)
  <2>1. AfterUnlockShared \in Pc
    BY <1>p DEF AfterUnlockShared
  <2> HIDE DEF AfterUnlockShared
  <2> QED
    BY <1>0, <2>1, <1>4 DEF UnlockShared
<1>5. CASE Enter(w)
  BY <1>0, <1>p, <1>5 DEF Enter, mtx_vars
<1>6. CASE Notify(w)
  <2>1. cond' \in [Worker -> BOOLEAN]
    BY <1>0, <1>6 DEF Notify, NotifyAll, NotifyOne
  <2> QED
    BY <1>0, <1>p, <1>6, <2>1 DEF Notify, mtx_vars
<1>7. CASE ReadIn(w) \/ WriteIn(w) \/ GiveUp(w) \/ Expire(w)
  <2>1. \E l \in {"user", "notify_all"} : Leave(w, l)
    BY <1>7 DEF ReadIn, WriteIn, GiveUp, Expire
  <2>2. /\ UNCHANGED <<waiters, cond, want, calls>>
        /\ \E h \in {"read", "write"} : held' = held \/ held' = [held EXCEPT ![w] = h]
    BY <1>7 DEF ReadIn, WriteIn, GiveUp, Expire
  <2>3. pc' \in [Worker -> Pc] /\ m_mtx' \in [Mtx -> Worker \cup {NoWorker}] /\ on' = on
        /\ timer' \in [Worker -> TimerState]
    BY <1>0, <1>m, <1>p, <2>1 DEF Leave
  <2> QED
    BY <1>0, <2>2, <2>3
<1>8. CASE Announce(w)
  BY <1>0, <1>p, <1>8 DEF Announce
<1>9. ASSUME NEW c \in Cv, Blocks(w, c)
      PROVE  /\ pc' \in [Worker -> Pc] /\ on' \in [Worker -> Cv]
             /\ UNCHANGED <<m_mtx, timer, held, waiters, cond, want, calls>>
  BY <1>0, <1>p, <1>9 DEF Blocks, Wait, CvPc
<1>10. CASE AddWaiter(w) /\ UNCHANGED mtx_vars
  <2>1. Append(waiters[on[w]], w) \in Seq(Worker)
    BY <1>0, AppendProperties
  <2> QED
    BY <1>0, <1>p, <1>10, <2>1 DEF AddWaiter, CvPc, mtx_vars
<1>11. CASE SetWaitInfo(w) /\ UNCHANGED mtx_vars
  BY <1>0, <1>p, <1>11 DEF SetWaitInfo, CvPc, mtx_vars
<1>12. CASE (WaitOver(w) \/ Relock(w)) /\ UNCHANGED mtx_vars
  <2>1. CASE WaitOver(w)
    BY <1>0, <1>p, <1>12, <2>1 DEF WaitOver, CvPc, mtx_vars
  <2>2. CASE Relock(w)
    BY <1>0, <1>p, <1>12, <2>2 DEF Relock, CvPc, mtx_vars
  <2> QED
    BY <1>12, <2>1, <2>2
<1>13. CASE RemoveWaiter(w, on[w]) /\ UNCHANGED mtx_vars
  <2>1. PICK i \in 1..Len(waiters[on[w]]) :
           waiters' = [waiters EXCEPT ![on[w]] = RemoveAt(waiters[on[w]], i)]
    BY <1>0, <1>13 DEF RemoveWaiter
  <2>2. RemoveAt(waiters[on[w]], i) \in Seq(Worker)
    BY <1>0, RemoveAtType
  <2>3. waiters' \in [Cv -> Seq(Worker)]
    BY <1>0, <2>1, <2>2
  <2>4. on[w] \in Pc
    BY <1>0, <1>p
  <2> QED
    BY <1>0, <1>13, <2>3, <2>4 DEF RemoveWaiter, mtx_vars
<1>14. CASE Tick(w) /\ UNCHANGED mtx_vars
  BY <1>0, <1>m, <1>14 DEF Tick, mtx_vars
<1> QED
  BY <1>0, <1>1, <1>2, <1>3, <1>4, <1>5, <1>6, <1>7, <1>8, <1>9, <1>10, <1>11, <1>12, <1>13, <1>14 DEF Steps

\* Who has made a call holds nothing.
LEMMA CallStepOK ==
    ASSUME TypeOK, CallInv, NEW w \in Worker, Steps(w)
    PROVE  CallInv'
<1>0. pc \in [Worker -> Pc] /\ held \in [Worker -> {"none", "read", "write"}]
  BY Types
<1> USE DEF Goto, CallInv
<1>1. CASE Call(w)
  BY <1>0, <1>1 DEF Call, MayCall
<1>2. CASE TryLock(w) \/ TryLockShared(w)
  <2>1. pc' = pc /\ pc[w] = "user" /\ (held' = held \/ \E h : held' = [held EXCEPT ![w] = h])
    BY <1>2 DEF TryLock, TryLockShared, MayCall, cv_vars, Give
  <2> QED
    BY <1>0, <2>1
<1>3. CASE Unlock(w) \/ UnlockShared(w)
  BY <1>0, <1>3 DEF Unlock, UnlockShared
<1>4. CASE Enter(w) \/ Notify(w)
  BY <1>0, <1>4 DEF Enter, Notify, mtx_vars
<1>5. CASE ReadIn(w) \/ WriteIn(w)
  BY <1>0, <1>5 DEF ReadIn, WriteIn, Leave
<1>6. CASE GiveUp(w) \/ Expire(w) \/ Announce(w)
  BY <1>0, <1>6 DEF GiveUp, Expire, Leave, Announce
<1>7. CASE Blocks(w, "gate1") \/ Blocks(w, "gate2")
  BY <1>0, <1>7 DEF Blocks, Wait
<1>8. CASE UNCHANGED mtx_vars /\ (AddWaiter(w) \/ SetWaitInfo(w) \/ WaitOver(w) \/ Relock(w))
  BY <1>0, <1>8 DEF AddWaiter, SetWaitInfo, WaitOver, Relock, mtx_vars
<1>9. CASE UNCHANGED mtx_vars /\ (RemoveWaiter(w, on[w]) \/ Tick(w))
  BY <1>0, <1>9 DEF RemoveWaiter, Tick, mtx_vars
<1> QED
  BY <1>1, <1>2, <1>3, <1>4, <1>5, <1>6, <1>7, <1>8, <1>9 DEF Steps

\* m_mtx belongs to the call that is inside.
LEMMA MtxStep ==
    ASSUME TypeOK, MtxInv, NEW w \in Worker, Steps(w)
    PROVE  MtxInv'
<1>0. /\ Mtx = {"m_mtx"} /\ on[w] \in {"gate1", "gate2"} /\ MtxOf[on[w]] = "m_mtx" /\ NoWorker \notin Worker
      /\ pc \in [Worker -> Pc] /\ m_mtx \in [Mtx -> Worker \cup {NoWorker}]
  BY One, Types
<1> USE DEF Goto, Acquire, Release, Free, Inside, MtxInv
<1>1. CASE Call(w) \/ Unlock(w) \/ Notify(w) \/ Announce(w)
  <2>1. CASE Call(w) \/ Unlock(w)
    BY <1>0, <2>1 DEF Call, MayCall, Unlock
  <2>2. CASE Notify(w)
    <3>1. pc[w] \notin Inside /\ pc' = [pc EXCEPT ![w] = "user"] /\ UNCHANGED m_mtx
      BY <2>2 DEF Notify
    <3> QED
      BY <1>0, <3>1
  <2>3. CASE Announce(w)
    BY <1>0, <2>3 DEF Announce
  <2> QED
    BY <1>1, <2>1, <2>2, <2>3
<1>2. CASE UnlockShared(w)
  <2>1. AfterUnlockShared \in {"notify_writer", "notify_reader", "user"}
    BY DEF AfterUnlockShared
  <2> HIDE DEF AfterUnlockShared
  <2> QED
    BY <1>0, <1>2, <2>1 DEF UnlockShared
<1>3. CASE TryLock(w) \/ TryLockShared(w)
  BY <1>3 DEF TryLock, TryLockShared, cv_vars
<1>4. CASE Enter(w)
  BY <1>0, <1>4 DEF Enter
<1>5. CASE ReadIn(w) \/ WriteIn(w) \/ GiveUp(w) \/ Expire(w)
  <2>1. pc[w] \in {"gate1", "gate2"} /\ \E l \in {"user", "notify_all"} : Leave(w, l)
    BY <1>5 DEF ReadIn, WriteIn, GiveUp, Expire
  <2> QED
    BY <1>0, <2>1 DEF Leave
<1>6. CASE Blocks(w, "gate1") \/ Blocks(w, "gate2")
  BY <1>0, <1>6 DEF Blocks, Wait
<1>8. CASE AddWaiter(w) \/ WaitOver(w)
  BY <1>0, <1>8 DEF AddWaiter, WaitOver
<1>9. CASE SetWaitInfo(w)
  BY <1>0, <1>9 DEF SetWaitInfo
<1>10. CASE Relock(w)
  BY <1>0, <1>10 DEF Relock
<1>11. CASE RemoveWaiter(w, on[w]) \/ Tick(w)
  BY <1>0, <1>11 DEF RemoveWaiter, Tick
<1> QED
  BY <1>1, <1>2, <1>3, <1>4, <1>5, <1>6, <1>8, <1>9, <1>10, <1>11 DEF Steps

\* The lists have the waiters on them, notified or not.
LEMMA ListStep ==
    ASSUME TypeOK, ListInv, NEW w \in Worker, Steps(w)
    PROVE  ListInv'
<1>0. /\ Cv = {"gate1", "gate2"} /\ on[w] \in Cv /\ waiters \in [Cv -> Seq(Worker)]
      /\ pc \in [Worker -> Pc] /\ on \in [Worker -> Cv]
  BY One, Types
<1> USE DEF Goto
<1>1. CASE AddWaiter(w)
  <2>1. /\ pc[w] = "add" /\ pc' = [pc EXCEPT ![w] = "set_wait"] /\ on' = on
        /\ waiters' = [waiters EXCEPT ![on[w]] = Append(waiters[on[w]], w)]
    BY <1>0, <1>1 DEF AddWaiter
  <2>2. ASSUME NEW c \in Cv PROVE Enumerates(waiters'[c], Listed(c)')
    <3>1. CASE c = on[w]
      <4>1. w \notin Listed(c) /\ Listed(c)' = Listed(c) \cup {w}
        BY <1>0, <2>1, <3>1 DEF Listed
      <4>2. Enumerates(Append(waiters[c], w), Listed(c) \cup {w})
        BY <4>1, EnumeratesAppend DEF ListInv
      <4> QED
        BY <1>0, <2>1, <3>1, <4>1, <4>2
    <3>2. CASE c # on[w]
      <4>1. Listed(c)' = Listed(c) /\ waiters'[c] = waiters[c]
        BY <1>0, <2>1, <3>2 DEF Listed
      <4> QED
        BY <4>1 DEF ListInv
    <3> QED
      BY <3>1, <3>2
  <2> QED
    BY <2>2 DEF ListInv
<1>2. CASE RemoveWaiter(w, on[w])
  <2>1. PICK i \in 1..Len(waiters[on[w]]) :
           /\ waiters[on[w]][i] = w
           /\ waiters' = [waiters EXCEPT ![on[w]] = RemoveAt(waiters[on[w]], i)]
    BY <1>0, <1>2 DEF RemoveWaiter
  <2>2. pc[w] = "remove" /\ pc' = [pc EXCEPT ![w] = on[w]] /\ on' = on
    BY <1>2 DEF RemoveWaiter
  <2>3. ASSUME NEW c \in Cv PROVE Enumerates(waiters'[c], Listed(c)')
    <3>1. CASE c = on[w]
      <4>1. Listed(c)' = Listed(c) \ {w}
        BY <1>0, <2>2, <3>1 DEF Listed
      <4>2. Enumerates(RemoveAt(waiters[c], i), Listed(c) \ {w})
        BY <2>1, <3>1, EnumeratesRemove DEF ListInv
      <4> QED
        BY <1>0, <2>1, <3>1, <4>1, <4>2
    <3>2. CASE c # on[w]
      <4>1. Listed(c)' = Listed(c) /\ waiters'[c] = waiters[c]
        BY <1>0, <2>1, <2>2, <3>2 DEF Listed
      <4> QED
        BY <4>1 DEF ListInv
    <3> QED
      BY <3>1, <3>2
  <2> QED
    BY <2>3 DEF ListInv
<1>3. ASSUME \A c \in Cv : Listed(c)' = Listed(c), UNCHANGED waiters PROVE ListInv'
  BY <1>3 DEF ListInv
<1>4. CASE Call(w) \/ Unlock(w) \/ Notify(w) \/ Announce(w) \/ Enter(w)
  <2>1. /\ pc[w] \in {"user", "enter", "gate1", "notify_all", "notify_writer", "notify_reader"}
        /\ UNCHANGED <<waiters, on>>
        /\ \E l \in {"user", "enter", "gate1", "gate2", "notify_all"} : pc' = [pc EXCEPT ![w] = l]
    <3>1. CASE Call(w) \/ Unlock(w)
      BY <3>1 DEF Call, MayCall, Unlock
    <3>2. CASE Notify(w)
      BY <3>2 DEF Notify
    <3>3. CASE Announce(w) \/ Enter(w)
      BY <3>3 DEF Announce, Enter
    <3> QED
      BY <1>4, <3>1, <3>2, <3>3
  <2>2. \A c \in Cv : Listed(c)' = Listed(c)
    BY <1>0, <2>1 DEF Listed
  <2> QED
    BY <1>3, <2>1, <2>2
<1>5. CASE UnlockShared(w)
  <2>1. AfterUnlockShared \in {"notify_writer", "notify_reader", "user"}
    BY DEF AfterUnlockShared
  <2>2. (\A c \in Cv : Listed(c)' = Listed(c)) /\ UNCHANGED waiters
    <3> HIDE DEF AfterUnlockShared
    <3> QED
      BY <1>0, <1>5, <2>1 DEF UnlockShared, Listed
  <2> QED
    BY <1>3, <2>2
<1>6. CASE TryLock(w) \/ TryLockShared(w) \/ Tick(w)
  <2>1. (\A c \in Cv : Listed(c)' = Listed(c)) /\ UNCHANGED waiters
    BY <1>6 DEF TryLock, TryLockShared, cv_vars, Tick, Listed
  <2> QED
    BY <1>3, <2>1
<1>7. CASE ReadIn(w) \/ WriteIn(w) \/ GiveUp(w) \/ Expire(w)
  <2>1. /\ pc[w] \in {"gate1", "gate2"} /\ UNCHANGED <<waiters, on>>
        /\ \E l \in {"user", "notify_all"} : pc' = [pc EXCEPT ![w] = l]
    BY <1>7 DEF ReadIn, WriteIn, GiveUp, Expire, Leave
  <2>2. \A c \in Cv : Listed(c)' = Listed(c)
    BY <1>0, <2>1 DEF Listed
  <2> QED
    BY <1>3, <2>1, <2>2
<1>8. CASE Blocks(w, "gate1") \/ Blocks(w, "gate2")
  <2>1. (\A c \in Cv : Listed(c)' = Listed(c)) /\ UNCHANGED waiters
    BY <1>0, <1>8 DEF Blocks, Wait, Listed
  <2> QED
    BY <1>3, <2>1
<1>9. CASE SetWaitInfo(w) \/ WaitOver(w) \/ Relock(w)
  <2>1. (\A c \in Cv : Listed(c)' = Listed(c)) /\ UNCHANGED waiters
    BY <1>0, <1>9 DEF SetWaitInfo, WaitOver, Relock, Listed
  <2> QED
    BY <1>3, <2>1
<1> QED
  BY <1>1, <1>2, <1>4, <1>5, <1>6, <1>7, <1>8, <1>9 DEF Steps

\* Nobody else is on its way to wait while a step holds m_mtx, or finds it free.
LEMMA AloneInside ==
    ASSUME TypeOK, MtxInv, NEW w \in Worker, Free("m_mtx") \/ pc[w] \in Inside
    PROVE  \A v \in Worker \ {w} : pc[v] \notin Inside
  BY One, Types DEF MtxInv, Free, Inside

\* The gate stays shut for a call from its test to its unlock of m_mtx.
LEMMA BlockedStep ==
    ASSUME TypeOK, MtxInv, BlockedInv, NEW w \in Worker, Steps(w)
    PROVE  BlockedInv'
<1>0. pc \in [Worker -> Pc] /\ on \in [Worker -> Cv] /\ want \in [Worker -> {"read", "write"}]
      /\ Cv = {"gate1", "gate2"}
  BY One, Types
<1>a. SUFFICES ASSUME NEW v \in Worker, pc'[v] \in {"add", "set_wait"} PROVE Shut(v, on[v])'
  BY DEF BlockedInv
<1>s. ASSUME m_state' = m_state, want'[v] = want[v], on'[v] = on[v], Shut(v, on[v]) PROVE Shut(v, on[v])'
  BY <1>s DEF Shut, has_readers, MayRead, max_readers, has_write, readers
<1> USE DEF Goto
<1>1. ASSUME pc'[v] = pc[v], on'[v] = on[v], want'[v] = want[v], m_state' = m_state
      PROVE  Shut(v, on[v])'
  BY <1>a, <1>1, <1>s DEF BlockedInv
<1>2. CASE Call(w)
  <2>1. v # w /\ m_state' = m_state
    BY <1>0, <1>a, <1>2 DEF Call
  <2>2. pc'[v] = pc[v] /\ on'[v] = on[v] /\ want'[v] = want[v]
    BY <1>0, <1>2, <2>1 DEF Call, MayCall
  <2> QED
    BY <1>1, <2>1, <2>2
<1>3. CASE TryLock(w) \/ TryLockShared(w)
  <2>1. Free("m_mtx") /\ pc' = pc /\ pc[w] = "user"
    BY <1>3 DEF TryLock, TryLockShared, MayCall, cv_vars
  <2> QED
    BY <1>a, <2>1, AloneInside DEF Inside
<1>4. CASE Unlock(w)
  <2>1. Free("m_mtx") /\ pc' = [pc EXCEPT ![w] = "notify_all"]
    BY <1>4 DEF Unlock
  <2> QED
    BY <1>0, <1>a, <2>1, AloneInside DEF Inside
<1>5. CASE UnlockShared(w)
  <2>1. Free("m_mtx") /\ pc' = [pc EXCEPT ![w] = AfterUnlockShared]
    BY <1>5 DEF UnlockShared
  <2>2. AfterUnlockShared \notin {"add", "set_wait"}
    BY DEF AfterUnlockShared
  <2> QED
    BY <1>0, <1>a, <2>1, <2>2, AloneInside DEF Inside
<1>6. CASE ReadIn(w) \/ WriteIn(w) \/ GiveUp(w) \/ Expire(w) \/ Announce(w)
  <2>1. /\ pc[w] \in Inside
        /\ \E l \in {"user", "notify_all", "gate2"} : pc' = [pc EXCEPT ![w] = l]
    BY <1>6 DEF ReadIn, WriteIn, GiveUp, Expire, Announce, Leave, Inside
  <2> QED
    BY <1>0, <1>a, <2>1, AloneInside DEF Inside
<1>7. ASSUME NEW c \in Cv, Blocks(w, c) PROVE Shut(v, on[v])'
  <2>1. /\ pc[w] = c /\ Shut(w, c) /\ on' = [on EXCEPT ![w] = c]
        /\ pc' = [pc EXCEPT ![w] = "add"] /\ UNCHANGED <<m_state, want>>
    BY <1>7 DEF Blocks, Wait
  <2>2. v = w
    BY <1>0, <1>a, <2>1, AloneInside DEF Inside
  <2>3. on'[v] = c
    BY <1>0, <2>1, <2>2
  <2>4. Shut(w, c)'
    BY <2>1 DEF Shut, has_readers, MayRead, max_readers, has_write, readers
  <2> QED
    BY <2>2, <2>3, <2>4 DEF Shut
<1>8. CASE Enter(w) \/ Notify(w)
  <2>1. /\ \E l \in {"gate1", "user"} : pc' = [pc EXCEPT ![w] = l]
        /\ UNCHANGED <<on, want, m_state>>
    BY <1>8 DEF Enter, Notify, mtx_vars
  <2>2. v # w /\ pc'[v] = pc[v]
    BY <1>0, <1>a, <2>1
  <2> QED
    BY <1>1, <2>1, <2>2
<1>9. CASE UNCHANGED mtx_vars /\ AddWaiter(w)
  <2>1. /\ pc[w] = "add" /\ pc' = [pc EXCEPT ![w] = "set_wait"]
        /\ UNCHANGED <<on, want, m_state>>
    BY <1>9 DEF AddWaiter, mtx_vars
  <2>2. pc[v] \in {"add", "set_wait"}
    BY <1>0, <1>a, <2>1
  <2> QED
    BY <2>1, <2>2, <1>s DEF BlockedInv
<1>10. CASE UNCHANGED mtx_vars /\ (SetWaitInfo(w) \/ WaitOver(w) \/ Relock(w) \/ RemoveWaiter(w, on[w]))
  <2>1. /\ \E l \in {"parked", "relock", "remove", "gate1", "gate2"} : pc' = [pc EXCEPT ![w] = l]
        /\ UNCHANGED <<on, want, m_state>>
    BY <1>0, <1>10, One DEF SetWaitInfo, WaitOver, Relock, RemoveWaiter, mtx_vars
  <2>2. v # w /\ pc'[v] = pc[v]
    BY <1>0, <1>a, <2>1
  <2> QED
    BY <1>1, <2>1, <2>2
<1>11. CASE UNCHANGED mtx_vars /\ Tick(w)
  BY <1>1, <1>11 DEF Tick, mtx_vars
<1> QED
  BY <1>0, <1>2, <1>3, <1>4, <1>5, <1>6, <1>7, <1>8, <1>9, <1>10, <1>11 DEF Steps

-----------------------------------------------------------------------------
(* Notifications. *)

\* Only wait_internal puts a worker to sleep, and only w's notification is over
\* after a step of w.
LEMMA SleeperBefore ==
    ASSUME TypeOK, NEW w \in Worker, Steps(w), ~ SetWaitInfo(w), NEW x \in Worker, NEW c \in Cv, Asleep(x, c)'
    PROVE  Asleep(x, c)
<1>0. /\ pc \in [Worker -> Pc] /\ on \in [Worker -> Cv] /\ cond \in [Worker -> BOOLEAN]
      /\ timer \in [Worker -> TimerState] /\ Cv = {"gate1", "gate2"}
  BY One, Types
<1>a. pc'[x] = "parked" /\ on'[x] = c /\ ~ cond'[x] /\ timer'[x] = "max"
  BY DEF Asleep
<1>b. ASSUME pc'[x] = pc[x], on'[x] = on[x], cond[x] => cond'[x], timer'[x] = timer[x] \/ timer'[x] = "due"
      PROVE  Asleep(x, c)
  BY <1>0, <1>a, <1>b DEF Asleep
<1> USE DEF Goto
<1>1. CASE Call(w)
  BY <1>0, <1>a, <1>b, <1>1 DEF Call
<1>2. CASE TryLock(w) \/ TryLockShared(w)
  BY <1>0, <1>b, <1>2 DEF TryLock, TryLockShared, cv_vars
<1>3. CASE Unlock(w)
  BY <1>0, <1>a, <1>b, <1>3 DEF Unlock
<1>4. CASE UnlockShared(w)
  <2>1. AfterUnlockShared # "parked"
    BY DEF AfterUnlockShared
  <2> HIDE DEF AfterUnlockShared
  <2> QED
    BY <1>0, <1>a, <1>b, <1>4, <2>1 DEF UnlockShared
<1>5. CASE ReadIn(w) \/ WriteIn(w) \/ GiveUp(w) \/ Expire(w)
  <2>1. /\ \E l \in {"user", "notify_all"} : pc' = [pc EXCEPT ![w] = l]
        /\ timer' = [timer EXCEPT ![w] = "max"] /\ UNCHANGED <<on, cond>>
    BY <1>5 DEF ReadIn, WriteIn, GiveUp, Expire, Leave
  <2>2. x # w
    BY <1>0, <1>a, <2>1
  <2> QED
    BY <1>0, <1>b, <2>1, <2>2
<1>6. CASE Announce(w)
  BY <1>0, <1>a, <1>b, <1>6 DEF Announce
<1>7. ASSUME NEW d \in Cv, Blocks(w, d) PROVE Asleep(x, c)
  <2>1. x # w
    BY <1>0, <1>a, <1>7 DEF Blocks, Wait
  <2> QED
    BY <1>0, <1>b, <1>7, <2>1 DEF Blocks, Wait
<1>8. CASE Enter(w)
  BY <1>0, <1>a, <1>b, <1>8 DEF Enter
<1>9. CASE Notify(w)
  <2>1. pc' = [pc EXCEPT ![w] = "user"] /\ UNCHANGED <<on, timer>>
    BY <1>9 DEF Notify
  <2>2. cond[x] => cond'[x]
    BY <1>0, <1>9 DEF Notify, NotifyAll, NotifyOne
  <2>3. x # w
    BY <1>0, <1>a, <2>1
  <2> QED
    BY <1>0, <1>b, <2>1, <2>2, <2>3
<1>10. CASE AddWaiter(w) \/ WaitOver(w)
  BY <1>0, <1>a, <1>b, <1>10 DEF AddWaiter, WaitOver
<1>11. CASE Relock(w)
  BY <1>0, <1>a, <1>b, <1>11 DEF Relock
<1>12. CASE RemoveWaiter(w, on[w])
  <2>1. pc' = [pc EXCEPT ![w] = on[w]] /\ UNCHANGED <<on, timer, cond>>
    BY <1>12 DEF RemoveWaiter
  <2>2. x # w
    BY <1>0, <1>a, <2>1
  <2> QED
    BY <1>0, <1>b, <2>1, <2>2
<1>13. CASE Tick(w)
  <2>1. UNCHANGED <<pc, on, cond>> /\ timer' = [timer EXCEPT ![w] = "due"]
    BY <1>13 DEF Tick
  <2> QED
    BY <1>0, <1>b, <2>1
<1> QED
  BY <1>0, <1>1, <1>2, <1>3, <1>4, <1>5, <1>6, <1>7, <1>8, <1>9, <1>10, <1>11, <1>12, <1>13 DEF Steps

LEMMA NotifierStays ==
    ASSUME TypeOK, NEW w \in Worker, Steps(w), NEW v \in Worker,
           pc[v] \in {"notify_all", "notify_writer"}, ~ (v = w /\ Notify(w))
    PROVE  pc'[v] = pc[v]
<1>0. pc \in [Worker -> Pc] /\ Cv = {"gate1", "gate2"}
  BY One, Types
<1> USE DEF Goto
<1>1. CASE Call(w) \/ TryLock(w) \/ TryLockShared(w) \/ Unlock(w) \/ UnlockShared(w)
  <2>1. pc[w] = "user" /\ \E l : pc' = pc \/ pc' = [pc EXCEPT ![w] = l]
    BY <1>1 DEF Call, TryLock, TryLockShared, Unlock, UnlockShared, MayCall, cv_vars
  <2> QED
    BY <1>0, <2>1
<1>2. CASE Enter(w) \/ Announce(w) \/ Blocks(w, "gate1") \/ Blocks(w, "gate2")
  BY <1>0, <1>2 DEF Enter, Announce, Blocks, Wait
<1>3. CASE ReadIn(w) \/ WriteIn(w) \/ GiveUp(w) \/ Expire(w)
  BY <1>0, <1>3 DEF ReadIn, WriteIn, GiveUp, Expire, Leave
<1>4. CASE Notify(w)
  BY <1>0, <1>4 DEF Notify
<1>5. CASE AddWaiter(w) \/ SetWaitInfo(w) \/ WaitOver(w) \/ Relock(w)
  BY <1>0, <1>5 DEF AddWaiter, SetWaitInfo, WaitOver, Relock
<1>6. CASE RemoveWaiter(w, on[w]) \/ Tick(w)
  BY <1>0, <1>6 DEF RemoveWaiter, Tick
<1> QED
  BY <1>1, <1>2, <1>3, <1>4, <1>5, <1>6 DEF Steps

\* The bit goes only with a notification of everybody at gate 1, and the readers
\* with the last one's unlock_shared.
LEMMA WordBefore ==
    ASSUME TypeOK, WordInv, CallInv, NEW w \in Worker, Steps(w)
    PROVE  /\ has_write /\ ~ has_write' => pc'[w] = "notify_all"
           /\ has_readers /\ ~ has_readers' /\ has_write => pc'[w] = "notify_writer"
<1>0. /\ pc \in [Worker -> Pc] /\ m_state \in 0..(2 * WriteBit - 1)
      /\ readers \in 0..ReadersBits /\ ReadersBits \in Nat
  BY Types, WordIs, SharedAssumption DEF WordFacts
<1> USE DEF has_readers
<1>1. CASE Unlock(w)
  <2>1. pc'[w] = "notify_all" /\ readers' = readers
    BY <1>0, <1>1, WordMoves DEF Unlock, Goto
  <2> QED
    BY <2>1
<1>2. CASE GiveUp(w)
  <2>1. pc'[w] = "notify_all" /\ readers' = readers
    BY <1>0, <1>2, WordMoves DEF GiveUp, Leave, Goto
  <2> QED
    BY <2>1
<1>3. CASE UnlockShared(w)
  <2>1. w \in Readers /\ dec_readers /\ pc'[w] = AfterUnlockShared
    BY <1>0, <1>3 DEF UnlockShared, Goto, Readers
  <2>2. readers # 0
    BY <2>1, FS_EmptySet DEF WordInv
  <2>3. readers' = readers - 1 /\ (has_write' <=> has_write)
    BY <1>0, <2>1, <2>2, WordMoves
  <2>4. readers' = 0 => readers = 1
    BY <1>0, <2>3
  <2> QED
    BY <2>1, <2>3, <2>4 DEF AfterUnlockShared
<1>4. ASSUME m_state' = m_state PROVE readers' = readers /\ (has_write' <=> has_write)
  BY <1>4 DEF readers, has_write
<1>5. ASSUME MayRead, inc_readers PROVE readers' # 0 /\ ~ has_write
  <2>1. readers' = readers + 1
    BY <1>0, <1>5, WordMoves
  <2> QED
    BY <1>0, <1>5, <2>1 DEF MayRead
<1>6. ASSUME ~ has_write, set_write PROVE readers' = readers
  BY <1>0, <1>6, WordMoves
<1>7. CASE TryLock(w) \/ Announce(w)
  BY <1>4, <1>6, <1>7 DEF TryLock, Announce
<1>8. CASE TryLockShared(w) \/ ReadIn(w)
  BY <1>4, <1>5, <1>8 DEF TryLockShared, ReadIn
<1>9. CASE Call(w) \/ WriteIn(w) \/ Expire(w) \/ Blocks(w, "gate1") \/ Blocks(w, "gate2")
  BY <1>4, <1>9 DEF Call, WriteIn, Expire, Blocks
<1>10. CASE Enter(w) \/ Notify(w) \/ UNCHANGED mtx_vars
  BY <1>4, <1>10 DEF Enter, Notify, mtx_vars
<1> QED
  BY <1>1, <1>2, <1>3, <1>7, <1>8, <1>9, <1>10 DEF Steps

\* With few workers nobody waits for the limit of readers.
LEMMA NobodyAtLimit ==
    ASSUME TypeOK, WordInv, CallInv, FewWorkers, NEW w \in Worker, pc[w] # "user"
    PROVE  ~ max_readers
<1>1. Readers \subseteq Worker /\ w \notin Readers
  BY DEF Readers, CallInv
<1>2. Cardinality(Readers \cup {w}) = Cardinality(Readers) + 1 /\ IsFiniteSet(Readers \cup {w})
  BY <1>1, FS_AddElement DEF WordInv
<1>3. Cardinality(Readers \cup {w}) <= Cardinality(Worker)
  BY <1>1, FS_Subset DEF FewWorkers
<1>4. Cardinality(Worker) \in Nat /\ readers \in 0..ReadersBits /\ ReadersBits \in Nat
  BY FS_CardinalityType, Types, WordIs, SharedAssumption DEF FewWorkers, WordFacts
<1> QED
  BY <1>2, <1>3, <1>4 DEF FewWorkers, WordInv, max_readers

\* Sleepers at gate 1.
LEMMA Gate1Step ==
    ASSUME TypeOK, WordInv, CallInv, ListInv, BlockedInv, GateInv, FewWorkers,
           NEW w \in Worker, Steps(w), NEW x \in Worker, Asleep(x, "gate1")', ~ has_write'
    PROVE  \E v \in Worker : pc'[v] = "notify_all"
<1>0. /\ pc \in [Worker -> Pc] /\ on \in [Worker -> Cv] /\ cond \in [Worker -> BOOLEAN]
      /\ timer \in [Worker -> TimerState] /\ want \in [Worker -> {"read", "write"}]
      /\ Cv = {"gate1", "gate2"}
  BY One, Types
<1>1. CASE has_write
  BY <1>1, WordBefore
<1>2. CASE ~ has_write /\ SetWaitInfo(w) /\ ~ Asleep(x, "gate1")
  <2>1. pc[w] = "set_wait" /\ pc' = [pc EXCEPT ![w] = "parked"] /\ UNCHANGED <<on, timer>>
        /\ cond' = [cond EXCEPT ![w] = FALSE]
    BY <1>2 DEF SetWaitInfo, Goto
  <2>2. x = w /\ on[w] = "gate1"
    BY <1>0, <1>2, <2>1 DEF Asleep
  <2>3. Shut(w, "gate1")
    BY <2>1, <2>2 DEF BlockedInv
  <2>4. max_readers
    BY <1>2, <2>3 DEF Shut, MayRead
  <2> QED
    BY <2>1, <2>4, NobodyAtLimit
<1>3. CASE ~ has_write /\ Asleep(x, "gate1")
  <2>1. PICK v \in Worker : pc[v] = "notify_all"
    BY <1>3 DEF GateInv
  <2>2. CASE v = w /\ Notify(w)
    <3>1. NotifyAll("gate1")
      BY <2>1, <2>2 DEF Notify
    <3>2. x \in Listed("gate1") /\ Enumerates(waiters["gate1"], Listed("gate1"))
      BY <1>0, <1>3 DEF Listed, Asleep, ListInv
    <3>3. \E i \in 1..Len(waiters["gate1"]) : waiters["gate1"][i] = x
      BY <3>2 DEF Enumerates
    <3>4. cond'[x]
      BY <3>1, <3>3 DEF NotifyAll
    <3> QED
      BY <3>4 DEF Asleep
  <2>3. CASE ~ (v = w /\ Notify(w))
    BY <2>1, <2>3, NotifierStays
  <2> QED
    BY <2>2, <2>3
<1>4. CASE ~ SetWaitInfo(w)
  <2>1. Asleep(x, "gate1")
    BY <1>0, <1>4, SleeperBefore
  <2> QED
    BY <1>1, <1>3, <2>1
<1> QED
  BY <1>1, <1>2, <1>3, <1>4

\* The sleeper at gate 2.
LEMMA Gate2Step ==
    ASSUME TypeOK, WordInv, CallInv, ListInv, BlockedInv, GateInv,
           NEW w \in Worker, Steps(w), NEW x \in Worker, Asleep(x, "gate2")', ~ has_readers'
    PROVE  \E v \in Worker : pc'[v] = "notify_writer"
<1>0. /\ pc \in [Worker -> Pc] /\ on \in [Worker -> Cv] /\ cond \in [Worker -> BOOLEAN]
      /\ timer \in [Worker -> TimerState] /\ waiters \in [Cv -> Seq(Worker)]
      /\ Cv = {"gate1", "gate2"}
  BY One, Types
<1>1. CASE SetWaitInfo(w) /\ ~ Asleep(x, "gate2")
  <2>1. pc[w] = "set_wait" /\ pc' = [pc EXCEPT ![w] = "parked"] /\ UNCHANGED <<on, timer>>
        /\ cond' = [cond EXCEPT ![w] = FALSE] /\ UNCHANGED mtx_vars
    BY <1>1 DEF SetWaitInfo, Goto, Steps, Call, TryLock, TryLockShared, Unlock, UnlockShared,
                MayCall, Enter, ReadIn, Announce, WriteIn, GiveUp, Expire, Blocks, Notify
  <2>2. x = w /\ on[w] = "gate2"
    BY <1>0, <1>1, <2>1 DEF Asleep
  <2>3. has_readers
    BY <2>1, <2>2 DEF BlockedInv, Shut
  <2> QED
    BY <2>1, <2>3 DEF has_readers, readers, mtx_vars
<1>2. CASE Asleep(x, "gate2")
  <2>1. x \in Writers
    BY <1>2 DEF Asleep, Writers, At, CvPc
  <2>2. has_write /\ Writers = {x}
    BY <2>1 DEF WordInv
  <2>3. CASE has_readers
    BY <2>2, <2>3, WordBefore
  <2>4. CASE ~ has_readers
    <3>1. PICK v \in Worker : pc[v] = "notify_writer"
      BY <1>2, <2>4 DEF GateInv
    <3>2. CASE v = w /\ Notify(w)
      <4> DEFINE q == waiters["gate2"]
      <4>1. NotifyOne("gate2")
        BY <3>1, <3>2 DEF Notify
      <4>2. x \in Listed("gate2") /\ Enumerates(q, Listed("gate2"))
        BY <1>0, <1>2 DEF Listed, Asleep, ListInv
      <4>3. q # <<>>
        <5>1. PICK i \in 1..Len(q) : q[i] = x
          BY <4>2 DEF Enumerates
        <5> QED
          BY <5>1, EmptySeq
      <4>4. Head(q) \in Listed("gate2")
        BY <4>2, <4>3, EnumeratesTail
      <4>5. Listed("gate2") \subseteq Writers
        BY DEF Listed, Writers, At, CvPc
      <4>6. Head(q) = x
        BY <2>2, <4>4, <4>5
      <4>7. cond'[x]
        BY <1>0, <4>1, <4>3, <4>6 DEF NotifyOne
      <4> QED
        BY <4>7 DEF Asleep
    <3>3. CASE ~ (v = w /\ Notify(w))
      BY <3>1, <3>3, NotifierStays
    <3> QED
      BY <3>2, <3>3
  <2> QED
    BY <2>3, <2>4
<1>3. CASE ~ SetWaitInfo(w)
  BY <1>0, <1>2, <1>3, SleeperBefore
<1> QED
  BY <1>1, <1>2, <1>3

-----------------------------------------------------------------------------
(* The invariant. *)

\* Nobody has made a call yet.
LEMMA InitOK == Init => IInv
<1> SUFFICES ASSUME Init PROVE IInv
  OBVIOUS
<1>0. /\ Cv = {"gate1", "gate2"} /\ Mtx = {"m_mtx"} /\ MaxCalls \in Nat /\ ReadersBits \in Nat \ {0}
      /\ NoWorker \notin Worker
      /\ pc = [w \in Worker |-> "user"] /\ m_mtx = [m \in Mtx |-> NoWorker]
      /\ waiters = [c \in Cv |-> <<>>] /\ on = [w \in Worker |-> CHOOSE c \in Cv : TRUE]
      /\ cond = [w \in Worker |-> FALSE] /\ timer = [w \in Worker |-> "max"]
      /\ m_state = 0 /\ held = [w \in Worker |-> "none"] /\ want = [w \in Worker |-> "read"]
      /\ calls = [w \in Worker |-> 0]
  BY WorkerAssumption, SharedAssumption DEF Init, CvInit
<1>1. TypeOK
  <2>1. (CHOOSE c \in Cv : TRUE) \in Cv
    BY <1>0
  <2>2. <<>> \in Seq(Worker)
    BY EmptySeq
  <2>3. m_state \in 0..(2 * WriteBit - 1)
    BY <1>0 DEF WriteBit
  <2> QED
    BY <1>0, <2>1, <2>2, <2>3 DEF TypeOK, CvTypeOK, TimerState
<1>2. WordInv
  <2>1. Readers = {} /\ Writers = {}
    BY <1>0 DEF Readers, Writers, At, CvPc
  <2>2. readers = 0 /\ ~ has_write
    BY <1>0, <1>1, WordIs DEF TypeOK, WordFacts, WriteBit
  <2> QED
    BY <1>0, <2>1, <2>2, FS_EmptySet DEF WordInv, has_readers
<1>3. CallInv /\ MtxInv /\ BlockedInv /\ GateInv
  BY <1>0 DEF CallInv, MtxInv, Inside, BlockedInv, GateInv, Asleep
<1>4. ListInv
  <2>1. ASSUME NEW c \in Cv PROVE Enumerates(waiters[c], Listed(c))
    <3>1. Listed(c) = {}
      BY <1>0 DEF Listed
    <3>2. <<>> \in Seq(Listed(c)) /\ Len(<<>>) = 0
      BY EmptySeq
    <3>3. waiters[c] = <<>>
      BY <1>0
    <3> QED
      BY <3>1, <3>2, <3>3 DEF Enumerates
  <2> QED
    BY <2>1 DEF ListInv
<1> QED
  BY <1>1, <1>2, <1>3, <1>4 DEF IInv

\* Every step keeps it.
LEMMA StepOK == IInv /\ [Next]_vars => IInv'
<1> SUFFICES ASSUME IInv, [Next]_vars PROVE IInv'
  OBVIOUS
<1>0. TypeOK /\ WordInv /\ CallInv /\ MtxInv /\ ListInv /\ BlockedInv /\ GateInv
  BY DEF IInv
<1>1. CASE UNCHANGED vars
  <2>1. UNCHANGED <<pc, m_mtx, waiters, on, cond, timer, m_state, held, want, calls>>
    BY <1>1 DEF vars, cv_vars, mtx_vars
  <2>2. TypeOK'
    BY <1>0, <2>1 DEF TypeOK, CvTypeOK, WriteBit
  <2>3. readers' = readers /\ (has_write' <=> has_write) /\ (FewWorkers' <=> FewWorkers)
    BY <2>1 DEF readers, has_write, FewWorkers
  <2>4. WordInv'
    BY <1>0, <2>1, <2>3 DEF WordInv, Readers, Writers, At, has_readers
  <2>5. CallInv' /\ MtxInv' /\ ListInv'
    BY <1>0, <2>1 DEF CallInv, MtxInv, ListInv, Listed
  <2>6. BlockedInv' /\ GateInv'
    BY <1>0, <2>1, <2>3 DEF BlockedInv, Shut, GateInv, Asleep, MayRead, max_readers, has_readers
  <2> QED
    BY <2>2, <2>4, <2>5, <2>6 DEF IInv
<1>2. ASSUME NEW w \in Worker, Steps(w) PROVE IInv'
  <2>1. WordInv' /\ (m_state \in 0..(2 * WriteBit - 1))'
    BY <1>0, <1>2, StepMoves, WordStep
  <2>2. TypeOK'
    BY <1>0, <1>2, <2>1, ControlStep DEF TypeOK
  <2>3. CallInv' /\ MtxInv' /\ ListInv' /\ BlockedInv'
    BY <1>0, <1>2, CallStepOK, MtxStep, ListStep, BlockedStep
  <2>4. GateInv'
    <3>1. FewWorkers' <=> FewWorkers
      BY DEF FewWorkers
    <3>2. ASSUME FewWorkers, NEW x \in Worker, Asleep(x, "gate1")', ~ has_write'
          PROVE  \E v \in Worker : pc'[v] = "notify_all"
      BY <1>0, <1>2, <3>2, Gate1Step
    <3>3. ASSUME NEW x \in Worker, Asleep(x, "gate2")', ~ has_readers'
          PROVE  \E v \in Worker : pc'[v] = "notify_writer"
      BY <1>0, <1>2, <3>3, Gate2Step
    <3> QED
      BY <3>1, <3>2, <3>3 DEF GateInv
  <2> QED
    BY <2>1, <2>2, <2>3, <2>4 DEF IInv
<1> QED
  BY <1>0, <1>1, <1>2, NextSteps

\* IInv is inductive: it holds in every state of the shared mutexes.
THEOREM IInvHolds == Spec => []IInv
  BY InitOK, StepOK, PTL DEF Spec

\* The packed word stays within its two fields.
THEOREM TypesKept == Spec => []TypeOK
<1>1. IInv => TypeOK
  BY DEF IInv
<1> QED
  BY <1>1, IInvHolds, PTL

\* The count of the packed word is the number of readers, and its bit is set for the
\* one writer that holds the mutex or waits for them.
THEOREM WordIsTrue == Spec => []StateMatches
<1>1. IInv => StateMatches
  <2> SUFFICES ASSUME IInv PROVE StateMatches
    OBVIOUS
  <2>1. Cardinality(Readers) = readers
    BY DEF IInv, WordInv
  <2>2. Cardinality(Writers) = IF has_write THEN 1 ELSE 0
    <3>1. CASE has_write
      BY <3>1, FS_Singleton DEF IInv, WordInv
    <3>2. CASE ~ has_write
      BY <3>2, FS_EmptySet DEF IInv, WordInv
    <3> QED
      BY <3>1, <3>2
  <2> QED
    BY <2>1, <2>2 DEF StateMatches, Readers, Writers
<1> QED
  BY <1>1, IInvHolds, PTL

\* As long as every worker may be a reader at once, no notification of the gates is
\* lost, however many workers wait.
THEOREM NotifyIsNotLost == FewWorkers => (Spec => []NoLostNotify)
<1> SUFFICES ASSUME FewWorkers PROVE Spec => []NoLostNotify
  OBVIOUS
<1>1. IInv => NoLostNotify
  <2> SUFFICES ASSUME IInv PROVE NoLostNotify
    OBVIOUS
  <2>1. ASSUME NEW w \in Worker, Asleep(w, "gate1"), IF want[w] = "read" THEN MayRead ELSE ~ has_write
        PROVE  \E v \in Worker : pc[v] = "notify_all"
    <3>1. ~ has_write
      BY <2>1 DEF MayRead
    <3> QED
      BY <2>1, <3>1 DEF IInv, GateInv
  <2>2. (\E w \in Worker : Asleep(w, "gate2")) /\ ~ has_readers => \E v \in Worker : pc[v] = "notify_writer"
    BY DEF IInv, GateInv
  <2> QED
    BY <2>1, <2>2 DEF NoLostNotify
<1> QED
  BY <1>1, IInvHolds, PTL

-----------------------------------------------------------------------------
(* What the users see. *)

\* While a writer has the bit, nobody is let in to read.
THEOREM WritersGoFirst == Spec => WriterFirst
<1>1. IInv /\ [Next]_vars =>
         [(\E w \in Worker : At(w, "gate2")) =>
             \A v \in Worker : held'[v] = "read" => held[v] = "read"]_vars
  <2> SUFFICES ASSUME IInv, Next, NEW w \in Worker, At(w, "gate2"),
                      NEW v \in Worker, held'[v] = "read"
               PROVE  held[v] = "read"
    OBVIOUS
  <2>0. TypeOK /\ WordInv /\ CallInv
    BY DEF IInv
  <2>1. has_write
    BY <2>0 DEF WordInv, Writers
  <2>2. CASE UNCHANGED vars
    BY <2>2 DEF vars, mtx_vars
  <2>3. ASSUME NEW u \in Worker, Steps(u) PROVE held[v] = "read"
    <3>1. Moves(u)
      BY <2>0, <2>3, StepMoves
    <3>2. ~ TakesShared(u)
      BY <2>1 DEF TakesShared, MayRead
    <3>3. held' = held \/ \E h \in {"none", "write"} : held' = [held EXCEPT ![u] = h]
      BY <3>1, <3>2 DEF Moves, TakesWrite, Announces, GetsWrite, Withdraws, EndsWrite, EndsShared, SameHolders
    <3> QED
      BY <2>0, <3>3, Types
  <2> QED
    BY <2>0, <2>2, <2>3, NextSteps
<1> QED
  BY <1>1, IInvHolds, PTL DEF Spec, WriterFirst

\* A move lets in a reader or a writer, lets one out, or changes no holder.
LEMMA MoveRefines ==
    ASSUME TypeOK, WordInv, NEW w \in Worker, Moves(w)
    PROVE  [Abstract!Next]_held
<1>0. /\ held \in [Worker -> {"none", "read", "write"}]
      /\ \A v \in Worker : held[v] = "write" => v \in Writers
      /\ \A v \in Worker : held[v] = "read" => v \in Readers
      /\ has_write => \E v \in Worker : Writers = {v}
      /\ ~ has_write => Writers = {}
      /\ ~ has_readers => Readers = {}
  BY Types, FS_EmptySet DEF WordInv, Writers, Readers, has_readers
<1>1. CASE TakesShared(w)
  <2>1. Abstract!AcquireShared(w)
    BY <1>0, <1>1 DEF TakesShared, MayRead, Abstract!AcquireShared
  <2> QED
    BY <2>1 DEF Abstract!Next
<1>2. CASE TakesWrite(w)
  <2>1. Abstract!Acquire(w)
    BY <1>0, <1>2 DEF TakesWrite, Abstract!Acquire
  <2> QED
    BY <2>1 DEF Abstract!Next
<1>3. CASE GetsWrite(w)
  <2>1. \A v \in Worker : held[v] = "none"
    BY <1>0, <1>3 DEF GetsWrite
  <2>2. Abstract!Acquire(w)
    BY <1>3, <2>1 DEF GetsWrite, Abstract!Acquire
  <2> QED
    BY <2>2 DEF Abstract!Next
<1>4. CASE EndsWrite(w) \/ EndsShared(w)
  <2>1. Abstract!Release(w)
    BY <1>4 DEF EndsWrite, EndsShared, Abstract!Release
  <2> QED
    BY <2>1 DEF Abstract!Next
<1>5. CASE Announces(w) \/ Withdraws(w) \/ SameHolders
  BY <1>5 DEF Announces, Withdraws, SameHolders
<1> QED
  BY <1>1, <1>2, <1>3, <1>4, <1>5 DEF Moves

\* Shared_mutex and Shared_timed_mutex implement the abstract shared lock: one writer
\* alone, or readers only.
THEOREM Refinement == Spec => ImplementsSharedLock
<1>1. Init => Abstract!Init
  BY DEF Init, Abstract!Init
<1>2. IInv /\ [Next]_vars => [Abstract!Next]_held
  <2> SUFFICES ASSUME IInv, [Next]_vars PROVE [Abstract!Next]_held
    OBVIOUS
  <2>0. TypeOK /\ WordInv /\ CallInv
    BY DEF IInv
  <2>1. ASSUME NEW w \in Worker, Steps(w) PROVE [Abstract!Next]_held
    BY <2>0, <2>1, StepMoves, MoveRefines
  <2>2. CASE UNCHANGED vars
    BY <2>2 DEF vars, mtx_vars
  <2> QED
    BY <2>0, <2>1, <2>2, NextSteps
<1> QED
  BY <1>1, <1>2, IInvHolds, PTL DEF Spec, ImplementsSharedLock, Abstract!Spec

=============================================================================

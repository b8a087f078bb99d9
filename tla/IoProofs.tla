------------------------------ MODULE IoProofs ------------------------------
(***************************************************************************)
(* The requests of any threads, any number of them: the assertions of      *)
(* uring_submit and uring_update hold, and read_file and write_file return *)
(* only when the kernel is done with the buffer.                           *)
(***************************************************************************)
EXTENDS Io, FiniteSetTheorems, TLAPS

\* The life of a request.  Between its submission and the completion's being seen there is
\* exactly one of: the entry the kernel refused, the kernel's work, the completion;
\* outside there is none of them.
RequestInv(w) ==
    /\ inflight[w] => /\ file[w] /\ ~sq[w] /\ cq[w] = <<>> /\ m_state[w] = "pending"
                      /\ at[w] \in {"submitted", "pending_io"}
    /\ sq[w] => /\ cq[w] = <<>> /\ m_state[w] = "pending"
                /\ at[w] \in {"submitted", "pending_io"}
    /\ cq[w] # <<>> => /\ Head(cq[w]).data64 = m_id[w] /\ m_state[w] = "pending"
                       /\ at[w] \in {"submitted", "pending_io"}

IInv == TypeOK /\ \A w \in Thread : RequestInv(w)

\* Facts on the sequences a ring of one entry can hold.
LEMMA OneEntry ==
    /\ \A c \in Completion :
           /\ Append(<<>>, c) = <<c>> /\ Head(<<c>>) = c /\ <<c>> # <<>>
           /\ <<c>> \in Seq(Completion) /\ Len(<<c>>) = 1
    /\ \A s \in Seq(Completion) : s # <<>> /\ Len(s) <= 1 => Tail(s) = <<>>
    /\ <<>> \in Seq(Completion) /\ Len(<<>>) = 0
  OBVIOUS

LEMMA InitIInv == Init => IInv
  BY DEF Init, IInv, TypeOK, RequestInv

\* A step of thread v leaves the requests of the other threads alone.
LEMMA OpenFileIInv == ASSUME IInv, NEW v \in Thread, OpenFile(v) PROVE IInv'
  BY DEF IInv, TypeOK, RequestInv, OpenFile, InTask

LEMMA CloseFileIInv == ASSUME IInv, NEW v \in Thread, CloseFile(v) PROVE IInv'
  BY DEF IInv, TypeOK, RequestInv, CloseFile, InTask

LEMMA SubmitIInv == ASSUME IInv, NEW v \in Thread, Submit(v) PROVE IInv'
  <1>1. TypeOK'
    <2>1. CASE Overlapped(v)
      BY <2>1 DEF IInv, TypeOK, Submit, Overlapped, InTask
    <2>2. CASE UringSubmit(v)
      BY <2>2 DEF IInv, TypeOK, Submit, UringSubmit, InTask
    <2> QED BY <2>1, <2>2 DEF Submit
  <1>2. ~sq[v] /\ ~inflight[v] /\ cq[v] = <<>>
    BY DEF IInv, TypeOK, RequestInv, Submit, InTask
  <1>3. ASSUME NEW w \in Thread PROVE RequestInv(w)'
    <2>1. CASE Overlapped(v)
      BY <1>2, <2>1 DEF IInv, TypeOK, RequestInv, Submit, Overlapped, InTask
    <2>2. CASE UringSubmit(v)
      BY <1>2, <2>2 DEF IInv, TypeOK, RequestInv, Submit, UringSubmit, InTask
    <2> QED BY <2>1, <2>2 DEF Submit
  <1> QED BY <1>1, <1>3 DEF IInv

LEMMA SyncIInv == ASSUME IInv, NEW v \in Thread, Sync(v) PROVE IInv'
  BY DEF IInv, TypeOK, RequestInv, Sync

LEMMA KernelDoneIInv == ASSUME IInv, NEW v \in Thread, KernelDone(v) PROVE IInv'
  <1>1. PICK res \in {"all", "some", "failed"} :
            cq' = [cq EXCEPT ![v] = Append(@, [data64 |-> m_id[v], res |-> res])]
    BY DEF KernelDone
  <1> DEFINE c == [data64 |-> m_id[v], res |-> res]
  <1>2. c \in Completion
    BY DEF IInv, TypeOK, Completion
  <1>3. cq' = [cq EXCEPT ![v] = <<c>>]
    BY <1>1, <1>2, OneEntry DEF IInv, TypeOK, RequestInv, KernelDone
  <1>4. Head(<<c>>).data64 = m_id[v]
    BY <1>2, OneEntry
  <1> HIDE DEF c
  <1> QED BY <1>2, <1>3, <1>4, OneEntry DEF IInv, TypeOK, RequestInv, KernelDone

LEMMA UpdateIInv == ASSUME IInv, NEW v \in Thread, Update(v) PROVE IInv'
  <1>1. cq' = [cq EXCEPT ![v] = <<>>]
    BY OneEntry DEF IInv, TypeOK, Update
  <1>2. StateOf(Head(cq[v]).res) \in {"completed", "error"}
    BY DEF StateOf
  <1>3. ~inflight[v] /\ ~sq[v]
    BY DEF IInv, RequestInv, Update
  <1> QED BY <1>1, <1>2, <1>3, OneEntry DEF IInv, TypeOK, RequestInv, Update

LEMMA ResumeIInv == ASSUME IInv, NEW v \in Thread, Resume(v) PROVE IInv'
  BY DEF IInv, TypeOK, RequestInv, Resume

LEMMA UnchangedIInv == ASSUME IInv, UNCHANGED io_vars PROVE IInv'
  BY DEF IInv, TypeOK, RequestInv, io_vars

LEMMA NextIInv == IInv /\ [Next]_vars => IInv'
  <1> SUFFICES ASSUME IInv, [Next]_vars PROVE IInv'
    OBVIOUS
  <1>1. CASE UNCHANGED io_vars
    BY <1>1, UnchangedIInv
  <1>2. ASSUME NEW w \in Thread,
               OpenFile(w) \/ CloseFile(w) \/ Submit(w) \/ IoStep(w) \/ KernelDone(w)
        PROVE IInv'
    BY <1>2, OpenFileIInv, CloseFileIInv, SubmitIInv, SyncIInv, UpdateIInv, ResumeIInv,
       KernelDoneIInv DEF IoStep
  <1> QED BY <1>1, <1>2 DEF Next, vars

\* The types of the requests, of which a ring holds at most one completion.
THEOREM TypeCorrect == Spec => []TypeOK
  <1>1. IInv => TypeOK
    BY DEF IInv
  <1> QED BY InitIInv, NextIInv, <1>1, PTL DEF Spec

\* A thread that submits finds room in its ring and a completion that is found belongs to
\* the request (uring_submit, uring_update), for any threads, CPUs and options.
THEOREM Asserted == Spec => []AssertsHold
  <1>1. IInv => AssertsHold
    BY DEF IInv, RequestInv, AssertsHold
  <1> QED BY InitIInv, NextIInv, <1>1, PTL DEF Spec

\* The kernel never uses a buffer or a file whose owner has gone on (read_file, write_file).
THEOREM Safe == Spec => []BufferSafe
  <1>1. IInv => BufferSafe
    BY DEF IInv, TypeOK, RequestInv, BufferSafe
  <1> QED BY InitIInv, NextIInv, <1>1, PTL DEF Spec
-----------------------------------------------------------------------------
(* Start-up. *)

Cpus == {m_schedulers[i] : i \in 1..Len(m_schedulers)}
Usable == affinity \cap AllowedCpus

\* What start-up reads and counts.
StartupTypes ==
    /\ os \in {"windows", "linux"} /\ MaxCpus \in Nat \ {0}
    /\ online \subseteq 0..(MaxCpus - 1) /\ affinity \subseteq online /\ affinity # {}
    /\ opt.schedulers \in Nat \ {0} /\ opt.workers \in Nat \ {0}
    /\ avail \subseteq Int
    /\ cpu_id \in -1..MaxCpus
    /\ m_schedulers \in Seq(0..(MaxCpus - 1)) /\ IsFiniteSet(DOMAIN bound)

\* The constructor has made one Scheduler for each available CPU it has looked at, in
\* ascending order, and no more than asked for.
CpusInv ==
    /\ cpu_id = -1 => m_schedulers = <<>>
    /\ os = "windows" /\ cpu_id # -1 => avail = Usable
    /\ Len(m_schedulers) <= opt.schedulers
    /\ \A c \in Cpus : c \in avail /\ c < cpu_id
    /\ \A c \in avail : 0 <= c /\ c < cpu_id => c \in Cpus
    /\ IsFiniteSet(Cpus) /\ Cardinality(Cpus) = Len(m_schedulers)

\* Every thread is one of a Scheduler that exists, bound to that one's CPU as the system
\* can.
BoundInv ==
    \A t \in DOMAIN bound : t[1] \in 1..Len(m_schedulers) /\ bound[t] = Bound(m_schedulers[t[1]])

SInv == StartupTypes /\ CpusInv /\ BoundInv

LEMMA InitSInv == Init => SInv
  <1> SUFFICES ASSUME Init PROVE SInv
    OBVIOUS
  <1>1. MaxCpus \in Nat \ {0} /\ MaxWorkers \in Nat \ {0} /\ Asked \subseteq Nat
    BY WidthAssumption
  <1>2. opt.schedulers \in Nat \ {0} /\ opt.workers \in Nat \ {0}
    <2>1. PICK a \in Asked : opt.schedulers = Option(a, 1, MaxCpus)
      BY DEF Init, StartupInit
    <2>2. PICK b \in Asked : opt.workers = Option(b, 1, MaxWorkers)
      BY DEF Init, StartupInit
    <2> QED BY <1>1, <2>1, <2>2 DEF Option
  <1>3. StartupTypes
    <2>1. IsFiniteSet(DOMAIN bound)
      <3>1. bound = [t \in {} |-> {}]
        BY DEF Init, StartupInit
      <3>2. DOMAIN bound = {}
        BY <3>1
      <3> QED BY <3>2, FS_EmptySet
    <2>2. /\ os \in {"windows", "linux"} /\ avail = {} /\ cpu_id = -1 /\ m_schedulers = <<>>
          /\ online \subseteq 0..(MaxCpus - 1) /\ affinity \subseteq online /\ affinity # {}
      BY DEF Init, StartupInit
    <2> QED BY <1>1, <1>2, <2>1, <2>2 DEF StartupTypes
  <1>4. Cpus = {} /\ Len(m_schedulers) = 0
    BY DEF Init, StartupInit, Cpus
  <1> QED BY <1>2, <1>3, <1>4, FS_EmptySet DEF Init, StartupInit, SInv, CpusInv, BoundInv

LEMMA ReadMaskSInv == ASSUME SInv, ReadMask PROVE SInv'
  <1>0. avail' \subseteq AllowedCpus /\ AllowedCpus \subseteq Int
    BY WidthAssumption DEF ReadMask
  <1>1. avail' \subseteq Int /\ cpu_id = -1 /\ cpu_id' = 0 /\ m_schedulers = <<>>
    BY <1>0 DEF ReadMask, SInv, CpusInv
  <1>2. UNCHANGED <<os, wraps, online, affinity, opt, m_schedulers, bound>>
    BY DEF ReadMask, sys_vars
  <1>3. os = "windows" => avail' = Usable'
    BY <1>2 DEF ReadMask, WindowsMask, Usable
  <1>4. StartupTypes'
    BY <1>1, <1>2 DEF SInv, StartupTypes
  <1>5. Cpus' = Cpus /\ Cpus = {}
    BY <1>1, <1>2 DEF Cpus
  <1>6. CpusInv'
    BY <1>1, <1>2, <1>3, <1>5 DEF SInv, CpusInv
  <1>7. BoundInv'
    BY <1>2 DEF SInv, BoundInv, Bound, WindowsSet, LinuxSet, Looped, Bit
  <1> QED BY <1>4, <1>6, <1>7 DEF SInv

LEMMA NextCpuSInv == ASSUME SInv, NextCpu PROVE SInv'
  <1>1. UNCHANGED <<os, wraps, online, affinity, opt, avail, bound>>
    BY DEF NextCpu, sys_vars
  <1>2. /\ cpu_id \in 0..(MaxCpus - 1) /\ cpu_id' = cpu_id + 1
        /\ Len(m_schedulers) < opt.schedulers /\ m_schedulers \in Seq(0..(MaxCpus - 1))
        /\ Len(m_schedulers) \in Nat /\ opt.schedulers \in Nat /\ MaxCpus \in Nat
    BY DEF NextCpu, SInv, StartupTypes
  <1>5. /\ cpu_id \in Int /\ avail \subseteq Int
        /\ \A c \in Cpus : c \in Int /\ c \in avail /\ c < cpu_id
        /\ \A c \in avail : 0 <= c /\ c < cpu_id => c \in Cpus
    <2>1. avail \subseteq Int
      BY DEF SInv, StartupTypes
    <2>2. /\ \A c \in Cpus : c \in avail /\ c < cpu_id
          /\ \A c \in avail : 0 <= c /\ c < cpu_id => c \in Cpus
      BY DEF SInv, CpusInv
    <2>3. cpu_id \in Int
      BY <1>2
    <2> QED BY <2>1, <2>2, <2>3
  <1>3. CASE cpu_id \notin avail
    <2>1. m_schedulers' = m_schedulers
      BY <1>3 DEF NextCpu
    <2>2. StartupTypes'
      BY <1>1, <1>2, <2>1 DEF SInv, StartupTypes
    <2>3. Cpus' = Cpus /\ Usable' = Usable
      BY <1>1, <2>1 DEF Cpus, Usable
    <2>4. \A c \in avail : c < cpu_id + 1 => c < cpu_id
      BY <1>3, <1>5
    <2>5. \A c \in Cpus : c < cpu_id + 1
      BY <1>5
    <2>6. CpusInv'
      BY <1>1, <1>2, <2>1, <2>3, <2>4, <2>5 DEF SInv, CpusInv
    <2>7. BoundInv'
      BY <1>1, <2>1 DEF SInv, BoundInv, Bound, WindowsSet, LinuxSet, Looped, Bit
    <2> QED BY <2>2, <2>6, <2>7 DEF SInv
  <1>4. CASE cpu_id \in avail
    <2>1. m_schedulers' = Append(m_schedulers, cpu_id)
      BY <1>4 DEF NextCpu
    <2>2. /\ m_schedulers' \in Seq(0..(MaxCpus - 1)) /\ Len(m_schedulers') = Len(m_schedulers) + 1
          /\ m_schedulers'[Len(m_schedulers) + 1] = cpu_id
          /\ \A i \in 1..Len(m_schedulers) : m_schedulers'[i] = m_schedulers[i]
      BY <1>2, <2>1
    <2>3. StartupTypes'
      BY <1>1, <1>2, <2>2 DEF SInv, StartupTypes
    <2>4. Cpus' = Cpus \cup {cpu_id} /\ Usable' = Usable
      <3>1. 1..Len(m_schedulers') = 1..Len(m_schedulers) \cup {Len(m_schedulers) + 1}
        BY <1>2, <2>2
      <3>2. Cpus' = {m_schedulers'[i] : i \in 1..Len(m_schedulers)} \cup {cpu_id}
        BY <2>2, <3>1 DEF Cpus
      <3> QED BY <1>1, <2>2, <3>2 DEF Cpus, Usable
    <2>5. cpu_id \notin Cpus
      BY <1>5
    <2>6. IsFiniteSet(Cpus') /\ Cardinality(Cpus') = Len(m_schedulers')
      <3>1. IsFiniteSet(Cpus) /\ Cardinality(Cpus) = Len(m_schedulers)
        BY DEF SInv, CpusInv
      <3>2. Cardinality(Cpus \cup {cpu_id}) = Cardinality(Cpus) + 1 /\ IsFiniteSet(Cpus \cup {cpu_id})
        BY <2>5, <3>1, FS_AddElement
      <3> QED BY <2>2, <2>4, <3>1, <3>2
    <2>7. Len(m_schedulers') <= opt.schedulers /\ cpu_id' # -1 /\ cpu_id # -1
      BY <1>2, <2>2 DEF SInv, StartupTypes
    <2>8. \A c \in Cpus' : c \in avail /\ c < cpu_id + 1
      BY <1>4, <1>5, <2>4
    <2>9. \A c \in avail : 0 <= c /\ c < cpu_id + 1 => c \in Cpus'
      BY <1>5, <2>4
    <2>10. CpusInv'
      BY <1>1, <1>2, <2>4, <2>6, <2>7, <2>8, <2>9 DEF SInv, CpusInv
    <2>11. BoundInv'
      <3>1. \A c : Bound(c)' = Bound(c)
        BY <1>1 DEF Bound, WindowsSet, LinuxSet, Looped, Bit
      <3>2. \A t \in DOMAIN bound : t[1] \in 1..Len(m_schedulers')
        BY <1>2, <2>2 DEF SInv, BoundInv
      <3> QED BY <1>1, <2>2, <3>1, <3>2 DEF SInv, BoundInv
    <2> QED BY <2>3, <2>10, <2>11 DEF SInv
  <1> QED BY <1>3, <1>4

LEMMA StartWorkerSInv == ASSUME SInv, StartWorker PROVE SInv'
  <1> DEFINE s == Len(m_schedulers)
             t == NextThread
  <1>1. /\ UNCHANGED <<os, wraps, online, affinity, opt, avail, cpu_id, m_schedulers>>
        /\ BindThread(t, m_schedulers[s])
        /\ Cardinality(DOMAIN bound) < s * opt.workers
    BY DEF StartWorker, sys_vars
  <1>2. s \in 1..s
    <2>1. Cardinality(DOMAIN bound) \in Nat /\ s \in Nat /\ opt.workers \in Nat
      BY FS_CardinalityType DEF SInv, StartupTypes
    <2>2. s = 0 => s * opt.workers = 0
      BY <2>1
    <2> QED BY <1>1, <2>1, <2>2
  <1>3. t[1] = s
    BY DEF NextThread
  <1> HIDE DEF t
  <1>4. /\ DOMAIN bound' = DOMAIN bound \cup {t}
        /\ \A u \in DOMAIN bound : u # t => bound'[u] = bound[u]
        /\ bound'[t] = Bound(m_schedulers[s])
    BY <1>1 DEF BindThread
  <1>5. IsFiniteSet(DOMAIN bound')
    <2>1. IsFiniteSet(DOMAIN bound)
      BY DEF SInv, StartupTypes
    <2> QED BY <1>4, <2>1, FS_AddElement
  <1>6. StartupTypes'
    BY <1>1, <1>5 DEF SInv, StartupTypes
  <1>7. CpusInv'
    BY <1>1 DEF SInv, CpusInv, Cpus, Usable
  <1>8. \A c : Bound(c)' = Bound(c)
    BY <1>1 DEF Bound, WindowsSet, LinuxSet, Looped, Bit
  <1>9. BoundInv'
    BY <1>1, <1>2, <1>3, <1>4, <1>8 DEF SInv, BoundInv
  <1> QED BY <1>6, <1>7, <1>9 DEF SInv

LEMMA NextSInv == SInv /\ [Next]_vars => SInv'
  <1> SUFFICES ASSUME SInv, [Next]_vars PROVE SInv'
    OBVIOUS
  <1>1. CASE UNCHANGED startup_vars
    <2>1. UNCHANGED <<os, wraps, online, affinity, opt, avail, cpu_id, m_schedulers, bound>>
      BY <1>1 DEF startup_vars, sys_vars
    <2>2. StartupTypes' /\ CpusInv'
      BY <2>1 DEF SInv, StartupTypes, CpusInv, Cpus, Usable
    <2>3. BoundInv'
      BY <2>1 DEF SInv, BoundInv, Bound, WindowsSet, LinuxSet, Looped, Bit
    <2> QED BY <2>2, <2>3 DEF SInv
  <1>2. CASE StartupNext
    BY <1>2, ReadMaskSInv, NextCpuSInv, StartWorkerSInv DEF StartupNext
  <1> QED BY <1>1, <1>2 DEF Next, vars

\* The constructor of Schedulers: on a system the code supports there is one Scheduler
\* for each of the first CPUs allowed, as many as asked for or as there are.
THEOREM SchedulersStarted == Spec => []OneSchedulerPerCpu
  <1>1. ASSUME SInv, Supported, Started
        PROVE  /\ Cpus \subseteq Usable /\ Cardinality(Cpus) = Len(m_schedulers)
               /\ Len(m_schedulers) = Option(opt.schedulers, 0, Cardinality(Usable))
               /\ \A c \in Cpus, d \in Usable \ Cpus : c < d
    <2>1. avail = Usable
      BY <1>1 DEF SInv, StartupTypes, CpusInv, Supported, Started, Usable
    <2>2. Usable \subseteq 0..(MaxCpus - 1) /\ MaxCpus \in Nat /\ cpu_id \in -1..MaxCpus
      BY <1>1 DEF SInv, StartupTypes, Usable
    <2>3. IsFiniteSet(Usable) /\ Cardinality(Usable) \in Nat
      <3>1. IsFiniteSet(0..(MaxCpus - 1))
        BY <2>2, FS_Interval
      <3> QED BY <2>2, <3>1, FS_Subset, FS_CardinalityType
    <2>4. /\ Cpus \subseteq Usable /\ \A c \in Cpus : c < cpu_id
          /\ \A d \in Usable : d < cpu_id => d \in Cpus
      BY <1>1, <2>1, <2>2 DEF SInv, CpusInv
    <2>5. /\ Len(m_schedulers) \in Nat /\ opt.schedulers \in Nat
          /\ Len(m_schedulers) <= opt.schedulers /\ Cardinality(Cpus) = Len(m_schedulers)
      BY <1>1 DEF SInv, StartupTypes, CpusInv
    <2>6. Cardinality(Cpus) <= Cardinality(Usable)
      BY <2>3, <2>4, FS_Subset
    <2>7. CASE cpu_id >= MaxCpus
      <3>1. \A d \in Usable : d < cpu_id
        BY <2>2, <2>7
      <3>2. Cpus = Usable
        BY <2>4, <3>1
      <3> QED BY <2>3, <2>5, <3>2 DEF Option
    <2>8. CASE Len(m_schedulers) >= opt.schedulers
      <3>1. Len(m_schedulers) = Option(opt.schedulers, 0, Cardinality(Usable))
        BY <2>3, <2>5, <2>6, <2>8 DEF Option
      <3>2. \A c \in Cpus, d \in Usable \ Cpus : c < d
        <4>1. \A d \in Usable \ Cpus : ~ (d < cpu_id)
          BY <2>4
        <4>2. Cpus \subseteq Int /\ Usable \subseteq Int
          BY <2>2, <2>4
        <4> QED BY <2>2, <2>4, <4>1, <4>2
      <3> QED BY <2>4, <2>5, <3>1, <3>2
    <2> QED BY <1>1, <2>7, <2>8 DEF Started
  <1>2. SInv => OneSchedulerPerCpu
    BY <1>1 DEF OneSchedulerPerCpu, Cpus, Usable
  <1> QED BY InitSInv, NextSInv, <1>2, PTL DEF Spec

\* os::bind_thread: a worker runs on CPUs that are online, on a system the code supports
\* on its scheduler's only.
THEOREM ThreadsStayBound == Spec => []ThreadsBound
  <1>1. ASSUME SInv, NEW t \in DOMAIN bound PROVE bound[t] # {} /\ bound[t] \subseteq online
    BY <1>1 DEF SInv, StartupTypes, BoundInv, Bound, WindowsSet, LinuxSet
  <1>2. ASSUME SInv, Supported, NEW t \in DOMAIN bound
        PROVE  bound[t] = {m_schedulers[t[1]]}
    <2> DEFINE cpu == m_schedulers[t[1]]
    <2>1. cpu \in Cpus /\ cpu \in avail /\ bound[t] = Bound(cpu) /\ m_schedulers # <<>>
      <3>1. t[1] \in 1..Len(m_schedulers) /\ bound[t] = Bound(cpu)
        BY <1>2 DEF SInv, BoundInv
      <3>2. cpu \in Cpus /\ m_schedulers # <<>>
        BY <3>1 DEF Cpus
      <3> QED BY <1>2, <3>1, <3>2 DEF SInv, CpusInv
    <2>2. cpu_id # -1
      BY <1>2, <2>1 DEF SInv, CpusInv
    <2>3. cpu \in affinity /\ cpu \in online
      BY <1>2, <2>1, <2>2 DEF SInv, StartupTypes, CpusInv, Supported, Usable
    <2> HIDE DEF cpu
    <2>4. CASE os = "windows"
      <3>1. WindowsSet(cpu) = {cpu}
        BY <2>3 DEF WindowsSet
      <3> QED BY <2>1, <2>4, <3>1 DEF Bound, cpu
    <2>5. CASE os = "linux"
      <3>1. online = Looped /\ Cardinality(online) <= UIntBits
        BY <1>2, <2>5 DEF Supported
      <3>2. Cardinality(online) \in Nat /\ UIntBits \in Nat
        <4>1. IsFiniteSet(0..(MaxCpus - 1)) /\ online \subseteq 0..(MaxCpus - 1)
          BY <1>2, FS_Interval DEF SInv, StartupTypes
        <4> QED BY <4>1, WidthAssumption, FS_Subset, FS_CardinalityType
      <3>3. \A i \in Looped : Bit(i) = {i}
        BY <3>1, <3>2 DEF Looped, Bit
      <3>4. LinuxSet(cpu) = {cpu}
        BY <2>3, <3>1, <3>3 DEF LinuxSet
      <3>5. Bound(cpu) = {cpu}
        BY <2>5, <3>4 DEF Bound
      <3> QED BY <2>1, <3>5 DEF cpu
    <2> QED BY <1>2, <2>4, <2>5 DEF SInv, StartupTypes
  <1>3. SInv => ThreadsBound
    BY <1>1, <1>2 DEF ThreadsBound
  <1> QED BY InitSInv, NextSInv, <1>3, PTL DEF Spec
=============================================================================

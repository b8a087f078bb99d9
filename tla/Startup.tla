------------------------------- MODULE Startup -------------------------------
(***************************************************************************)
(* From the Options to bound worker threads: the clamped options, the mask *)
(* of available CPUs, one Scheduler per available CPU until there are      *)
(* enough, and in every one of them worker threads that bind themselves to *)
(* its CPU.  A mask is the set of its bits.                                *)
(***************************************************************************)
EXTENDS Integers, Sequences, FiniteSets

CONSTANTS
    MaxCpus,                 \* CFG_max_supported_cpus, the width of u64 and of Cpu_Mask
    UIntBits,                \* the width of unsigned int
    MaxWorkers,              \* CFG_max_workers_per_scheduler
    AllowedCpus,             \* CFG_allowed_cpus_mask
    Asked                    \* bound: the values a user may ask for as an option

ASSUME WidthAssumption ==
    /\ UIntBits \in Nat \ {0} /\ MaxCpus \in Nat /\ UIntBits <= MaxCpus
    /\ MaxWorkers \in Nat \ {0} /\ Asked \subseteq Nat /\ AllowedCpus \subseteq 0..(MaxCpus - 1)

VARIABLES
    os,                      \* OS_WINDOWS or OS_LINUX
    wraps,                   \* what the build makes of 1U << i with too large an i
    online, affinity,        \* the system's CPUs and those the process may use
    opt,                     \* the Options
    avail,                   \* m_cpus_avail_mask
    cpu_id,                  \* the constructor's loop counter, -1 before it
    m_schedulers,            \* the CPU of each Scheduler created
    bound                    \* per worker thread (scheduler, id): the CPUs it may run on

sys_vars == <<os, wraps, online, affinity, opt>>
startup_vars == <<sys_vars, avail, cpu_id, m_schedulers, bound>>

\* Option, Schedulers_count and Workers_per_scheduler.
Option(value, min, max) == IF value < min THEN min ELSE IF value > max THEN max ELSE value

StartupInit ==
    /\ os \in {"windows", "linux"}
    /\ wraps \in IF os = "windows" THEN {FALSE} ELSE BOOLEAN
    /\ online \in (SUBSET (0..(MaxCpus - 1))) \ {{}}
    /\ affinity \in (SUBSET online) \ {{}}
    /\ opt \in [schedulers : {Option(a, 1, MaxCpus) : a \in Asked},
                workers : {Option(a, 1, MaxWorkers) : a \in Asked}]
    /\ avail = {} /\ cpu_id = -1
    /\ m_schedulers = <<>>
    /\ bound = [t \in {} |-> {}]

\* The constructor of Schedulers has returned.
Started ==
    /\ cpu_id # -1
    /\ cpu_id >= MaxCpus \/ Len(m_schedulers) >= opt.schedulers
    /\ Cardinality(DOMAIN bound) = Len(m_schedulers) * opt.workers

-----------------------------------------------------------------------------
\* The CPUs Linux' loops look at: i < cpus_count(), the number of CPUs online.
Looped == 0..(Cardinality(online) - 1)

\* 1U << i: undefined from the width of unsigned int on, where compilers make a shift by
\* i modulo the width of it, or no bit at all.
Bit(i) == IF i < UIntBits THEN {i} ELSE IF wraps THEN {i % UIntBits} ELSE {}

\* os::cpus_avail_mask of Windows, and of Linux, where sched_getaffinity can fail: -1.
WindowsMask == affinity
LinuxMasks == {0..(MaxCpus - 1), UNION {Bit(i) : i \in Looped \cap affinity}}

\* The constructor asks for the mask.
ReadMask ==
    /\ cpu_id = -1
    /\ \E mask \in IF os = "windows" THEN {WindowsMask} ELSE LinuxMasks :
           avail' = mask \cap AllowedCpus
    /\ cpu_id' = 0
    /\ UNCHANGED <<sys_vars, m_schedulers, bound>>

\* Mutant: one Scheduler per CPU, whether it is available or not.
NextCpu_Untested ==
    /\ cpu_id \in 0..(MaxCpus - 1) /\ Len(m_schedulers) < opt.schedulers
    /\ Cardinality(DOMAIN bound) = Len(m_schedulers) * opt.workers
    /\ m_schedulers' = Append(m_schedulers, cpu_id)
    /\ cpu_id' = cpu_id + 1
    /\ UNCHANGED <<sys_vars, avail, bound>>

\* One turn of the constructor's loop; the last Scheduler has all its workers.
NextCpu ==
    /\ cpu_id \in 0..(MaxCpus - 1) /\ Len(m_schedulers) < opt.schedulers
    /\ Cardinality(DOMAIN bound) = Len(m_schedulers) * opt.workers
    /\ m_schedulers' = IF cpu_id \in avail THEN Append(m_schedulers, cpu_id) ELSE m_schedulers
    /\ cpu_id' = cpu_id + 1
    /\ UNCHANGED <<sys_vars, avail, bound>>

\* The CPUs os::bind_thread(CPU::m_mask) asks for.
WindowsSet(cpu) == {cpu} \cap affinity
LinuxSet(cpu) == {i \in Looped : cpu \in Bit(i)} \cap online

\* The CPUs the thread runs on after it.  An error of the system call is not noticed:
\* the thread keeps what it has from its creator.
Bound(cpu) ==
    LET set == IF os = "windows" THEN WindowsSet(cpu) ELSE LinuxSet(cpu)
    IN IF set = {} THEN affinity ELSE set

\* The next thread: the last Scheduler, and the number of its workers so far.
NextThread ==
    LET s == Len(m_schedulers) IN <<s, Cardinality(DOMAIN bound) - (s - 1) * opt.workers>>

BindThread(t, cpu) ==
    bound' = [u \in DOMAIN bound \cup {t} |-> IF u = t THEN Bound(cpu) ELSE bound[u]]

\* Mutant: the threads are bound to the CPU with the scheduler's number.
StartWorker_ByNumber ==
    /\ Cardinality(DOMAIN bound) < Len(m_schedulers) * opt.workers
    /\ BindThread(NextThread, Len(m_schedulers) - 1)
    /\ UNCHANGED <<sys_vars, avail, cpu_id, m_schedulers>>

\* The constructor of Scheduler makes its next worker, whose thread binds itself first.
StartWorker ==
    /\ Cardinality(DOMAIN bound) < Len(m_schedulers) * opt.workers
    /\ BindThread(NextThread, m_schedulers[Len(m_schedulers)])
    /\ UNCHANGED <<sys_vars, avail, cpu_id, m_schedulers>>

StartupNext == ReadMask \/ NextCpu \/ StartWorker

-----------------------------------------------------------------------------
\* What the code relies on: on Linux the CPUs are numbered without a gap, there are no
\* more of them than unsigned int has bits, and sched_getaffinity does not fail.
Supported ==
    os = "linux" => /\ online = Looped
                    /\ Cardinality(online) <= UIntBits
                    /\ cpu_id # -1 => avail = affinity \cap AllowedCpus

\* On such a system start-up makes one Scheduler for each of the first CPUs that are
\* both allowed and in the process' affinity, as many as asked for or as there are
\* (the constructor of Schedulers).
OneSchedulerPerCpu ==
    Supported /\ Started =>
        LET cpus == {m_schedulers[i] : i \in 1..Len(m_schedulers)}
            usable == affinity \cap AllowedCpus
        IN /\ cpus \subseteq usable
           /\ Cardinality(cpus) = Len(m_schedulers)
           /\ Len(m_schedulers) = Option(opt.schedulers, 0, Cardinality(usable))
           /\ \A c \in cpus, d \in usable \ cpus : c < d

\* On such a system every worker runs on its scheduler's CPU only, so schedulers do not
\* disturb each other; on any Linux it never leaves the CPUs that are online (entry_point,
\* os::bind_thread).
ThreadsBound ==
    \A t \in DOMAIN bound :
        /\ bound[t] # {} /\ bound[t] \subseteq online
        /\ Supported => bound[t] = {m_schedulers[t[1]]}
=============================================================================

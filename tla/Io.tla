--------------------------------- MODULE Io ---------------------------------
(***************************************************************************)
(* Files and I/O requests of the workers that Startup starts: io.cpp,      *)
(* read_file and write_file of Worker, and what os_specific.cpp makes of   *)
(* them on Windows and with io_uring on Linux.  Each thread has an         *)
(* io_uring with room for one submission; the request is submitted by the  *)
(* thread itself and looked after by whichever worker of the scheduler     *)
(* runs (schedule_io_workers).  The assertions are invariants here, as a   *)
(* release build leaves them out.                                          *)
(***************************************************************************)
EXTENDS Startup

CONSTANTS
    IoUring,                 \* UMS_IO_URING_ENABLED
    Thread,                  \* bound: the threads (scheduler, worker) that do I/O
    MaxIo                    \* bound: requests in a behaviour

ASSUME IoAssumption ==
    IoUring \in BOOLEAN /\ MaxIo \in Nat /\ Thread \subseteq (Nat \ {0}) \X Nat

VARIABLES
    at,                      \* per thread: where it is
    file,                    \* per thread: it has a File_handle
    m_state, m_id,           \* per thread: its IO_Request
    io_cnt,                  \* IO_handle's counter of requests
    sq,                      \* per thread: an entry of its ring that is not submitted
    inflight,                \* per thread: the kernel works on its buffer
    cq                       \* per thread: completions that were not seen

io_vars == <<at, file, m_state, m_id, io_cnt, sq, inflight, cq>>
vars == <<startup_vars, io_vars>>

Init ==
    /\ StartupInit
    /\ at = [w \in Thread |-> "user"]
    /\ file = [w \in Thread |-> FALSE]
    /\ m_state = [w \in Thread |-> "init"] /\ m_id = [w \in Thread |-> 0] /\ io_cnt = 0
    /\ sq = [w \in Thread |-> FALSE]
    /\ inflight = [w \in Thread |-> FALSE]
    /\ cq = [w \in Thread |-> <<>>]

InTask(w) == Started /\ w \in DOMAIN bound /\ at[w] = "user"

\* File_handle: os::open_file succeeds or throws, without io_uring it always throws.
OpenFile(w) ==
    /\ InTask(w) /\ ~file[w] /\ io_cnt < MaxIo
    /\ os = "windows" \/ IoUring
    /\ file' = [file EXCEPT ![w] = TRUE]
    /\ UNCHANGED <<at, m_state, m_id, io_cnt, sq, inflight, cq>>

\* ~File_handle: the handle is gone, whatever os::close_file makes of it.
CloseFile(w) ==
    /\ InTask(w) /\ file[w]
    /\ file' = [file EXCEPT ![w] = FALSE]
    /\ UNCHANGED <<at, m_state, m_id, io_cnt, sq, inflight, cq>>

\* ReadFile and WriteFile of Windows: done, to be done or failed at once.
Overlapped(w) ==
    /\ os = "windows"
    /\ \E state \in {"completed", "pending", "error"} :
           /\ m_state' = [m_state EXCEPT ![w] = state]
           /\ inflight' = [inflight EXCEPT ![w] = state = "pending"]
    /\ UNCHANGED sq

\* uring_submit: the request is pending whether the kernel takes the entry or not.
UringSubmit(w) ==
    /\ os = "linux"
    /\ \E taken \in BOOLEAN :
           /\ sq' = [sq EXCEPT ![w] = ~taken]
           /\ inflight' = [inflight EXCEPT ![w] = taken]
    /\ m_state' = [m_state EXCEPT ![w] = "pending"]

\* read_file and write_file: the IO_Request with its IO_handle is made and submitted.
Submit(w) ==
    /\ InTask(w) /\ file[w] /\ io_cnt < MaxIo
    /\ m_id' = [m_id EXCEPT ![w] = io_cnt] /\ io_cnt' = io_cnt + 1
    /\ Overlapped(w) \/ UringSubmit(w)
    /\ at' = [at EXCEPT ![w] = "submitted"]
    /\ UNCHANGED <<file, cq>>

\* Mutant: the caller does not wait for a request that is pending.
Sync_Never(w) ==
    /\ at[w] = "submitted"
    /\ at' = [at EXCEPT ![w] = "user"]
    /\ UNCHANGED <<file, m_state, m_id, io_cnt, sq, inflight, cq>>

\* While the request is pending the caller goes to the pending_io queue.
Sync(w) ==
    /\ at[w] = "submitted"
    /\ at' = [at EXCEPT ![w] = IF m_state[w] = "pending" THEN "pending_io" ELSE "user"]
    /\ UNCHANGED <<file, m_state, m_id, io_cnt, sq, inflight, cq>>

\* The kernel has read or written all of the buffer, a part of it, or failed.
KernelDone(w) ==
    /\ inflight[w]
    /\ inflight' = [inflight EXCEPT ![w] = FALSE]
    /\ \E res \in {"all", "some", "failed"} :
           cq' = [cq EXCEPT ![w] = Append(@, [data64 |-> m_id[w], res |-> res])]
    /\ UNCHANGED <<at, file, m_state, m_id, io_cnt, sq>>

\* What update_io_state makes of a result.  Windows does not compare the sizes.
StateOf(res) ==
    IF res = "all" \/ (res = "some" /\ os = "windows") THEN "completed" ELSE "error"

\* Mutant: io_uring_cqe_seen is not called.
Update_NotSeen(w) ==
    /\ at[w] = "pending_io" /\ cq[w] # <<>>
    /\ m_state' = [m_state EXCEPT ![w] = StateOf(Head(cq[w]).res)]
    /\ at' = [at EXCEPT ![w] = "runnable"]
    /\ UNCHANGED <<file, m_id, io_cnt, sq, inflight, cq>>

\* Mutant: only a request without an error leaves the queue.
Update_OnlyCompleted(w) ==
    /\ at[w] = "pending_io" /\ cq[w] # <<>> /\ StateOf(Head(cq[w]).res) = "completed"
    /\ m_state' = [m_state EXCEPT ![w] = "completed"]
    /\ cq' = [cq EXCEPT ![w] = Tail(@)]
    /\ at' = [at EXCEPT ![w] = "runnable"]
    /\ UNCHANGED <<file, m_id, io_cnt, sq, inflight>>

\* schedule_io_workers at one entry of the queue, with IO_Request::update: nothing until
\* there is a completion, then the worker becomes runnable.
Update(w) ==
    /\ at[w] = "pending_io" /\ cq[w] # <<>>
    /\ m_state' = [m_state EXCEPT ![w] = StateOf(Head(cq[w]).res)]
    /\ cq' = [cq EXCEPT ![w] = Tail(@)]
    /\ at' = [at EXCEPT ![w] = "runnable"]
    /\ UNCHANGED <<file, m_id, io_cnt, sq, inflight>>

\* The worker is switched to again (Schedulers) and its read_file or write_file returns.
Resume(w) ==
    /\ at[w] = "runnable"
    /\ at' = [at EXCEPT ![w] = "user"]
    /\ UNCHANGED <<file, m_state, m_id, io_cnt, sq, inflight, cq>>

IoStep(w) == Sync(w) \/ Update(w) \/ Resume(w)

Next ==
    \/ StartupNext /\ UNCHANGED io_vars
    \/ \E w \in Thread :
           /\ OpenFile(w) \/ CloseFile(w) \/ Submit(w) \/ IoStep(w) \/ KernelDone(w)
           /\ UNCHANGED startup_vars

Spec == Init /\ [][Next]_vars

\* Workers run, schedulers look after their I/O, and the kernel ends what it took.
FairSpec ==
    /\ Spec
    /\ \A w \in Thread :
           /\ WF_vars(IoStep(w) /\ UNCHANGED startup_vars)
           /\ WF_vars(KernelDone(w) /\ UNCHANGED startup_vars)

-----------------------------------------------------------------------------
Completion == [data64 : Nat, res : {"all", "some", "failed"}]

\* The types of the variables, at most one completion per ring: it has one entry.
TypeOK ==
    /\ at \in [Thread -> {"user", "submitted", "pending_io", "runnable"}]
    /\ file \in [Thread -> BOOLEAN]
    /\ m_state \in [Thread -> {"init", "error", "pending", "completed"}]
    /\ m_id \in [Thread -> Nat] /\ io_cnt \in Nat
    /\ sq \in [Thread -> BOOLEAN]
    /\ inflight \in [Thread -> BOOLEAN]
    /\ cq \in [Thread -> Seq(Completion)]
    /\ \A w \in Thread : Len(cq[w]) <= 1

\* The assertions of uring_submit and uring_update: a thread that submits has room in its
\* ring, and the completion that is found is the one of the request that is asked about,
\* never one left over from a request before.
AssertsHold ==
    \A w \in Thread :
        /\ at[w] = "user" => ~sq[w]
        /\ at[w] = "pending_io" /\ cq[w] # <<>> => Head(cq[w]).data64 = m_id[w]

\* read_file and write_file return, and a file is closed, only when the kernel is done with
\* the buffer and the file, and no completion is left that a later request could find.
BufferSafe ==
    \A w \in Thread :
        /\ at[w] \in {"user", "runnable"} => ~inflight[w] /\ cq[w] = <<>>
        /\ inflight[w] => file[w]

\* A request the kernel took returns, with an error or without one.  One that the kernel
\* refused stays pending for ever in a release build.
IoReturns ==
    \A w \in Thread : at[w] = "submitted" ~> (at[w] = "user" \/ sq[w])
=============================================================================

SPECIFICATION FairSpec
CONSTANTS
    MaxCpus = 3
    UIntBits = 2
    MaxWorkers = 2
    AllowedCpus = {0, 1, 2}
    Asked = {0, 2, 4}
    IoUring = TRUE
    Thread <- Threads
    MaxIo = 3
CHECK_DEADLOCK FALSE
INVARIANTS TypeOK OneSchedulerPerCpu ThreadsBound AssertsHold BufferSafe
PROPERTY IoReturns

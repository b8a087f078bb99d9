SPECIFICATION FairSpec
CONSTANTS
  Worker = {a, b, c}
  NoWorker = NoWorker
  Cv = {"m_cv"}
  Mtx = {"m_mtx"}
  MtxOf <- OneMutex
  MaxRec = 3
  MaxCalls = 5
INVARIANTS
  TypeOK
  NoLostNotify
PROPERTIES
  ImplementsLock
  CallsReturn

SPECIFICATION FairSpec
CONSTANTS
  a = a
  b = b
  c = c
  Worker = {a, b, c}
  NoWorker = NoWorker
  Scheduler = {1, 2}
  Queues <- TwoSchedulers
  MaxTry = 2
  MaxRec = 3
INVARIANTS
  TypeOK
  MutualExclusion
  OwnerKnown
PROPERTIES
  ImplementsLock
  LockProgress

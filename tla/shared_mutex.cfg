SPECIFICATION Spec
CONSTANTS
  Worker = {a, b, c}
  NoWorker = NoWorker
  Cv = {"gate1", "gate2"}
  Mtx = {"m_mtx"}
  MtxOf <- OneMutex
  ReadersBits = 2
  MaxCalls = 2
SYMMETRY Symmetry
INVARIANTS
  TypeOK
  StateMatches
  NoLostNotify
PROPERTIES
  WriterFirst
  ImplementsSharedLock

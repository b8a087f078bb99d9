SPECIFICATION Spec
CONSTANTS
  t0 = t0
  t1 = t1
  t2 = t2
  MainTask = t0
  NoTask = NoTask
  NoWorker = NoWorker
  WorkStealing = TRUE
  N = 2
  K = 2
  Task = {t0, t1, t2}
  UserOps = {"wait"}
  MaxOps = 0
  IdleSpinning = FALSE
INVARIANTS
  ExitOnlyWhenDone
  NoWorkAtExit
  TaskInOnePlace
PROPERTIES
  NoTaskRunsTwice

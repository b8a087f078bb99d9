SPECIFICATION FairSpec
CONSTANTS
  t0 = t0
  t1 = t1
  t2 = t2
  MainTask = t0
  NoTask = NoTask
  NoWorker = NoWorker
  WorkStealing = TRUE
  N = 2
  K = 1
  Task = {t0, t1, t2}
  UserOps = {"wait"}
  MaxOps = 0
  IdleSpinning = FALSE
PROPERTIES
  NoTaskStranded

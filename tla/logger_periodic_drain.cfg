SPECIFICATION Spec
CONSTANTS
  Producers = {p1}
  Controllers = {k1}
  Worker = w
  Nobody = nobody
  Configs <- PeriodicConfigs
  Levels = {0}
  SizeMax = 3
  MaxCalls = 1
  MaxInits = 1
  WorkerMayFail = FALSE
  InitMayFail = FALSE
INVARIANTS
  DrainedAtExit

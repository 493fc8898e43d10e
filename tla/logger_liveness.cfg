SPECIFICATION FairSpec
CONSTANTS
  Producers = {p1}
  Controllers = {k1}
  Worker = w
  Nobody = nobody
  Configs <- PeriodicConfigs
  Levels = {0}
  SizeMax = 3
  MaxCalls = 3
  MaxInits = 1
  WorkerMayFail = TRUE
  InitMayFail = FALSE
PROPERTIES
  LifecycleCallsReturn
  LogReturns
  PeriodicFlush

SPECIFICATION FairSpec
CONSTANTS
  Producers = {p1, p2}
  Controllers = {k1}
  Worker = w
  Nobody = nobody
  Configs <- PromiseConfigs
  Levels = {0}
  SizeMax = 3
  MaxCalls = 1
  MaxInits = 2
  WorkerMayFail = TRUE
  InitMayFail = FALSE
INVARIANTS
  LifecycleIsolation
  Conservation
PROPERTIES
  ImplementsAsyncLog

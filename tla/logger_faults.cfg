SPECIFICATION Spec
CONSTANTS
  Producers = {p1, p2}
  Controllers = {k1}
  Worker = w
  Nobody = nobody
  Configs <- FaultConfigs
  Levels = {0, 1}
  SizeMax = 3
  MaxCalls = 1
  MaxInits = 2
  WorkerMayFail = TRUE
  InitMayFail = TRUE
SYMMETRY Symmetry
INVARIANTS
  TypeOK
  RunningMeansServed
  FanOutInOrder
  FlushedAtExit
  FlushedBeforeSleep
PROPERTIES
  UsesSinksProperly
  ResetFindsNoWorker

SPECIFICATION ExampleSpec
CONSTANTS
  Producers = {main_thread, t1, t2}
  Controllers = {control}
  Worker = w
  Nobody = nobody
  Main = main_thread
  Messages = 2
  Configs <- ExampleConfigs
  Levels = {0, 1, 2, 3, 4}
  SizeMax = 3
  MaxCalls = 5
  MaxInits = 1
  WorkerMayFail = FALSE
  InitMayFail = TRUE
INVARIANTS
  LinesInProgramOrder
  EndsComplete

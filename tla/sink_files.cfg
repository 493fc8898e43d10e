SPECIFICATION FairSpec
CONSTANTS
  Sizes = {1, 3}
  MaxFileSize = 2
  Width = 8
  MaxBatch = 2
  MaxRecords = 3
  MaxIndex = 5
  MaxDate = 1
  MaxLives = 2
  MayFail = TRUE
  ClockGoesBack = TRUE
INVARIANTS
  TypeOK
  SizeBound
  SizeTracked
PROPERTIES
  WriteBatchReturns
  ImplementsLogSink
CHECK_DEADLOCK FALSE

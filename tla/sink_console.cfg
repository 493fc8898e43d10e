SPECIFICATION Spec
CONSTANTS
  MaxRecords = 3
  MaxLives = 2
INVARIANTS
  ShownOnce
PROPERTIES
  ImplementsLogSink

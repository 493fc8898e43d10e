SPECIFICATION Spec
CONSTANTS
  PerMs = 3
  Limit = 128
  Intervals = {0, 1, 2, 3, 40, 127}
  MaxTime = 20
INVARIANTS
  FlushNotEarly
  NoOversleep
CHECK_DEADLOCK FALSE

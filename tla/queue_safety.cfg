SPECIFICATION Spec
CONSTANTS
  Producers = {p1, p2}
  Consumers = {c1, c2}
  Controllers = {k1}
  Values = {v1}
  Capacities = {0, 2}
  SizeMax = 2
  MaxBatch = 2
  MaxGeneration = 1
  MaxDropped = 1
SYMMETRY Symmetry
INVARIANTS
  TypeOK
  CapacityBound
  GenerationIsolation
  NoMissedClose
  NoLostWakeup

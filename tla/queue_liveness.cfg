SPECIFICATION FairSpec
CONSTANTS
  Producers = {p1, p2}
  Consumers = {c1}
  Controllers = {k1}
  Values = {v1}
  Capacities = {2}
  SizeMax = 2
  MaxBatch = 2
  MaxGeneration = 1
  MaxDropped = 1
PROPERTIES
  CloseReleasesProducers
  BlockedProducerServed
  BlockedConsumerServed

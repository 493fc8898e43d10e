------------------------------- MODULE MCLogger -------------------------------
(* Small instances of Logger for TLC. *)
EXTENDS Logger, TLC

Config(capacityOf, policy, size, flush, above, sinkCount) ==
  [queueCapacity |-> capacityOf, overflowPolicy |-> policy,
   writeBatchSize |-> size, minLevel |-> 0, flushPolicy |-> flush,
   flushAtOrAbove |-> above, sinks |-> sinkCount, wellFormed |-> TRUE]

(* flushAtOrAbove above every level: std::nullopt *)
Never == 9

(* Faults and flushing: two sinks, a level that flushes at once *)
FaultConfigs ==
  {Config(2, "Block", 2, "Periodic", 1, 2),
   Config(1, "Block", 1, "EveryBatch", Never, 2)}

PeriodicConfigs == {Config(1, "Block", 1, "Periodic", Never, 1)}

(* The contract of the log: every overflow policy, no timer (see           *)
(* logger_periodic_drain), records in flight and in the queue, and a       *)
(* configuration that init() refuses                                       *)
PromiseConfigs ==
  {Config(1, "Block", 2, "OnStop", Never, 1),
   Config(1, "DropNewest", 1, "EveryBatch", Never, 1),
   Config(1, "DropOldest", 1, "OnStop", Never, 1),
   [Config(1, "Block", 1, "OnStop", Never, 1) EXCEPT !.wellFormed = FALSE]}

Symmetry == Permutations(Producers) \cup Permutations(Controllers)
================================================================================

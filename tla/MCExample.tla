-------------------------------- MODULE MCExample --------------------------------
(* A small instance of Example: the settings of examples/example.cpp. *)
EXTENDS Example

ExampleConfigs ==
  {[queueCapacity |-> 1, overflowPolicy |-> "Block", writeBatchSize |-> 2,
    minLevel |-> 0, flushPolicy |-> "Periodic", flushAtOrAbove |-> 3,
    sinks |-> 1, wellFormed |-> TRUE]}
================================================================================

---------------------------- MODULE MCBlockingQueue ----------------------------
(* Small instances of BlockingQueue for TLC. *)
EXTENDS BlockingQueue, TLC

(* Threads of one kind run the same code. *)
Symmetry == Permutations(Producers) \cup Permutations(Consumers)
================================================================================

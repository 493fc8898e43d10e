---------------------------- MODULE MCProducerGroup ----------------------------
(* Small instances of ProducerGroup for TLC. *)
EXTENDS ProducerGroup, TLC

(* Threads of the group run the same code. *)
Symmetry == Permutations(Workers)
================================================================================

------------------------------ MODULE MCFormatter ------------------------------
(* A small instance of Formatter for TLC. *)
EXTENDS Formatter

(* Hash values that are not the ids themselves, one for each thread *)
Hashes ==
  CHOOSE hash \in [Callers -> {11, 12}] :
    \A a, b \in Callers : a # b => hash[a] # hash[b]
================================================================================

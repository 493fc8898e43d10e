-------------------------------- MODULE LogSink --------------------------------
(***************************************************************************)
(* The interface of include/LogSink.h: what a sink owes the Logger, and    *)
(* how the Logger may use it.  FileSinkContract and ConsoleSink show the   *)
(* first of the two sinks of src/LogSink.cpp, LoggerContract the second of *)
(* the worker and the lifecycle calls.                                     *)
(*                                                                         *)
(* Records are numbered in the order given.  output is what has left the   *)
(* process, in the order in which a reader finds it.                       *)
(***************************************************************************)
EXTENDS Naturals, Sequences

VARIABLES
  phase,   (* "none": no sink, or a closed one; "failed": this sink, or    *)
           (* one of those it is used with, has thrown                     *)
  given,   (* how many records writeBatch() was called with                *)
  output,  (* the records that are outside the process                     *)
  safe     (* how many of them were there when flush() returned            *)

vars == <<phase, given, output, safe>>

UpTo(k) == [i \in 1..k |-> i]

(* Output is never taken back, and goes on where it stopped.               *)
Extends(k) == k >= Len(output) /\ k <= given /\ output' = UpTo(k)

Create ==
  /\ phase = "none" /\ phase' = "open"
  /\ given' = 0 /\ output' = <<>> /\ safe' = 0

WriteBatch ==
  /\ phase = "open" /\ phase' \in {"open", "failed"}
  /\ given' >= given
  /\ UNCHANGED <<safe, output>>

Flush ==
  /\ phase # "none" /\ phase' \in {phase, "failed"}
  /\ safe' = given
  /\ UNCHANGED given
  /\ Extends(given)

(* flush() throws, or writeBatch() at some later record *)
Fail ==
  /\ phase # "none" /\ phase' = "failed"
  /\ UNCHANGED <<given, safe>>
  /\ \E k \in 0..given : Extends(k)

(* close(), noexcept, and the end of the process *)
Close ==
  /\ phase # "none" /\ phase' = "none"
  /\ UNCHANGED <<given, safe>>
  /\ \E k \in 0..given : Extends(k)

(* Buffers empty themselves when they are full.                            *)
Save ==
  /\ UNCHANGED <<phase, given, safe>>
  /\ \E k \in 0..given : Extends(k)

(* The last reference to a closed sink is dropped. *)
Destroy ==
  /\ phase = "none" /\ phase' = "none"
  /\ given' = 0 /\ output' = <<>> /\ safe' = 0

Init == phase = "none" /\ given = 0 /\ output = <<>> /\ safe = 0

Next ==
  Create \/ WriteBatch \/ Flush \/ Fail \/ Close \/ Save \/ Destroy

Spec == Init /\ [][Next]_vars
================================================================================

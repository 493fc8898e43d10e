------------------------------ MODULE ConsoleSink ------------------------------
(***************************************************************************)
(* The console sink of src/LogSink.cpp.  The stream it writes to, cout or  *)
(* cerr, belongs to the process: its buffer and its error state outlive    *)
(* the sink, and the application uses the stream too (its own text is left *)
(* out).                                                                   *)
(***************************************************************************)
EXTENDS Naturals, Sequences

CONSTANTS
  MaxRecords,  (* bound: records given to one sink                         *)
  MaxLives     (* bound: sinks created one after the other                 *)

ASSUME ConsoleAssumption == MaxRecords \in Nat /\ MaxLives \in Nat

VARIABLES
  phase,       (* of the present sink, as in LogSink                       *)
  pending,     (* pending_                                                 *)
  buffer,      (* what the stream was given and still holds                *)
  bad,         (* the stream is in an error state                          *)
  terminal,    (* what has reached the console                             *)
  given, lives, safe  (* history, as in FileSink                           *)

vars == <<phase, pending, buffer, bad, terminal, given, lives, safe>>

Create_KeepsPending ==
  /\ phase = "none" /\ lives < MaxLives
  /\ lives' = lives + 1
  /\ phase' = "open" /\ given' = 0 /\ safe' = 0
  /\ UNCHANGED <<pending, buffer, bad, terminal>>

Create ==
  /\ phase = "none" /\ lives < MaxLives
  /\ lives' = lives + 1
  /\ phase' = "open" /\ pending' = <<>> /\ given' = 0 /\ safe' = 0
  /\ UNCHANGED <<buffer, bad, terminal>>

Failed_GoesOn == "open"
Failed == "failed"

(* A stream in an error state takes nothing, one that fails now a part.    *)
WriteBatch(n) ==
  /\ phase = "open" /\ given + n <= MaxRecords
  /\ given' = given + n
  /\ LET text == pending \o [i \in 1..n |-> [life |-> lives, number |-> given + i]]
     IN \/ /\ ~bad
           /\ buffer' = buffer \o text
           /\ pending' = <<>>
           /\ UNCHANGED <<phase, bad>>
        \/ /\ \E k \in 0..Len(text) :
                /\ bad => k = 0
                /\ buffer' = buffer \o SubSeq(text, 1, k)
           /\ pending' = text
           /\ bad' = TRUE
           /\ phase' = Failed
  /\ UNCHANGED <<terminal, lives, safe>>

Flush ==
  /\ phase # "none"
  /\ \/ /\ ~bad
        /\ terminal' = terminal \o buffer
        /\ buffer' = <<>>
        /\ safe' = IF phase = "open" THEN given ELSE safe
        /\ UNCHANGED <<phase, bad>>
     \/ /\ bad' = TRUE
        /\ phase' = Failed
        /\ UNCHANGED <<terminal, buffer, safe>>
  /\ UNCHANGED <<pending, given, lives>>

(* The stream stays open, and an error of its flush() is not looked at.    *)
Close ==
  /\ phase # "none" /\ phase' = "none"
  /\ \/ ~bad /\ terminal' = terminal \o buffer /\ buffer' = <<>> /\ bad' = bad
     \/ bad' = TRUE /\ UNCHANGED <<terminal, buffer>>
  /\ UNCHANGED <<pending, given, lives, safe>>

--------------------------------------------------------------------------------
(* The C++ library, the application and the process *)

(* The buffer is written in part, also in an error state or at exit.       *)
Spill ==
  /\ buffer # <<>>
  /\ terminal' = Append(terminal, Head(buffer))
  /\ buffer' = Tail(buffer)
  /\ UNCHANGED <<phase, pending, bad, given, lives, safe>>

(* The application's own output fails, or it calls clear().                *)
Application ==
  /\ bad' = ~bad
  /\ UNCHANGED <<phase, pending, buffer, terminal, given, lives, safe>>

(* The process dies; another one may start. *)
Crash ==
  /\ phase' = "none" /\ pending' = <<>> /\ buffer' = <<>> /\ bad' = FALSE
  /\ UNCHANGED <<terminal, given, lives, safe>>

Init ==
  /\ phase = "none" /\ pending = <<>> /\ buffer = <<>> /\ bad = FALSE
  /\ terminal = <<>> /\ given = 0 /\ lives = 0 /\ safe = 0

Next ==
  \/ Create \/ Flush \/ Close \/ \E n \in 1..MaxRecords : WriteBatch(n)
  \/ Spill \/ Application \/ Crash

Spec == Init /\ [][Next]_vars

--------------------------------------------------------------------------------
(* In s the records of a sink are those below the last one of another.     *)
Start(s, life) ==
  CHOOSE n \in 0..Len(s) :
    /\ n = 0 \/ s[n].life # life
    /\ \A i \in n + 1..Len(s) : s[i].life = life

Numbers(s, life) ==
  [i \in 1..Len(s) - Start(s, life) |-> s[Start(s, life) + i].number]

Output == Numbers(terminal, lives)

Sink == INSTANCE LogSink WITH output <- Output

(* LogSink.h: the console shows an initial part of what the sink was       *)
(* given, in order and nothing twice, and all of it once flush() returned, *)
(* whatever the application did to the stream in between.                  *)
ImplementsLogSink == Sink!Spec

(* Whatever a closed sink has left in the stream or in pending_, no record *)
(* is shown twice, and none after a record of a later sink.                *)
ShownOnce ==
  \A i, j \in DOMAIN terminal :
    i < j => \/ terminal[i].life < terminal[j].life
             \/ /\ terminal[i].life = terminal[j].life
                /\ terminal[i].number < terminal[j].number
================================================================================

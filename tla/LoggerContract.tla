----------------------------- MODULE LoggerContract -----------------------------
(* What Logger promises the application and how it uses its sinks.         *)
EXTENDS MCLogger

--------------------------------------------------------------------------------
(* As a log: what the worker holds and what is queued is pending, and what *)
(* the first sink got is delivered.                                        *)

LogState ==
  IF worker \in {"none", "exited"} /\ (closed \/ generation = 0) THEN "off"
  ELSE IF fault # "none" THEN "broken"
  ELSE IF closed THEN "closing" ELSE "open"

Log_ == INSTANCE AsyncLog WITH
          state <- LogState,
          pending <- InFlight \o queue,
          delivered <- IF written = <<>> THEN <<>> ELSE written[1]

(* README_EN.md: an accepted record is delivered once, in the order of     *)
(* acceptance, and in the end it is, even if nobody calls stop(); stop()   *)
(* drains what was accepted; only a sink that throws makes an exception.   *)
ImplementsAsyncLog == Log_!Spec

--------------------------------------------------------------------------------
(* As the user of its i-th sink *)

Sink(i) == INSTANCE LogSink WITH
  phase <- IF ~sinksOpen \/ i \notin DOMAIN written THEN "none"
           ELSE IF fault = "none" THEN "open" ELSE "failed",
  given <- IF i \in DOMAIN written THEN Len(written[i]) ELSE 0,
  output <- IF i \in DOMAIN written THEN [j \in 1..flushed[i] |-> j] ELSE <<>>,
  safe <- IF i \in DOMAIN written THEN flushed[i] ELSE 0

(* LogSink.h: a sink is written to and flushed only between its creation   *)
(* and close(), and not written to once it or another sink has thrown,     *)
(* when its pending_ may hold records that are also in the file.           *)
UsesSinksProperly ==
  /\ Sink(1)!Init /\ Sink(2)!Init
  /\ [][Sink(1)!Next]_(Sink(1)!vars) /\ [][Sink(2)!Next]_(Sink(2)!vars)
================================================================================

------------------------------- MODULE FlushTimer -------------------------------
(***************************************************************************)
(* The time in workerLoop() under FlushPolicy::Periodic: Logger knows only *)
(* whether nextFlush has come, here it is computed.  steady_clock counts   *)
(* ticks in a signed integer, flushInterval_ is in milliseconds, and the   *)
(* clock goes on between any two steps.  Overflow wraps around, as in the  *)
(* code compilers make of 64-bit ticks; Limit stands for 2^63.             *)
(***************************************************************************)
EXTENDS Integers

CONSTANTS
  PerMs,      (* ticks in a millisecond                                    *)
  Limit,      (* counts of ticks are from -Limit to Limit - 1              *)
  Intervals,  (* values of LoggerConfig::flushInterval tried               *)
  MaxTime     (* bound: ticks until the run ends                           *)

ASSUME TimerAssumption ==
  /\ PerMs \in Nat \ {0} /\ Limit \in Nat \ {0} /\ MaxTime \in Nat
  /\ MaxTime < Limit /\ Intervals \subseteq Int

VARIABLES
  now,        (* steady_clock::now()                                       *)
  interval,   (* flushInterval_                                            *)
  nextFlush,  (* the local of workerLoop()                                 *)
  timeout,    (* the argument of popBatchFor(), in milliseconds            *)
  deadline,   (* until when popBatchFor() waits                            *)
  state,      (* where the worker is                                       *)
  lastFlush,  (* history: when the worker started or last ended a flush    *)
  asked       (* history: when it computed timeout                         *)

vars == <<now, interval, nextFlush, timeout, deadline, state, lastFlush, asked>>

Wrap(n) == ((n + Limit) % (2 * Limit)) - Limit

Valid(cfInterval) == cfInterval > 0

(* now() + flushInterval_ *)
FlushTime == Wrap(now + interval * PerMs)

WorkerStart ==
  /\ state = "starting" /\ state' = "loop"
  /\ nextFlush' = FlushTime
  /\ lastFlush' = now
  /\ UNCHANGED <<now, interval, timeout, deadline, asked>>

(* duration_cast rounds down: under a millisecond before nextFlush the     *)
(* worker does not sleep at all.                                           *)
Remaining_RoundsUp ==
  IF now >= nextFlush THEN 0 ELSE (Wrap(nextFlush - now) + PerMs - 1) \div PerMs
Remaining == IF now >= nextFlush THEN 0 ELSE Wrap(nextFlush - now) \div PerMs

ComputeTimeout ==
  /\ state = "loop" /\ state' = "calling"
  /\ timeout' = Remaining
  /\ asked' = now
  /\ UNCHANGED <<now, interval, nextFlush, deadline, lastFlush>>

(* wait_for(): now() + timeout, a sum that may overflow like the other     *)
PopBatchFor ==
  /\ state = "calling" /\ state' = "waiting"
  /\ deadline' = Wrap(now + timeout * PerMs)
  /\ UNCHANGED <<now, interval, nextFlush, timeout, lastFlush, asked>>

(* Records came, or the wait has timed out.                                *)
Woken ==
  /\ state = "waiting"
  /\ state' = "writing" \/ (now >= deadline /\ state' = "empty")
  /\ UNCHANGED <<now, interval, nextFlush, timeout, deadline, lastFlush, asked>>

Due_Always == TRUE
Due == now >= nextFlush

(* The decision after a batch, where a level may ask for a flush too, and  *)
(* the one after a wait without records                                    *)
Decide ==
  /\ \/ state = "writing" /\ ~Due /\ state' \in {"flushing", "loop"}
     \/ state = "writing" /\ Due /\ state' = "timerFlushing"
     \/ state = "empty" /\ state' = IF Due THEN "timerFlushing" ELSE "loop"
  /\ UNCHANGED <<now, interval, nextFlush, timeout, deadline, lastFlush, asked>>

FlushEnds ==
  /\ state \in {"flushing", "timerFlushing"} /\ state' = "loop"
  /\ nextFlush' = FlushTime
  /\ lastFlush' = now
  /\ UNCHANGED <<now, interval, timeout, deadline, asked>>

Clock ==
  /\ now < MaxTime /\ now' = now + 1
  /\ UNCHANGED <<interval, nextFlush, timeout, deadline, state, lastFlush, asked>>

(* init() has taken the configuration; an invalid interval starts nothing. *)
Init ==
  /\ now = 0
  /\ interval \in {i \in Intervals : Valid(i)}
  /\ nextFlush = 0 /\ timeout = 0 /\ deadline = 0 /\ state = "starting"
  /\ lastFlush = 0 /\ asked = 0

Next ==
  \/ WorkerStart \/ ComputeTimeout \/ PopBatchFor \/ Woken \/ Decide
  \/ FlushEnds \/ Clock

Spec == Init /\ [][Next]_vars

--------------------------------------------------------------------------------
(* README_EN.md, Periodic: "flushes at `flushInterval`".  The timer never  *)
(* makes the worker flush sooner than that after a flush, which would cost *)
(* what the policy is there to save.  The code promises it only while the  *)
(* clock can count to the end of the interval: where the sum overflows,    *)
(* nextFlush may be in the past, and the worker flushes in every round.    *)
Fits == lastFlush + interval * PerMs < Limit

FlushNotEarly ==
  state = "timerFlushing" /\ Fits => now - lastFlush >= interval * PerMs

(* The worker never sleeps past the moment when the flush is due, but for  *)
(* what passes between its reading of the clock and the start of the wait; *)
(* that holds for an interval that overflows too.                          *)
NoOversleep ==
  state = "waiting" /\ timeout > 0 =>
    deadline - (lastFlush + interval * PerMs) <= now - asked
================================================================================

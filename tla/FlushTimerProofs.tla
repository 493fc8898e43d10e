---------------------------- MODULE FlushTimerProofs ----------------------------
(***************************************************************************)
(* Proofs about FlushTimer for any resolution and range of the clock, any  *)
(* interval and any running time that the clock can count.                 *)
(***************************************************************************)
EXTENDS FlushTimer, TLAPS

--------------------------------------------------------------------------------
(* Arithmetic *)

(* A count that is in range is what it is.                                 *)
LEMMA WrapExact == ASSUME NEW n \in -Limit .. Limit - 1 PROVE Wrap(n) = n
BY TimerAssumption DEF Wrap

(* What a count becomes is in range.                                       *)
LEMMA WrapRange == ASSUME NEW n \in Int PROVE Wrap(n) \in -Limit .. Limit - 1
BY TimerAssumption DEF Wrap

(* No count becomes larger, unless it was below the range.                 *)
LEMMA WrapBelow == ASSUME NEW n \in Int, n >= -Limit PROVE Wrap(n) <= n
BY TimerAssumption DEF Wrap

(* duration_cast to milliseconds does not make a duration longer.          *)
LEMMA CastBelow ==
  ASSUME NEW n \in Nat
  PROVE  n \div PerMs \in Nat /\ (n \div PerMs) * PerMs <= n
BY TimerAssumption

--------------------------------------------------------------------------------
(* The flush interval in ticks, exact *)
Ticks == interval * PerMs

(* nextFlush is the interval after the last flush, wrapped around; the     *)
(* timeout that the worker is about to use ends no later than the interval *)
(* when counted from the reading of the clock it was computed from.        *)
TimerInv ==
  /\ now \in 0..MaxTime /\ interval \in Nat /\ nextFlush \in Int
  /\ timeout \in Nat /\ deadline \in Int /\ asked \in 0..now /\ lastFlush \in 0..now
  /\ state \in {"starting", "loop", "calling", "waiting", "writing", "empty",
                "flushing", "timerFlushing"}
  /\ state # "starting" => nextFlush = Wrap(lastFlush + Ticks)
  /\ state = "timerFlushing" => now >= nextFlush
  /\ state = "calling" /\ timeout > 0 =>
       asked + timeout * PerMs <= lastFlush + Ticks
  /\ state = "waiting" /\ timeout > 0 =>
       deadline - (lastFlush + Ticks) <= now - asked

(* init() refuses an interval that is not positive.                        *)
LEMMA InitTimer == Init => TimerInv
BY TimerAssumption DEF Init, Valid, TimerInv

(* A flush sets the timer anew.                                            *)
LEMMA FlushSetsTimer ==
  ASSUME TimerInv, nextFlush' = FlushTime, lastFlush' = now, state' = "loop",
         UNCHANGED <<now, interval, timeout, deadline, asked>>
  PROVE  TimerInv'
<1>1. Ticks \in Nat /\ Ticks' = Ticks
  BY TimerAssumption DEF TimerInv, Ticks
<1>2. now \in Nat /\ now + Ticks \in Int
  BY <1>1, TimerAssumption DEF TimerInv
<1>3. nextFlush' = Wrap(now + Ticks) /\ nextFlush' \in Int
  BY <1>2, WrapRange, TimerAssumption DEF FlushTime, Ticks
<1> QED
  BY <1>1, <1>2, <1>3 DEF TimerInv, Wrap

(* The timeout is computed from the time to nextFlush, which is no later   *)
(* than the interval after the last flush, also when the sum overflows.    *)
LEMMA TimeoutFits ==
  ASSUME TimerInv, ComputeTimeout
  PROVE  TimerInv'
<1>1. /\ state = "loop" /\ state' = "calling" /\ asked' = now /\ timeout' = Remaining
      /\ UNCHANGED <<now, interval, nextFlush, deadline, lastFlush>>
  BY DEF ComputeTimeout
<1>2. Ticks \in Nat /\ Ticks' = Ticks
  BY <1>1, TimerAssumption DEF TimerInv, Ticks
<1>3. nextFlush \in -Limit .. Limit - 1 /\ nextFlush <= lastFlush + Ticks
  <2>1. lastFlush + Ticks \in Int /\ lastFlush + Ticks >= -Limit
    BY <1>2, TimerAssumption DEF TimerInv
  <2>2. nextFlush = Wrap(lastFlush + Ticks)
    BY <1>1 DEF TimerInv
  <2> QED
    BY <2>1, <2>2, WrapRange, WrapBelow
<1>4. timeout' \in Nat /\ (timeout' > 0 => now + timeout' * PerMs <= nextFlush)
  <2>1. CASE now >= nextFlush
    BY <1>1, <2>1 DEF Remaining
  <2>2. CASE ~(now >= nextFlush)
    <3>1. /\ nextFlush - now \in -Limit .. Limit - 1 /\ nextFlush - now \in Nat
          /\ now \in Nat
      BY <1>3, <2>2, TimerAssumption DEF TimerInv
    <3>2. Wrap(nextFlush - now) = nextFlush - now
      BY <3>1, WrapExact
    <3>3. timeout' = (nextFlush - now) \div PerMs
      BY <1>1, <2>2, <3>2 DEF Remaining
    <3>4. timeout' \in Nat /\ timeout' * PerMs <= nextFlush - now
      BY <3>1, <3>3, CastBelow
    <3>5. timeout' * PerMs \in Int
      BY <3>4, TimerAssumption
    <3> QED
      BY <1>3, <3>1, <3>4, <3>5
  <2> QED
    BY <2>1, <2>2
<1>5. timeout' > 0 => asked' + timeout' * PerMs <= lastFlush' + Ticks'
  <2>1. timeout' * PerMs \in Int /\ now \in Int /\ lastFlush \in Int
    BY <1>4, TimerAssumption DEF TimerInv
  <2> QED
    BY <1>1, <1>2, <1>3, <1>4, <2>1
<1> QED
  BY <1>1, <1>2, <1>4, <1>5 DEF TimerInv, Wrap

(* Every step keeps the invariant.                                         *)
LEMMA NextTimer == TimerInv /\ [Next]_vars => TimerInv'
<1> SUFFICES ASSUME TimerInv, [Next]_vars PROVE TimerInv'
  OBVIOUS
<1>1. Ticks \in Nat /\ PerMs \in Nat \ {0}
  BY TimerAssumption DEF TimerInv, Ticks
<1>2. CASE WorkerStart \/ FlushEnds
  BY <1>2, FlushSetsTimer DEF WorkerStart, FlushEnds
<1>3. CASE ComputeTimeout
  BY <1>3, TimeoutFits
<1>4. CASE PopBatchFor
  <2>1. /\ state = "calling" /\ state' = "waiting"
        /\ deadline' = Wrap(now + timeout * PerMs)
        /\ UNCHANGED <<now, interval, nextFlush, timeout, lastFlush, asked, Ticks>>
    BY <1>4 DEF PopBatchFor, Ticks
  <2>2. timeout * PerMs \in Nat /\ now \in Nat
    BY <1>1, TimerAssumption DEF TimerInv
  <2>3. deadline' \in Int /\ deadline' <= now + timeout * PerMs
    <3> DEFINE sum == now + timeout * PerMs
    <3>1. sum \in Int /\ sum >= -Limit
      BY <2>2, TimerAssumption
    <3>2. deadline' = Wrap(sum)
      BY <2>1
    <3> HIDE DEF sum
    <3>3. deadline' \in Int /\ deadline' <= sum
      BY <3>1, <3>2, WrapRange, WrapBelow, TimerAssumption
    <3> QED
      BY <3>3 DEF sum
  <2>4. timeout > 0 => deadline' - (lastFlush + Ticks) <= now - asked
    BY <1>1, <2>1, <2>2, <2>3 DEF TimerInv
  <2> QED
    BY <2>1, <2>3, <2>4 DEF TimerInv, Wrap
<1>5. CASE Woken \/ Decide
  <2>1. /\ state \in {"waiting", "writing", "empty"}
        /\ state' \in {"writing", "empty", "flushing", "loop", "timerFlushing"}
        /\ state' = "timerFlushing" => now >= nextFlush
        /\ UNCHANGED <<now, interval, nextFlush, timeout, deadline, lastFlush, asked, Ticks>>
    BY <1>5 DEF Woken, Decide, Due, Ticks
  <2> QED
    BY <2>1 DEF TimerInv, Wrap
<1>6. CASE Clock
  <2>1. /\ now < MaxTime /\ now' = now + 1
        /\ UNCHANGED <<interval, nextFlush, timeout, deadline, state, lastFlush, asked, Ticks>>
    BY <1>6 DEF Clock, Ticks
  <2>2. now' \in 0..MaxTime /\ asked \in 0..now' /\ lastFlush \in 0..now'
    BY <2>1, TimerAssumption DEF TimerInv
  <2>3. state = "timerFlushing" => now' >= nextFlush
    BY <2>1 DEF TimerInv
  <2>4. state = "waiting" /\ timeout > 0 => deadline - (lastFlush + Ticks) <= now' - asked
    BY <1>1, <2>1 DEF TimerInv
  <2> QED
    BY <2>1, <2>2, <2>3, <2>4 DEF TimerInv, Wrap
<1>7. CASE UNCHANGED vars
  <2>1. UNCHANGED <<now, interval, nextFlush, timeout, deadline, state, lastFlush, asked, Ticks>>
    BY <1>7 DEF vars, Ticks
  <2> QED
    BY <2>1 DEF TimerInv, Wrap
<1> QED
  BY <1>2, <1>3, <1>4, <1>5, <1>6, <1>7 DEF Next

(* TimerInv holds in every reachable state.                                *)
LEMMA TimerCorrect == Spec => []TimerInv
BY InitTimer, NextTimer, PTL DEF Spec

--------------------------------------------------------------------------------
(* The timer never makes the worker flush before the interval is over, if  *)
(* the clock can count to its end.  (If not, nextFlush may be in the past, *)
(* and the worker does flush early.)                                       *)
THEOREM NotEarlyCorrect == Spec => []FlushNotEarly
<1>1. TimerInv => FlushNotEarly
  <2> SUFFICES ASSUME TimerInv, state = "timerFlushing", Fits
               PROVE  now - lastFlush >= Ticks
    BY DEF FlushNotEarly, Ticks
  <2>1. Ticks \in Nat /\ lastFlush \in 0..MaxTime /\ lastFlush + Ticks < Limit
    BY TimerAssumption DEF TimerInv, Ticks, Fits
  <2>2. lastFlush + Ticks \in -Limit .. Limit - 1
    BY <2>1, TimerAssumption
  <2>3. nextFlush = lastFlush + Ticks
    BY <2>2, WrapExact DEF TimerInv
  <2> QED
    BY <2>1, <2>3 DEF TimerInv
<1> QED
  BY <1>1, TimerCorrect, PTL

(* The worker never sleeps past the end of the interval but for what the   *)
(* start of the wait was late, for every interval, overflowing or not.     *)
THEOREM OversleepCorrect == Spec => []NoOversleep
<1>1. TimerInv => NoOversleep
  BY DEF TimerInv, NoOversleep, Ticks
<1> QED
  BY <1>1, TimerCorrect, PTL
================================================================================

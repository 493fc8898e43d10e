------------------------------ MODULE ExampleProofs ------------------------------
(***************************************************************************)
(* Proofs about the example program, for any number of threads, messages,  *)
(* initializations and sinks: it is a program that uses Logger, so what    *)
(* LoggerProofs shows holds in it, and what its lines tell follows from    *)
(* where main() and the threads are.                                       *)
(***************************************************************************)
EXTENDS Example, LoggerProofs, FiniteSetTheorems, FunctionTheorems

--------------------------------------------------------------------------------
(* The program as a user of Logger                                         *)

(* main() is the only controller.                                          *)
LEMMA ControlAlone == Controllers = {Control} /\ Main \in Producers
<1>1. PICK k : Controllers = {k}
  BY ExampleAssumption, LoggerAssumption, FS_Singleton, FS_Subset, FS_Union
<1> QED
  BY <1>1, ExampleAssumption DEF Control

(* What the program adds to Logger takes no step that Logger does not.     *)
LEMMA ExampleSteps == [ExampleNext]_exampleVars => [Next]_vars
<1> SUFFICES ASSUME [ExampleNext]_exampleVars PROVE [Next]_vars
  OBVIOUS
<1>1. Control \in Controllers /\ Main \in Producers /\ 1..4 \subseteq Levels
  BY ControlAlone, ExampleAssumption
<1>2. CASE MainStep
  <2>1. CASE CallInit
    BY <1>1, <2>1 DEF CallInit, Next
  <2>2. CASE MainLogs
    <3>1. Statement[main].level \in Levels
      BY <1>1, <2>2 DEF MainLogs, Statement
    <3> QED
      BY <1>1, <2>2, <3>1 DEF MainLogs, Next
  <2>3. CASE CallStop
    BY <1>1, <2>3 DEF CallStop, Next
  <2> QED
    BY <1>2, <2>1, <2>2, <2>3 DEF MainStep, InitReturned, Spawn, JoinWorkers, StopReturned
<1>3. ASSUME NEW t \in Threads, ThreadStep(t) PROVE [Next]_vars
  BY <1>1, <1>3 DEF ThreadStep, Threads, Next
<1>4. CASE LoggerStep
  BY <1>4 DEF LoggerStep, Next
<1> QED
  BY <1>2, <1>3, <1>4 DEF ExampleNext, exampleVars

(* What holds of every use of Logger.                                      *)
LoggerInv == TypeInv /\ PlaceInv /\ OnceInv

(* It holds in this program.                                               *)
LEMMA ExampleUsesLogger ==
  /\ ExampleInit => LoggerInv
  /\ LoggerInv /\ [ExampleNext]_exampleVars => LoggerInv'
BY InitTypes, InitPlaces, InitDelivery, NextTypes, NextPlaces, NextOnce, ExampleSteps
   DEF ExampleInit, LoggerInv

--------------------------------------------------------------------------------
(* Where main() and the threads are                                        *)

Idle(p) == logging[p] = "idle" /\ pc[p] = "idle"

(* The log calls main() has made where it is                               *)
CallsAt ==
  [init |-> {0}, initialized |-> {0}, started |-> {0},
   spawn |-> {1}, spawned |-> {1}, abandon |-> {1},
   join |-> {2}, joined |-> {2}, error |-> {3}, fatal |-> {4},
   stop |-> {1, 5}, stopping |-> {1, 5}, ended |-> {0, 1, 5}]

BeforeThreads == {"init", "initialized", "started"}
AfterThreads == {"joined", "error", "fatal", "stop", "stopping", "ended"}

(* main() logs once before it creates a thread, and its third record after *)
(* it has joined the last one; a thread is in a call only while it runs.   *)
MainPhase ==
  /\ main \in DOMAIN CallsAt /\ calls[Main] \in CallsAt[main]
  /\ main \in {"init", "initialized", "stopping", "ended"} => Idle(Main)
  /\ main = "spawn" /\ Threads # {} => \E t \in Threads : thread[t] = "none"
  /\ calls[Main] <= 1 /\ (\E t \in Threads : thread[t] # "none") => Idle(Main)

ThreadPhase(t) ==
  /\ main \in BeforeThreads => thread[t] = "none"
  /\ main \in AfterThreads => thread[t] \in {"none", "joined"}
  /\ thread[t] # "running" => Idle(t)
  /\ thread[t] = "none" => calls[t] = 0
  /\ thread[t] = "running" => calls[t] <= Messages
  /\ thread[t] \in {"joinable", "joined"} => calls[t] = Messages

ProgramInv ==
  /\ thread \in [Threads -> {"none", "running", "joinable", "joined"}]
  /\ MainPhase
  /\ \A t \in Threads : ThreadPhase(t)

(* No producer enters a call.                                              *)
Quiet ==
  /\ calls' = calls
  /\ \A p \in Producers : Idle(p) => Idle(p)'

(* A call that main() or a thread makes is its own.                        *)
Calls(p, level) ==
  /\ ShouldLog(p, level) /\ Idle(p)
  /\ calls' = [calls EXCEPT ![p] = @ + 1]
  /\ \A q \in Producers \ {p} : Idle(q) => Idle(q)'

(* LOG_IMPL's first half is such a call.                                   *)
LEMMA CallsIsCall ==
  ASSUME TypeInv, NEW p \in Producers, NEW level, ShouldLog(p, level)
  PROVE  Calls(p, level)
BY DEF Calls, ShouldLog, OnlyProducer, queueVars, Idle, TypeInv, TypeOK

(* Steps inside the calls under way, and those of init() and stop(), let   *)
(* an idle producer be.                                                    *)
LEMMA LoggerQuiet ==
  ASSUME TypeInv,
         \/ LoggerStep \/ UNCHANGED vars
         \/ \E k \in Controllers :
              Stop(k) \/ ControlStep(k) \/ \E cf \in Configs : InitCall(k, cf)
  PROVE  Quiet
<1>1. ASSUME NEW t \in Q!Threads, OthersOnlyWake(t), t \notin Producers,
             UNCHANGED <<logging, calls>>
      PROVE  Quiet
  <2>1. \A p \in Producers : p \in Q!Threads \ {t}
    BY <1>1 DEF Q!Threads
  <2> QED
    BY <1>1, <2>1 DEF Quiet, Idle, OthersOnlyWake
<1>2. ASSUME NEW p \in Producers, ProducerStep(p) PROVE Quiet
  <2>1. p \in Q!Threads /\ OthersOnlyWake(p)
    BY <1>2, StepWakes DEF Q!Threads
  <2>2. ~Idle(p)
    BY <1>2 DEF ProducerStep, LogStatic, PushRecord, ProducerQueueStep, Q!ProducerStep,
                Q!PushWake, Q!PushNotify, Idle
  <2>3. calls' = calls
    BY <1>2 DEF ProducerStep, LogStatic, PushRecord, ProducerQueueStep
  <2>4. \A q \in Producers \ {p} : logging'[q] = logging[q]
    BY <1>2 DEF ProducerStep, LogStatic, Capture, PushRecord, ProducerQueueStep, TypeInv, TypeOK
  <2>5. \A q \in Producers \ {p} : q \in Q!Threads \ {p}
    BY DEF Q!Threads
  <2> QED
    BY <2>1, <2>2, <2>3, <2>4, <2>5 DEF Quiet, Idle, OthersOnlyWake
<1>3. ASSUME WorkerStep \/ WorkerTimeout \/ Tick PROVE Quiet
  <2>1. Worker \in Q!Threads /\ Worker \notin Producers
    BY LoggerAssumption DEF Q!Threads
  <2>2. OthersOnlyWake(Worker)
    BY <1>3, <2>1, StepWakes
  <2>3. UNCHANGED <<logging, calls>>
    BY <1>3, WorkerFrame DEF TypeInv, TypeOK, producerVars
  <2> QED
    BY <1>1, <2>1, <2>2, <2>3
<1>4. ASSUME NEW k \in Controllers,
             Stop(k) \/ ControlStep(k) \/ \E cf \in Configs : InitCall(k, cf)
      PROVE  Quiet
  <2>1. k \in Q!Threads /\ k \notin Producers
    BY LoggerAssumption DEF Q!Threads
  <2>2. OthersOnlyWake(k)
    BY <1>4, <2>1, StepWakes
  <2>3. UNCHANGED <<logging, calls>>
    BY <1>4, ControlFrame
  <2> QED
    BY <1>1, <2>1, <2>2, <2>3
<1>5. ASSUME NEW t \in Q!Threads, CloseNotify(t) \/ SpuriousWake(t) PROVE Quiet
  <2>1. OthersOnlyWake(t)
    BY <1>5, StepWakes
  <2>2. UNCHANGED <<logging, calls>>
    BY <1>5 DEF CloseNotify, SpuriousWake, OnlyQueue, producerVars
  <2>3. pc[t] # "idle"
    BY <1>5 DEF CloseNotify, SpuriousWake, Q!CloseNotify, Q!SpuriousWake
  <2>4. \A p \in Producers : p # t => p \in Q!Threads \ {t}
    BY DEF Q!Threads
  <2> QED
    BY <2>1, <2>2, <2>3, <2>4 DEF Quiet, Idle, OthersOnlyWake
<1>6. CASE UNCHANGED vars
  BY <1>6 DEF vars, queueVars, producerVars, Quiet, Idle
<1> QED
  BY <1>2, <1>3, <1>4, <1>5, <1>6 DEF LoggerStep

(* main() and the threads keep to their phases.                            *)
LEMMA NextPhase == TypeInv /\ ProgramInv /\ [ExampleNext]_exampleVars => ProgramInv'
<1> SUFFICES ASSUME TypeInv, ProgramInv, [ExampleNext]_exampleVars PROVE ProgramInv'
  OBVIOUS
<1> USE DEF ProgramInv, MainPhase, ThreadPhase, CallsAt, BeforeThreads, AfterThreads
<1>1. /\ Control \in Controllers /\ Main \in Producers
      /\ Threads = Producers \ {Main} /\ Messages \in Nat /\ Messages > 0
      /\ calls \in [Producers -> Nat]
  BY ControlAlone, ExampleAssumption, LoggerAssumption DEF Threads, TypeInv, TypeOK
<1>2. ASSUME Quiet, UNCHANGED <<main, thread>> PROVE ProgramInv'
  BY <1>1, <1>2 DEF Quiet
<1>3. ASSUME UNCHANGED vars PROVE Quiet
  BY <1>3, LoggerQuiet
<1>4. CASE CallInit
  <2>1. Quiet
    BY <1>1, <1>4, LoggerQuiet DEF CallInit
  <2> QED
    BY <1>1, <1>4, <2>1 DEF CallInit, Quiet
<1>5. CASE InitReturned
  BY <1>1, <1>3, <1>5 DEF InitReturned, Quiet
<1>6. CASE MainLogs
  <2>1. Calls(Main, Statement[main].level)
    BY <1>1, <1>6, CallsIsCall DEF MainLogs
  <2>2. /\ main \in DOMAIN Statement /\ main' = Statement[main].next /\ thread' = thread
        /\ Idle(Main)
    BY <1>6 DEF MainLogs, Ready, Idle
  <2>3. calls' = [calls EXCEPT ![Main] = @ + 1]
    BY <2>1 DEF Calls
  <2>4. calls'[Main] = calls[Main] + 1 /\ \A t \in Threads : calls'[t] = calls[t]
    BY <1>1, <2>3
  <2>5. \A t \in Threads : Idle(t) => Idle(t)'
    BY <1>1, <2>1 DEF Calls
  <2>6. \A t \in Threads : ThreadPhase(t)'
    BY <2>2, <2>4, <2>5 DEF Statement
  <2>7. MainPhase'
    BY <2>2, <2>4 DEF Statement
  <2> QED
    BY <2>2, <2>6, <2>7
<1>7. CASE Spawn
  <2>1. Quiet /\ Idle(Main) /\ main = "spawn"
    BY <1>3, <1>7 DEF Spawn, Ready, Idle
  <2>2. /\ calls' = calls /\ Idle(Main)' /\ calls[Main] = 1
        /\ \A t \in Threads : Idle(t) => Idle(t)'
    BY <1>1, <2>1 DEF Quiet
  <2>3. CASE main' = "abandon" /\ thread' = thread
    BY <1>1, <2>1, <2>2, <2>3
  <2>4. CASE \E t \in Threads : thread[t] = "none"
    <3>1. PICK t \in Threads : thread[t] = "none" /\
            \/ main' = "abandon" /\ thread' = thread
            \/ /\ thread' = [thread EXCEPT ![t] = "running"]
               /\ main' \in {"spawn", "spawned"}
               /\ main' = "spawn" => \E u \in Threads : thread'[u] = "none"
      BY <1>7, <2>1, <2>4 DEF Spawn
    <3> QED
      BY <1>1, <2>1, <2>2, <2>3, <3>1
  <2>5. CASE Threads = {}
    <3>1. main' \in {"spawned", "abandon"} /\ thread' \in [Threads -> {"none"}]
      BY <1>7, <2>5 DEF Spawn
    <3> QED
      BY <2>1, <2>2, <2>5, <3>1
  <2> QED
    BY <2>1, <2>4, <2>5
<1>8. CASE JoinWorkers
  <2>1. Quiet /\ Idle(Main)
    BY <1>3, <1>8 DEF JoinWorkers, Ready, Idle
  <2>2. /\ main \in {"join", "abandon"} /\ main' \in {"joined", "stop"}
        /\ main' = "stop" <=> main = "abandon"
    BY <1>8 DEF JoinWorkers, AfterJoin
  <2>3. /\ \A t \in Threads : thread[t] \in {"none", "joinable"}
        /\ thread' = [t \in Threads |-> IF thread[t] = "none" THEN "none" ELSE "joined"]
    BY <1>8 DEF JoinWorkers
  <2>4. \A t \in Threads : ThreadPhase(t)'
    BY <1>1, <2>1, <2>2, <2>3 DEF Quiet
  <2> QED
    BY <1>1, <2>1, <2>2, <2>3, <2>4 DEF Quiet
<1>9. CASE CallStop
  <2>1. Quiet
    BY <1>1, <1>9, LoggerQuiet DEF CallStop
  <2> QED
    BY <1>1, <1>9, <2>1 DEF CallStop, Quiet, Ready, Idle
<1>10. CASE StopReturned
  BY <1>1, <1>3, <1>10 DEF StopReturned, Quiet
<1>11. ASSUME NEW t \in Threads, ThreadStep(t) PROVE ProgramInv'
  <2>1. thread[t] = "running" /\ Idle(t) /\ main' = main /\ t # Main /\ t \in Producers
    BY <1>1, <1>11 DEF ThreadStep, Ready, Idle
  <2>2. CASE calls[t] < Messages /\ ShouldLog(t, 1) /\ UNCHANGED thread
    <3>1. Calls(t, 1)
      BY <2>1, <2>2, CallsIsCall
    <3>2. calls'[t] = calls[t] + 1 /\ \A q \in Producers \ {t} : calls'[q] = calls[q]
      BY <1>1, <2>1, <3>1 DEF Calls
    <3> QED
      BY <1>1, <2>1, <2>2, <3>1, <3>2 DEF Calls
  <2>3. CASE /\ calls[t] = Messages
             /\ thread' = [thread EXCEPT ![t] = "joinable"]
             /\ UNCHANGED vars
    BY <1>1, <1>3, <2>1, <2>3 DEF Quiet
  <2> QED
    BY <1>11, <2>2, <2>3 DEF ThreadStep
<1>12. CASE LoggerStep /\ UNCHANGED <<main, thread>>
  BY <1>2, <1>12, LoggerQuiet
<1>13. CASE UNCHANGED exampleVars
  BY <1>2, <1>3, <1>13 DEF exampleVars
<1> QED
  BY <1>4, <1>5, <1>6, <1>7, <1>8, <1>9, <1>10, <1>11, <1>12, <1>13
  DEF ExampleNext, MainStep

(* The program starts in them.                                             *)
LEMMA InitPhase == ExampleInit => ProgramInv
BY ControlAlone
   DEF ExampleInit, Init, Q!Init, Q!Threads, ProgramInv, MainPhase, ThreadPhase, CallsAt,
       BeforeThreads, AfterThreads, Threads, Idle

--------------------------------------------------------------------------------
(* The order of the lines                                                  *)

(* The push() of the record v, and what comes of it                        *)
PushesOwn(p, v) ==
  /\ Busy(p) /\ v.by = p /\ v.number = calls[p]
  /\ Q!PushLocked(p, v, expected[p]) \/ Q!AwaitRoom(p, v, expected[p])
  /\ logging'[p] = "idle"
  /\ IF pc'[p] = "notifyEmpty"
     THEN accepted' = Append(accepted, [value |-> v, generation |-> expected[p]])
     ELSE accepted' = accepted

(* A producer pushes the record of the call it is in, in the first attempt *)
(* or after it waited for room.                                            *)
LEMMA ProducerPushes ==
  ASSUME TypeInv, OnceInv, NEW p \in Producers,
         PushRecord(p) \/ (ProducerQueueStep(p) /\ Q!PushWake(p))
  PROVE  \E v \in LogRecord : PushesOwn(p, v)
<1>1. /\ Q!TypeOK /\ record \in [Producers -> LogRecord]
      /\ value \in [Producers -> LogRecord] /\ expected \in [Producers -> Nat]
      /\ logging \in [Producers -> {"idle", "admitted", "captured"}]
      /\ Worker \in Q!Threads \ {p} /\ p \in Q!Threads
  BY LoggerAssumption DEF TypeInv, TypeOK, Q!Threads, Q!TypeOK
<1>2. UNCHANGED <<worker, written, fault, batch>>
  BY <1>1, ProducerFrame DEF sinkVars, workerVars, ProducerStep
<1>3. OthersOnlyWake(p)
  BY <1>1, StepWakes DEF ProducerStep
<1>4. InFlight' = InFlight
  BY <1>1, <1>2, <1>3 DEF InFlight, OthersOnlyWake
<1>5. ASSUME NEW v \in LogRecord, Accept(p),
             Q!PushLocked(p, v, expected[p]) \/ Q!AwaitRoom(p, v, expected[p])
      PROVE  IF pc'[p] = "notifyEmpty"
             THEN accepted' = Append(accepted, [value |-> v, generation |-> expected[p]])
             ELSE accepted' = accepted
  <2>1. [value |-> v, generation |-> expected[p]] \in Q!Entry
    BY <1>1 DEF Q!Entry
  <2>2. Grows(p, [value |-> v, generation |-> expected[p]])
    BY <1>1, <1>5, PushGrows
  <2> QED
    BY <1>2, <1>4, <1>5, <2>1, <2>2, GrowsFlows
<1>6. CASE PushRecord(p)
  <2>1. /\ logging[p] = "captured" /\ logging'[p] = "idle" /\ Accept(p)
        /\ Q!PushLocked(p, record[p], expected[p])
    BY <1>1, <1>6 DEF PushRecord, Q!Push
  <2>2. Busy(p) /\ record[p].by = p /\ record[p].number = calls[p]
    BY <2>1 DEF OnceInv, Current, Busy
  <2> QED
    BY <1>1, <1>5, <2>1, <2>2 DEF PushesOwn
<1>7. CASE ProducerQueueStep(p) /\ Q!PushWake(p)
  <2>1. /\ pc[p] = "notFullWoken" /\ logging'[p] = logging[p] /\ Accept(p)
        /\ Q!AwaitRoom(p, value[p], expected[p])
    BY <1>7 DEF ProducerQueueStep, Q!PushWake
  <2>2. Busy(p) /\ value[p].by = p /\ value[p].number = calls[p] /\ logging[p] = "idle"
    BY <2>1 DEF OnceInv, Current, Busy, Q!NotFullStates
  <2> QED
    BY <1>1, <1>5, <2>1, <2>2 DEF PushesOwn
<1> QED
  BY <1>6, <1>7

(* The producers' other steps accept nothing.                              *)
LEMMA ProducerElse ==
  ASSUME NEW p \in Producers,
         \/ LogStatic(p) \/ (ProducerQueueStep(p) /\ Q!PushNotify(p))
         \/ \E level \in Levels : ShouldLog(p, level) \/ Log(p, level)
  PROVE  accepted' = accepted
BY DEF LogStatic, Log, Capture, ShouldLog, ProducerQueueStep, Q!PushNotify

(* What is accepted is pushed by a producer that was busy with it.         *)
LEMMA NextAccepts ==
  ASSUME LoggerInv, [Next]_vars
  PROVE  \/ accepted' \in {accepted, <<>>}
         \/ \E p \in Producers, e \in Q!Entry :
              /\ Busy(p) /\ e.value.by = p /\ e.value.number = calls[p]
              /\ accepted' = Append(accepted, e)
<1> USE DEF LoggerInv
<1>1. ASSUME NEW p \in Producers, NEW v \in LogRecord, PushesOwn(p, v)
      PROVE  \/ accepted' = accepted
             \/ \E e \in Q!Entry :
                  /\ Busy(p) /\ e.value.by = p /\ e.value.number = calls[p]
                  /\ accepted' = Append(accepted, e)
  <2>1. [value |-> v, generation |-> expected[p]] \in Q!Entry
    BY DEF TypeInv, TypeOK, Q!TypeOK, Q!Entry
  <2> QED
    BY <1>1, <2>1 DEF PushesOwn
<1>2. CASE \E p \in Producers :
             \/ ProducerStep(p)
             \/ \E level \in Levels : ShouldLog(p, level) \/ Log(p, level)
  <2>1. PICK p \in Producers :
          \/ ProducerStep(p)
          \/ \E level \in Levels : ShouldLog(p, level) \/ Log(p, level)
    BY <1>2
  <2>2. CASE PushRecord(p) \/ (ProducerQueueStep(p) /\ Q!PushWake(p))
    BY <1>1, <2>2, ProducerPushes
  <2>3. CASE \/ LogStatic(p) \/ (ProducerQueueStep(p) /\ Q!PushNotify(p))
             \/ \E level \in Levels : ShouldLog(p, level) \/ Log(p, level)
    BY <2>3, ProducerElse
  <2> QED
    BY <2>1, <2>2, <2>3 DEF ProducerStep, ProducerQueueStep, Q!ProducerStep
<1>3. CASE WorkerStep \/ WorkerTimeout \/ Tick
  BY <1>3, WorkerFrame DEF TypeInv, TypeOK, producerVars
<1>4. CASE \E k \in Controllers :
             Stop(k) \/ ControlStep(k) \/ \E cf \in Configs : InitCall(k, cf)
  BY <1>4, ControlFrame
<1>5. CASE \/ \E level \in Levels : SetLevel(level)
           \/ \E t \in Q!Threads : CloseNotify(t) \/ SpuriousWake(t)
           \/ UNCHANGED vars
  BY <1>5 DEF SetLevel, CloseNotify, SpuriousWake, OnlyQueue, vars, producerVars
<1> QED
  BY <1>2, <1>3, <1>4, <1>5 DEF Next

(* The accepted records are in program order, those of one thread with     *)
(* growing numbers.                                                        *)
InProgramOrder(a, b) == ~Before(b, a) /\ (a.by = b.by => a.number < b.number)
OrderInv ==
  \A a, b \in 1..Len(accepted) :
    a < b => InProgramOrder(accepted[a].value, accepted[b].value)

(* A record that is being pushed is after all that are accepted.           *)
LEMMA PushedInOrder ==
  ASSUME LoggerInv, ProgramInv, NEW p \in Producers, Busy(p), NEW e \in Q!Entry,
         e.value.by = p, e.value.number = calls[p], NEW a \in 1..Len(accepted)
  PROVE  InProgramOrder(accepted[a].value, e.value)
<1> DEFINE v == accepted[a].value
<1>1. /\ accepted[a] \in Q!Entry /\ v.by \in Producers /\ v.number \in Nat \ {0}
      /\ calls \in [Producers -> Nat] /\ Main \in Producers
  <2>1. /\ accepted \in Seq(Q!Entry) /\ calls \in [Producers -> 0..MaxCalls]
        /\ MaxCalls \in Nat
    BY LoggerAssumption DEF LoggerInv, TypeInv, TypeOK
  <2>2. accepted[a] \in Q!Entry
    BY <2>1
  <2>3. v \in LogRecord
    BY <2>2 DEF Q!Entry
  <2> QED
    BY <2>1, <2>2, <2>3, ControlAlone DEF LogRecord
<1>2. v.number <= calls[v.by] /\ (v.by = p => v.number < calls[p])
  BY <1>1 DEF LoggerInv, OnceInv, Earlier
<1>3. CASE p = Main /\ calls[Main] = 1 /\ v.by # Main
  <2>1. v.by \in Threads /\ thread[v.by] # "none"
    BY <1>1, <1>2, <1>3 DEF ProgramInv, ThreadPhase, Threads
  <2>2. Idle(Main)
    BY <1>3, <2>1 DEF ProgramInv, MainPhase
  <2> QED
    BY <1>3, <2>2 DEF Idle, Busy, Q!NotFullStates
<1>4. CASE p # Main /\ v.by = Main /\ v.number >= 3
  <2>1. main \in AfterThreads /\ p \in Threads
    BY <1>1, <1>2, <1>4 DEF ProgramInv, MainPhase, CallsAt, AfterThreads, Threads
  <2>2. Idle(p)
    BY <2>1 DEF ProgramInv, ThreadPhase
  <2> QED
    BY <2>2 DEF Idle, Busy, Q!NotFullStates
<1> QED
  BY <1>1, <1>2, <1>3, <1>4 DEF InProgramOrder, Before

(* The queue takes the records in program order.                           *)
LEMMA NextOrder ==
  LoggerInv /\ ProgramInv /\ OrderInv /\ [ExampleNext]_exampleVars => OrderInv'
<1> SUFFICES ASSUME LoggerInv, ProgramInv, OrderInv, [ExampleNext]_exampleVars
             PROVE  OrderInv'
  OBVIOUS
<1>1. accepted \in Seq(Q!Entry)
  BY DEF LoggerInv, TypeInv, TypeOK
<1>2. CASE accepted' \in {accepted, <<>>}
  BY <1>2 DEF OrderInv
<1>3. ASSUME NEW p \in Producers, NEW e \in Q!Entry, Busy(p), e.value.by = p,
             e.value.number = calls[p], accepted' = Append(accepted, e)
      PROVE  OrderInv'
  <2>1. \A a \in 1..Len(accepted) : InProgramOrder(accepted[a].value, e.value)
    BY <1>3, PushedInOrder
  <2>2. /\ Len(accepted') = Len(accepted) + 1
        /\ \A a \in 1..Len(accepted) : accepted'[a] = accepted[a]
        /\ accepted'[Len(accepted) + 1] = e
    BY <1>1, <1>3
  <2>3. ASSUME NEW a \in 1..Len(accepted'), NEW b \in 1..Len(accepted'), a < b
        PROVE  InProgramOrder(accepted'[a].value, accepted'[b].value)
    <3>1. a \in 1..Len(accepted) /\ (b \in 1..Len(accepted) \/ b = Len(accepted) + 1)
      BY <1>1, <2>2, <2>3
    <3> QED
      BY <2>1, <2>2, <2>3, <3>1 DEF OrderInv
  <2> QED
    BY <2>3 DEF OrderInv, InProgramOrder, Before
<1> QED
  BY <1>2, <1>3, NextAccepts, ExampleSteps

(* What a sink got is in the order accepted, so it is in program order.    *)
LEMMA LinesOrdered ==
  ASSUME TypeInv, Conservation, OrderInv
  PROVE  LinesInProgramOrder
<1> SUFFICES ASSUME NEW s \in DOMAIN written,
                    NEW i \in DOMAIN written[s], NEW j \in DOMAIN written[s], i < j
             PROVE  ~Before(written[s][j].value, written[s][i].value)
  BY DEF LinesInProgramOrder
<1>1. /\ written[s] \in Seq(Q!Entry) /\ InFlight \in Seq(Q!Entry)
      /\ queue \in Seq(Q!Entry) /\ accepted \in Seq(Q!Entry)
  BY KeptType
<1> DEFINE kept == written[s] \o InFlight \o queue
<1>2. /\ InOrder(kept, accepted) /\ i \in DOMAIN kept /\ j \in DOMAIN kept
      /\ kept[i] = written[s][i] /\ kept[j] = written[s][j]
  BY <1>1 DEF Conservation
<1> HIDE DEF kept
<1>3. PICK a \in DOMAIN accepted, b \in DOMAIN accepted :
        accepted[a] = kept[i] /\ accepted[b] = kept[j] /\ a < b
  BY <1>2 DEF InOrder
<1>4. a \in 1..Len(accepted) /\ b \in 1..Len(accepted)
  BY <1>1, <1>3
<1> QED
  BY <1>2, <1>3, <1>4 DEF OrderInv, InProgramOrder

(* No line is above one of a record that the program logged before it.     *)
THEOREM OrderCorrect == ExampleSpec => []LinesInProgramOrder
<1>1. ExampleSpec => Spec
  BY ExampleSteps, PTL DEF ExampleSpec, ExampleInit, Spec
<1>2. ExampleInit => OrderInv
  BY DEF ExampleInit, Init, OrderInv
<1>3. ExampleSpec => [](TypeInv /\ OrderInv)
  <2>1. ExampleInit => LoggerInv /\ ProgramInv /\ OrderInv
    BY <1>2, ExampleUsesLogger, InitPhase
  <2>2. LoggerInv /\ ProgramInv /\ OrderInv /\ [ExampleNext]_exampleVars =>
          (LoggerInv /\ ProgramInv /\ OrderInv)'
    BY ExampleUsesLogger, NextPhase, NextOrder DEF LoggerInv
  <2>3. LoggerInv /\ ProgramInv /\ OrderInv => TypeInv /\ OrderInv
    BY DEF LoggerInv
  <2> QED
    BY <2>1, <2>2, <2>3, PTL DEF ExampleSpec
<1> QED
  BY <1>1, <1>3, DeliveryCorrect, LinesOrdered, PTL

--------------------------------------------------------------------------------
(* The end of the program                                                  *)

(* The settings of the example that count here: Block, and a level that    *)
(* lets LOG_INFO through.                                                  *)
ExampleSettings ==
  \A cf \in Configs : cf.overflowPolicy = "Block" /\ cf.minLevel <= 1

(* Under Block no record is dropped.                                       *)
BlockInv == overflowPolicy = "Block" /\ droppedCount = 0

(* The worker stops by itself only when something threw.                   *)
FaultInv ==
  worker \in {"failing", "closing", "failingLast", "closingLast"} => fault # "none"

(* No step drops one.                                                      *)
LEMMA NextBlock ==
  ASSUME ExampleSettings, TypeInv, BlockInv, [Next]_vars
  PROVE  BlockInv'
<1> USE DEF BlockInv
<1>1. QueueNext
  BY NextQueue DEF TypeInv
<1>2. ASSUME NEW p, NEW v, NEW g, Q!PushLocked(p, v, g) \/ Q!AwaitRoom(p, v, g)
      PROVE  BlockInv'
  BY <1>2 DEF Q!PushLocked, Q!AwaitRoom, Q!Refuse, Q!Enqueue, Q!members
<1>3. ASSUME NEW c, NEW m, NEW n, Q!TakeLocked(c, m, n) PROVE BlockInv'
  BY <1>3 DEF Q!TakeLocked, Q!members
<1>4. CASE \E p \in Producers :
             Q!GetGeneration(p) \/ Q!Push(p, record[p]) \/ Q!ProducerStep(p)
  BY <1>2, <1>4
  DEF Q!GetGeneration, Q!Push, Q!ProducerStep, Q!PushWake, Q!PushNotify, Q!members
<1>5. CASE \/ \E m \in {"popBatchFor", "popBatch"}, n \in Nat \ {0} : Q!Pop(Worker, m, n)
           \/ Q!ConsumerStep(Worker) \/ Q!PopTimeout(Worker)
  BY <1>3, <1>5
  DEF Q!Pop, Q!ParkOnNotEmpty, Q!ConsumerStep, Q!PopWake, Q!PopTimedOut, Q!PopTimeout,
      Q!PopNotify, Q!members
<1>6. CASE \E t \in Q!Threads : Q!Close(t) \/ Q!CloseNotify(t) \/ Q!SpuriousWake(t)
  BY <1>6 DEF Q!Close, Q!CloseNotify, Q!SpuriousWake, Q!members
<1>7. CASE \E k \in Controllers, cf \in Configs :
             Q!Reset(k, cf.queueCapacity, cf.overflowPolicy)
  BY <1>7 DEF Q!Reset, ExampleSettings
<1>8. CASE UNCHANGED queueVars
  BY <1>8 DEF queueVars
<1> QED
  BY <1>1, <1>4, <1>5, <1>6, <1>7, <1>8 DEF QueueNext

(* No step of the worker leads there otherwise.                            *)
LEMMA NextFault ==
  ASSUME TypeInv, PlaceInv, FaultInv, [Next]_vars
  PROVE  FaultInv'
<1> USE DEF FaultInv
<1>1. ASSUME NEW p \in Producers,
             \/ ProducerStep(p)
             \/ \E level \in Levels : ShouldLog(p, level) \/ Log(p, level)
      PROVE  FaultInv'
  BY <1>1, ProducerFrame DEF TypeInv, TypeOK, sinkVars, workerVars
<1>2. CASE WorkerStep
  BY <1>2
  DEF WorkerStep, WorkerStart, GoOn, WorkerPop, WorkerQueueStep, OnlyQueue, sinkVars,
      workerVars, WriteBatch, FlushAfterBatch, FlushSinks, NextRound, NoBatch, CheckClosed,
      AfterNoBatch, WorkerFails, AfterFault, WorkerCloses, AfterClose, FinalFlush
<1>3. CASE \/ WorkerTimeout \/ Tick \/ UNCHANGED vars
           \/ \E level \in Levels : SetLevel(level)
           \/ \E t \in Q!Threads : CloseNotify(t) \/ SpuriousWake(t)
  BY <1>3 DEF WorkerTimeout, Tick, OnlyQueue, SetLevel, CloseNotify, SpuriousWake, vars,
              sinkVars, workerVars
<1>4. ASSUME NEW k \in Controllers,
             Stop(k) \/ ControlStep(k) \/ \E cf \in Configs : InitCall(k, cf)
      PROVE  FaultInv'
  <2>1. CASE InitReset(k)
    <3>1. worker = "none"
      BY <2>1 DEF InitReset, PlaceInv, ControlPlaces
    <3> QED
      BY <2>1, <3>1 DEF InitReset, workerVars
  <2> QED
    BY <1>4, <2>1
    DEF Stop, ControlStep, InitCall, InitJoin, JoinWorker, InitConfigure, InitSpawn,
        InitAbort, InitAborted, StopClose, StopJoin, sinkVars, workerVars
<1> QED
  BY <1>1, <1>2, <1>3, <1>4 DEF Next

(* Where main() uses the logger, between init() and stop()                 *)
Using == {"started", "spawn", "spawned", "abandon", "join", "joined", "error",
          "fatal", "stop"}

Initializing == {"initJoin", "initReset", "initConfigure", "initSpawn", "initAbort",
                 "initAborting"}

(* stop() has returned.                                                    *)
Stopped == returned[Control] = "none" /\ worker = "none" /\ ~sinksOpen

(* init() has set the level and running_.                                  *)
Started ==
  \/ control[Control] = "initSpawn"
  \/ control[Control] = "idle" /\ returned[Control] = "true" /\ main # "ended"

(* What the place of main() tells of the logger: from the end of init() to *)
(* stop() it admits LOG_INFO, unless the worker has stopped on a fault.    *)
StageInv ==
  /\ main \in DOMAIN CallsAt
  /\ main = "init" => control[Control] = "idle" /\ returned[Control] = "none"
  /\ main = "initialized" =>
       \/ control[Control] \in Initializing
       \/ control[Control] = "idle" /\ returned[Control] \in {"true", "false"}
  /\ main \in Using => control[Control] = "idle" /\ returned[Control] = "true"
  /\ main = "stopping" =>
       \/ control[Control] \in {"stopClose", "stopJoin"}
       \/ control[Control] = "idle" /\ Stopped
  /\ main = "ended" =>
       /\ control[Control] = "idle"
       /\ returned[Control] = "none" => Stopped
  /\ Started => minLevel <= 1 /\ (fault = "none" => running)

(* Only main() moves the logger from one of these places to another.       *)
LEMMA NextStage ==
  ASSUME ExampleSettings, LoggerInv, FaultInv, StageInv, [ExampleNext]_exampleVars
  PROVE  StageInv'
<1> USE DEF StageInv, CallsAt, Using, Initializing, Stopped, Started
<1>1. /\ Controllers = {Control} /\ TypeInv /\ PlaceInv
      /\ control \in [{Control} -> ControlStates]
      /\ returned \in [{Control} -> {"none", "true", "false"}]
      /\ minLevel \in Nat
  BY ControlAlone, LoggerAssumption DEF LoggerInv, TypeInv, TypeOK
<1>2. ASSUME UNCHANGED <<main, control, returned, sinksOpen, minLevel, worker, running,
                         fault>>
      PROVE  StageInv'
  BY <1>2
<1>3. ASSUME UNCHANGED vars
      PROVE  UNCHANGED <<control, returned, sinksOpen, minLevel, worker, running, fault>>
  BY <1>3 DEF vars, sinkVars, workerVars, settingVars, controlVars
<1>4. CASE CallInit
  BY <1>1, <1>4
  DEF CallInit, InitCall, settingVars, sinkVars, workerVars
<1>5. CASE InitReturned
  BY <1>1, <1>3, <1>5, ControlAlone DEF InitReturned, Ready
<1>6. CASE MainLogs
  BY <1>6 DEF MainLogs, Statement, ShouldLog, OnlyProducer, settingVars, sinkVars,
              workerVars, controlVars
<1>7. CASE Spawn
  BY <1>3, <1>7 DEF Spawn
<1>8. CASE JoinWorkers
  BY <1>3, <1>8 DEF JoinWorkers, AfterJoin
<1>9. CASE CallStop
  BY <1>1, <1>9 DEF CallStop, Stop, sinkVars, workerVars
<1>10. CASE StopReturned
  BY <1>1, <1>3, <1>10, ControlAlone DEF StopReturned, Ready
<1>11. ASSUME NEW t \in Threads, ThreadStep(t) PROVE StageInv'
  BY <1>2, <1>3, <1>11 DEF ThreadStep, ShouldLog, OnlyProducer, settingVars, sinkVars,
                           workerVars, controlVars
<1>12. ASSUME NEW p \in Producers, ProducerStep(p), main' = main PROVE StageInv'
  BY <1>1, <1>2, <1>12, ProducerFrame
  DEF TypeInv, TypeOK, settingVars, sinkVars, workerVars, controlVars
<1>13. ASSUME WorkerStep \/ WorkerTimeout \/ Tick, main' = main PROVE StageInv'
  <2>1. UNCHANGED <<main, control, returned, sinksOpen, minLevel>>
    BY <1>1, <1>13, WorkerFrame DEF TypeInv, TypeOK, controlVars
  <2>2. worker = "none" => worker' = "none"
    BY <1>13
    DEF WorkerStep, WorkerStart, WorkerPop, WorkerQueueStep, OnlyQueue, workerVars,
        WriteBatch, FlushAfterBatch, NoBatch, CheckClosed, WorkerFails, WorkerCloses,
        FinalFlush, WorkerTimeout, Tick
  <2>3. fault' = "none" => fault = "none" /\ (running => running')
    BY <1>13
    DEF FaultInv, WorkerStep, WorkerStart, GoOn, WorkerPop, WorkerQueueStep, OnlyQueue,
        workerVars, settingVars, sinkVars, WriteBatch, FlushAfterBatch, FlushSinks, NoBatch,
        CheckClosed, WorkerFails, WorkerCloses, FinalFlush, WorkerTimeout, Tick
  <2> QED
    BY <2>1, <2>2, <2>3
<1>14. ASSUME ControlStep(Control), main' = main PROVE StageInv'
  <2>1. control[Control] # "idle" /\ main \in {"initialized", "stopping"}
    BY <1>14 DEF ControlStep, InitJoin, InitReset, InitConfigure, InitSpawn, InitAbort,
                 InitAborted, StopClose, StopJoin
  <2>2. CASE InitJoin(Control)
    BY <1>1, <1>14, <2>1, <2>2 DEF InitJoin, Go, Return
  <2>3. CASE InitReset(Control)
    BY <1>1, <1>14, <2>1, <2>3 DEF InitReset, Go, workerVars
  <2>4. CASE InitConfigure(Control)
    <3>1. request[Control] \in Configs
      BY <1>1 DEF TypeInv, TypeOK
    <3>2. minLevel' <= 1
      BY <2>4, <3>1 DEF InitConfigure, ExampleSettings
    <3> QED
      BY <1>1, <1>14, <2>1, <2>4, <3>2 DEF InitConfigure, Go, workerVars
  <2>5. CASE InitSpawn(Control)
    BY <1>1, <1>14, <2>1, <2>5 DEF InitSpawn, Go, Return, sinkVars, workerVars
  <2>6. CASE InitAbort(Control)
    BY <1>1, <1>14, <2>1, <2>6 DEF InitAbort, Go, settingVars, sinkVars, workerVars
  <2>7. CASE InitAborted(Control)
    BY <1>1, <1>14, <2>1, <2>7 DEF InitAborted, Return, settingVars, workerVars
  <2>8. CASE StopClose(Control)
    BY <1>1, <1>14, <2>1, <2>8 DEF StopClose, Go, settingVars, sinkVars, workerVars
  <2>9. CASE StopJoin(Control)
    BY <1>1, <1>14, <2>1, <2>9 DEF StopJoin, Return, JoinWorker, settingVars
  <2> QED
    BY <1>14, <2>2, <2>3, <2>4, <2>5, <2>6, <2>7, <2>8, <2>9 DEF ControlStep
<1>15. ASSUME NEW t \in Q!Threads, CloseNotify(t) \/ SpuriousWake(t), main' = main
       PROVE  StageInv'
  BY <1>2, <1>15 DEF CloseNotify, SpuriousWake, OnlyQueue, settingVars, sinkVars, workerVars,
                     controlVars
<1>16. CASE LoggerStep /\ UNCHANGED <<main, thread>>
  BY <1>1, <1>12, <1>13, <1>14, <1>15, <1>16 DEF LoggerStep
<1>17. CASE UNCHANGED exampleVars
  BY <1>2, <1>3, <1>17 DEF exampleVars
<1> QED
  BY <1>4, <1>5, <1>6, <1>7, <1>8, <1>9, <1>10, <1>11, <1>16, <1>17
  DEF ExampleNext, MainStep

(* A call is under way only between init() and stop().                     *)
LEMMA BusyUses ==
  ASSUME ProgramInv, NEW p \in Producers, ~Idle(p)
  PROVE  main \in Using
BY DEF ProgramInv, MainPhase, ThreadPhase, CallsAt, BeforeThreads, AfterThreads, Threads, Using

(* A record on its way carries the present generation, and a level of at   *)
(* least LOG_INFO.                                                         *)
OnItsWay(p) ==
  /\ logging[p] = "captured" \/ pc[p] \in Q!NotFullStates => expected[p] = generation
  /\ logging[p] = "admitted" => record[p].level >= 1

WayInv == \A p \in Producers : OnItsWay(p)

(* Other threads' steps within one initialization leave it on its way.     *)
LEMMA OthersLeave ==
  ASSUME WayInv, NEW t \in Q!Threads, OthersOnlyWake(t), generation' = generation,
         NEW q \in Producers \ {t}, logging'[q] = logging[q], record'[q] = record[q],
         expected'[q] = expected[q]
  PROVE  OnItsWay(q)'
<1>1. q \in Q!Threads \ {t}
  BY DEF Q!Threads
<1> QED
  BY <1>1 DEF WayInv, OnItsWay, OthersOnlyWake, Q!NotFullStates

(* A call that main() or a thread begins admits at least LOG_INFO.         *)
LEMMA CallLeaves ==
  ASSUME TypeInv, WayInv, NEW p \in Producers, NEW level \in Nat, level >= 1,
         ShouldLog(p, level)
  PROVE  WayInv'
<1>1. /\ UNCHANGED <<pc, expected, generation>> /\ pc[p] = "idle"
      /\ \/ UNCHANGED <<logging, record>>
         \/ /\ logging' = [logging EXCEPT ![p] = "admitted"]
            /\ record' = [record EXCEPT ![p].number = calls'[p], ![p].level = level]
  BY DEF ShouldLog, queueVars
<1>2. /\ record \in [Producers -> LogRecord]
      /\ logging \in [Producers -> {"idle", "admitted", "captured"}]
  BY DEF TypeInv, TypeOK
<1>3. CASE UNCHANGED <<logging, record>>
  BY <1>1, <1>3 DEF WayInv, OnItsWay
<1>4. CASE /\ logging' = [logging EXCEPT ![p] = "admitted"]
           /\ record' = [record EXCEPT ![p].number = calls'[p], ![p].level = level]
  <2>1. record'[p].level = level /\ \A q \in Producers \ {p} : record'[q] = record[q]
    BY <1>2, <1>4 DEF LogRecord
  <2> QED
    BY <1>1, <1>2, <1>4, <2>1 DEF WayInv, OnItsWay, Q!NotFullStates
<1> QED
  BY <1>1, <1>3, <1>4

(* Nothing is on its way when init() changes the generation.               *)
LEMMA NextWay ==
  ASSUME LoggerInv, ProgramInv, StageInv, WayInv, [ExampleNext]_exampleVars
  PROVE  WayInv'
<1>1. /\ TypeInv /\ Q!TypeOK /\ Controllers = {Control} /\ Main \in Producers
      /\ record \in [Producers -> LogRecord] /\ expected \in [Producers -> Nat]
      /\ logging \in [Producers -> {"idle", "admitted", "captured"}]
      /\ Threads \subseteq Producers
  BY ControlAlone DEF LoggerInv, TypeInv, TypeOK, Q!TypeOK, Threads
<1>2. ASSUME NEW t \in Q!Threads, t \notin Producers, OthersOnlyWake(t),
             UNCHANGED <<generation, logging, record, expected>>
      PROVE  WayInv'
  BY <1>2, OthersLeave DEF WayInv
<1>3. CASE UNCHANGED vars
  BY <1>3 DEF vars, queueVars, producerVars, WayInv, OnItsWay
<1>4. ASSUME NEW p \in Producers, ProducerStep(p) PROVE WayInv'
  <2>1. p \in Q!Threads /\ OthersOnlyWake(p) /\ generation' = generation
    BY <1>1, <1>4, StepWakes, ProducerFrame DEF Q!Threads
  <2>2. ASSUME NEW q \in Producers \ {p}
        PROVE  logging'[q] = logging[q] /\ record'[q] = record[q] /\ expected'[q] = expected[q]
    BY <1>1, <1>4
    DEF ProducerStep, LogStatic, Capture, Q!GetGeneration, PushRecord, Q!Push,
        ProducerQueueStep, Q!ProducerStep, Q!PushWake, Q!PushNotify, queueVars
  <2>3. OnItsWay(p)'
    <3>1. OnItsWay(p)
      BY DEF WayInv
    <3>2. CASE LogStatic(p)
      <4>1. /\ pc' = pc /\ pc[p] = "idle"
            /\ \/ logging'[p] = "captured" /\ expected'[p] = generation
               \/ logging'[p] = "idle"
        BY <1>1, <3>2
        DEF LogStatic, Capture, Q!GetGeneration, queueVars, LoggerInv, OnceInv, Current
      <4> QED
        BY <2>1, <4>1 DEF OnItsWay, Q!NotFullStates
    <3>3. CASE PushRecord(p)
      BY <1>1, <2>1, <3>1, <3>3 DEF PushRecord, Q!Push, OnItsWay
    <3>4. CASE ProducerQueueStep(p)
      BY <1>1, <2>1, <3>1, <3>4
      DEF ProducerQueueStep, Q!ProducerStep, Q!PushWake, Q!PushNotify, Q!NotifyOne,
          Q!OnNotEmpty, Q!TypeOK, Q!NotFullStates, OnItsWay
    <3> QED
      BY <1>4, <3>2, <3>3, <3>4 DEF ProducerStep
  <2> QED
    BY <2>1, <2>2, <2>3, OthersLeave DEF WayInv
<1>5. ASSUME WorkerStep \/ WorkerTimeout \/ Tick PROVE WayInv'
  <2>1. Worker \in Q!Threads /\ Worker \notin Producers
    BY LoggerAssumption DEF Q!Threads
  <2>2. OthersOnlyWake(Worker) /\ UNCHANGED <<generation, logging, record, expected>>
    BY <1>1, <1>5, <2>1, StepWakes, WorkerFrame DEF producerVars
  <2> QED
    BY <1>2, <2>1, <2>2
<1>6. ASSUME \/ Stop(Control) \/ ControlStep(Control)
             \/ \E cf \in Configs : InitCall(Control, cf)
      PROVE  WayInv'
  <2>1. Control \in Q!Threads /\ Control \notin Producers
    BY <1>1, LoggerAssumption DEF Q!Threads
  <2>2. OthersOnlyWake(Control) /\ UNCHANGED <<logging, record, expected>>
    BY <1>1, <1>6, <2>1, StepWakes, ControlFrame
  <2>3. CASE InitReset(Control)
    <3>1. main \notin Using
      BY <2>3 DEF InitReset, StageInv
    <3>2. \A p \in Producers : Idle(p) /\ p \in Q!Threads \ {Control}
      BY <2>1, <3>1, BusyUses DEF Q!Threads
    <3> QED
      BY <2>2, <3>2 DEF Idle, OthersOnlyWake, WayInv, OnItsWay, Q!NotFullStates
  <2>4. CASE ~InitReset(Control)
    <3>1. generation' = generation
      BY <1>6, <2>4
      DEF Stop, InitCall, ControlStep, InitJoin, InitConfigure, InitSpawn, InitAbort,
          InitAborted, StopClose, StopJoin, queueVars, Q!Close
    <3> QED
      BY <1>2, <2>1, <2>2, <3>1
  <2> QED
    BY <2>3, <2>4
<1>7. ASSUME NEW t \in Q!Threads, CloseNotify(t) \/ SpuriousWake(t) PROVE WayInv'
  <2>1. /\ OthersOnlyWake(t) /\ UNCHANGED <<generation, logging, record, expected>>
        /\ pc'[t] \in Q!NotFullStates => pc[t] \in Q!NotFullStates
    BY <1>1, <1>7, StepWakes
    DEF CloseNotify, SpuriousWake, OnlyQueue, producerVars, Q!CloseNotify, Q!SpuriousWake,
        Q!members, Q!NotifyAll, Q!NotFullStates, Q!TypeOK
  <2> QED
    BY <2>1, OthersLeave DEF WayInv, OnItsWay
<1>8. CASE MainLogs
  <2>1. Statement[main].level \in Nat /\ Statement[main].level >= 1
    BY <1>8 DEF MainLogs, Statement
  <2> QED
    BY <1>1, <1>8, <2>1, CallLeaves DEF MainLogs
<1>9. ASSUME NEW t \in Threads, ThreadStep(t) PROVE WayInv'
  BY <1>1, <1>3, <1>9, CallLeaves DEF ThreadStep
<1>10. CASE MainStep
  BY <1>3, <1>6, <1>8, <1>10
  DEF MainStep, CallInit, InitReturned, Spawn, JoinWorkers, CallStop, StopReturned
<1>11. CASE LoggerStep
  BY <1>1, <1>4, <1>5, <1>6, <1>7, <1>11 DEF LoggerStep
<1> QED
  BY <1>3, <1>9, <1>10, <1>11 DEF ExampleNext, exampleVars

(* Every call's record has been accepted, or the call is under way; and    *)
(* the sinks, the worker and the queue have all that was accepted.         *)
Taken(p, n) ==
  \E a \in 1..Len(accepted) : accepted[a].value.by = p /\ accepted[a].value.number = n

CountInv ==
  fault = "none" =>
    \A p \in Producers : \A n \in 1..calls[p] : Taken(p, n) \/ (n = calls[p] /\ Busy(p))

KeptInv == fault = "none" => \A i \in DOMAIN written : Kept(i) = accepted

(* Nothing gets lost on the way to the sinks.                              *)
LEMMA NextKept ==
  ASSUME TypeInv, PlaceInv, AsleepInv, BlockInv, BlockInv', KeptInv, [Next]_vars
  PROVE  KeptInv' /\ AsleepInv'
<1>1. Flows /\ AsleepInv'
  BY NextFlows
<1>2. Dropped = 0 /\ Dropped' = 0
  BY DEF BlockInv, Dropped
<1> QED
  BY <1>1, <1>2 DEF Flows, HandsOn, Admits, Replaces, Loses, StartsAfresh, KeptInv

(* Steps that begin no call and end none                                   *)
LEMMA CountStays ==
  ASSUME CountInv, accepted' = accepted, calls' = calls,
         \A p \in Producers : Busy(p) => Busy(p)',
         fault' = "none" => fault = "none"
  PROVE  CountInv'
BY DEF CountInv, Taken

(* Another thread leaves a producer in its call.                           *)
LEMMA OthersLeaveBusy ==
  ASSUME NEW t \in Q!Threads, OthersOnlyWake(t), NEW q \in Producers \ {t},
         logging'[q] = logging[q], Busy(q)
  PROVE  Busy(q)'
<1>1. q \in Q!Threads \ {t}
  BY DEF Q!Threads
<1> QED
  BY <1>1 DEF Busy, OthersOnlyWake, Q!NotFullStates

(* A call that begins between init() and stop() is admitted.               *)
LEMMA CallCounts ==
  ASSUME TypeInv, StageInv, CountInv, NEW p \in Producers, NEW level \in Nat, level >= 1,
         main \in Using, ShouldLog(p, level)
  PROVE  CountInv'
<1>1. /\ calls \in [Producers -> Nat] /\ minLevel \in Nat
      /\ logging \in [Producers -> {"idle", "admitted", "captured"}]
  BY LoggerAssumption DEF TypeInv, TypeOK
<1>2. /\ calls' = [calls EXCEPT ![p] = @ + 1] /\ UNCHANGED <<pc, accepted, fault>>
      /\ logging[p] = "idle" /\ pc[p] = "idle"
      /\ \/ Passes(level) /\ logging' = [logging EXCEPT ![p] = "admitted"]
         \/ ~Passes(level) /\ logging' = logging
  BY DEF ShouldLog, queueVars, OnlyProducer, sinkVars
<1>3. ASSUME fault = "none" PROVE Passes(level)
  BY <1>1, <1>3 DEF StageInv, Started, Using, Passes
<1>4. ASSUME fault' = "none", NEW q \in Producers, NEW n \in 1..calls'[q]
      PROVE  Taken(q, n)' \/ (n = calls'[q] /\ Busy(q)')
  <2>1. CASE q = p
    <3>1. Busy(p)'
      BY <1>1, <1>2, <1>3, <1>4 DEF Busy
    <3>2. CASE n \in 1..calls[p]
      BY <1>2, <1>4, <2>1, <3>2 DEF CountInv, Busy, Taken, Q!NotFullStates
    <3>3. CASE n = calls'[p]
      BY <2>1, <3>1, <3>3
    <3> QED
      BY <1>1, <1>2, <1>4, <2>1, <3>2, <3>3
  <2>2. CASE q # p
    <3>1. calls'[q] = calls[q] /\ logging'[q] = logging[q]
      BY <1>1, <1>2, <2>2
    <3> QED
      BY <1>2, <1>4, <3>1 DEF CountInv, Busy, Taken
  <2> QED
    BY <2>1, <2>2
<1> QED
  BY <1>4 DEF CountInv

(* A push() waits for room or is accepted.                                 *)
LEMMA PushCounts ==
  ASSUME LoggerInv, StageInv, BlockInv, WayInv, CountInv, NEW p \in Producers, main \in Using,
         PushRecord(p) \/ (ProducerQueueStep(p) /\ Q!PushWake(p))
  PROVE  CountInv'
<1>1. /\ TypeInv /\ Q!TypeOK /\ p \in Q!Threads /\ accepted \in Seq(Q!Entry)
      /\ logging \in [Producers -> {"idle", "admitted", "captured"}]
      /\ calls \in [Producers -> Nat]
  BY LoggerAssumption DEF LoggerInv, TypeInv, TypeOK, Q!Threads
<1>2. OthersOnlyWake(p) /\ UNCHANGED <<calls, fault>>
  BY <1>1, StepWakes DEF ProducerStep, PushRecord, ProducerQueueStep, OnlyProducer, sinkVars
<1>3. \A q \in Producers \ {p} : logging'[q] = logging[q]
  BY <1>1 DEF PushRecord, ProducerQueueStep
<1>4. PICK v \in LogRecord : PushesOwn(p, v)
  BY <1>1, ProducerPushes DEF LoggerInv
<1>5. expected[p] = generation
  BY DEF WayInv, OnItsWay, PushRecord, ProducerQueueStep, Q!PushWake, Q!NotFullStates
<1>6. ASSUME fault = "none" PROVE ~closed
  <2>1. running
    BY <1>6 DEF StageInv, Started, Using
  <2> QED
    BY <2>1 DEF LoggerInv, PlaceInv, WorkerPlaces
<1>7. ASSUME fault = "none" PROVE pc'[p] \in {"notFullWait", "notifyEmpty"}
  <2>1. ~Q!Rejected(expected[p])
    BY <1>5, <1>6, <1>7 DEF Q!Rejected
  <2> QED
    BY <1>1, <1>4, <2>1
    DEF PushesOwn, Q!PushLocked, Q!AwaitRoom, Q!Enqueue, Q!Finish, BlockInv, Q!TypeOK
<1>8. ASSUME NEW q \in Producers, NEW n, Taken(q, n) PROVE Taken(q, n)'
  BY <1>1, <1>4, <1>8 DEF PushesOwn, Taken
<1>9. ASSUME fault' = "none", NEW q \in Producers, NEW n \in 1..calls'[q]
      PROVE  Taken(q, n)' \/ (n = calls'[q] /\ Busy(q)')
  <2>1. Taken(q, n) \/ (n = calls[q] /\ Busy(q))
    BY <1>2, <1>9 DEF CountInv
  <2>2. CASE q # p
    BY <1>1, <1>2, <1>3, <1>8, <2>1, <2>2, OthersLeaveBusy
  <2>3. CASE q = p /\ pc'[p] = "notFullWait"
    BY <1>2, <1>8, <2>1, <2>3 DEF Busy, Q!NotFullStates
  <2>4. CASE q = p /\ pc'[p] = "notifyEmpty"
    <3>1. Taken(p, calls[p])'
      BY <1>1, <1>2, <1>4, <2>4 DEF PushesOwn, Taken
    <3> QED
      BY <1>2, <1>8, <2>1, <2>4, <3>1
  <2> QED
    BY <1>2, <1>7, <1>9, <2>2, <2>3, <2>4
<1> QED
  BY <1>9 DEF CountInv

(* The first half of logImpl() admits what is on its way.                  *)
LEMMA LogStaticCounts ==
  ASSUME LoggerInv, StageInv, WayInv, CountInv, NEW p \in Producers, main \in Using,
         LogStatic(p)
  PROVE  CountInv'
<1>1. /\ TypeInv /\ minLevel \in Nat /\ record[p] \in LogRecord /\ Levels \subseteq Nat
      /\ logging \in [Producers -> {"idle", "admitted", "captured"}]
  BY LoggerAssumption DEF LoggerInv, TypeInv, TypeOK
<1>2. record[p].level \in Nat /\ record[p].level >= 1
  BY <1>1 DEF LogRecord, WayInv, OnItsWay, LogStatic
<1>3. fault = "none" => Passes(record[p].level)
  BY <1>1, <1>2 DEF StageInv, Started, Using, Passes
<1>4. /\ UNCHANGED <<pc, calls, accepted, fault>>
      /\ \A q \in Producers \ {p} : logging'[q] = logging[q]
      /\ fault = "none" => logging'[p] = "captured"
  BY <1>1, <1>3 DEF LogStatic, Capture, Q!GetGeneration, OnlyProducer, sinkVars, queueVars
<1> QED
  BY <1>4 DEF CountInv, Taken, Busy

(* The records of all calls are accepted before the calls return.          *)
LEMMA NextCount ==
  ASSUME LoggerInv, ProgramInv, StageInv, BlockInv, WayInv, CountInv,
         [ExampleNext]_exampleVars
  PROVE  CountInv'
<1>1. /\ TypeInv /\ Q!TypeOK /\ Controllers = {Control} /\ Main \in Producers
      /\ Threads \subseteq Producers
  BY ControlAlone DEF LoggerInv, TypeInv, TypeOK, Threads
<1>2. ASSUME NEW t \in Q!Threads, t \notin Producers, OthersOnlyWake(t),
             UNCHANGED <<accepted, calls, logging>>, fault' = "none" => fault = "none"
      PROVE  CountInv'
  BY <1>2, OthersLeaveBusy, CountStays
<1>3. CASE UNCHANGED vars
  BY <1>3, CountStays DEF vars, queueVars, producerVars, sinkVars, Busy
<1>4. ASSUME NEW p \in Producers, ProducerStep(p) PROVE CountInv'
  <2>1. p \in Q!Threads /\ OthersOnlyWake(p)
    BY <1>1, <1>4, StepWakes DEF Q!Threads
  <2>2. main \in Using
    BY <1>4, BusyUses
    DEF ProducerStep, LogStatic, PushRecord, ProducerQueueStep, Q!ProducerStep,
        Q!PushWake, Q!PushNotify, Idle
  <2>3. CASE ProducerQueueStep(p) /\ Q!PushNotify(p)
    <3>1. /\ UNCHANGED <<accepted, calls, logging, fault>> /\ pc[p] = "notifyEmpty"
      BY <2>3 DEF ProducerQueueStep, Q!PushNotify, OnlyProducer, sinkVars
    <3>2. \A q \in Producers : Busy(q) => Busy(q)'
      BY <2>1, <3>1, OthersLeaveBusy DEF Busy, Q!NotFullStates
    <3> QED
      BY <3>1, <3>2, CountStays
  <2> QED
    BY <1>4, <2>2, <2>3, LogStaticCounts, PushCounts
    DEF ProducerStep, ProducerQueueStep, Q!ProducerStep
<1>5. ASSUME WorkerStep \/ WorkerTimeout \/ Tick PROVE CountInv'
  <2>1. Worker \in Q!Threads /\ Worker \notin Producers
    BY LoggerAssumption DEF Q!Threads
  <2>2. OthersOnlyWake(Worker) /\ UNCHANGED <<accepted, calls, logging>>
    BY <1>1, <1>5, <2>1, StepWakes, WorkerFrame DEF producerVars
  <2>3. fault' = "none" => fault = "none"
    BY <1>5
    DEF WorkerStep, WorkerStart, GoOn, WorkerPop, WorkerQueueStep, OnlyQueue, sinkVars,
        WriteBatch, FlushAfterBatch, FlushSinks, NoBatch, CheckClosed, WorkerFails,
        WorkerCloses, FinalFlush, WorkerTimeout, Tick
  <2> QED
    BY <1>2, <2>1, <2>2, <2>3
<1>6. ASSUME \/ Stop(Control) \/ ControlStep(Control)
             \/ \E cf \in Configs : InitCall(Control, cf)
      PROVE  CountInv'
  <2>1. Control \in Q!Threads /\ Control \notin Producers
    BY <1>1, LoggerAssumption DEF Q!Threads
  <2>2. OthersOnlyWake(Control) /\ UNCHANGED <<logging, calls>>
    BY <1>1, <1>6, <2>1, StepWakes, ControlFrame
  <2>3. CASE InitReset(Control)
    <3>1. main = "initialized"
      BY <2>3 DEF InitReset, StageInv, CallsAt, Using
    <3>2. \A p \in Producers : calls[p] = 0
      BY <3>1 DEF ProgramInv, MainPhase, ThreadPhase, CallsAt, BeforeThreads, Threads
    <3> QED
      BY <2>2, <3>2 DEF CountInv
  <2>4. CASE ~InitReset(Control)
    <3>1. UNCHANGED <<accepted, fault>>
      BY <1>6, <2>4
      DEF Stop, InitCall, ControlStep, InitJoin, InitConfigure, InitSpawn, InitAbort,
          InitAborted, StopClose, StopJoin, producerVars, sinkVars
    <3> QED
      BY <1>2, <2>1, <2>2, <3>1
  <2> QED
    BY <2>3, <2>4
<1>7. ASSUME NEW t \in Q!Threads, CloseNotify(t) \/ SpuriousWake(t) PROVE CountInv'
  <2>1. /\ OthersOnlyWake(t) /\ UNCHANGED <<accepted, calls, logging, fault>>
        /\ pc[t] \in Q!NotFullStates => pc'[t] \in Q!NotFullStates
    BY <1>1, <1>7, StepWakes
    DEF CloseNotify, SpuriousWake, OnlyQueue, producerVars, sinkVars, Q!CloseNotify,
        Q!SpuriousWake, Q!members, Q!NotFullStates, Q!TypeOK
  <2>2. \A q \in Producers : Busy(q) => Busy(q)'
    BY <2>1, OthersLeaveBusy DEF Busy
  <2> QED
    BY <2>1, <2>2, CountStays
<1>8. CASE MainLogs
  <2>1. /\ Statement[main].level \in Nat /\ Statement[main].level >= 1 /\ main \in Using
        /\ ShouldLog(Main, Statement[main].level)
    BY <1>8 DEF MainLogs, Statement, Using
  <2> QED
    BY <1>1, <2>1, CallCounts
<1>9. ASSUME NEW t \in Threads, ThreadStep(t) PROVE CountInv'
  <2>1. main \in Using
    BY <1>9 DEF ThreadStep, ProgramInv, MainPhase, ThreadPhase, CallsAt, BeforeThreads,
                AfterThreads, Using
  <2> QED
    BY <1>1, <1>3, <1>9, <2>1, CallCounts DEF ThreadStep
<1>10. CASE MainStep
  BY <1>3, <1>6, <1>8, <1>10
  DEF MainStep, CallInit, InitReturned, Spawn, JoinWorkers, CallStop, StopReturned
<1>11. CASE LoggerStep
  BY <1>1, <1>4, <1>5, <1>6, <1>7, <1>11 DEF LoggerStep
<1> QED
  BY <1>3, <1>9, <1>10, <1>11 DEF ExampleNext, exampleVars

(* The calls that main() and its threads have made when the program ends   *)
Workers == {t \in Threads : thread[t] # "none"}
Made == ({Main} \X (1..calls[Main])) \cup (Workers \X (1..Messages))

(* They are so many.                                                       *)
LEMMA MadeCount ==
  ASSUME TypeInv
  PROVE  /\ IsFiniteSet(Made)
         /\ Cardinality(Made) = calls[Main] + Messages * Cardinality(Workers)
<1> DEFINE A == {Main} \X (1..calls[Main])
<1> DEFINE B == Workers \X (1..Messages)
<1>1. calls[Main] \in Nat /\ Messages \in Nat
  BY ControlAlone, ExampleAssumption, LoggerAssumption DEF TypeInv, TypeOK
<1>2. IsFiniteSet(Workers) /\ Cardinality(Workers) \in Nat
  <2>1. Workers \subseteq Producers \cup Controllers
    BY DEF Workers, Threads
  <2> QED
    BY <2>1, LoggerAssumption, FS_Subset, FS_CardinalityType
<1>3. /\ IsFiniteSet(1..calls[Main]) /\ Cardinality(1..calls[Main]) = calls[Main]
      /\ IsFiniteSet(1..Messages) /\ Cardinality(1..Messages) = Messages
  BY <1>1, FS_Interval
<1>4. IsFiniteSet({Main}) /\ Cardinality({Main}) = 1
  BY FS_Singleton
<1>5. IsFiniteSet(A) /\ Cardinality(A) = calls[Main]
  <2>1. /\ IsFiniteSet({Main} \X (1..calls[Main]))
        /\ Cardinality({Main} \X (1..calls[Main])) =
             Cardinality({Main}) * Cardinality(1..calls[Main])
    BY <1>3, <1>4, FS_Product
  <2> QED
    BY <1>1, <1>3, <1>4, <2>1
<1>6. IsFiniteSet(B) /\ Cardinality(B) = Cardinality(Workers) * Messages
  BY <1>2, <1>3, FS_Product
<1>7. A \cap B = {}
  BY DEF Workers, Threads
<1> HIDE DEF A, B
<1>8. IsFiniteSet(A \cup B) /\ Cardinality(A \cup B) = Cardinality(A) + Cardinality(B)
  <2>1. Cardinality(A \cap B) = 0
    BY <1>7, FS_EmptySet
  <2>2. Cardinality(A) \in Nat /\ Cardinality(B) \in Nat
    BY <1>5, <1>6, FS_CardinalityType
  <2>3. IsFiniteSet(A) /\ IsFiniteSet(B)
    BY <1>5, <1>6
  <2>4. /\ IsFiniteSet(A \cup B)
        /\ Cardinality(A \cup B) = Cardinality(A) + Cardinality(B) - Cardinality(A \cap B)
    BY <2>3, FS_Union
  <2> QED
    BY <2>1, <2>2, <2>4
<1>9. Cardinality(Workers) * Messages = Messages * Cardinality(Workers)
  BY <1>1, <1>2
<1> QED
  BY <1>5, <1>6, <1>8, <1>9 DEF A, B, Made

(* When the program ends without a fault, the accepted records are those   *)
(* of its calls, one each.                                                 *)
LEMMA EndCount ==
  ASSUME LoggerInv, ProgramInv, OrderInv, CountInv, fault = "none", main = "ended"
  PROVE  Len(accepted) = calls[Main] + Messages * Cardinality(Workers)
<1>1. /\ accepted \in Seq(Q!Entry) /\ Main \in Producers /\ Messages \in Nat
      /\ calls \in [Producers -> Nat]
  BY ControlAlone, ExampleAssumption, LoggerAssumption DEF LoggerInv, TypeInv, TypeOK
<1>2. ASSUME NEW a \in 1..Len(accepted)
      PROVE  /\ accepted[a].value.by \in Producers
             /\ accepted[a].value.number \in Nat \ {0}
             /\ accepted[a].value.number <= calls[accepted[a].value.by]
  <2>1. accepted[a] \in Q!Entry
    BY <1>1
  <2>2. accepted[a].value \in LogRecord
    BY <2>1 DEF Q!Entry
  <2>3. accepted[a].value.by \in Producers /\ accepted[a].value.number \in Nat \ {0}
    BY <2>2, LoggerAssumption DEF LogRecord
  <2> QED
    BY <2>3 DEF LoggerInv, OnceInv, Earlier
<1>3. \A t \in Threads :
        calls[t] = IF t \in Workers THEN Messages ELSE 0
  BY DEF ProgramInv, ThreadPhase, AfterThreads, Workers
<1>4. \A p \in Producers : ~Busy(p)
  <2>1. \A p \in Producers : Idle(p)
    BY BusyUses DEF Using
  <2> QED
    BY <2>1 DEF Idle, Busy, Q!NotFullStates
<1> DEFINE f == [a \in 1..Len(accepted) |-> <<accepted[a].value.by, accepted[a].value.number>>]
<1>5. f \in [1..Len(accepted) -> Made]
  <2>1. ASSUME NEW a \in 1..Len(accepted) PROVE f[a] \in Made
    <3>1. accepted[a].value.by = Main => accepted[a].value.number \in 1..calls[Main]
      BY <1>1, <1>2
    <3>2. accepted[a].value.by # Main =>
            accepted[a].value.by \in Workers /\ accepted[a].value.number \in 1..Messages
      BY <1>1, <1>2, <1>3 DEF Threads
    <3> QED
      BY <3>1, <3>2 DEF Made
  <2> QED
    BY <2>1
<1>6. \A a, b \in 1..Len(accepted) : f[a] = f[b] => a = b
  <2>1. ASSUME NEW a \in 1..Len(accepted), NEW b \in 1..Len(accepted), a < b
        PROVE  f[a] # f[b]
    BY <1>2, <2>1 DEF OrderInv, InProgramOrder
  <2> QED
    BY <1>1, <2>1
<1>7. ASSUME NEW m \in Made PROVE \E a \in 1..Len(accepted) : f[a] = m
  <2>1. PICK p \in Producers, n \in Nat : n \in 1..calls[p] /\ m = <<p, n>>
    BY <1>1, <1>3, <1>7 DEF Made, Workers, Threads
  <2> QED
    BY <1>4, <2>1 DEF CountInv, Taken
<1>8. IsFiniteSet(1..Len(accepted)) /\ Cardinality(1..Len(accepted)) = Len(accepted)
  <2>1. Len(accepted) \in Nat
    BY <1>1
  <2> QED
    BY <2>1, FS_Interval
<1> HIDE DEF f
<1>9. ExistsBijection(1..Len(accepted), Made)
  <2>1. f \in Bijection(1..Len(accepted), Made)
    BY <1>5, <1>6, <1>7, Fun_IsBij
  <2> QED
    BY <2>1 DEF ExistsBijection
<1>10. Cardinality(Made) = Len(accepted)
  BY <1>8, <1>9, FS_Bijection
<1> QED
  BY <1>10, MadeCount DEF LoggerInv

(* What holds of the program all along, with the settings it has           *)
EndInv ==
  /\ LoggerInv /\ ProgramInv /\ OrderInv
  /\ BlockInv /\ FaultInv /\ StageInv /\ WayInv /\ CountInv
  /\ AsleepInv /\ KeptInv

(* It holds when the program starts.                                       *)
LEMMA InitEnd == ExampleInit => EndInv
<1> SUFFICES ASSUME ExampleInit PROVE EndInv
  OBVIOUS
<1>1. Control \in Controllers /\ Main \in Producers /\ Init
  BY ControlAlone DEF ExampleInit
<1>2. LoggerInv /\ ProgramInv /\ AsleepInv
  BY <1>1, ExampleUsesLogger, InitPhase, InitDelivery
<1>3. OrderInv /\ BlockInv /\ FaultInv
  BY <1>1 DEF Init, Q!Init, OrderInv, BlockInv, FaultInv
<1>4. StageInv
  BY <1>1 DEF ExampleInit, Init, StageInv, CallsAt, Using, Started
<1>5. WayInv
  BY <1>1 DEF Init, Q!Init, WayInv, OnItsWay, Q!Threads, Q!NotFullStates
<1>6. CountInv
  BY <1>1 DEF Init, CountInv
<1>7. KeptInv
  BY <1>1 DEF Init, KeptInv
<1> QED
  BY <1>2, <1>3, <1>4, <1>5, <1>6, <1>7 DEF EndInv

(* Every step keeps it.                                                    *)
LEMMA NextEnd ==
  ASSUME ExampleSettings
  PROVE  EndInv /\ [ExampleNext]_exampleVars => EndInv'
<1> SUFFICES ASSUME EndInv, [ExampleNext]_exampleVars PROVE EndInv'
  OBVIOUS
<1> USE DEF EndInv
<1>1. [Next]_vars /\ TypeInv /\ PlaceInv
  BY ExampleSteps DEF LoggerInv
<1>2. LoggerInv' /\ ProgramInv' /\ OrderInv'
  BY <1>1, ExampleUsesLogger, NextPhase, NextOrder
<1>3. BlockInv' /\ FaultInv'
  BY <1>1, NextBlock, NextFault
<1>4. StageInv' /\ WayInv' /\ CountInv'
  BY NextStage, NextWay, NextCount
<1>5. KeptInv' /\ AsleepInv'
  BY <1>1, <1>3, NextKept
<1> QED
  BY <1>2, <1>3, <1>4, <1>5

(* Under Block every call's record is accepted and none dropped; what the  *)
(* sink lacks at the end is what is left in the queue.                     *)
THEOREM CompleteCorrect ==
  ASSUME ExampleSettings
  PROVE  ExampleSpec => []EndsComplete
<1>1. EndInv => EndsComplete
  <2> SUFFICES ASSUME EndInv, main = "ended", returned[Control] = "none", fault = "none"
               PROVE  /\ droppedCount = 0 /\ ~sinksOpen
                      /\ Len(accepted) =
                           calls[Main]
                             + Messages * Cardinality({t \in Threads : thread[t] # "none"})
                      /\ \A s \in DOMAIN written : written[s] \o queue = accepted
    BY DEF EndsComplete
  <2> USE DEF EndInv
  <2>1. droppedCount = 0
    BY DEF BlockInv
  <2>2. ~sinksOpen /\ worker = "none"
    BY DEF StageInv, Stopped
  <2>3. Len(accepted) = calls[Main] + Messages * Cardinality(Workers)
    BY EndCount
  <2>4. ASSUME NEW s \in DOMAIN written PROVE written[s] \o queue = accepted
    <3>1. InFlight = <<>> /\ written[s] \in Seq(Q!Entry) /\ queue \in Seq(Q!Entry)
      BY <2>2, KeptType DEF InFlight, LoggerInv
    <3>2. written[s] \o InFlight = written[s]
      BY <3>1, ConcatEmptySeq
    <3> QED
      BY <3>2 DEF KeptInv, Kept
  <2> QED
    BY <2>1, <2>2, <2>3, <2>4 DEF Workers
<1>2. EndInv /\ [ExampleNext]_exampleVars => EndInv'
  BY NextEnd
<1> QED
  BY <1>1, <1>2, InitEnd, PTL DEF ExampleSpec

================================================================================
